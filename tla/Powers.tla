------------------------------- MODULE Powers -------------------------------
(***************************************************************************)
(* Powers, for widths of machine integers and the places of numerals: what *)
(* `^' is in the standard modules, as a recursive function that the proofs *)
(* can reason about.                                                       *)
(***************************************************************************)
EXTENDS Naturals

Power(base, k) ==
  LET power[j \in Nat] == IF j = 0 THEN 1 ELSE base * power[j-1]
  IN  power[k]
=============================================================================
