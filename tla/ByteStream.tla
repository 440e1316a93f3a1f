----------------------------- MODULE ByteStream -----------------------------
(***************************************************************************)
(* What uart_write() promises its callers: the bytes it takes leave on the *)
(* line once each and in order, and it takes fewer than it was given only  *)
(* while Capacity bytes are waiting.                                       *)
(***************************************************************************)
EXTENDS Integers, Sequences

CONSTANTS
  Capacity,    \* the bytes that may wait before a write is cut short
  MaxCount,    \* bound on the count of one write
  Values       \* the n-th byte has the value n % Values

(* How many of count bytes a write may take when `waiting' are waiting.    *)
Taken(waiting, count) ==
  {n \in 0..count : n < count => waiting + n >= Capacity}

VARIABLES
  stream,      \* the bytes taken and not yet sent, oldest first
  accepted,    \* the last byte taken
  sent         \* the last byte sent

Init == stream = <<>> /\ accepted = 0 /\ sent = 0

Write(count) ==
  \E n \in Taken(Len(stream), count) :
    /\ stream' = stream \o [i \in 1..n |-> (accepted + i) % Values]
    /\ accepted' = (accepted + n) % Values
    /\ UNCHANGED sent

Send ==
  /\ stream # <<>>
  /\ sent' = Head(stream)
  /\ stream' = Tail(stream)
  /\ UNCHANGED accepted

Next == Send \/ \E count \in 1..MaxCount : Write(count)

Spec == Init /\ [][Next]_<<stream, accepted, sent>>
=============================================================================
