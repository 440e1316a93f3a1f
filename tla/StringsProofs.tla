---------------------------- MODULE StringsProofs ----------------------------
(***************************************************************************)
(* Proofs about Strings.tla, for memories and strings of every size: no    *)
(* function of lib/string.c leaves the string or region it was given, and  *)
(* each returns and leaves behind what it should.                          *)
(*                                                                         *)
(* The invariant says of each loop what it has done so far in terms of the *)
(* call; memmove() comes first, for its two directions, and strtol() last, *)
(* with the number it has read so far.                                     *)
(***************************************************************************)
EXTENDS Strings, WellFoundedInduction, TLAPS

D == call.d
S == call.s
N == call.n

Moving == call.f \in {"memmove", "memcpy"}

(* Cells from .. to-1 of the destination copied, the rest as it was.       *)
CopiedBetween(from, to) ==
  [i \in Cell |-> IF i \in from .. to-1 THEN call.mem[S + (i - D)] ELSE call.mem[i]]

CallOK ==
  /\ MemSize \in Nat /\ call.mem \in [Cell -> Char \cup NumChar]
  /\ D \in Nat /\ S \in Nat /\ N \in Nat
  /\ D + N <= MemSize /\ S + N <= MemSize

NotBegun == d = D /\ s = S /\ n = N /\ mem = call.mem

GoingUp ==
  /\ n \in 0..N /\ d = D + (N - n) /\ s = S + (N - n)
  /\ D <= S \/ S + N <= D
  /\ mem = CopiedBetween(D, d)

GoingDown ==
  /\ n \in 0..N /\ d = D + n /\ s = S + n
  /\ S < D
  /\ mem = CopiedBetween(d, D + N)

MoveInv ==
  Moving =>
    /\ CallOK
    /\ \/ at \in {"memmove", "memcpy"} /\ NotBegun
       \/ at = "up" /\ GoingUp
       \/ at = "down" /\ GoingDown
       \/ at = "done" /\ mem = CopiedBetween(D, D + N)

(* Nothing is copied when a call begins.                                   *)
LEMMA InitMoveInv == ASSUME StringsAssumption, Init PROVE MoveInv
<1> SUFFICES ASSUME Moving PROVE MoveInv
  BY DEF MoveInv
<1>1. MemSize \in Nat \ {0} /\ Cell = 0 .. MemSize-1
  BY DEF StringsAssumption, Cell
<1>2. CASE \E m \in [Cell -> NumChar], base \in Bases :
             IsString(m, 0) /\ Called("strtol", m, 0, 0, base, NUL)
  <2>1. call.f = "strtol"
    BY <1>2 DEF Called
  <2> QED BY <2>1 DEF Moving
<1>3. CASE \E m \in [Cell -> Char], p, q \in Cell, k \in 0..MemSize, f \in Function :
             /\ Defined(f, m, p, q, k)
             /\ \E c \in IF f \in TakesChar THEN Char ELSE {NUL} : Called(f, m, p, q, k, c)
  <2>1. PICK m \in [Cell -> Char], p \in Cell, q \in Cell, k \in 0..MemSize,
             f \in Function, c \in Char \cup {NUL} :
               Defined(f, m, p, q, k) /\ Called(f, m, p, q, k, c)
    BY <1>3
  <2>2. /\ call.f = f /\ call.mem = m /\ D = p /\ S = q /\ N = k
        /\ mem = m /\ at = f /\ d = p /\ s = q /\ n = k
    BY <2>1 DEF Called, D, S, N
  <2>3. f \in {"memmove", "memcpy"}
    BY <2>2 DEF Moving
  <2>4. InMemory(p, k) /\ InMemory(q, k)
    BY <2>1, <2>3 DEF Defined
  <2>5. CallOK
    BY <1>1, <2>1, <2>2, <2>4 DEF CallOK, InMemory
  <2> QED BY <2>2, <2>3, <2>5 DEF MoveInv, NotBegun
<1> QED BY <1>2, <1>3 DEF Init

(* Every action leaves the call as it is. *)
LEMMA CallStays == ASSUME [Next]_vars PROVE call' = call
BY DEF Next, vars, strlen, strnlen, strcpy, strcat, strncpy, strlcpy, strcmp, strncmp,
  strchr, strfind, memset, memmove, CopyDown, CopyUp, memcpy, memcmp, memfind,
  strtol, SignOf, BasePrefix, Digits, Move, Store, Return, GoOnAt

(* Every step keeps the invariant.                                         *)
LEMMA StepMoveInv ==
  ASSUME MoveInv, [Next]_vars
  PROVE  MoveInv'
<1>1. call' = call
  BY CallStays
<1> SUFFICES ASSUME Moving PROVE MoveInv'
  BY <1>1 DEF MoveInv, Moving
<1>2. CallOK /\ CallOK'
  BY <1>1 DEF MoveInv, CallOK, D, S, N
<1>3. D' = D /\ S' = S /\ N' = N
  BY <1>1 DEF D, S, N
<1>4. \A from, to : CopiedBetween(from, to)' = CopiedBetween(from, to)
  BY <1>1, <1>3 DEF CopiedBetween
<1>5. Moving'
  BY <1>1 DEF Moving
<1>6. CASE memcpy
  <2>1. at = "memcpy" /\ at' = "memmove" /\ UNCHANGED <<mem, d, s, n>>
    BY <1>6 DEF memcpy, GoOnAt
  <2> QED BY <1>2, <1>3, <1>1, <2>1 DEF MoveInv, NotBegun
<1>7. CASE memmove
  <2>1. at = "memmove" /\ NotBegun /\ UNCHANGED <<mem, n>>
    BY <1>7 DEF memmove, MoveInv
  <2>2. CopiedBetween(D, D) = call.mem /\ CopiedBetween(D + N, D + N) = call.mem
    <3>1. ASSUME NEW k \in Nat PROVE CopiedBetween(k, k) = call.mem
      <4>1. \A i \in Cell : i \in Int /\ i \notin k .. k-1
        BY <1>2 DEF CallOK, Cell
      <4>2. CopiedBetween(k, k) = [i \in Cell |-> call.mem[i]]
        BY <4>1 DEF CopiedBetween
      <4> QED BY <1>2, <4>2 DEF CallOK
    <3>2. D \in Nat /\ D + N \in Nat
      BY <1>2 DEF CallOK
    <3> QED BY <3>1, <3>2
  <2>3. CASE Down
    <3>1. at' = "down" /\ d' = D + N /\ s' = S + N
      BY <1>7, <2>1, <2>3 DEF memmove, NotBegun
    <3>2. S < D
      BY <2>1, <2>3 DEF NotBegun, Down
    <3>3. GoingDown'
      BY <1>2, <1>3, <1>4, <2>1, <2>2, <3>1, <3>2 DEF GoingDown, NotBegun, CallOK
    <3> QED BY <1>2, <3>1, <3>3 DEF MoveInv
  <2>4. CASE ~Down
    <3>1. at' = "up" /\ d' = D /\ s' = S
      BY <1>7, <2>1, <2>4 DEF memmove, NotBegun
    <3>2. D <= S \/ S + N <= D
      BY <1>2, <2>1, <2>4 DEF NotBegun, Down, CallOK
    <3>3. GoingUp'
      BY <1>2, <1>3, <1>4, <2>1, <2>2, <3>1, <3>2 DEF GoingUp, NotBegun, CallOK
    <3> QED BY <1>2, <3>1, <3>3 DEF MoveInv
  <2> QED BY <2>3, <2>4
<1>8. CASE CopyUp
  <2>1. at = "up" /\ GoingUp
    BY <1>8 DEF CopyUp, MoveInv
  <2>2. CASE n > 0
    <3>1. /\ at' = at /\ d' = d + 1 /\ s' = s + 1 /\ n' = n + -1
          /\ mem' = [mem EXCEPT ![d] = mem[s]]
      BY <1>8, <2>2 DEF CopyUp, Store
    <3>2. d \in Cell /\ s \in Cell /\ s \notin D .. d-1
      BY <1>2, <2>1, <2>2 DEF GoingUp, CallOK, Cell
    <3>3. mem[s] = call.mem[S + (d - D)]
      BY <1>2, <2>1, <2>2, <3>2 DEF GoingUp, CallOK, CopiedBetween
    <3>4. mem' = CopiedBetween(D, d + 1)
      <4>1. mem = CopiedBetween(D, d) /\ D \in Nat /\ d \in Nat /\ D <= d
        BY <1>2, <2>1 DEF GoingUp, CallOK
      <4>2. \A i \in Cell : i \in Int /\ (i \in D .. (d + 1)-1 <=> i \in D .. d-1 \/ i = d)
        BY <4>1 DEF Cell
      <4>3. mem' = [i \in Cell |-> IF i = d THEN mem[s] ELSE mem[i]]
        BY <3>1, <4>1 DEF CopiedBetween
      <4>4. \A i \in Cell : mem[i] = IF i \in D .. d-1 THEN call.mem[S + (i - D)] ELSE call.mem[i]
        BY <4>1 DEF CopiedBetween
      <4>5. \A i \in Cell : (IF i = d THEN mem[s] ELSE mem[i]) =
               IF i \in D .. (d + 1)-1 THEN call.mem[S + (i - D)] ELSE call.mem[i]
        BY <3>3, <4>2, <4>4
      <4> QED BY <4>3, <4>5 DEF CopiedBetween
    <3>5. GoingUp'
      BY <1>2, <1>3, <1>4, <2>1, <2>2, <3>1, <3>4 DEF GoingUp, CallOK
    <3> QED BY <1>2, <2>1, <3>1, <3>5 DEF MoveInv
  <2>3. CASE ~(n > 0)
    <3>1. at' = "done" /\ UNCHANGED <<mem, d, s, n>>
      BY <1>8, <2>3 DEF CopyUp, Return
    <3>2. d = D + N
      BY <1>2, <2>1, <2>3 DEF GoingUp, CallOK
    <3> QED BY <1>2, <1>3, <1>4, <2>1, <3>1, <3>2 DEF MoveInv, GoingUp
  <2> QED BY <2>2, <2>3
<1>9. CASE CopyDown
  <2>1. at = "down" /\ GoingDown
    BY <1>9 DEF CopyDown, MoveInv
  <2>2. CASE n > 0
    <3>1. /\ at' = at /\ d' = d + -1 /\ s' = s + -1 /\ n' = n + -1
          /\ mem' = [mem EXCEPT ![d-1] = mem[s-1]]
      BY <1>9, <2>2 DEF CopyDown, Store
    <3>2. d-1 \in Cell /\ s-1 \in Cell /\ s-1 \notin d .. D+N-1
      BY <1>2, <2>1, <2>2 DEF GoingDown, CallOK, Cell
    <3>3. mem[s-1] = call.mem[S + ((d-1) - D)]
      BY <1>2, <2>1, <2>2, <3>2 DEF GoingDown, CallOK, CopiedBetween
    <3>4. mem' = CopiedBetween(d - 1, D + N)
      <4>1. /\ mem = CopiedBetween(d, D + N) /\ D \in Nat /\ d \in Nat /\ N \in Nat
            /\ d <= D + N
        BY <1>2, <2>1 DEF GoingDown, CallOK
      <4>2. \A i \in Cell :
              i \in Int /\ (i \in d-1 .. (D + N)-1 <=> i \in d .. (D + N)-1 \/ i = d-1)
        BY <4>1 DEF Cell
      <4>3. mem' = [i \in Cell |-> IF i = d-1 THEN mem[s-1] ELSE mem[i]]
        BY <3>1, <4>1 DEF CopiedBetween
      <4>4. \A i \in Cell :
              mem[i] = IF i \in d .. (D + N)-1 THEN call.mem[S + (i - D)] ELSE call.mem[i]
        BY <4>1 DEF CopiedBetween
      <4>5. \A i \in Cell : (IF i = d-1 THEN mem[s-1] ELSE mem[i]) =
               IF i \in d-1 .. (D + N)-1 THEN call.mem[S + (i - D)] ELSE call.mem[i]
        BY <3>3, <4>2, <4>4
      <4> QED BY <4>3, <4>5 DEF CopiedBetween
    <3>5. GoingDown'
      BY <1>2, <1>3, <1>4, <2>1, <2>2, <3>1, <3>4 DEF GoingDown, CallOK
    <3> QED BY <1>2, <2>1, <3>1, <3>5 DEF MoveInv
  <2>3. CASE ~(n > 0)
    <3>1. at' = "done" /\ UNCHANGED <<mem, d, s, n>>
      BY <1>9, <2>3 DEF CopyDown, Return
    <3>2. d = D
      BY <1>2, <2>1, <2>3 DEF GoingDown, CallOK
    <3> QED BY <1>2, <1>3, <1>4, <2>1, <3>1, <3>2 DEF MoveInv, GoingDown
  <2> QED BY <2>2, <2>3
<1>10. CASE UNCHANGED vars
  BY <1>1, <1>2, <1>3, <1>4, <1>10
    DEF vars, MoveInv, NotBegun, GoingUp, GoingDown
<1>11. at \in {"memmove", "memcpy", "up", "down", "done"}
  BY DEF MoveInv
<1> QED
  BY <1>6, <1>7, <1>8, <1>9, <1>10, <1>11
    DEF Next, strlen, strnlen, strcpy, strcat, strncpy, strlcpy, strcmp, strncmp,
      strchr, strfind, memset, memcmp, memfind, strtol, SignOf, BasePrefix, Digits
-----------------------------------------------------------------------------
(* What each loop has done so far, in terms of the call; m0 is the memory  *)
(* the function was called on.                                             *)
Kept == mem = m0
Filled(k) == [i \in Cell |-> IF i \in D .. D+k-1 THEN call.c ELSE m0[i]]
PaddedTo(k) ==
  [i \in Cell |-> IF i \in D .. D+k-1
                  THEN IF i - D < StrLen(S) THEN m0[S + (i - D)] ELSE NUL
                  ELSE m0[i]]
CopiedTo(p, k) ==
  [i \in Cell |-> IF i \in p .. p+k-1 THEN m0[S + (i - p)] ELSE m0[i]]
CopyStart == IF call.f = "strcat" THEN StrEnd(D) ELSE D

Scanning   == s \in S .. StrEnd(S)
Counting   == n \in 0..N /\ s = S + (N - n)
NotYet     == \A i \in S .. s-1 : m0[i] # call.c
SameSoFar  == d = D + (s - S) /\ \A j \in 0 .. (s - S)-1 : m0[D + j] = m0[S + j]

Parsing == {"strtol", "sign", "prefix", "digits"}
Copying == {"memmove", "memcpy", "up", "down"}

LoopInv ==
  /\ at = "strlen" => Kept /\ Scanning /\ d = D
  /\ at = "strnlen" => Kept /\ Scanning /\ Counting /\ d = D
  /\ at \in {"strchr", "strfind"} => Kept /\ Scanning /\ NotYet /\ d = D
  /\ at = "memfind" => Kept /\ Counting /\ NotYet /\ d = D
  /\ at = "strcmp" => Kept /\ Scanning /\ SameSoFar /\ d <= StrEnd(D)
  /\ at = "strncmp" => Kept /\ Scanning /\ Counting /\ SameSoFar /\ d <= StrEnd(D)
  /\ at = "memcmp" => Kept /\ Counting /\ SameSoFar
  /\ at = "strcat" => Kept /\ s = S /\ d \in D .. StrEnd(D)
  /\ at = "strcpy" =>
       Scanning /\ d = CopyStart + (s - S) /\ mem = CopiedTo(CopyStart, s - S)
  /\ at = "strlcpy" =>
       /\ Scanning /\ Counting /\ d = D + (s - S) /\ mem = CopiedTo(D, s - S)
       /\ N > 0 => n > 0
  /\ at = "strncpy" =>
       /\ n \in 0..N /\ d = D + (N - n) /\ s = S + Least(N - n, StrLen(S))
       /\ mem = PaddedTo(N - n)
  /\ at = "memset" => s = S /\ d \in D .. D+N /\ mem = Filled(d - D)
  /\ at \in Parsing => Kept /\ s \in 0 .. StrEnd(0) /\ n \in 0..99

(* What is promised of the functions but memmove(), memcpy() and the       *)
(* number of strtol(), which have invariants of their own.                 *)
Promise ==
  /\ call.f = "strlen"  => Kept /\ ret = StrLen(S)
  /\ call.f = "strnlen" => Kept /\ ret = Least(N, StrLen(S))
  /\ call.f = "strcpy"  => mem = CopiedTo(D, StrLen(S) + 1)
  /\ call.f = "strcat"  => mem = CopiedTo(StrEnd(D), StrLen(S) + 1)
  /\ call.f = "strncpy" => mem = PaddedTo(N)
  /\ call.f = "strlcpy" /\ N = 0 => Kept /\ ret = 0
  /\ call.f = "strlcpy" /\ N > 0 =>
       LET l == Least(N - 1, StrLen(S))
       IN  ret = l /\ mem = [CopiedTo(D, l) EXCEPT ![D + l] = NUL]
  /\ call.f = "strcmp"  => Kept /\ ret = Difference(Shorter)
  /\ call.f = "strncmp" => Kept /\ ret = Difference(Least(N, Shorter))
  /\ call.f = "strchr"  => Kept /\ ret = First(call.c, S, StrLen(S), NoChar)
  /\ call.f = "strfind" => Kept /\ ret = First(call.c, S, StrLen(S), StrEnd(S))
  /\ call.f = "memset"  => (N < Power(2, IntBits-1) => mem = Filled(N))
  /\ call.f = "memcmp"  => Kept /\ ret = Difference(N)
  /\ call.f = "memfind" => Kept /\ ret = First(call.c, S, N, S + N)
  /\ call.f = "strtol"  => Kept

(* Which loops a call runs through.                                        *)
Where ==
  IF call.f = "strtol" THEN at \in Parsing \cup {"done"}
  ELSE IF Moving THEN at \in Copying \cup {"done"}
  ELSE at \in {call.f, "done"} \cup (IF call.f = "strcat" THEN {"strcpy"} ELSE {})

(* A call with defined behaviour.                                          *)
CallFacts ==
  /\ m0 \in [Cell -> Char \cup NumChar] /\ D \in Cell /\ S \in Cell /\ N \in Nat
  /\ call.c \in Char
  /\ IF call.f = "strtol"
     THEN D = 0 /\ S = 0 /\ N <= 99 /\ IsString(m0, 0)
     ELSE call.f \in Function /\ N <= MemSize /\ Defined(call.f, m0, D, S, N)

StrInv ==
  /\ CallFacts /\ Where /\ LoopInv
  /\ mem \in [Cell -> Char \cup NumChar]
  /\ at = "done" => Promise
-----------------------------------------------------------------------------
(* A set of numbers has a least one.                                       *)
LEMMA MinFacts ==
  ASSUME NEW T \in SUBSET Nat, T # {}
  PROVE  Min(T) \in T /\ \A y \in T : Min(T) <= y
<1>1. PICK x \in T : \A y \in T : ~(<<y, x>> \in OpToRel(<, Nat))
  <2>1. \E x \in T : \A y \in T : ~(<<y, x>> \in OpToRel(<, Nat))
    BY WFMin, NatLessThanWellFounded
  <2> QED
    BY <2>1
<1>2. \A y \in T : x <= y
  <2> TAKE y \in T
  <2>1. x \in Nat /\ y \in Nat
    OBVIOUS
  <2>2. ~(y < x)
    BY <1>1, <2>1 DEF OpToRel
  <2> QED
    BY <2>1, <2>2
<1> QED
  BY <1>1, <1>2 DEF Min

(* Numbers, by induction: a set that has 0 and, of every number it has,    *)
(* the next one, has them all.                                             *)
LEMMA Induction ==
  ASSUME NEW T \in SUBSET Nat, 0 \in T, \A k \in T : k + 1 \in T
  PROVE  T = Nat
<1> SUFFICES ASSUME Nat \ T # {} PROVE FALSE
  OBVIOUS
<1> DEFINE x == Min(Nat \ T)
<1>1. x \in Nat \ T /\ \A y \in Nat \ T : x <= y
  BY MinFacts
<1> HIDE DEF x
<1>2. x - 1 \in T
  BY <1>1
<1> QED
  BY <1>1, <1>2

(* Recursion over Nat.                                                     *)
Follows(p, X, x0, step) ==
  p \in [Nat -> X] /\ p[0] = x0 /\ \A j \in Nat : p[j+1] = step[j+1][p[j]]

(* What `power[j]' and other definitions by recursion over Nat rest on: a  *)
(* function with a given start and step exists.                            *)
LEMMA Recursion ==
  ASSUME NEW X, NEW x0 \in X, NEW step \in [Nat -> [X -> X]]
  PROVE  \E p : Follows(p, X, x0, step)
<1> DEFINE Upto(m, p) == /\ p \in [0..m -> X] /\ p[0] = x0
                         /\ \A j \in 0 .. m-1 : p[j+1] = step[j+1][p[j]]
           P(m) == CHOOSE p : Upto(m, p)
           T == {m \in Nat : \E p : Upto(m, p)}
<1>1. 0 \in T
  <2> DEFINE p == [j \in 0..0 |-> x0]
  <2>1. p \in [0..0 -> X] /\ p[0] = x0
    OBVIOUS
  <2>2. Upto(0, p)
    BY <2>1
  <2> QED
    BY <2>2
<1>2. ASSUME NEW m \in T PROVE m + 1 \in T
  <2>1. PICK p : Upto(m, p)
    OBVIOUS
  <2> DEFINE q == [j \in 0 .. m+1 |-> IF j = m+1 THEN step[m+1][p[m]] ELSE p[j]]
  <2>2. q \in [0 .. m+1 -> X]
    BY <2>1
  <2>3. q[0] = x0 /\ \A j \in 0..m : q[j] = p[j]
    BY <2>1
  <2>4. q[m+1] = step[m+1][q[m]]
    OBVIOUS
  <2>5. \A j \in 0..m : q[j+1] = step[j+1][q[j]]
    <3> TAKE j \in 0..m
    <3>1. CASE j = m
      BY <2>4, <3>1
    <3>2. CASE j # m
      <4>1. j \in 0 .. m-1 /\ j + 1 \in 0..m
        BY <3>2
      <4>2. q[j] = p[j] /\ q[j+1] = p[j+1]
        BY <2>3, <4>1
      <4>3. p[j+1] = step[j+1][p[j]]
        BY <2>1, <4>1
      <4> QED
        BY <4>2, <4>3
    <3> QED
      BY <3>1, <3>2
  <2>6. Upto(m+1, q)
    <3> HIDE DEF q
    <3> QED
      BY <2>2, <2>3, <2>5
  <2> HIDE DEF Upto
  <2> QED
    BY <2>6
<1>3. T = Nat
  <2> HIDE DEF T
  <2> QED
    BY <1>1, <1>2, Induction DEF T
<1>4. \A m \in Nat : Upto(m, P(m))
  <2> TAKE m \in Nat
  <2>1. \E p : Upto(m, p)
    BY <1>3
  <2> HIDE DEF Upto
  <2> QED
    BY <2>1
<1> HIDE DEF P
<1> DEFINE p == [m \in Nat |-> P(m)[m]]
<1>5. ASSUME NEW m \in Nat PROVE P(m+1)[m] = P(m)[m]
  <2>1. Upto(m, P(m)) /\ Upto(m+1, P(m+1))
    BY <1>4
  <2> DEFINE W == {k \in Nat : k <= m => P(m+1)[k] = P(m)[k]}
  <2>2. 0 \in W
    BY <2>1
  <2>3. ASSUME NEW k \in W PROVE k + 1 \in W
    <3>1. CASE k + 1 <= m
      <4>1. k \in 0 .. m-1 /\ k \in 0 .. (m+1)-1 /\ P(m+1)[k] = P(m)[k]
        BY <3>1
      <4>2. P(m)[k+1] = step[k+1][P(m)[k]]
        BY <2>1, <4>1
      <4>3. P(m+1)[k+1] = step[k+1][P(m+1)[k]]
        BY <2>1, <4>1
      <4> QED
        BY <4>1, <4>2, <4>3
    <3> QED
      BY <3>1
  <2>4. W = Nat
    <3> HIDE DEF W
    <3> QED
      BY <2>2, <2>3, Induction DEF W
  <2> QED
    BY <2>4
<1>6. \A m \in Nat : P(m)[m] \in X
  BY <1>4
<1>7. P(0)[0] = x0 /\ \A m \in Nat : P(m+1)[m+1] = step[m+1][P(m+1)[m]]
  BY <1>4
<1>8. p \in [Nat -> X] /\ p[0] = x0
  BY <1>6, <1>7
<1>9. \A m \in Nat : p[m+1] = step[m+1][p[m]]
  BY <1>5, <1>7
<1>10. Follows(p, X, x0, step)
  <2> HIDE DEF p
  <2> QED
    BY <1>8, <1>9 DEF Follows
<1> QED
  BY <1>10

(* Powers.                                                                 *)
LEMMA Powers ==
  ASSUME NEW base \in Nat \ {0}
  PROVE  /\ Power(base, 0) = 1
         /\ \A k \in Nat : Power(base, k) \in Nat \ {0}
         /\ \A k \in Nat : Power(base, k+1) = base * Power(base, k)
<1> DEFINE Rec(p) == p = [j \in Nat |-> IF j = 0 THEN 1 ELSE base * p[j-1]]
           power == CHOOSE p : Rec(p)
           step == [j \in Nat |-> [v \in Nat |-> base * v]]
<1>1. \E p : Rec(p)
  <2>1. step \in [Nat -> [Nat -> Nat]]
    OBVIOUS
  <2>2. PICK p : Follows(p, Nat, 1, step)
    <3>1. 1 \in Nat
      OBVIOUS
    <3> HIDE DEF step
    <3> QED
      BY <2>1, <3>1, Recursion, Zenon
  <2>3. \A j \in Nat : p[j+1] = base * p[j]
    <3> TAKE j \in Nat
    <3>1. j + 1 \in Nat /\ p[j] \in Nat
      BY <2>2 DEF Follows
    <3>2. step[j+1][p[j]] = base * p[j]
      BY <3>1
    <3>3. p[j+1] = step[j+1][p[j]]
      BY <2>2 DEF Follows
    <3> QED
      BY <3>2, <3>3
  <2>4. ASSUME NEW j \in Nat PROVE p[j] = IF j = 0 THEN 1 ELSE base * p[j-1]
    <3>1. CASE j # 0
      <4>1. j - 1 \in Nat /\ (j-1) + 1 = j
        BY <3>1
      <4>2. p[(j-1)+1] = base * p[j-1]
        BY <2>3, <4>1
      <4> QED
        BY <3>1, <4>1, <4>2
    <3> QED
      BY <2>2, <3>1 DEF Follows
  <2>5. Rec(p)
    BY <2>2, <2>4 DEF Follows
  <2> HIDE DEF Rec
  <2> QED
    BY <2>5
<1>2. Rec(power)
  <2> HIDE DEF Rec
  <2> QED
    BY <1>1
<1>3. \A k : Power(base, k) = power[k]
  BY DEF Power
<1> HIDE DEF power
<1>4. Power(base, 0) = 1
  BY <1>2, <1>3
<1>5. \A k \in Nat : Power(base, k+1) = base * Power(base, k)
  <2> TAKE k \in Nat
  <2>1. power[k+1] = base * power[(k+1)-1]
    BY <1>2
  <2> QED
    BY <1>3, <2>1
<1> DEFINE T == {k \in Nat : Power(base, k) \in Nat \ {0}}
<1>6. T = Nat
  <2>1. 0 \in T
    BY <1>4
  <2>2. ASSUME NEW k \in T PROVE k + 1 \in T
    BY <1>5
  <2> HIDE DEF T
  <2> QED
    BY <2>1, <2>2, Induction DEF T
<1> QED
  BY <1>4, <1>5, <1>6

(* Every character counts as a number, those that are no digit as 99.      *)
LEMMA DigitNumber == \A c : Digit(c) \in 0..99
BY DEF Digit

(* The place values of a numeral, from its last digit on.                  *)
LEMMA ValueFacts ==
  ASSUME NEW base \in Nat \ {0}, NEW stop \in Nat
  PROVE  /\ ValueOf(stop, base, 0) = 0
         /\ \A k \in Nat : ValueOf(stop, base, k) \in Nat
         /\ \A k \in Nat : ValueOf(stop, base, k+1)
              = ValueOf(stop, base, k) + Digit(m0[stop - (k+1)]) * Power(base, k)
<1> DEFINE Rec(p) == p = [j \in Nat |-> IF j = 0 THEN 0 ELSE
                          p[j-1] + Digit(m0[stop - j]) * Power(base, j-1)]
           value == CHOOSE p : Rec(p)
           worth == [j \in Nat |-> Digit(m0[stop - (j+1)]) * Power(base, j)]
           step == [j \in Nat |-> [v \in Nat |-> v + (IF j = 0 THEN 0 ELSE worth[j-1])]]
<1>0. worth \in [Nat -> Nat]
  <2>1. ASSUME NEW j \in Nat PROVE Digit(m0[stop - (j+1)]) * Power(base, j) \in Nat
    <3>1. Power(base, j) \in Nat
      BY Powers
    <3>2. Digit(m0[stop - (j+1)]) \in Nat
      BY DigitNumber
    <3> QED
      BY <3>1, <3>2
  <2> QED
    BY <2>1
<1>1. \E p : Rec(p)
  <2>1. step \in [Nat -> [Nat -> Nat]]
    <3> HIDE DEF worth
    <3> QED
      BY <1>0
  <2>2. PICK p : Follows(p, Nat, 0, step)
    <3>1. 0 \in Nat
      OBVIOUS
    <3> HIDE DEF step
    <3> QED
      BY <2>1, <3>1, Recursion, Zenon
  <2>3. \A j \in Nat : p[j+1] = p[j] + worth[j]
    <3> HIDE DEF worth
    <3> TAKE j \in Nat
    <3>1. j + 1 \in Nat /\ (j + 1) - 1 = j /\ j + 1 # 0 /\ p[j] \in Nat
      BY <2>2 DEF Follows
    <3>2. step[j+1][p[j]] = p[j] + worth[j]
      BY <3>1
    <3>3. p[j+1] = step[j+1][p[j]]
      BY <2>2 DEF Follows
    <3> QED
      BY <3>2, <3>3
  <2>4. ASSUME NEW j \in Nat
        PROVE  p[j] = IF j = 0 THEN 0 ELSE p[j-1] + Digit(m0[stop - j]) * Power(base, j-1)
    <3>1. CASE j # 0
      <4>1. j - 1 \in Nat /\ (j-1) + 1 = j
        BY <3>1
      <4>2. p[(j-1)+1] = p[j-1] + worth[j-1]
        BY <2>3, <4>1
      <4>3. worth[j-1] = Digit(m0[stop - j]) * Power(base, j-1)
        BY <4>1
      <4> QED
        BY <3>1, <4>1, <4>2, <4>3
    <3> QED
      BY <2>2, <3>1 DEF Follows
  <2>5. Rec(p)
    BY <2>2, <2>4 DEF Follows
  <2> HIDE DEF Rec
  <2> QED
    BY <2>5
<1>2. Rec(value)
  <2> HIDE DEF Rec
  <2> QED
    BY <1>1
<1>3. \A k : ValueOf(stop, base, k) = value[k]
  BY DEF ValueOf
<1> HIDE DEF value
<1>4. ValueOf(stop, base, 0) = 0
  BY <1>2, <1>3
<1>5. \A k \in Nat : ValueOf(stop, base, k+1)
        = ValueOf(stop, base, k) + Digit(m0[stop - (k+1)]) * Power(base, k)
  <2> TAKE k \in Nat
  <2>1. value[k+1] = value[(k+1)-1] + Digit(m0[stop - (k+1)]) * Power(base, (k+1)-1)
    BY <1>2
  <2>2. (k+1)-1 = k
    OBVIOUS
  <2> QED
    BY <1>3, <2>1, <2>2
<1> DEFINE T == {k \in Nat : ValueOf(stop, base, k) \in Nat}
<1>6. T = Nat
  <2>1. 0 \in T
    BY <1>4
  <2>2. ASSUME NEW k \in T PROVE k + 1 \in T
    <3>1. worth[k] \in Nat /\ worth[k] = Digit(m0[stop - (k+1)]) * Power(base, k)
      BY <1>0
    <3>2. ValueOf(stop, base, k+1) = ValueOf(stop, base, k) + worth[k]
      BY <1>5, <3>1
    <3> QED
      BY <3>1, <3>2
  <2> HIDE DEF T
  <2> QED
    BY <2>1, <2>2, Induction DEF T
<1> QED
  BY <1>4, <1>5, <1>6

(* One more digit behind a numeral: what the loop of strtol() adds up from *)
(* the front is what the places count from the back.                       *)
LEMMA OneMoreDigit ==
  ASSUME NEW base \in Nat \ {0}, NEW stop \in Nat, NEW k \in Nat
  PROVE  ValueOf(stop + 1, base, k + 1) = ValueOf(stop, base, k) * base + Digit(m0[stop])
<1> DEFINE v(j) == ValueOf(stop, base, j)
           w(j) == ValueOf(stop + 1, base, j)
           g(j) == Digit(m0[stop - (j+1)])
           last == Digit(m0[stop])
           T == {j \in Nat : w(j+1) = v(j) * base + last}
<1>1. stop + 1 \in Nat /\ last \in Nat /\ \A j \in Nat : g(j) \in Nat
  BY DigitNumber
<1>2. v(0) = 0 /\ \A j \in Nat : v(j) \in Nat /\ v(j+1) = v(j) + g(j) * Power(base, j)
  BY ValueFacts
<1>3. w(0) = 0 /\ \A j \in Nat : /\ w(j) \in Nat
                                 /\ w(j+1) = w(j) + Digit(m0[(stop+1) - (j+1)]) * Power(base, j)
  BY <1>1, ValueFacts
<1>4. w(1) = last /\ \A j \in Nat : w((j+1)+1) = w(j+1) + g(j) * Power(base, j+1)
  <2>1. (stop+1) - (0+1) = stop /\ Power(base, 0) = 1 /\ 0 + 1 = 1
    BY Powers
  <2>2. w(0+1) = w(0) + Digit(m0[(stop+1) - (0+1)]) * Power(base, 0)
    BY <1>3
  <2>3. w(1) = last
    <3>1. w(1) = 0 + last * 1
      BY <1>3, <2>1, <2>2
    <3> HIDE DEF last, w
    <3> QED
      BY <1>1, <3>1
  <2>4. ASSUME NEW j \in Nat PROVE w((j+1)+1) = w(j+1) + g(j) * Power(base, j+1)
    <3>1. j + 1 \in Nat /\ (stop+1) - ((j+1)+1) = stop - (j+1)
      OBVIOUS
    <3> QED
      BY <1>3, <3>1
  <2> QED
    BY <2>3, <2>4
<1> HIDE DEF v, w, g, last
<1>5. 0 \in T
  BY <1>1, <1>2, <1>4
<1>6. ASSUME NEW j \in T PROVE j + 1 \in T
  <2> DEFINE p == Power(base, j)
  <2>1. p \in Nat /\ Power(base, j+1) = base * p
    BY Powers
  <2>2. w((j+1)+1) = w(j+1) + g(j) * (base * p)
    BY <1>4, <2>1
  <2>3. v(j+1) = v(j) + g(j) * p
    BY <1>2
  <2> HIDE DEF p
  <2>4. w(j+1) = v(j) * base + last /\ v(j) \in Nat /\ g(j) \in Nat /\ last \in Nat
    BY <1>1, <1>2
  <2>5. (v(j) + g(j) * p) * base = v(j) * base + g(j) * (base * p)
    BY <2>1, <2>4
  <2>6. w((j+1)+1) = (v(j) * base + last) + g(j) * (base * p)
    BY <2>2, <2>4
  <2>7. v(j+1) * base = v(j) * base + g(j) * (base * p)
    BY <2>3, <2>5
  <2>8. v(j) * base \in Nat /\ g(j) * (base * p) \in Nat
    BY <2>1, <2>4
  <2>9. w((j+1)+1) = v(j+1) * base + last
    BY <2>4, <2>6, <2>7, <2>8
  <2> QED
    BY <2>9
<1>7. T = Nat
  <2> HIDE DEF T
  <2> QED
    BY <1>5, <1>6, Induction DEF T
<1> QED
  BY <1>7 DEF v, w, last
-----------------------------------------------------------------------------
(* Where the string at p ends, or the memory.                              *)
LEMMA EndFacts ==
  ASSUME StringsAssumption, NEW m, NEW p \in Cell
  PROVE  /\ End(m, p) \in Nat /\ p <= End(m, p) /\ End(m, p) <= MemSize
         /\ \A i \in Cell : p <= i /\ i < End(m, p) => m[i] # NUL
         /\ End(m, p) \in Cell => m[End(m, p)] = NUL
         /\ IsString(m, p) => End(m, p) \in Cell
         /\ ~IsString(m, p) => End(m, p) = MemSize
         /\ Length(m, p) \in Nat /\ Length(m, p) = End(m, p) - p
<1> DEFINE T == {i \in Cell : i >= p /\ m[i] = NUL} \cup {MemSize}
<1>1. MemSize \in Nat \ {0} /\ Cell = 0 .. MemSize-1 /\ p \in Nat /\ p < MemSize
  BY DEF StringsAssumption, Cell
<1>2. T \in SUBSET Nat /\ T # {} /\ MemSize \in T /\ \A x \in T : x >= p /\ x <= MemSize
  BY <1>1
<1>3. Min(T) \in T /\ \A y \in T : Min(T) <= y
  <2> HIDE DEF T
  <2> QED
    BY <1>2, MinFacts
<1>4. End(m, p) = Min(T)
  BY DEF End
<1>5. End(m, p) \in T /\ \A y \in T : End(m, p) <= y
  BY <1>3, <1>4
<1>6. End(m, p) \in Nat /\ p <= End(m, p) /\ End(m, p) <= MemSize
  <2> HIDE DEF T
  <2> QED
    BY <1>2, <1>5
<1>7. \A i \in Cell : p <= i /\ i < End(m, p) => m[i] # NUL
  BY <1>1, <1>5, <1>6
<1>8. End(m, p) \in Cell => m[End(m, p)] = NUL
  BY <1>1, <1>5
<1>9. IsString(m, p) => End(m, p) \in Cell
  <2> SUFFICES ASSUME NEW i \in Cell, i >= p, m[i] = NUL
               PROVE  End(m, p) \in Cell
    BY DEF IsString
  <2>1. End(m, p) <= i
    BY <1>5
  <2> QED
    BY <1>1, <1>6, <2>1
<1>10. ~IsString(m, p) => End(m, p) = MemSize
  BY <1>5 DEF IsString
<1> QED
  BY <1>1, <1>6, <1>7, <1>8, <1>9, <1>10 DEF Length

(* strchr(), strfind() and memfind(): the first c among k characters.      *)
LEMMA FirstFacts ==
  ASSUME StringsAssumption, CallFacts, NEW c, NEW p \in Nat, NEW k \in Nat, NEW o
  PROVE  /\ (\A i \in p .. p+k-1 : m0[i] # c) => First(c, p, k, o) = o
         /\ \A x \in p .. p+k-1 :
              m0[x] = c /\ (\A i \in p .. x-1 : m0[i] # c) => First(c, p, k, o) = x
<1> DEFINE found == {i \in p .. p+k-1 : m0[i] = c}
<1>1. First(c, p, k, o) = IF found = {} THEN o ELSE Min(found)
  BY DEF First
<1>2. ASSUME NEW x \in p .. p+k-1, m0[x] = c, \A i \in p .. x-1 : m0[i] # c
      PROVE  First(c, p, k, o) = x
  <2>1. found \in SUBSET Nat /\ x \in found /\ found # {}
    BY <1>2
  <2>2. Min(found) \in found /\ Min(found) <= x
    <3> HIDE DEF found
    <3> QED
      BY <2>1, MinFacts
  <2>3. Min(found) \notin p .. x-1
    BY <1>2, <2>2
  <2>4. Min(found) = x
    <3>1. Min(found) \in p .. p+k-1
      BY <2>2
    <3> HIDE DEF found
    <3> QED
      BY <2>2, <2>3, <3>1
  <2> QED
    BY <1>1, <2>1, <2>4
<1>3. (\A i \in p .. p+k-1 : m0[i] # c) => First(c, p, k, o) = o
  BY <1>1
<1> QED
  BY <1>2, <1>3

(* strcmp(), strncmp() and memcmp(): the first difference among k places.  *)
LEMMA DifferenceFacts ==
  ASSUME StringsAssumption, CallFacts, NEW k \in Nat
  PROVE  /\ (\A i \in 0 .. k-1 : m0[D + i] = m0[S + i]) => Difference(k) = 0
         /\ \A x \in 0 .. k-1 :
              m0[D + x] # m0[S + x] /\ (\A i \in 0 .. x-1 : m0[D + i] = m0[S + i])
                => Difference(k) = m0[D + x] - m0[S + x]
<1> DEFINE diff == {i \in 0 .. k-1 : m0[D + i] # m0[S + i]}
<1>1. Difference(k) = IF diff = {} THEN 0 ELSE m0[D + Min(diff)] - m0[S + Min(diff)]
  BY DEF Difference, D, S
<1>2. ASSUME NEW x \in 0 .. k-1, m0[D + x] # m0[S + x],
             \A i \in 0 .. x-1 : m0[D + i] = m0[S + i]
      PROVE  Difference(k) = m0[D + x] - m0[S + x]
  <2>1. diff \in SUBSET Nat /\ x \in diff /\ diff # {}
    BY <1>2
  <2>2. Min(diff) \in diff /\ Min(diff) <= x
    <3> HIDE DEF diff
    <3> QED
      BY <2>1, MinFacts
  <2>3. Min(diff) \notin 0 .. x-1
    BY <1>2, <2>2
  <2>4. Min(diff) = x
    <3>1. Min(diff) \in 0 .. k-1
      BY <2>2
    <3> HIDE DEF diff
    <3> QED
      BY <2>2, <2>3, <3>1
  <2> QED
    BY <1>1, <2>1, <2>4
<1>3. (\A i \in 0 .. k-1 : m0[D + i] = m0[S + i]) => Difference(k) = 0
  BY <1>1
<1> QED
  BY <1>2, <1>3
-----------------------------------------------------------------------------
(* What is said in terms of the call stays as it is.                       *)
LEMMA SameCall ==
  ASSUME call' = call
  PROVE  /\ m0' = m0 /\ D' = D /\ S' = S /\ N' = N
         /\ \A p : StrEnd(p)' = StrEnd(p) /\ StrLen(p)' = StrLen(p)
         /\ \A k : Filled(k)' = Filled(k) /\ PaddedTo(k)' = PaddedTo(k)
         /\ \A p, k : CopiedTo(p, k)' = CopiedTo(p, k)
         /\ CopyStart' = CopyStart
         /\ CallFacts' = CallFacts /\ Moving' = Moving
BY DEF m0, D, S, N, StrEnd, StrLen, Filled, PaddedTo, CopiedTo, CopyStart, CallFacts, Moving

(* Numbers and the strings a call was given, when it is not strtol().      *)
LEMMA CallNumbers ==
  ASSUME StringsAssumption, CallFacts
  PROVE  /\ MemSize \in Nat \ {0} /\ Cell = 0 .. MemSize-1
         /\ D \in Cell /\ S \in Cell /\ D \in Nat /\ S \in Nat /\ N \in Nat
         /\ StrEnd(S) \in Nat /\ S <= StrEnd(S) /\ StrEnd(S) <= MemSize
         /\ StrLen(S) = StrEnd(S) - S /\ StrLen(S) \in Nat
         /\ \A i \in Cell : S <= i /\ i < StrEnd(S) => m0[i] # NUL
         /\ StrEnd(S) \in Cell => m0[StrEnd(S)] = NUL
         /\ StrEnd(D) \in Nat /\ D <= StrEnd(D) /\ StrEnd(D) <= MemSize
         /\ StrLen(D) = StrEnd(D) - D /\ StrLen(D) \in Nat
         /\ \A i \in Cell : D <= i /\ i < StrEnd(D) => m0[i] # NUL
         /\ StrEnd(D) \in Cell => m0[StrEnd(D)] = NUL
         /\ DOMAIN m0 = Cell /\ \A i \in Cell : m0[i] \in Char \cup NumChar
         /\ \A v \in Char \cup NumChar : v \in Nat
<1>1. MemSize \in Nat \ {0} /\ Cell = 0 .. MemSize-1 /\ D \in Cell /\ S \in Cell
  BY DEF StringsAssumption, Cell, CallFacts
<1>2. /\ StrEnd(S) \in Nat /\ S <= StrEnd(S) /\ StrEnd(S) <= MemSize
      /\ StrLen(S) = StrEnd(S) - S /\ StrLen(S) \in Nat
      /\ \A i \in Cell : S <= i /\ i < StrEnd(S) => m0[i] # NUL
      /\ StrEnd(S) \in Cell => m0[StrEnd(S)] = NUL
  BY <1>1, EndFacts DEF StrEnd, StrLen
<1>3. /\ StrEnd(D) \in Nat /\ D <= StrEnd(D) /\ StrEnd(D) <= MemSize
      /\ StrLen(D) = StrEnd(D) - D /\ StrLen(D) \in Nat
      /\ \A i \in Cell : D <= i /\ i < StrEnd(D) => m0[i] # NUL
      /\ StrEnd(D) \in Cell => m0[StrEnd(D)] = NUL
  BY <1>1, EndFacts DEF StrEnd, StrLen
<1>4. m0 \in [Cell -> Char \cup NumChar] /\ N \in Nat
  BY DEF CallFacts
<1>5. DOMAIN m0 = Cell /\ \A i \in Cell : m0[i] \in Char \cup NumChar
  BY <1>4
<1>6. \A v \in Char \cup NumChar : v \in Nat
  BY DEF StringsAssumption
<1> QED
  BY <1>1, <1>2, <1>3, <1>4, <1>5, <1>6

(* Strings that end are where the callers of string.c promise them, and    *)
(* regions inside the memory.                                              *)
LEMMA CallBounds ==
  ASSUME StringsAssumption, CallFacts
  PROVE  /\ call.f \in {"strlen", "strchr", "strfind", "strcpy", "strcat", "strcmp", "strtol"}
              => StrEnd(S) \in Cell
         /\ call.f \in {"strcat", "strcmp"} => StrEnd(D) \in Cell
         /\ call.f \in {"strnlen", "strncpy", "strlcpy", "strncmp"} =>
              StrEnd(S) \in Cell \/ (StrEnd(S) = MemSize /\ S + N <= MemSize)
         /\ call.f = "strncmp" =>
              StrEnd(D) \in Cell \/ (StrEnd(D) = MemSize /\ D + N <= MemSize)
         /\ call.f \in {"strncpy", "strlcpy"} =>
              D + N <= MemSize /\ (D + N <= S \/ StrEnd(S) + 1 <= D)
         /\ call.f = "strcpy" =>
              /\ D + StrLen(S) + 1 <= MemSize
              /\ D + StrLen(S) + 1 <= S \/ StrEnd(S) + 1 <= D
         /\ call.f = "strcat" =>
              /\ StrEnd(D) + StrLen(S) + 1 <= MemSize
              /\ StrEnd(D) + StrLen(S) + 1 <= S \/ StrEnd(S) + 1 <= D
         /\ call.f = "memset" => D + N <= MemSize
         /\ call.f \in {"memcmp", "memmove", "memcpy"} => D + N <= MemSize /\ S + N <= MemSize
         /\ call.f = "memfind" => S + N <= MemSize
<1>1. /\ D \in Cell /\ S \in Cell /\ MemSize \in Nat /\ N \in Nat
      /\ D \in Nat /\ S \in Nat /\ StrEnd(S) \in Nat /\ StrEnd(D) \in Nat
      /\ StrLen(S) = StrEnd(S) - S /\ StrLen(D) = StrEnd(D) - D
  BY CallNumbers
<1>2. /\ IsString(m0, S) => StrEnd(S) \in Cell
      /\ ~IsString(m0, S) => StrEnd(S) = MemSize
      /\ IsString(m0, D) => StrEnd(D) \in Cell
      /\ ~IsString(m0, D) => StrEnd(D) = MemSize
      /\ Length(m0, S) = StrLen(S) /\ Length(m0, D) = StrLen(D)
      /\ End(m0, D) = StrEnd(D)
  BY <1>1, EndFacts DEF StrEnd, StrLen
<1>3. CASE call.f = "strtol"
  BY <1>2, <1>3 DEF CallFacts
<1>4. CASE call.f # "strtol"
  <2>1. Defined(call.f, m0, D, S, N)
    BY <1>4 DEF CallFacts
  <2>2. CASE call.f \in {"strlen", "strchr", "strfind"}
    BY <1>2, <2>1, <2>2 DEF Defined
  <2>3. CASE call.f = "strnlen"
    BY <1>2, <2>1, <2>3 DEF Defined, Bounded, InMemory
  <2>4. CASE call.f \in {"strncpy", "strlcpy"}
    <3>1. Bounded(m0, S, N) /\ InMemory(D, N) /\ Apart(D, N, S, Length(m0, S) + 1)
      BY <2>1, <2>4 DEF Defined
    <3> QED
      BY <1>1, <1>2, <2>4, <3>1 DEF Bounded, InMemory, Apart
  <2>5. CASE call.f = "strcpy"
    <3>1. /\ IsString(m0, S) /\ InMemory(D, Length(m0, S) + 1)
          /\ Apart(D, Length(m0, S) + 1, S, Length(m0, S) + 1)
      BY <2>1, <2>5 DEF Defined
    <3> QED
      BY <1>1, <1>2, <2>5, <3>1 DEF InMemory, Apart
  <2>6. CASE call.f = "strcat"
    <3>1. /\ IsString(m0, S) /\ IsString(m0, D) /\ InMemory(End(m0, D), Length(m0, S) + 1)
          /\ Apart(D, Length(m0, D) + Length(m0, S) + 1, S, Length(m0, S) + 1)
      BY <2>1, <2>6 DEF Defined
    <3> QED
      BY <1>1, <1>2, <2>6, <3>1 DEF InMemory, Apart
  <2>7. CASE call.f = "strcmp"
    BY <1>2, <2>1, <2>7 DEF Defined
  <2>8. CASE call.f = "strncmp"
    <3>1. Bounded(m0, S, N) /\ Bounded(m0, D, N)
      BY <2>1, <2>8 DEF Defined
    <3> QED
      BY <1>1, <1>2, <2>8, <3>1 DEF Bounded, InMemory
  <2>9. CASE call.f \in {"memmove", "memcmp", "memcpy"}
    <3>1. InMemory(D, N) /\ InMemory(S, N)
      BY <2>1, <2>9 DEF Defined
    <3> QED
      BY <2>9, <3>1 DEF InMemory
  <2>10. CASE call.f = "memset"
    BY <2>1, <2>10 DEF Defined, InMemory
  <2>11. CASE call.f = "memfind"
    BY <2>1, <2>11 DEF Defined, InMemory
  <2> QED
    BY <1>4, <2>2, <2>3, <2>4, <2>5, <2>6, <2>7, <2>8, <2>9, <2>10, <2>11
<1> QED
  BY <1>3, <1>4
-----------------------------------------------------------------------------
(* Each step keeps the invariant.                                          *)

(* Who runs a loop.                                                        *)
LEMMA Caller ==
  ASSUME StrInv
  PROVE  /\ at \notin Parsing \cup Copying \cup {"strcpy", "done"} => call.f = at
         /\ at = "strcpy" => call.f \in {"strcpy", "strcat"}
         /\ at \in Parsing => call.f = "strtol"
         /\ at \in Copying => Moving
BY DEF StrInv, Where, Parsing, Copying, Moving, CallFacts, Function, TakesChar

(* What is left to show for a step that stays in its loop.                 *)
LEMMA GoesOn ==
  ASSUME StrInv, call' = call, at' = at, at # "done", LoopInv',
         mem' \in [Cell -> Char \cup NumChar]
  PROVE  StrInv'
BY SameCall DEF StrInv, Where

(* A step that returns keeps its promise.                                 *)
LEMMA Returns ==
  ASSUME StrInv, call' = call, at' = "done", Promise',
         mem' \in [Cell -> Char \cup NumChar]
  PROVE  StrInv'
BY SameCall DEF StrInv, Where, LoopInv, Parsing

(* A string ends where its NUL is.                                         *)
LEMMA AtNUL ==
  ASSUME StringsAssumption, CallFacts, NEW x \in Cell
  PROVE  /\ S <= x /\ x <= StrEnd(S) => (m0[x] = NUL <=> x = StrEnd(S))
         /\ D <= x /\ x <= StrEnd(D) => (m0[x] = NUL <=> x = StrEnd(D))
<1>1. S <= x /\ x <= StrEnd(S) => (m0[x] = NUL <=> x = StrEnd(S))
  BY CallNumbers
<1>2. D <= x /\ x <= StrEnd(D) => (m0[x] = NUL <=> x = StrEnd(D))
  BY CallNumbers
<1> QED
  BY <1>1, <1>2

(* strlen() counts to the NUL.                                             *)
LEMMA StrlenKeeps ==
  ASSUME StringsAssumption, StrInv, strlen
  PROVE  StrInv'
<1>1. /\ at = "strlen" /\ call.f = "strlen" /\ mem = m0 /\ d = D /\ call' = call /\ mem' = mem
      /\ s \in S .. StrEnd(S) /\ mem \in [Cell -> Char \cup NumChar] /\ CallFacts
  BY Caller DEF strlen, StrInv, LoopInv, Kept, Scanning, Move, Return, Parsing, Copying
<1>2. s \in Cell /\ s \in Nat /\ S \in Nat /\ StrEnd(S) \in Nat /\ StrLen(S) = StrEnd(S) - S
      /\ (m0[s] = NUL <=> s = StrEnd(S))
  <2>1. s \in Cell /\ s \in Nat
    BY <1>1, CallNumbers, CallBounds
  <2> QED
    BY <1>1, <2>1, AtNUL, CallNumbers
<1>3. m0' = m0 /\ D' = D /\ S' = S /\ StrEnd(S)' = StrEnd(S) /\ StrLen(S)' = StrLen(S)
  BY <1>1, SameCall
<1>4. CASE mem[s] # NUL
  <2>1. at' = at /\ d' = d /\ s' = s + 1
    BY <1>1, <1>2, <1>4, CallNumbers DEF strlen, Move
  <2>2. LoopInv'
    BY <1>1, <1>2, <1>3, <1>4, <2>1 DEF LoopInv, Kept, Scanning, Parsing
  <2> QED
    BY <1>1, <2>1, <2>2, GoesOn
<1>5. CASE mem[s] = NUL
  <2>1. at' = "done" /\ ret' = s - S
    BY <1>1, <1>5 DEF strlen, Return, S
  <2>2. Promise'
    BY <1>1, <1>2, <1>3, <1>5, <2>1 DEF Promise, Kept
  <2> QED
    BY <1>1, <2>1, <2>2, Returns
<1> QED
  BY <1>4, <1>5

(* Of two operators on the memory of the call, too.                        *)
LEMMA SameFirst ==
  ASSUME call' = call
  PROVE  /\ First(call.c, S, StrLen(S), NoChar)' = First(call.c, S, StrLen(S), NoChar)
         /\ First(call.c, S, StrLen(S), StrEnd(S))' = First(call.c, S, StrLen(S), StrEnd(S))
         /\ First(call.c, S, N, S + N)' = First(call.c, S, N, S + N)
         /\ Difference(N)' = Difference(N)
         /\ Difference(Shorter)' = Difference(Shorter)
         /\ Difference(Least(N, Shorter))' = Difference(Least(N, Shorter))
BY DEF First, Difference, Shorter, Least, StrLen, StrEnd, m0, S, N, NoChar

(* strnlen() stops at the NUL or the count, whichever is first.            *)
LEMMA StrnlenKeeps ==
  ASSUME StringsAssumption, StrInv, strnlen
  PROVE  StrInv'
<1>1. /\ at = "strnlen" /\ call.f = "strnlen" /\ mem = m0 /\ d = D /\ call' = call /\ mem' = mem
      /\ s \in S .. StrEnd(S) /\ n \in 0..N /\ s = S + (N - n)
      /\ mem \in [Cell -> Char \cup NumChar] /\ CallFacts
  BY Caller DEF strnlen, StrInv, LoopInv, Kept, Scanning, Counting, Move, Return, Parsing, Copying
<1>2. /\ s \in Nat /\ n \in Nat /\ N \in Nat /\ S \in Nat /\ D \in Nat
      /\ StrEnd(S) \in Nat /\ StrLen(S) = StrEnd(S) - S
  BY <1>1, CallNumbers
<1>3. n > 0 => s \in Cell /\ (m0[s] = NUL <=> s = StrEnd(S))
  <2>1. n > 0 => s \in Cell
    BY <1>1, <1>2, CallNumbers, CallBounds
  <2> QED
    BY <1>1, <2>1, AtNUL
<1>4. m0' = m0 /\ D' = D /\ S' = S /\ N' = N /\ StrEnd(S)' = StrEnd(S) /\ StrLen(S)' = StrLen(S)
  BY <1>1, SameCall
<1>5. CASE n > 0 /\ mem[s] # NUL
  <2>1. at' = at /\ d' = d /\ s' = s + 1 /\ n' = n - 1
    BY <1>1, <1>2, <1>5 DEF strnlen, Move
  <2>2. LoopInv'
    BY <1>1, <1>2, <1>3, <1>4, <1>5, <2>1 DEF LoopInv, Kept, Scanning, Counting, Parsing
  <2> QED
    BY <1>1, <2>1, <2>2, GoesOn
<1>6. CASE ~(n > 0 /\ mem[s] # NUL)
  <2>1. at' = "done" /\ ret' = s - S
    BY <1>1, <1>6 DEF strnlen, Return, S
  <2>2. s - S = Least(N, StrLen(S))
    BY <1>1, <1>2, <1>3, <1>6 DEF Least
  <2>3. Promise'
    BY <1>1, <1>4, <2>1, <2>2 DEF Promise, Kept, Least
  <2> QED
    BY <1>1, <2>1, <2>3, Returns
<1> QED
  BY <1>5, <1>6

(* strchr() and strfind() stop at the first c or at the NUL.               *)
LEMMA StrchrKeeps ==
  ASSUME StringsAssumption, StrInv, strchr \/ strfind
  PROVE  StrInv'
<1>1. /\ at \in {"strchr", "strfind"} /\ call.f = at /\ mem = m0 /\ d = D
      /\ call' = call /\ mem' = mem /\ s \in S .. StrEnd(S)
      /\ \A i \in S .. s-1 : m0[i] # call.c
      /\ mem \in [Cell -> Char \cup NumChar] /\ CallFacts
  BY Caller DEF strchr, strfind, StrInv, LoopInv, Kept, Scanning, NotYet, Move, Return,
     Parsing, Copying
<1>2. /\ s \in Cell /\ s \in Nat /\ S \in Nat /\ D \in Nat /\ StrEnd(S) \in Nat
      /\ StrLen(S) \in Nat /\ StrLen(S) = StrEnd(S) - S
      /\ (m0[s] = NUL <=> s = StrEnd(S))
  <2>1. s \in Cell /\ s \in Nat
    BY <1>1, CallNumbers, CallBounds
  <2> QED
    BY <1>1, <2>1, AtNUL, CallNumbers
<1>3. m0' = m0 /\ D' = D /\ S' = S /\ StrEnd(S)' = StrEnd(S) /\ StrLen(S)' = StrLen(S)
  BY <1>1, SameCall
<1>4. CASE mem[s] # NUL /\ mem[s] # call.c
  <2>1. at' = at /\ d' = d /\ s' = s + 1
    BY <1>1, <1>2, <1>4 DEF strchr, strfind, Move
  <2>2. \A i \in S .. (s+1)-1 : m0[i] # call.c
    BY <1>1, <1>2, <1>4
  <2>3. LoopInv'
    BY <1>1, <1>2, <1>3, <1>4, <2>1, <2>2 DEF LoopInv, Kept, Scanning, NotYet, Parsing
  <2> QED
    BY <1>1, <2>1, <2>3, GoesOn
<1>5. CASE ~(mem[s] # NUL /\ mem[s] # call.c)
  <2>1. at' = "done" /\ ret' = IF at = "strfind" THEN s ELSE IF mem[s] = NUL THEN NoChar ELSE s
    BY <1>1, <1>5 DEF strchr, strfind, Return
  <2> DEFINE first(o) == First(call.c, S, StrLen(S), o)
  <2>2. mem[s] = NUL => first(NoChar) = NoChar /\ first(StrEnd(S)) = s
    <3>1. mem[s] = NUL => \A i \in S .. S + StrLen(S)-1 : m0[i] # call.c
      BY <1>1, <1>2
    <3> QED
      BY <1>1, <1>2, <3>1, FirstFacts
  <2>3. mem[s] # NUL => first(NoChar) = s /\ first(StrEnd(S)) = s
    <3>1. mem[s] # NUL => s \in S .. S + StrLen(S)-1 /\ m0[s] = call.c
      BY <1>1, <1>2, <1>5
    <3> QED
      BY <1>1, <1>2, <3>1, FirstFacts
  <2>5. /\ (call.f = "strchr")' => ret' = first(NoChar)
        /\ (call.f = "strfind")' => ret' = first(StrEnd(S))
    BY <1>1, <2>1, <2>2, <2>3
  <2>6. first(NoChar)' = first(NoChar) /\ first(StrEnd(S))' = first(StrEnd(S))
    BY <1>1, SameFirst, <1>3
  <2>7. Promise'
    BY <1>1, <1>3, <2>5, <2>6 DEF Promise, Kept
  <2> QED
    BY <1>1, <2>1, <2>7, Returns
<1> QED
  BY <1>4, <1>5

(* memfind() stops at the first c or at the end of the region.             *)
LEMMA MemfindKeeps ==
  ASSUME StringsAssumption, StrInv, memfind
  PROVE  StrInv'
<1>1. /\ at = "memfind" /\ call.f = at /\ mem = m0 /\ d = D /\ call' = call /\ mem' = mem
      /\ n \in 0..N /\ s = S + (N - n) /\ \A i \in S .. s-1 : m0[i] # call.c
      /\ mem \in [Cell -> Char \cup NumChar] /\ CallFacts
  BY Caller DEF memfind, StrInv, LoopInv, Kept, Counting, NotYet, Move, Return,
     Parsing, Copying
<1>2. s \in Nat /\ n \in Nat /\ N \in Nat /\ S \in Nat /\ D \in Nat
  BY <1>1, CallNumbers
<1>3. m0' = m0 /\ D' = D /\ S' = S /\ N' = N
  BY <1>1, SameCall
<1>4. CASE n > 0 /\ mem[s] # call.c
  <2>1. at' = at /\ d' = d /\ s' = s + 1 /\ n' = n - 1
    BY <1>1, <1>2, <1>4 DEF memfind, Move
  <2>2. \A i \in S .. (s+1)-1 : m0[i] # call.c
    BY <1>1, <1>2, <1>4
  <2>3. LoopInv'
    BY <1>1, <1>2, <1>3, <1>4, <2>1, <2>2 DEF LoopInv, Kept, Counting, NotYet, Parsing
  <2> QED
    BY <1>1, <2>1, <2>3, GoesOn
<1>5. CASE ~(n > 0 /\ mem[s] # call.c)
  <2>1. at' = "done" /\ ret' = s
    BY <1>1, <1>5 DEF memfind, Return
  <2>2. First(call.c, S, N, S + N) = s
    <3>1. CASE n = 0
      <4>1. s = S + N
        BY <1>1, <1>2, <3>1
      <4> QED
        BY <1>1, <1>2, <4>1, FirstFacts
    <3>2. CASE n > 0
      <4>1. s \in S .. S+N-1 /\ m0[s] = call.c
        BY <1>1, <1>2, <1>5, <3>2
      <4> QED
        BY <1>1, <1>2, <4>1, FirstFacts
    <3> QED
      BY <1>2, <3>1, <3>2
  <2>3. First(call.c, S, N, S + N)' = First(call.c, S, N, S + N)
    BY <1>1, SameFirst
  <2>4. Promise'
    BY <1>1, <1>3, <2>1, <2>2, <2>3 DEF Promise, Kept
  <2> QED
    BY <1>1, <2>1, <2>4, Returns
<1> QED
  BY <1>4, <1>5

(* memcmp() stops at the first difference.                                 *)
LEMMA MemcmpKeeps ==
  ASSUME StringsAssumption, StrInv, memcmp
  PROVE  StrInv'
<1>1. /\ at = "memcmp" /\ call.f = at /\ mem = m0 /\ call' = call /\ mem' = mem
      /\ n \in 0..N /\ s = S + (N - n) /\ d = D + (s - S)
      /\ \A j \in 0 .. (s - S)-1 : m0[D + j] = m0[S + j]
      /\ mem \in [Cell -> Char \cup NumChar] /\ CallFacts
  <2>1. at = "memcmp" /\ call' = call /\ mem' = mem
    BY DEF memcmp, Move, Return
  <2>2. call.f = at
    BY <2>1, Caller DEF Parsing, Copying
  <2>3. Kept /\ Counting /\ SameSoFar /\ mem \in [Cell -> Char \cup NumChar] /\ CallFacts
    BY <2>1 DEF StrInv, LoopInv
  <2> QED
    BY <2>1, <2>2, <2>3 DEF Kept, Counting, SameSoFar
<1>2. s \in Nat /\ d \in Nat /\ n \in Nat /\ N \in Nat /\ S \in Nat /\ D \in Nat
  <2>1. N \in Nat /\ S \in Nat /\ D \in Nat
    BY <1>1, CallNumbers
  <2>2. s \in Nat /\ n \in Nat /\ s - S = N - n /\ N - n \in Nat
    BY <1>1, <2>1
  <2> QED
    BY <1>1, <2>1, <2>2
<1>3. m0' = m0 /\ D' = D /\ S' = S /\ N' = N
  BY <1>1, SameCall
<1>4. n > 0 => d \in Cell /\ s \in Cell /\ m0[d] \in Nat /\ m0[s] \in Nat
  <2>1. n > 0 => d \in Cell /\ s \in Cell
    BY <1>1, <1>2, CallNumbers, CallBounds
  <2> QED
    BY <1>1, <2>1, CallNumbers
<1>5. CASE n > 0 /\ mem[d] = mem[s]
  <2>1. at' = at /\ d' = d + 1 /\ s' = s + 1 /\ n' = n - 1
    BY <1>1, <1>2, <1>5 DEF memcmp, Move
  <2>2. \A j \in 0 .. ((s+1) - S)-1 : m0[D + j] = m0[S + j]
    <3>1. \A j \in 0 .. ((s+1) - S)-1 :
            j \in 0 .. (s - S)-1 \/ (D + j = d /\ S + j = s)
      BY <1>1, <1>2
    <3> QED
      BY <1>1, <1>5, <3>1
  <2>3. LoopInv'
    BY <1>1, <1>2, <1>3, <1>5, <2>1, <2>2 DEF LoopInv, Kept, Counting, SameSoFar, Parsing
  <2> QED
    BY <1>1, <2>1, <2>3, GoesOn
<1>6. CASE ~(n > 0 /\ mem[d] = mem[s])
  <2>1. at' = "done" /\ ret' = IF n = 0 THEN 0 ELSE mem[d] - mem[s]
    BY <1>1, <1>6 DEF memcmp, Return
  <2>2. Difference(N) = ret'
    <3>1. CASE n = 0
      <4>1. s - S = N
        BY <1>1, <1>2, <3>1
      <4> QED
        BY <1>1, <1>2, <2>1, <3>1, <4>1, DifferenceFacts
    <3>2. CASE n > 0
      <4>1. s - S \in 0 .. N-1 /\ D + (s - S) = d /\ S + (s - S) = s /\ m0[d] # m0[s]
        BY <1>1, <1>2, <1>6, <3>2
      <4>2. Difference(N) = m0[d] - m0[s]
        BY <1>1, <1>2, <4>1, DifferenceFacts
      <4> QED
        BY <1>1, <2>1, <3>2, <4>2
    <3> QED
      BY <1>2, <3>1, <3>2
  <2>3. Difference(N)' = Difference(N)
    BY <1>1, SameFirst
  <2>4. Promise'
    BY <1>1, <1>3, <2>1, <2>2, <2>3 DEF Promise, Kept
  <2> QED
    BY <1>1, <2>1, <2>4, Returns
<1> QED
  BY <1>5, <1>6

(* strcmp() stops at the first difference or where both strings end.       *)
LEMMA StrcmpKeeps ==
  ASSUME StringsAssumption, StrInv, strcmp
  PROVE  StrInv'
<1>1. /\ at = "strcmp" /\ call.f = at /\ mem = m0 /\ call' = call /\ mem' = mem
      /\ s \in S .. StrEnd(S) /\ d = D + (s - S) /\ d <= StrEnd(D)
      /\ \A j \in 0 .. (s - S)-1 : m0[D + j] = m0[S + j]
      /\ mem \in [Cell -> Char \cup NumChar] /\ CallFacts
  BY Caller DEF strcmp, StrInv, LoopInv, Kept, Scanning, SameSoFar, Move, Return,
     Parsing, Copying
<1>2. /\ s \in Nat /\ d \in Nat /\ S \in Nat /\ D \in Nat
      /\ StrEnd(S) \in Nat /\ StrLen(S) = StrEnd(S) - S
      /\ StrEnd(D) \in Nat /\ StrLen(D) = StrEnd(D) - D
  BY <1>1, CallNumbers
<1>3. /\ m0' = m0 /\ D' = D /\ S' = S /\ StrEnd(S)' = StrEnd(S) /\ StrEnd(D)' = StrEnd(D)
  BY <1>1, SameCall
<1>4. /\ d \in Cell /\ s \in Cell /\ m0[d] \in Nat /\ m0[s] \in Nat
      /\ (m0[s] = NUL <=> s = StrEnd(S)) /\ (m0[d] = NUL <=> d = StrEnd(D))
  <2>1. d \in Cell /\ s \in Cell
    BY <1>1, <1>2, CallNumbers, CallBounds
  <2> QED
    BY <1>1, <1>2, <2>1, CallNumbers, AtNUL
<1>5. CASE SameCharGoesOn
  <2>1. at' = at /\ d' = d + 1 /\ s' = s + 1
    BY <1>1, <1>2, <1>5 DEF strcmp, Move
  <2>2. \A j \in 0 .. ((s+1) - S)-1 : m0[D + j] = m0[S + j]
    <3>1. \A j \in 0 .. ((s+1) - S)-1 :
            j \in 0 .. (s - S)-1 \/ (D + j = d /\ S + j = s)
      BY <1>1, <1>2
    <3> QED
      BY <1>1, <1>5, <3>1 DEF SameCharGoesOn
  <2>3. LoopInv'
    BY <1>1, <1>2, <1>3, <1>4, <1>5, <2>1, <2>2
       DEF LoopInv, Kept, Scanning, SameSoFar, Parsing, SameCharGoesOn
  <2> QED
    BY <1>1, <2>1, <2>3, GoesOn
<1>6. CASE ~SameCharGoesOn
  <2>1. at' = "done" /\ ret' = m0[d] - m0[s]
    BY <1>1, <1>6 DEF strcmp, Return
  <2>2. Shorter \in Nat /\ Shorter = Least(StrLen(D), StrLen(S)) + 1
        /\ s - S \in 0 .. Shorter-1 /\ D + (s - S) = d /\ S + (s - S) = s
    BY <1>1, <1>2 DEF Shorter, Least, D, S
  <2>3. Difference(Shorter) = ret'
    <3>1. CASE m0[d] = m0[s]
      <4>1. d = StrEnd(D) /\ s = StrEnd(S)
        BY <1>1, <1>4, <1>6, <3>1 DEF SameCharGoesOn
      <4>2. \A j \in 0 .. Shorter-1 : m0[D + j] = m0[S + j]
        <5>1. \A j \in 0 .. Shorter-1 :
                j \in 0 .. (s - S)-1 \/ (D + j = d /\ S + j = s)
          <6>1. Shorter = (s - S) + 1
            BY <1>1, <1>2, <2>2, <4>1 DEF Least
          <6> QED
            BY <1>2, <2>2, <6>1
        <5> QED
          BY <1>1, <3>1, <5>1
      <4> QED
        BY <1>1, <1>4, <2>1, <2>2, <3>1, <4>2, DifferenceFacts
    <3>2. CASE m0[d] # m0[s]
      BY <1>1, <1>2, <2>1, <2>2, <3>2, DifferenceFacts
    <3> QED
      BY <3>1, <3>2
  <2>4. Difference(Shorter)' = Difference(Shorter)
    BY <1>1, SameFirst
  <2>5. Promise'
    BY <1>1, <1>3, <2>1, <2>3, <2>4 DEF Promise, Kept
  <2> QED
    BY <1>1, <2>1, <2>5, Returns
<1> QED
  BY <1>5, <1>6

(* strncmp() does, or when the count is used up.                           *)
LEMMA StrncmpKeeps ==
  ASSUME StringsAssumption, StrInv, strncmp
  PROVE  StrInv'
<1>1. /\ at = "strncmp" /\ call.f = at /\ mem = m0 /\ call' = call /\ mem' = mem
      /\ s \in S .. StrEnd(S) /\ d = D + (s - S) /\ d <= StrEnd(D)
      /\ n \in 0..N /\ s = S + (N - n)
      /\ \A j \in 0 .. (s - S)-1 : m0[D + j] = m0[S + j]
      /\ mem \in [Cell -> Char \cup NumChar] /\ CallFacts
  BY Caller DEF strncmp, StrInv, LoopInv, Kept, Scanning, Counting, SameSoFar, Move, Return,
     Parsing, Copying
<1>2. /\ s \in Nat /\ d \in Nat /\ n \in Nat /\ N \in Nat /\ S \in Nat /\ D \in Nat
      /\ StrEnd(S) \in Nat /\ StrLen(S) = StrEnd(S) - S
      /\ StrEnd(D) \in Nat /\ StrLen(D) = StrEnd(D) - D
  <2>1. /\ N \in Nat /\ S \in Nat /\ D \in Nat
        /\ StrEnd(S) \in Nat /\ StrLen(S) = StrEnd(S) - S
        /\ StrEnd(D) \in Nat /\ StrLen(D) = StrEnd(D) - D
    BY <1>1, CallNumbers
  <2> QED
    BY <1>1, <2>1
<1>3. /\ m0' = m0 /\ D' = D /\ S' = S /\ N' = N
      /\ StrEnd(S)' = StrEnd(S) /\ StrEnd(D)' = StrEnd(D)
  BY <1>1, SameCall
<1>4. n > 0 =>
      /\ d \in Cell /\ s \in Cell /\ m0[d] \in Nat /\ m0[s] \in Nat
      /\ (m0[s] = NUL <=> s = StrEnd(S)) /\ (m0[d] = NUL <=> d = StrEnd(D))
  <2> HAVE n > 0
  <2>1. d \in Cell /\ s \in Cell
    BY <1>1, <1>2, CallNumbers, CallBounds
  <2>2. m0[d] \in Nat /\ m0[s] \in Nat
    BY <1>1, <2>1, CallNumbers
  <2> QED
    BY <1>1, <1>2, <2>1, <2>2, AtNUL
<1>5. CASE n > 0 /\ SameCharGoesOn
  <2>1. at' = at /\ d' = d + 1 /\ s' = s + 1 /\ n' = n - 1
    BY <1>1, <1>2, <1>5 DEF strncmp, Move
  <2>2. \A j \in 0 .. ((s+1) - S)-1 : m0[D + j] = m0[S + j]
    <3>1. \A j \in 0 .. ((s+1) - S)-1 :
            j \in 0 .. (s - S)-1 \/ (D + j = d /\ S + j = s)
      BY <1>1, <1>2
    <3> QED
      BY <1>1, <1>5, <3>1 DEF SameCharGoesOn
  <2>3. LoopInv'
    BY <1>1, <1>2, <1>3, <1>4, <1>5, <2>1, <2>2
       DEF LoopInv, Kept, Scanning, Counting, SameSoFar, Parsing, SameCharGoesOn
  <2> QED
    BY <1>1, <2>1, <2>3, GoesOn
<1>6. CASE ~(n > 0 /\ SameCharGoesOn)
  <2> DEFINE k == Least(N, Shorter)
  <2>1. at' = "done" /\ ret' = IF n = 0 THEN 0 ELSE m0[d] - m0[s]
    BY <1>1, <1>6 DEF strncmp, Return
  <2>2. Shorter \in Nat /\ Shorter = Least(StrLen(D), StrLen(S)) + 1
    BY <1>2, <1>1 DEF Shorter, Least, D, S
  <2>3. k \in Nat /\ D + (s - S) = d /\ S + (s - S) = s
        /\ (n = 0 => k <= s - S) /\ (n > 0 => s - S \in 0 .. k-1)
    BY <1>1, <1>2, <2>2 DEF Least
  <2>4. Difference(k) = ret'
    <3>1. CASE n = 0
      <4>1. \A j \in 0 .. k-1 : j \in 0 .. (s - S)-1
        BY <1>2, <2>3, <3>1
      <4> HIDE DEF k
      <4> QED
        BY <1>1, <2>1, <2>3, <3>1, <4>1, DifferenceFacts
    <3>2. CASE n > 0 /\ m0[d] = m0[s]
      <4>1. d = StrEnd(D) /\ s = StrEnd(S)
        BY <1>1, <1>4, <1>6, <3>2 DEF SameCharGoesOn
      <4>2. \A j \in 0 .. k-1 : m0[D + j] = m0[S + j]
        <5>1. \A j \in 0 .. k-1 :
                j \in 0 .. (s - S)-1 \/ (D + j = d /\ S + j = s)
          BY <1>1, <1>2, <2>2, <2>3, <4>1 DEF Least
        <5> QED
          BY <1>1, <3>2, <5>1
      <4> HIDE DEF k
      <4> QED
        BY <1>1, <1>4, <2>1, <2>3, <3>2, <4>2, DifferenceFacts
    <3>3. CASE n > 0 /\ m0[d] # m0[s]
      <4> HIDE DEF k
      <4>1. s - S \in 0 .. k-1 /\ m0[D + (s - S)] # m0[S + (s - S)]
        BY <2>3, <3>3
      <4>2. Difference(k) = m0[D + (s - S)] - m0[S + (s - S)]
        BY <1>1, <2>3, <4>1, DifferenceFacts
      <4> QED
        BY <2>1, <2>3, <3>3, <4>2
    <3> QED
      BY <1>2, <3>1, <3>2, <3>3
  <2>5. Difference(Least(N, Shorter))' = Difference(Least(N, Shorter))
    BY <1>1, SameFirst
  <2>6. Promise'
    BY <1>1, <1>3, <2>1, <2>4, <2>5 DEF Promise, Kept
  <2> QED
    BY <1>1, <2>1, <2>6, Returns
<1> QED
  BY <1>5, <1>6

(* Regions grow by the cell that is written; an empty one is the memory    *)
(* the function was called on.                                             *)
LEMMA NothingYet ==
  ASSUME StringsAssumption, CallFacts
  PROVE  /\ \A p \in Nat : CopiedTo(p, 0) = m0
         /\ PaddedTo(0) = m0 /\ Filled(0) = m0
<1>1. D \in Nat /\ Cell = 0 .. MemSize-1 /\ m0 = [i \in Cell |-> m0[i]]
  BY CallNumbers DEF CallFacts
<1>2. \A q \in Nat, i \in Cell : i \notin q .. q+0-1
  BY <1>1
<1> QED
  BY <1>1, <1>2 DEF CopiedTo, PaddedTo, Filled

(* A region longer by one has one more place.                              *)
LEMMA OneMore ==
  ASSUME StringsAssumption, NEW p \in Nat, NEW k \in Nat
  PROVE  /\ \A i \in Cell : i \in p .. p+(k+1)-1 <=> i \in p .. p+k-1 \/ i = p + k
         /\ (p + k) - p = k
<1>1. Cell = 0 .. MemSize-1 /\ MemSize \in Nat
  BY DEF Cell, StringsAssumption
<1> QED
  BY <1>1

(* The region copied so far grows by the cell that is written.             *)
LEMMA CopyGrows ==
  ASSUME StringsAssumption, NEW p \in Nat, NEW k \in Nat
  PROVE  [CopiedTo(p, k) EXCEPT ![p + k] = m0[S + k]] = CopiedTo(p, k + 1)
BY OneMore DEF CopiedTo

(* Outside it the memory is as it was.                                     *)
LEMMA CopyLeaves ==
  ASSUME StringsAssumption, NEW p \in Nat, NEW k \in Nat, NEW x \in Cell,
         x < p \/ p + k <= x
  PROVE  CopiedTo(p, k)[x] = m0[x]
BY DEF CopiedTo, Cell, StringsAssumption

(* The same of strncpy(), which goes on behind the NUL.                    *)
LEMMA PadGrows ==
  ASSUME StringsAssumption, D \in Nat, NEW k \in Nat
  PROVE  [PaddedTo(k) EXCEPT ![D + k] = IF k < StrLen(S) THEN m0[S + k] ELSE NUL]
           = PaddedTo(k + 1)
<1> DEFINE source(i) == IF i < StrLen(S) THEN m0[S + i] ELSE NUL
<1>1. \A l : PaddedTo(l) = [i \in Cell |-> IF i \in D .. D+l-1 THEN source(i - D) ELSE m0[i]]
  BY DEF PaddedTo
<1> HIDE DEF source
<1>2. [PaddedTo(k) EXCEPT ![D + k] = source(k)] = PaddedTo(k + 1)
  BY <1>1, OneMore
<1> QED
  BY <1>2 DEF source

(* Outside its region the memory is as it was.                             *)
LEMMA PadLeaves ==
  ASSUME StringsAssumption, D \in Nat, NEW k \in Nat, NEW x \in Cell,
         x < D \/ D + k <= x
  PROVE  PaddedTo(k)[x] = m0[x]
BY DEF PaddedTo, Cell, StringsAssumption

(* The same of memset().                                                   *)
LEMMA FillGrows ==
  ASSUME StringsAssumption, D \in Nat, NEW k \in Nat
  PROVE  [Filled(k) EXCEPT ![D + k] = call.c] = Filled(k + 1)
BY OneMore DEF Filled

(* strcat() goes to the end of its destination and copies there.           *)
LEMMA StrcatKeeps ==
  ASSUME StringsAssumption, StrInv, strcat
  PROVE  StrInv'
<1>1. /\ at = "strcat" /\ call.f = at /\ mem = m0 /\ call' = call /\ mem' = mem
      /\ s = S /\ d \in D .. StrEnd(D)
      /\ mem \in [Cell -> Char \cup NumChar] /\ CallFacts
  BY Caller DEF strcat, StrInv, LoopInv, Kept, Move, GoOnAt, Parsing, Copying
<1>2. /\ S \in Nat /\ D \in Nat /\ StrEnd(D) \in Nat /\ StrEnd(S) \in Nat /\ S <= StrEnd(S)
      /\ d \in Cell /\ (m0[d] = NUL <=> d = StrEnd(D))
  <2>1. /\ S \in Nat /\ D \in Nat /\ StrEnd(D) \in Nat /\ StrEnd(S) \in Nat
        /\ S <= StrEnd(S)
    BY <1>1, CallNumbers
  <2>2. d \in Cell
    BY <1>1, <2>1, CallNumbers, CallBounds
  <2> QED
    BY <1>1, <2>1, <2>2, AtNUL
<1>3. /\ m0' = m0 /\ D' = D /\ S' = S /\ StrEnd(D)' = StrEnd(D) /\ StrEnd(S)' = StrEnd(S)
      /\ CopyStart' = CopyStart /\ \A p, k : CopiedTo(p, k)' = CopiedTo(p, k)
  BY <1>1, SameCall
<1>4. CASE mem[d] # NUL
  <2>1. at' = at /\ d' = d + 1 /\ s' = s
    BY <1>1, <1>2, <1>4 DEF strcat, Move
  <2>2. LoopInv'
    BY <1>1, <1>2, <1>3, <1>4, <2>1 DEF LoopInv, Kept, Parsing
  <2> QED
    BY <1>1, <2>1, <2>2, GoesOn
<1>5. CASE mem[d] = NUL
  <2>1. at' = "strcpy" /\ d' = d /\ s' = s
    BY <1>1, <1>5 DEF strcat, GoOnAt
  <2>2. CopyStart = StrEnd(D) /\ d = CopyStart /\ CopiedTo(CopyStart, 0) = m0
    BY <1>1, <1>2, <1>5, NothingYet DEF CopyStart
  <2>3. LoopInv'
    BY <1>1, <1>2, <1>3, <2>1, <2>2 DEF LoopInv, Scanning, Parsing
  <2>4. Where' /\ CallFacts'
    BY <1>1, <2>1, SameCall DEF Where, Moving
  <2> QED
    BY <1>1, <2>1, <2>3, <2>4 DEF StrInv
<1> QED
  BY <1>4, <1>5

(* strcpy(), for itself and for strcat(): the source is not overwritten    *)
(* while it is read, and the NUL is copied last.                           *)
LEMMA StrcpyKeeps ==
  ASSUME StringsAssumption, StrInv, strcpy
  PROVE  StrInv'
<1> DEFINE P == CopyStart
<1>1. /\ at = "strcpy" /\ call.f \in {"strcpy", "strcat"} /\ call' = call
      /\ s \in S .. StrEnd(S) /\ d = P + (s - S) /\ mem = CopiedTo(P, s - S)
      /\ mem \in [Cell -> Char \cup NumChar] /\ CallFacts
  BY Caller DEF strcpy, StrInv, LoopInv, Scanning, Parsing
<1>2. /\ S \in Nat /\ D \in Nat /\ StrEnd(D) \in Nat /\ StrEnd(S) \in Nat /\ S <= StrEnd(S)
      /\ StrLen(S) = StrEnd(S) - S /\ StrLen(S) \in Nat /\ D <= StrEnd(D)
      /\ MemSize \in Nat /\ Cell = 0 .. MemSize-1 /\ s \in Cell /\ s \in Nat
      /\ (m0[s] = NUL <=> s = StrEnd(S))
  <2>1. /\ S \in Nat /\ D \in Nat /\ StrEnd(D) \in Nat /\ StrEnd(S) \in Nat
        /\ S <= StrEnd(S) /\ MemSize \in Nat /\ Cell = 0 .. MemSize-1
        /\ StrLen(S) = StrEnd(S) - S /\ StrLen(S) \in Nat /\ D <= StrEnd(D)
    BY <1>1, CallNumbers
  <2>2. s \in Cell /\ s \in Nat
    BY <1>1, <2>1, CallBounds
  <2>3. m0[s] = NUL <=> s = StrEnd(S)
    BY <1>1, <2>2, AtNUL
  <2> QED
    BY <2>1, <2>2, <2>3
<1>3. /\ m0' = m0 /\ D' = D /\ S' = S /\ StrEnd(D)' = StrEnd(D) /\ StrEnd(S)' = StrEnd(S)
      /\ StrLen(S)' = StrLen(S)
      /\ P' = P /\ \A p, k : CopiedTo(p, k)' = CopiedTo(p, k)
  BY <1>1, SameCall
<1>4. /\ P \in Nat /\ P + StrLen(S) + 1 <= MemSize
      /\ P + StrLen(S) + 1 <= S \/ StrEnd(S) + 1 <= P
  <2>1. CASE call.f = "strcpy"
    BY <1>1, <1>2, <2>1, CallBounds DEF CopyStart
  <2>2. CASE call.f = "strcat"
    BY <1>1, <1>2, <2>2, CallBounds DEF CopyStart
  <2> QED
    BY <1>1, <2>1, <2>2
<1> HIDE DEF P
<1>5. d \in Cell /\ mem[s] = m0[s] /\ s - S \in Nat /\ S + (s - S) = s
  <2>1. d \in Cell /\ s - S \in Nat /\ S + (s - S) = s
    BY <1>1, <1>2, <1>4
  <2>2. PICK k \in Nat : k = s - S
    BY <2>1
  <2>3. s < P \/ P + k <= s
    BY <1>1, <1>2, <1>4, <2>2
  <2>4. CopiedTo(P, k)[s] = m0[s]
    BY <1>2, <1>4, <2>3, CopyLeaves
  <2> QED
    BY <1>1, <2>1, <2>2, <2>4
<1>6. /\ mem' = CopiedTo(P, (s - S) + 1) /\ d' = d + 1 /\ s' = s + 1
      /\ at' = IF mem[s] = NUL THEN "done" ELSE at
  <2>1. mem' = [mem EXCEPT ![d] = mem[s]]
    BY DEF strcpy
  <2>2. mem' = CopiedTo(P, (s - S) + 1)
    <3>1. PICK k \in Nat : k = s - S /\ mem[s] = m0[S + k]
      BY <1>5
    <3>2. [CopiedTo(P, k) EXCEPT ![P + k] = mem[s]] = CopiedTo(P, k + 1)
      BY <1>4, <3>1, CopyGrows
    <3> QED
      BY <1>1, <2>1, <3>1, <3>2
  <2> QED
    BY <2>2 DEF strcpy
<1>7. mem' \in [Cell -> Char \cup NumChar]
  BY <1>1, <1>2 DEF strcpy
<1>8. CASE mem[s] # NUL
  <2>1. s' \in S .. StrEnd(S) /\ s' - S = (s - S) + 1 /\ d' = P + (s' - S)
    <3>1. s # StrEnd(S) /\ s' = s + 1 /\ d' = d + 1
      BY <1>2, <1>5, <1>6, <1>8
    <3>2. s' \in S .. StrEnd(S) /\ s' - S = (s - S) + 1
      BY <1>1, <1>2, <3>1
    <3> QED
      BY <1>1, <1>2, <1>4, <3>1, <3>2
  <2>2. LoopInv'
    <3>1. at' = "strcpy" /\ Scanning' /\ mem' = CopiedTo(P, s' - S)
      BY <1>1, <1>3, <1>6, <1>8, <2>1 DEF Scanning
    <3>2. d' = CopyStart' + (s' - S') /\ mem' = CopiedTo(CopyStart, s - S)'
      BY <1>3, <2>1, <3>1 DEF P
    <3> QED
      BY <3>1, <3>2 DEF LoopInv, Parsing
  <2> QED
    BY <1>1, <1>6, <1>7, <1>8, <2>2, GoesOn
<1>9. CASE mem[s] = NUL
  <2>1. (s - S) + 1 = StrLen(S) + 1
    BY <1>2, <1>5, <1>9
  <2>2. /\ call.f = "strcpy" => P = D
        /\ call.f = "strcat" => P = StrEnd(D)
    BY DEF P, CopyStart
  <2>3. Promise'
    BY <1>1, <1>3, <1>6, <2>1, <2>2 DEF Promise
  <2> QED
    BY <1>1, <1>6, <1>7, <1>9, <2>3, Returns
<1> QED
  BY <1>8, <1>9

(* strlcpy() leaves a place for the NUL.                                   *)
LEMMA StrlcpyKeeps ==
  ASSUME StringsAssumption, StrInv, strlcpy
  PROVE  StrInv'
<1>1. /\ at = "strlcpy" /\ call.f = at /\ call' = call
      /\ s \in S .. StrEnd(S) /\ d = D + (s - S) /\ mem = CopiedTo(D, s - S)
      /\ n \in 0..N /\ s = S + (N - n) /\ (N > 0 => n > 0)
      /\ mem \in [Cell -> Char \cup NumChar] /\ CallFacts
  BY Caller DEF strlcpy, StrInv, LoopInv, Scanning, Counting, Parsing, Copying, Store, Return
<1>2. /\ S \in Nat /\ D \in Nat /\ N \in Nat /\ StrEnd(S) \in Nat /\ S <= StrEnd(S)
      /\ StrLen(S) = StrEnd(S) - S /\ StrLen(S) \in Nat
      /\ MemSize \in Nat /\ Cell = 0 .. MemSize-1
  BY <1>1, CallNumbers
<1>3. s \in Nat /\ n \in Nat /\ d \in Nat /\ s - S \in Nat /\ S + (s - S) = s
  BY <1>1, <1>2
<1>4. D + N <= MemSize /\ (D + N <= S \/ StrEnd(S) + 1 <= D)
  BY <1>1, CallBounds
<1>5. n > 0 => d \in Cell /\ s \in Cell /\ mem[s] = m0[s] /\ (m0[s] = NUL <=> s = StrEnd(S))
               /\ mem[s] \in Char \cup NumChar
  <2> HAVE n > 0
  <2>1. d \in Cell /\ s \in Cell
    BY <1>1, <1>2, <1>3, <1>4, CallBounds
  <2>2. PICK k \in Nat : k = s - S /\ (s < D \/ D + k <= s)
    BY <1>1, <1>2, <1>3, <1>4
  <2>3. mem[s] = m0[s]
    <3>1. CopiedTo(D, k)[s] = m0[s]
      BY <1>2, <2>1, <2>2, CopyLeaves
    <3> QED
      BY <1>1, <2>2, <3>1
  <2> QED
    BY <1>1, <2>1, <2>3, AtNUL
<1>6. /\ m0' = m0 /\ D' = D /\ S' = S /\ N' = N /\ StrEnd(S)' = StrEnd(S)
      /\ StrLen(S)' = StrLen(S) /\ \A p, k : CopiedTo(p, k)' = CopiedTo(p, k)
  BY <1>1, SameCall
<1>7. CASE PlaceForNUL(n) /\ mem[s] # NUL
  <2>1. /\ at' = at /\ d' = d + 1 /\ s' = s + 1 /\ n' = n - 1 /\ n > 1
        /\ mem' = [mem EXCEPT ![d] = mem[s]]
    BY <1>1, <1>2, <1>3, <1>7 DEF strlcpy, Store, PlaceForNUL
  <2>2. mem' = CopiedTo(D, (s - S) + 1)
    <3>1. PICK k \in Nat : k = s - S /\ mem[s] = m0[S + k]
      BY <1>3, <1>5, <2>1
    <3>2. [CopiedTo(D, k) EXCEPT ![D + k] = mem[s]] = CopiedTo(D, k + 1)
      BY <1>2, <3>1, CopyGrows
    <3> QED
      BY <1>1, <2>1, <3>1, <3>2
  <2>3. /\ s' \in S .. StrEnd(S) /\ s' - S = (s - S) + 1 /\ d' = D + (s' - S)
        /\ n' \in 0..N /\ s' = S + (N - n') /\ n' > 0
    BY <1>1, <1>2, <1>3, <1>5, <1>7, <2>1
  <2>4. LoopInv'
    BY <1>1, <1>6, <2>1, <2>2, <2>3 DEF LoopInv, Scanning, Counting, Parsing
  <2>5. mem' \in [Cell -> Char \cup NumChar]
    BY <1>1, <1>3, <1>5, <2>1
  <2> QED
    BY <1>1, <2>1, <2>4, <2>5, GoesOn
<1>8. CASE n > 0 /\ ~(PlaceForNUL(n) /\ mem[s] # NUL)
  <2>1. /\ at' = "done" /\ ret' = s - S /\ mem' = [mem EXCEPT ![d] = NUL]
    BY <1>1, <1>2, <1>3, <1>8 DEF strlcpy, PlaceForNUL, D
  <2>2. s - S = Least(N - 1, StrLen(S)) /\ N > 0
    BY <1>1, <1>2, <1>3, <1>5, <1>8 DEF PlaceForNUL, Least
  <2>3. mem' = [CopiedTo(D, s - S) EXCEPT ![D + (s - S)] = NUL]
    BY <1>1, <2>1
  <2>4. Promise'
    BY <1>1, <1>6, <2>1, <2>2, <2>3 DEF Promise, Least
  <2>5. mem' \in [Cell -> Char \cup NumChar]
    BY <1>1, <2>1 DEF StringsAssumption
  <2> QED
    BY <1>1, <2>1, <2>4, <2>5, Returns
<1>9. CASE n = 0
  <2>1. N = 0 /\ s = S
    BY <1>1, <1>2, <1>9
  <2>2. at' = "done" /\ ret' = 0 /\ mem' = mem
    BY <1>9 DEF strlcpy, Return, PlaceForNUL
  <2>3. mem = m0
    <3>1. s - S = 0
      BY <1>2, <2>1
    <3> QED
      BY <1>1, <1>2, <3>1, NothingYet
  <2>4. Promise'
    BY <1>1, <1>6, <2>1, <2>2, <2>3 DEF Promise, Kept
  <2> QED
    BY <1>1, <2>2, <2>4, Returns
<1> QED
  BY <1>3, <1>7, <1>8, <1>9 DEF strlcpy, PlaceForNUL

(* strncpy() stays at the NUL of its source and pads.                      *)
LEMMA StrncpyKeeps ==
  ASSUME StringsAssumption, StrInv, strncpy
  PROVE  StrInv'
<1> DEFINE L == StrLen(S)
<1>1. /\ at = "strncpy" /\ call.f = at /\ call' = call
      /\ n \in 0..N /\ d = D + (N - n) /\ s = S + Least(N - n, L) /\ mem = PaddedTo(N - n)
      /\ mem \in [Cell -> Char \cup NumChar] /\ CallFacts
  BY Caller DEF strncpy, StrInv, LoopInv, Parsing, Copying, Store, Return
<1>2. /\ S \in Nat /\ D \in Nat /\ N \in Nat /\ StrEnd(S) \in Nat /\ S <= StrEnd(S)
      /\ L = StrEnd(S) - S /\ L \in Nat
      /\ MemSize \in Nat /\ Cell = 0 .. MemSize-1
  BY <1>1, CallNumbers
<1>3. /\ D + N <= MemSize /\ (D + N <= S \/ StrEnd(S) + 1 <= D)
      /\ StrEnd(S) \in Cell \/ (StrEnd(S) = MemSize /\ S + N <= MemSize)
  BY <1>1, CallBounds
<1>4. /\ m0' = m0 /\ D' = D /\ S' = S /\ N' = N /\ L' = L
      /\ \A k : PaddedTo(k)' = PaddedTo(k)
  BY <1>1, SameCall
<1>5. StrEnd(S) \in Cell => m0[StrEnd(S)] = NUL
  BY <1>1, CallNumbers
<1> HIDE DEF L
<1>6. PICK k \in Nat : k = N - n /\ k <= N
  BY <1>1, <1>2
<1>7. CASE n > 0
  <2>1. d \in Cell /\ s \in Cell /\ s <= StrEnd(S) /\ S <= s /\ (s < D \/ D + k <= s)
    BY <1>1, <1>2, <1>3, <1>6, <1>7 DEF Least
  <2>2. mem[s] = m0[s] /\ mem[s] \in Char \cup NumChar
    BY <1>1, <1>2, <1>6, <2>1, PadLeaves
  <2>3. m0[s] = NUL <=> s = StrEnd(S)
    BY <1>1, <2>1, AtNUL
  <2>4. m0[s] = IF k < L THEN m0[S + k] ELSE NUL
    BY <1>1, <1>2, <1>5, <1>6, <2>1, <2>3 DEF Least
  <2>5. /\ at' = at /\ d' = d + 1 /\ s' = s + (IF mem[s] = NUL THEN 0 ELSE 1) /\ n' = n - 1
        /\ mem' = [mem EXCEPT ![d] = mem[s]]
    BY <1>1, <1>2, <1>7 DEF strncpy, Store
  <2>6. mem' = PaddedTo(k + 1)
    <3>1. [PaddedTo(k) EXCEPT ![D + k] = m0[s]] = PaddedTo(k + 1)
      BY <1>2, <2>4, PadGrows DEF L
    <3> QED
      BY <1>1, <1>6, <2>2, <2>5, <3>1
  <2>7. /\ n' \in 0..N /\ N - n' = k + 1 /\ d' = D + (k + 1)
        /\ s' = S + Least(k + 1, L)
    BY <1>1, <1>2, <1>6, <1>7, <2>1, <2>2, <2>3, <2>5 DEF Least
  <2>8. LoopInv'
    BY <1>1, <1>4, <2>5, <2>6, <2>7 DEF LoopInv, Parsing, Least, L
  <2>9. mem' \in [Cell -> Char \cup NumChar]
    BY <1>1, <2>2, <2>5
  <2> QED
    BY <1>1, <2>5, <2>8, <2>9, GoesOn
<1>8. CASE ~(n > 0)
  <2>1. at' = "done" /\ mem' = mem
    BY <1>8 DEF strncpy, Return
  <2>2. mem = PaddedTo(N)
    <3>1. N - n = N
      BY <1>1, <1>2, <1>8
    <3> QED
      BY <1>1, <3>1
  <2>3. Promise'
    BY <1>1, <1>4, <2>1, <2>2 DEF Promise
  <2> QED
    BY <1>1, <2>1, <2>3, Returns
<1> QED
  BY <1>7, <1>8

(* The conversion of a count to an int never makes it larger.              *)
LEMMA AsIntFacts ==
  ASSUME StringsAssumption, NEW k \in Nat
  PROVE  AsInt(k) \in Int /\ AsInt(k) <= k /\ (k < Power(2, IntBits-1) => AsInt(k) = k)
<1> DEFINE h == Power(2, IntBits-1)
           w == Power(2, IntBits)
<1>1. h \in Nat \ {0} /\ w = 2 * h
  <2>1. IntBits-1 \in Nat /\ (IntBits-1) + 1 = IntBits
    BY DEF StringsAssumption
  <2>2. /\ Power(2, IntBits-1) \in Nat \ {0}
        /\ Power(2, (IntBits-1) + 1) = 2 * Power(2, IntBits-1)
    BY <2>1, Powers
  <2> QED
    BY <2>1, <2>2
<1> HIDE DEF h, w
<1>2. AsInt(k) = IF k % w < h THEN k % w ELSE (k % w) - w
  BY DEF AsInt, h, w
<1>3. w \in Nat \ {0}
  BY <1>1
<1>4. k % w \in Nat /\ k % w <= k /\ (k < w => k % w = k)
  BY <1>3, Z3
<1> QED
  BY <1>1, <1>2, <1>3, <1>4 DEF h

(* memset() fills what the count, as an int, says.                         *)
LEMMA MemsetKeeps ==
  ASSUME StringsAssumption, StrInv, memset
  PROVE  StrInv'
<1>1. /\ at = "memset" /\ call.f = at /\ call' = call
      /\ s = S /\ d \in D .. D+N /\ mem = Filled(d - D)
      /\ mem \in [Cell -> Char \cup NumChar] /\ CallFacts
  BY Caller DEF memset, StrInv, LoopInv, Parsing, Copying, Store, Return
<1>2. S \in Nat /\ D \in Nat /\ N \in Nat /\ call.c \in Char \cup NumChar
  BY <1>1, CallNumbers DEF CallFacts
<1>3. /\ D' = D /\ S' = S /\ N' = N /\ \A k : Filled(k)' = Filled(k)
  BY <1>1, SameCall
<1>4. PICK k \in Nat : k = d - D /\ d = D + k /\ k <= N
  BY <1>1, <1>2
<1>5. AsInt(N) \in Int /\ AsInt(N) <= N /\ (N < Power(2, IntBits-1) => AsInt(N) = N)
  BY <1>2, AsIntFacts
<1>6. CASE AsInt(N) - k > 0
  <2>1. /\ at' = at /\ d' = d + 1 /\ s' = s /\ mem' = [mem EXCEPT ![d] = call.c]
    BY <1>1, <1>2, <1>4, <1>6 DEF memset, Store, D, N
  <2>2. mem' = Filled(k + 1)
    <3>1. [Filled(k) EXCEPT ![D + k] = call.c] = Filled(k + 1)
      BY <1>2, FillGrows
    <3> QED
      BY <1>1, <1>4, <2>1, <3>1
  <2>3. d' \in D .. D+N /\ d' - D = k + 1
    BY <1>2, <1>4, <1>5, <1>6, <2>1
  <2>4. LoopInv'
    BY <1>1, <1>3, <2>1, <2>2, <2>3 DEF LoopInv, Parsing
  <2>5. mem' \in [Cell -> Char \cup NumChar]
    BY <1>1, <1>2, <2>1
  <2> QED
    BY <1>1, <2>1, <2>4, <2>5, GoesOn
<1>7. CASE ~(AsInt(N) - k > 0)
  <2>1. at' = "done" /\ mem' = mem
    BY <1>4, <1>7 DEF memset, Return, D, N
  <2>2. N < Power(2, IntBits-1) => d - D = N
    BY <1>2, <1>4, <1>5, <1>7
  <2>3. Promise'
    BY <1>1, <1>3, <2>1, <2>2 DEF Promise
  <2> QED
    BY <1>1, <2>1, <2>3, Returns
<1> QED
  BY <1>6, <1>7

(* memmove() and memcpy(): what they promise is MoveInv's affair.          *)
LEMMA MovesKeep ==
  ASSUME StringsAssumption, StrInv, MoveInv, memmove \/ memcpy \/ CopyUp \/ CopyDown
  PROVE  StrInv'
<1>1. /\ at \in Copying /\ Moving /\ call' = call /\ CallFacts
      /\ mem \in [Cell -> Char \cup NumChar] /\ at' \in Copying \cup {"done"}
  BY DEF memmove, memcpy, CopyUp, CopyDown, StrInv, Where, Moving, Copying, Store, Return,
     GoOnAt, Function, TakesChar, CallFacts, Parsing
<1>2. mem' \in [Cell -> Char \cup NumChar]
  <2>1. CASE memmove \/ memcpy
    BY <1>1, <2>1 DEF memmove, memcpy, GoOnAt
  <2>2. CASE CopyUp
    <3>1. n > 0 => s \in Cell
      <4>1. CallOK /\ GoingUp
        BY <1>1, <2>2 DEF CopyUp, MoveInv
      <4> QED
        BY <4>1 DEF CallOK, GoingUp, Cell
    <3> QED
      BY <1>1, <2>2, <3>1 DEF CopyUp, Store, Return
  <2>3. CASE CopyDown
    <3>1. n > 0 => s-1 \in Cell
      <4>1. CallOK /\ GoingDown
        BY <1>1, <2>3 DEF CopyDown, MoveInv
      <4> QED
        BY <4>1 DEF CallOK, GoingDown, Cell
    <3> QED
      BY <1>1, <2>3, <3>1 DEF CopyDown, Store, Return
  <2> QED
    BY <2>1, <2>2, <2>3
<1>3. CallFacts' /\ Moving'
  BY <1>1, SameCall
<1>4. Where' /\ LoopInv' /\ Promise'
  BY <1>1, <1>3 DEF Where, LoopInv, Promise, Moving, Copying, Parsing
<1> QED
  BY <1>2, <1>3, <1>4 DEF StrInv

(* strtol() stops at the NUL, for 99 is no digit of its base.              *)
LEMMA ParsingKeeps ==
  ASSUME StringsAssumption, StrInv, strtol \/ SignOf \/ BasePrefix \/ Digits
  PROVE  StrInv'
<1>1. /\ at \in Parsing /\ call.f = "strtol" /\ mem = m0 /\ call' = call /\ mem' = mem
      /\ s \in 0 .. StrEnd(0) /\ n \in 0..99
      /\ mem \in [Cell -> Char \cup NumChar] /\ CallFacts
  BY Caller DEF strtol, SignOf, BasePrefix, Digits, StrInv, LoopInv, Kept, Parsing,
     Move, GoOnAt, Return
<1>2. S = 0 /\ StrEnd(0) \in Cell /\ StrEnd(0) \in Nat /\ Cell = 0 .. MemSize-1 /\ MemSize \in Nat
  BY <1>1, CallNumbers, CallBounds DEF CallFacts
<1>3. \A x \in 0 .. StrEnd(0) : m0[x] = NUL <=> x = StrEnd(0)
  BY <1>1, <1>2, AtNUL
<1>4. m0' = m0 /\ StrEnd(0)' = StrEnd(0) /\ CallFacts'
  BY <1>1, SameCall
<1>5. at' \in Parsing \cup {"done"} /\ s' \in 0 .. StrEnd(0) /\ n' \in 0..99
  <2>1. CASE strtol
    <3>1. mem[s] \in Space => s # StrEnd(0)
      BY <1>1, <1>3 DEF Space, NUL
    <3>2. \/ mem[s] \in Space /\ at' = at /\ s' = s + 1 /\ n' = n
          \/ at' = "sign" /\ s' = s /\ n' = n
      BY <1>1, <1>2, <2>1 DEF strtol, Move, GoOnAt
    <3>3. s' \in 0 .. StrEnd(0)
      BY <1>1, <1>2, <3>1, <3>2
    <3>4. at' \in Parsing \cup {"done"} /\ n' \in 0..99
      BY <1>1, <3>2 DEF Parsing
    <3> QED
      BY <3>3, <3>4
  <2>2. CASE SignOf
    <3>1. mem[s] \in {Plus, Minus} => s # StrEnd(0)
      BY <1>1, <1>3 DEF Plus, Minus, NUL
    <3> QED
      BY <1>1, <1>2, <2>2, <3>1 DEF SignOf, Parsing
  <2>3. CASE BasePrefix
    <3>1. mem[s] = Zero => s # StrEnd(0)
      BY <1>1, <1>3 DEF Zero, NUL
    <3>2. HexPrefix => s+1 # StrEnd(0)
      BY <1>1, <1>2, <1>3 DEF HexPrefix, LowerX, NUL
    <3>3. /\ n' \in 0..99 /\ at' = "digits"
          /\ \/ HexPrefix /\ s' = s+2
             \/ mem[s] = Zero /\ s' = s+1
             \/ s' = s
      BY <1>1, <2>3 DEF BasePrefix
    <3> QED
      BY <1>1, <1>2, <3>1, <3>2, <3>3 DEF Parsing, HexPrefix
  <2>4. CASE Digits
    <3>1. DigitOfBase(mem[s]) => s # StrEnd(0)
      <4>1. Digit(NUL) = 99
        BY DEF Digit, NUL
      <4> QED
        BY <1>1, <1>3, <4>1 DEF DigitOfBase
    <3>2. \/ DigitOfBase(mem[s]) /\ at' = at /\ s' = s + 1 /\ n' = n
          \/ at' = "done" /\ s' = s /\ n' = n
      BY <2>4 DEF Digits, Return
    <3>3. s' \in 0 .. StrEnd(0)
      BY <1>1, <1>2, <3>1, <3>2
    <3>4. at' \in Parsing \cup {"done"} /\ n' \in 0..99
      BY <1>1, <3>2 DEF Parsing
    <3> QED
      BY <3>3, <3>4
  <2> QED
    BY <2>1, <2>2, <2>3, <2>4
<1>6. Where' /\ LoopInv' /\ Promise'
  BY <1>1, <1>4, <1>5 DEF Where, LoopInv, Promise, Kept, Parsing
<1> QED
  BY <1>1, <1>4, <1>6 DEF StrInv
-----------------------------------------------------------------------------
(* Calls begin with nothing done.                                          *)
LEMMA InitStrInv == ASSUME StringsAssumption, Init PROVE StrInv
<1>1. CASE \E m \in [Cell -> NumChar], base \in Bases :
             IsString(m, 0) /\ Called("strtol", m, 0, 0, base, NUL)
  <2>1. PICK m \in [Cell -> NumChar], base \in Bases :
               IsString(m, 0) /\ Called("strtol", m, 0, 0, base, NUL)
    BY <1>1
  <2>2. /\ call.f = "strtol" /\ m0 = m /\ D = 0 /\ S = 0 /\ N = base /\ call.c = NUL
        /\ mem = m /\ at = "strtol" /\ s = 0 /\ n = base
    BY <2>1 DEF Called, D, S, N, m0
  <2>3. base \in 0..99 /\ 0 \in Cell /\ NUL \in Char
    BY DEF StringsAssumption, Cell
  <2>4. CallFacts
    BY <2>1, <2>2, <2>3 DEF CallFacts
  <2>5. LoopInv
    <3>1. StrEnd(0) \in Nat
      BY <2>2, <2>4, CallNumbers
    <3> QED
      BY <2>2, <2>3, <3>1 DEF LoopInv, Kept, Parsing
  <2>6. Where
    BY <2>2 DEF Where, Parsing
  <2>7. mem \in [Cell -> Char \cup NumChar]
    BY <2>1, <2>2
  <2> QED
    BY <2>2, <2>4, <2>5, <2>6, <2>7 DEF StrInv
<1>2. CASE \E m \in [Cell -> Char], p, q \in Cell, k \in 0..MemSize, f \in Function :
             /\ Defined(f, m, p, q, k)
             /\ \E c \in IF f \in TakesChar THEN Char ELSE {NUL} : Called(f, m, p, q, k, c)
  <2>1. PICK m \in [Cell -> Char], p \in Cell, q \in Cell, k \in 0..MemSize,
             f \in Function, c \in Char :
               Defined(f, m, p, q, k) /\ Called(f, m, p, q, k, c)
    BY <1>2 DEF StringsAssumption
  <2>2. /\ call.f = f /\ m0 = m /\ D = p /\ S = q /\ N = k /\ call.c = c
        /\ mem = m /\ at = f /\ d = D /\ s = S /\ n = N
    BY <2>1 DEF Called, D, S, N, m0
  <2>3. f # "strtol" /\ f # "done" /\ f \notin Parsing
    BY <2>1 DEF Function, TakesChar, Parsing
  <2>4. MemSize \in Nat
    BY DEF StringsAssumption
  <2>5. CallFacts
    BY <2>1, <2>2, <2>3, <2>4 DEF CallFacts
  <2>6. LoopInv
    <3>1. /\ S \in Nat /\ D \in Nat /\ N \in Nat /\ StrEnd(S) \in Nat /\ S <= StrEnd(S)
          /\ StrEnd(D) \in Nat /\ D <= StrEnd(D) /\ StrLen(S) \in Nat
      BY <2>5, CallNumbers
    <3>2. /\ Kept /\ Scanning /\ Counting /\ NotYet /\ SameSoFar
          /\ d <= StrEnd(D) /\ d \in D .. StrEnd(D) /\ d \in D .. D+N
      BY <2>2, <3>1 DEF Kept, Scanning, Counting, NotYet, SameSoFar
    <3>3. f = "strcpy" => CopyStart = D
      BY <2>2 DEF CopyStart
    <3>4. /\ mem = CopiedTo(D, s - S) /\ mem = PaddedTo(N - n) /\ mem = Filled(d - D)
          /\ d = D + (s - S) /\ d = D + (N - n) /\ s = S + Least(N - n, StrLen(S))
      <4>1. s - S = 0 /\ N - n = 0 /\ d - D = 0 /\ Least(0, StrLen(S)) = 0
        BY <2>2, <3>1 DEF Least
      <4>2. mem = CopiedTo(D, 0) /\ mem = PaddedTo(0) /\ mem = Filled(0)
        BY <2>2, <2>5, <3>1, NothingYet
      <4> QED
        BY <2>2, <3>1, <4>1, <4>2
    <3>5. n \in 0..N /\ (N > 0 => n > 0)
      BY <2>2, <3>1
    <3> QED
      BY <2>2, <2>3, <3>2, <3>3, <3>4, <3>5 DEF LoopInv
  <2>7. Where
    BY <2>1, <2>2, <2>3 DEF Where, Moving, Copying
  <2>8. mem \in [Cell -> Char \cup NumChar]
    BY <2>1, <2>2
  <2> QED
    BY <2>2, <2>3, <2>5, <2>6, <2>7, <2>8 DEF StrInv
<1> QED
  BY <1>1, <1>2 DEF Init

(* Every step keeps the invariant.                                         *)
LEMMA StepStrInv ==
  ASSUME StringsAssumption, StrInv, MoveInv, [Next]_vars
  PROVE  StrInv'
<1>1. CASE UNCHANGED vars
  <2>1. call' = call
    BY <1>1 DEF vars
  <2>2. /\ UNCHANGED <<mem, at, d, s, n, ret>>
    BY <1>1 DEF vars
  <2>3. CASE at = "done"
    <3>1. Promise'
      BY <2>1, <2>2, <2>3, SameCall, SameFirst DEF StrInv, Promise, Kept, Least
    <3> QED
      BY <2>1, <2>2, <2>3, <3>1, Returns DEF StrInv
  <2>4. CASE at # "done"
    <3>1. LoopInv'
      BY <2>1, <2>2, SameCall
         DEF StrInv, LoopInv, Kept, Scanning, Counting, NotYet, SameSoFar, Parsing, Least
    <3> QED
      BY <2>1, <2>2, <2>4, <3>1, GoesOn DEF StrInv
  <2> QED
    BY <2>3, <2>4
<1> QED
  BY <1>1, StrlenKeeps, StrnlenKeeps, StrchrKeeps, MemfindKeeps, MemcmpKeeps, StrcmpKeeps,
     StrncmpKeeps, StrcatKeeps, StrcpyKeeps, StrlcpyKeeps, StrncpyKeeps, MemsetKeeps,
     MovesKeep, ParsingKeeps DEF Next

-----------------------------------------------------------------------------
(* strtol(): what has been read of the number so far.                      *)
SignIs == IF m0[SignAt] = Minus THEN -1 ELSE 1

ParseInv ==
  call.f = "strtol" =>
    /\ at \in {"strtol", "sign"} => s \in 0 .. SignAt
    /\ at = "sign" => s = SignAt
    /\ at = "prefix" => s = Body /\ d = SignIs
    /\ at \in {"strtol", "sign", "prefix"} => n = N /\ ret = 0
    /\ at = "digits" => /\ s \in Leading .. Stop /\ n = BaseOf /\ d = SignIs
                        /\ ret = ValueOf(s, BaseOf, s - Leading)
    /\ at = "done" => ret = Number.value /\ s = Number.stop

(* It is the same number as long as the call is the same.                  *)
LEMMA SameNumber ==
  ASSUME call' = call
  PROVE  /\ SignAt' = SignAt /\ Body' = Body /\ BaseOf' = BaseOf /\ Leading' = Leading
         /\ Stop' = Stop /\ SignIs' = SignIs /\ Number' = Number /\ N' = N
         /\ \A i, base, k : ValueOf(i, base, k)' = ValueOf(i, base, k)
<1>1. m0' = m0 /\ N' = N
  BY DEF m0, N
<1>2. SignAt' = SignAt
  BY <1>1 DEF SignAt
<1>3. Body' = Body /\ SignIs' = SignIs
  BY <1>1, <1>2 DEF Body, SignIs
<1>4. Hex' = Hex
  BY <1>1, <1>3 DEF Hex
<1>5. BaseOf' = BaseOf /\ Leading' = Leading
  BY <1>1, <1>3, <1>4 DEF BaseOf, Leading
<1>6. Stop' = Stop
  BY <1>1, <1>5 DEF Stop
<1>7. \A i, base, k : ValueOf(i, base, k)' = ValueOf(i, base, k)
  BY <1>1 DEF ValueOf
<1>8. Number' = Number
  BY <1>1, <1>2, <1>5, <1>6, <1>7 DEF Number
<1> QED
  BY <1>1, <1>2, <1>3, <1>5, <1>6, <1>7, <1>8

(* Where the parts of the number are.  The string ends, and its end is no  *)
(* blank, no sign and no digit.                                            *)
LEMMA NumberFacts ==
  ASSUME StringsAssumption, CallFacts, call.f = "strtol"
  PROVE  /\ SignAt \in 0 .. StrEnd(0) /\ m0[SignAt] \notin Space
         /\ \A i \in Cell : m0[i] \notin Space => SignAt <= i
         /\ BaseOf \in 1..99 /\ Body \in Nat
         /\ Leading \in 0 .. StrEnd(0) /\ Stop \in Leading .. StrEnd(0)
         /\ Digit(m0[Stop]) >= BaseOf
         /\ \A i \in Cell : i >= Leading /\ Digit(m0[i]) >= BaseOf => Stop <= i
<1>1. /\ S = 0 /\ StrEnd(0) \in Cell /\ Cell = 0 .. MemSize-1 /\ MemSize \in Nat
      /\ StrEnd(0) \in Nat /\ N \in 0..99
  BY CallNumbers, CallBounds DEF CallFacts
<1>2. m0[StrEnd(0)] = NUL /\ \A i \in 0 .. StrEnd(0) : m0[i] = NUL <=> i = StrEnd(0)
  BY <1>1, CallNumbers
<1>3. /\ SignAt \in Cell /\ m0[SignAt] \notin Space
      /\ \A i \in Cell : m0[i] \notin Space => SignAt <= i
  <2> DEFINE T == {i \in Cell : m0[i] \notin Space}
  <2>1. StrEnd(0) \in T
    BY <1>1, <1>2 DEF Space, NUL
  <2>2. T \in SUBSET Nat /\ T # {}
    BY <1>1, <2>1
  <2>3. Min(T) \in T /\ \A i \in T : Min(T) <= i
    <3> HIDE DEF T
    <3> QED
      BY <2>2, MinFacts
  <2>4. SignAt = Min(T)
    BY DEF SignAt
  <2> QED
    BY <2>3, <2>4
<1>4. SignAt \in 0 .. StrEnd(0)
  BY <1>1, <1>2, <1>3 DEF Space, NUL
<1>5. Body \in 0 .. StrEnd(0)
  <2>1. m0[SignAt] \in {Plus, Minus} => SignAt # StrEnd(0)
    BY <1>2 DEF Plus, Minus, NUL
  <2> QED
    BY <1>1, <1>4, <2>1 DEF Body
<1>6. Hex => Body + 2 <= StrEnd(0)
  <2>1. Hex => Body # StrEnd(0)
    BY <1>2 DEF Hex, Zero, NUL
  <2>2. Hex => Body + 1 # StrEnd(0)
    BY <1>2 DEF Hex, LowerX, NUL
  <2> QED
    BY <1>1, <1>5, <2>1, <2>2
<1>7. Leading \in 0 .. StrEnd(0)
  BY <1>1, <1>5, <1>6 DEF Leading
<1>8. BaseOf \in 1..99
  BY <1>1 DEF BaseOf, N
<1>9. /\ Stop \in Cell /\ Stop >= Leading /\ Digit(m0[Stop]) >= BaseOf
      /\ \A i \in Cell : i >= Leading /\ Digit(m0[i]) >= BaseOf => Stop <= i
  <2> DEFINE T == {i \in Cell : i >= Leading /\ Digit(m0[i]) >= BaseOf}
  <2>1. Digit(NUL) = 99
    BY DEF Digit, NUL
  <2>2. StrEnd(0) \in T
    BY <1>1, <1>2, <1>7, <1>8, <2>1
  <2>3. T \in SUBSET Nat /\ T # {}
    BY <1>1, <2>2
  <2>4. Min(T) \in T /\ \A i \in T : Min(T) <= i
    <3> HIDE DEF T
    <3> QED
      BY <2>3, MinFacts
  <2>5. Stop = Min(T)
    BY DEF Stop
  <2> QED
    BY <2>4, <2>5
<1>10. Stop <= StrEnd(0)
  <2>1. Digit(m0[StrEnd(0)]) = 99
    BY <1>2 DEF Digit, NUL
  <2> QED
    BY <1>1, <1>7, <1>8, <1>9, <2>1
<1> QED
  BY <1>1, <1>3, <1>4, <1>5, <1>7, <1>8, <1>9, <1>10

(* At the call nothing of the number has been read.                        *)
LEMMA InitParseInv == ASSUME StringsAssumption, Init PROVE ParseInv
<1>1. ASSUME call.f = "strtol" PROVE at = "strtol" /\ s = 0 /\ n = N /\ ret = 0
  <2>1. \A f \in Function : f # "strtol"
    BY DEF Function, TakesChar
  <2> QED
    BY <1>1, <2>1 DEF Init, Called, N
<1>2. ASSUME call.f = "strtol" PROVE SignAt \in Nat
  BY <1>2, InitStrInv, NumberFacts DEF StrInv
<1> QED
  BY <1>1, <1>2 DEF ParseInv

(* Every step reads on from where the number has been read to.             *)
LEMMA StepParseInv ==
  ASSUME StringsAssumption, StrInv, ParseInv, [Next]_vars
  PROVE  ParseInv'
<1> SUFFICES ASSUME call.f = "strtol" PROVE ParseInv'
  BY CallStays DEF ParseInv
<1>1. /\ call' = call /\ CallFacts /\ at \in Parsing \cup {"done"}
  BY CallStays DEF StrInv, Where
<1>2. /\ at \in Parsing => mem = m0 /\ s \in 0 .. StrEnd(0)
      /\ S = 0 /\ StrEnd(0) \in Cell /\ Cell = 0 .. MemSize-1 /\ MemSize \in Nat
  BY <1>1, CallNumbers, CallBounds DEF StrInv, LoopInv, Kept, CallFacts
<1>3. /\ SignAt \in 0 .. StrEnd(0) /\ m0[SignAt] \notin Space
      /\ \A i \in Cell : m0[i] \notin Space => SignAt <= i
      /\ BaseOf \in 1..99 /\ Body \in Nat
      /\ Leading \in 0 .. StrEnd(0) /\ Stop \in Leading .. StrEnd(0)
      /\ Digit(m0[Stop]) >= BaseOf
      /\ \A i \in Cell : i >= Leading /\ Digit(m0[i]) >= BaseOf => Stop <= i
  BY <1>1, NumberFacts
<1>4. /\ SignAt' = SignAt /\ Body' = Body /\ BaseOf' = BaseOf /\ Leading' = Leading
      /\ Stop' = Stop /\ SignIs' = SignIs /\ Number' = Number /\ N' = N
      /\ \A i, base, k : ValueOf(i, base, k)' = ValueOf(i, base, k)
  BY <1>1, SameNumber
<1>5. CASE strtol
  <2>1. at = "strtol" /\ mem = m0 /\ s \in 0 .. SignAt /\ n = N /\ ret = 0
    BY <1>2, <1>5 DEF strtol, ParseInv, Parsing
  <2>2. CASE mem[s] \in Space
    <3>1. /\ at' = "strtol" /\ s' = s + 1 /\ n' = n + 0 /\ ret' = ret
      BY <1>5, <2>1, <2>2 DEF strtol, Move
    <3>2. s # SignAt
      BY <1>3, <2>1, <2>2
    <3>3. s' \in 0 .. SignAt /\ n' = N
      BY <1>1, <1>3, <2>1, <3>1, <3>2 DEF CallFacts
    <3> QED
      BY <1>1, <1>4, <2>1, <3>1, <3>3 DEF ParseInv
  <2>3. CASE mem[s] \notin Space
    <3>1. at' = "sign" /\ s' = s /\ n' = n /\ ret' = ret
      BY <1>5, <2>3 DEF strtol, GoOnAt
    <3>2. s = SignAt
      <4>1. s \in Cell
        BY <1>2, <1>3, <2>1
      <4>2. SignAt <= s
        BY <1>3, <2>1, <2>3, <4>1
      <4> QED
        BY <1>2, <1>3, <2>1, <4>2
    <3> QED
      BY <1>1, <1>3, <1>4, <2>1, <3>1, <3>2 DEF ParseInv
  <2> QED
    BY <2>2, <2>3
<1>6. CASE SignOf
  <2>1. at = "sign" /\ mem = m0 /\ s = SignAt /\ n = N /\ ret = 0
    BY <1>2, <1>6 DEF SignOf, ParseInv, Parsing
  <2>2. at' = "prefix" /\ s' = Body /\ d' = SignIs /\ n' = n /\ ret' = ret
    BY <1>6, <2>1 DEF SignOf, Body, SignIs
  <2> QED
    BY <1>1, <1>4, <2>1, <2>2 DEF ParseInv
<1>7. CASE BasePrefix
  <2>1. at = "prefix" /\ mem = m0 /\ s = Body /\ d = SignIs /\ n = N /\ ret = 0
    BY <1>2, <1>7 DEF BasePrefix, ParseInv, Parsing
  <2>2. at' = "digits" /\ d' = SignIs /\ ret' = 0
    BY <1>7, <2>1 DEF BasePrefix
  <2>3. Hex <=> N \in {0, 16} /\ HexPrefix
    BY <2>1 DEF Hex, HexPrefix, N
  <2>4. /\ n' = BaseOf
        /\ \/ s' = Leading
           \/ s' = Leading + 1 /\ m0[Leading] = Zero /\ BaseOf = 8
    <3>1. CASE n \in {0, 16} /\ HexPrefix /\ s' = s + 2 /\ n' = 16
      BY <2>1, <2>3, <3>1 DEF BaseOf, Leading
    <3>2. CASE n = 0 /\ ~HexPrefix /\ mem[s] = Zero /\ s' = s + 1 /\ n' = 8
      BY <2>1, <2>3, <3>2 DEF BaseOf, Leading, N
    <3>3. CASE n = 0 /\ mem[s] # Zero /\ n' = 10 /\ UNCHANGED s
      BY <2>1, <2>3, <3>3 DEF BaseOf, Leading, N, HexPrefix
    <3>4. CASE n # 0 /\ ~(n = 16 /\ HexPrefix) /\ UNCHANGED <<n, s>>
      BY <2>1, <2>3, <3>4 DEF BaseOf, Leading, N
    <3> QED
      BY <1>7, <3>1, <3>2, <3>3, <3>4 DEF BasePrefix
  <2>5. s' \in Leading .. Stop /\ ValueOf(s', BaseOf, s' - Leading) = 0
    <3>1. BaseOf \in Nat \ {0} /\ Leading \in Nat /\ Stop \in Nat /\ Leading <= Stop
      BY <1>2, <1>3
    <3>2. CASE s' = Leading
      <4>1. ValueOf(Leading, BaseOf, 0) = 0
        BY <3>1, ValueFacts
      <4>2. Leading - Leading = 0
        BY <3>1
      <4> QED
        BY <3>1, <3>2, <4>1, <4>2
    <3>3. CASE s' = Leading + 1 /\ m0[Leading] = Zero /\ BaseOf = 8
      <4>1. Digit(m0[Leading]) = 0
        BY <3>3 DEF Digit, Zero
      <4>2. Leading # Stop
        BY <1>3, <3>3, <4>1
      <4>3. ValueOf(Leading + 1, BaseOf, 0 + 1) = ValueOf(Leading, BaseOf, 0) * BaseOf + 0
        BY <3>1, <4>1, OneMoreDigit
      <4>4. ValueOf(Leading, BaseOf, 0) = 0
        BY <3>1, ValueFacts
      <4>5. (Leading + 1) - Leading = 0 + 1
        BY <3>1
      <4> QED
        BY <3>1, <3>3, <4>2, <4>3, <4>4, <4>5
    <3> QED
      BY <2>4, <3>2, <3>3
  <2> QED
    BY <1>1, <1>4, <2>2, <2>4, <2>5 DEF ParseInv
<1>8. CASE Digits
  <2>1. /\ at = "digits" /\ mem = m0 /\ s \in Leading .. Stop /\ n = BaseOf /\ d = SignIs
        /\ ret = ValueOf(s, BaseOf, s - Leading)
    BY <1>2, <1>8 DEF Digits, ParseInv, Parsing
  <2>2. /\ s \in Cell /\ s \in Nat /\ s - Leading \in Nat /\ Leading \in Nat
        /\ BaseOf \in Nat \ {0} /\ Stop \in Nat /\ Digit(m0[s]) \in Nat
    <3>1. /\ Leading \in Nat /\ Stop \in Nat /\ Stop <= StrEnd(0) /\ StrEnd(0) \in 0 .. MemSize-1
          /\ MemSize \in Nat /\ BaseOf \in Nat \ {0}
      BY <1>2, <1>3
    <3>2. s \in Nat /\ Leading <= s /\ s <= MemSize-1
      BY <2>1, <3>1
    <3>3. Digit(m0[s]) \in Nat
      BY DigitNumber
    <3> QED
      BY <1>2, <3>1, <3>2, <3>3
  <2>3. CASE Digit(m0[s]) < BaseOf
    <3>1. at' = at /\ ret' = ret * n + Digit(m0[s]) /\ s' = s + 1 /\ n' = n /\ d' = d
      BY <1>8, <2>1, <2>3 DEF Digits, DigitOfBase
    <3>2. s # Stop
      BY <1>3, <2>2, <2>3
    <3>3. s' \in Leading .. Stop /\ s' - Leading = (s - Leading) + 1
      BY <2>1, <2>2, <3>1, <3>2
    <3>4. ValueOf(s + 1, BaseOf, (s - Leading) + 1)
            = ValueOf(s, BaseOf, s - Leading) * BaseOf + Digit(m0[s])
      BY <2>2, OneMoreDigit
    <3>5. ret' = ValueOf(s', BaseOf, s' - Leading)
      BY <2>1, <3>1, <3>3, <3>4
    <3> QED
      BY <1>1, <1>4, <2>1, <3>1, <3>3, <3>5 DEF ParseInv
  <2>4. CASE ~(Digit(m0[s]) < BaseOf)
    <3>1. at' = "done" /\ ret' = d * ret /\ s' = s
      BY <1>8, <2>1, <2>4 DEF Digits, DigitOfBase, Return
    <3>2. s = Stop
      <4>1. Stop <= s
        BY <1>3, <2>1, <2>2, <2>4
      <4> QED
        BY <2>1, <2>2, <4>1
    <3>3. ret \in Nat /\ ret = ValueOf(Stop, BaseOf, Stop - Leading)
      BY <2>1, <2>2, <3>2, ValueFacts
    <3>4. d * ret = IF m0[SignAt] = Minus THEN -ret ELSE ret
      BY <2>1, <3>3 DEF SignIs
    <3>5. ret' = Number.value /\ s' = Number.stop
      BY <3>1, <3>2, <3>3, <3>4 DEF Number
    <3> QED
      BY <1>1, <1>4, <3>1, <3>5 DEF ParseInv
  <2> QED
    BY <2>3, <2>4
<1>9. CASE UNCHANGED vars
  BY <1>1, <1>4, <1>9 DEF vars, ParseInv
<1>10. \/ strtol \/ SignOf \/ BasePrefix \/ Digits \/ UNCHANGED vars
  BY <1>1 DEF Next, Parsing, strlen, strnlen, strcpy, strcat, strncpy, strlcpy, strcmp, strncmp,
     strchr, strfind, memset, memmove, CopyDown, CopyUp, memcpy, memcmp, memfind
<1> QED
  BY <1>5, <1>6, <1>7, <1>8, <1>9, <1>10
-----------------------------------------------------------------------------
(* The inductive invariant holds throughout.                               *)
THEOREM StringsInvariant ==
  ASSUME StringsAssumption
  PROVE  Spec => [](StrInv /\ MoveInv /\ ParseInv)
BY InitStrInv, InitMoveInv, InitParseInv, StepStrInv, StepMoveInv, StepParseInv, PTL DEF Spec

(* No function looks or writes beyond the end of the string or region it   *)
(* was given, for memories and strings of every size.                      *)
LEMMA InBounds ==
  ASSUME StringsAssumption, StrInv, MoveInv
  PROVE  TypeOK
<1>1. /\ CallFacts /\ MemSize \in Nat /\ Cell = 0 .. MemSize-1 /\ S \in Nat /\ D \in Nat
      /\ N \in Nat /\ D \in Cell /\ S \in Cell /\ mem \in [Cell -> Char \cup NumChar]
      /\ StrEnd(S) \in Nat /\ StrEnd(D) \in Nat /\ StrEnd(S) <= MemSize
      /\ StrEnd(D) <= MemSize /\ StrLen(S) = StrEnd(S) - S /\ StrLen(S) \in Nat
  BY CallNumbers DEF StrInv
<1>2. at \in Loop
  BY DEF StrInv, Where, Loop, Parsing, Copying, CallFacts, Function, TakesChar
<1>3. CASE at \in {"strlen", "strchr", "strfind", "strnlen", "memfind"}
  <2>1. call.f = at
    BY <1>3, Caller DEF Parsing, Copying
  <2>2. d = D /\ s \in Nat /\ s <= MemSize
    BY <1>1, <1>3, <2>1, CallBounds DEF StrInv, LoopInv, Scanning, Counting
  <2>3. at \in {"strlen", "strchr", "strfind"} => s \in Cell
    BY <1>1, <1>3, <2>1, CallBounds DEF StrInv, LoopInv, Scanning
  <2> QED
    BY <1>1, <1>2, <1>3, <2>2, <2>3 DEF TypeOK
<1>4. CASE at \in {"strcmp", "strncmp"}
  <2>1. call.f = at
    BY <1>4, Caller DEF Parsing, Copying
  <2>2. d \in Nat /\ d <= MemSize /\ s \in Nat /\ s <= StrEnd(S)
    BY <1>1, <1>4 DEF StrInv, LoopInv, Scanning, SameSoFar
  <2>3. at = "strcmp" => s \in Cell
    BY <1>1, <2>1, <2>2, CallBounds
  <2> QED
    BY <1>1, <1>2, <1>4, <2>2, <2>3 DEF TypeOK
<1>5. CASE at = "memcmp"
  <2>1. call.f = at
    BY <1>5, Caller DEF Parsing, Copying
  <2>2. n \in 0..N /\ s = S + (N - n) /\ d = D + (s - S)
        /\ D + N <= MemSize /\ S + N <= MemSize
    BY <1>1, <1>5, <2>1, CallBounds DEF StrInv, LoopInv, Counting, SameSoFar
  <2> QED
    BY <1>1, <1>2, <1>5, <2>2 DEF TypeOK
<1>6. CASE at \in {"strcat", "strcpy"}
  <2>1. call.f \in {"strcat", "strcpy"} /\ (at = "strcat" => call.f = "strcat")
    BY <1>6, Caller DEF Parsing, Copying
  <2>2. s \in Cell /\ d \in 0..MemSize
    <3>1. CASE at = "strcat"
      BY <1>1, <3>1 DEF StrInv, LoopInv
    <3>2. CASE at = "strcpy"
      <4>1. s \in S .. StrEnd(S) /\ d = CopyStart + (s - S)
        BY <3>2 DEF StrInv, LoopInv, Scanning
      <4>2. StrEnd(S) \in Cell
        BY <1>1, <2>1, CallBounds
      <4>3. CASE call.f = "strcpy"
        <5>1. D + StrLen(S) + 1 <= MemSize /\ CopyStart = D
          BY <1>1, <4>3, CallBounds DEF CopyStart
        <5> QED
          BY <1>1, <4>1, <4>2, <5>1
      <4>4. CASE call.f = "strcat"
        <5>1. StrEnd(D) + StrLen(S) + 1 <= MemSize /\ CopyStart = StrEnd(D)
          BY <1>1, <4>4, CallBounds DEF CopyStart
        <5> QED
          BY <1>1, <4>1, <4>2, <5>1
      <4> QED
        BY <2>1, <4>3, <4>4
    <3> QED
      BY <1>6, <3>1, <3>2
  <2> QED
    BY <1>1, <1>2, <1>6, <2>2 DEF TypeOK
<1>7. CASE at \in {"strncpy", "strlcpy", "memset"}
  <2>1. call.f = at
    BY <1>7, Caller DEF Parsing, Copying
  <2>2. D + N <= MemSize
    BY <1>1, <1>7, <2>1, CallBounds
  <2>3. d \in 0..MemSize /\ s \in 0..MemSize
    <3>1. CASE at = "strncpy"
      <4>1. n \in 0..N /\ d = D + (N - n) /\ s = S + Least(N - n, StrLen(S))
        BY <3>1 DEF StrInv, LoopInv
      <4> QED
        BY <1>1, <2>2, <4>1 DEF Least
    <3>2. CASE at = "strlcpy"
      <4>1. n \in 0..N /\ d = D + (s - S) /\ s = S + (N - n) /\ s \in S .. StrEnd(S)
        BY <3>2 DEF StrInv, LoopInv, Scanning, Counting
      <4> QED
        BY <1>1, <2>2, <4>1
    <3>3. CASE at = "memset"
      BY <1>1, <2>2, <3>3 DEF StrInv, LoopInv
    <3> QED
      BY <1>7, <3>1, <3>2, <3>3
  <2> QED
    BY <1>1, <1>2, <1>7, <2>3 DEF TypeOK
<1>8. CASE at \in Copying
  <2>1. Moving /\ at # "done"
    BY <1>8, Caller DEF Copying
  <2>2. /\ CallOK
        /\ \/ at \in {"memmove", "memcpy"} /\ NotBegun
           \/ at = "up" /\ GoingUp
           \/ at = "down" /\ GoingDown
    BY <2>1 DEF MoveInv
  <2>3. at \in {"memmove", "memcpy"} => d \in 0..MemSize /\ s \in 0..MemSize
    BY <2>2, <1>1 DEF NotBegun
  <2>4. at \in {"memmove", "up"} => n >= 0 /\ d + n <= MemSize /\ s + n <= MemSize
    BY <1>1, <2>2 DEF NotBegun, GoingUp, CallOK
  <2>5. at = "down" => n >= 0 /\ d - n >= 0 /\ s - n >= 0
    BY <1>1, <2>2 DEF GoingDown, CallOK
  <2> QED
    BY <1>1, <1>2, <1>8, <2>3, <2>4, <2>5 DEF TypeOK, Copying, Function, TakesChar
<1>9. CASE at \in Parsing
  <2>1. call.f = "strtol" /\ s \in 0 .. StrEnd(0)
    BY <1>9, Caller DEF StrInv, LoopInv
  <2>2. S = 0 /\ StrEnd(S) \in Cell
    BY <1>1, <2>1, CallBounds DEF CallFacts
  <2>3. s \in Cell
    BY <1>1, <2>1, <2>2
  <2> QED
    BY <1>1, <1>2, <1>9, <2>3 DEF TypeOK, Parsing, Function, TakesChar
<1>10. CASE at = "done"
  BY <1>1, <1>2, <1>10 DEF TypeOK, Function, TakesChar
<1> QED
  BY <1>2, <1>3, <1>4, <1>5, <1>6, <1>7, <1>8, <1>9, <1>10
     DEF Loop, Function, TakesChar, Copying, Parsing


(* What the loops promise is what the functions should do.                 *)
LEMMA PromiseIsEnough ==
  ASSUME StringsAssumption, CallFacts, Promise, ~Moving, call.f # "strtol"
  PROVE  Wanted
<1>1. /\ D = call.d /\ S = call.s /\ N = call.n /\ D \in Nat /\ S \in Nat /\ N \in Nat
      /\ StrLen(S) \in Nat /\ Cell = 0 .. MemSize-1 /\ MemSize \in Nat
  BY CallNumbers DEF D, S, N
<1>2. \A p, k : Copied(p, k) = CopiedTo(p, k)
  BY DEF Copied, CopiedTo, Source, S
<1>3. With(D, N, Padded) = PaddedTo(N)
  BY <1>1 DEF With, Padded, PaddedTo, Source
<1>4. With(D, N, SetChar) = Filled(N)
  BY <1>1 DEF With, Filled, SetChar
<1>5. \A l : CutAt(l) = [CopiedTo(D, l) EXCEPT ![D + l] = NUL]
  BY <1>1, <1>2 DEF CutAt
<1>6. CASE call.f \in {"strlen", "strnlen"}
  BY <1>1, <1>6, Zenon DEF Promise, Wanted, Kept
<1>7. CASE call.f \in {"strcpy", "strcat"}
  BY <1>1, <1>2, <1>7 DEF Promise, Wanted
<1>8. CASE call.f = "strncpy"
  BY <1>1, <1>3, <1>8 DEF Promise, Wanted
<1>9. CASE call.f = "strlcpy"
  BY <1>1, <1>5, <1>9 DEF Promise, Wanted, Kept
<1>10. CASE call.f \in {"strcmp", "strncmp", "memcmp"}
  BY <1>1, <1>10 DEF Promise, Wanted, Kept
<1>11. CASE call.f \in {"strchr", "strfind", "memfind"}
  BY <1>1, <1>11 DEF Promise, Wanted, Kept
<1>12. CASE call.f = "memset"
  BY <1>1, <1>4, <1>12 DEF Promise, Wanted
<1> QED
  BY <1>6, <1>7, <1>8, <1>9, <1>10, <1>11, <1>12 DEF CallFacts, Moving, Function, TakesChar

(* When memmove() or memcpy() is done, the destination holds what the      *)
(* source held at the call, and every other cell what it held.             *)
LEMMA MovedIsEnough ==
  ASSUME StringsAssumption, MoveInv, Moving, at = "done"
  PROVE  Wanted
<1>1. /\ mem = CopiedBetween(D, D + N)
      /\ D \in Nat /\ S \in Nat /\ N \in Nat /\ MemSize \in Nat
  BY DEF MoveInv, CallOK
<1>2. \A i \in Nat : Source(i) = call.mem[S + i]
  BY DEF Source, m0, S
<1>3. \A i \in Cell : /\ i \in Int
                       /\ i \in D .. (D + N)-1 => i - D \in Nat
  BY <1>1 DEF Cell
<1>4. mem = [i \in Cell |-> IF i \in D .. (D + N)-1 THEN call.mem[S + (i - D)]
                            ELSE call.mem[i]]
  BY <1>1 DEF CopiedBetween
<1>5. Copied(D, N) = [i \in Cell |-> IF i \in D .. (D + N)-1 THEN Source(i - D)
                                     ELSE call.mem[i]]
  BY <1>1 DEF Copied, m0
<1>6. mem = Copied(call.d, call.n)
  BY <1>2, <1>3, <1>4, <1>5 DEF D, N
<1> QED
  BY <1>6 DEF Wanted, Moving

(* What the invariant says of the results.                                 *)
LEMMA InvIsEnough ==
  ASSUME StringsAssumption, StrInv, MoveInv, ParseInv
  PROVE  DoesWhatItSays
<1>1. ASSUME at = "done" PROVE Wanted
  <2>1. CASE Moving
    BY <1>1, <2>1, MovedIsEnough
  <2>2. CASE ~Moving /\ call.f # "strtol"
    BY <1>1, <2>2, PromiseIsEnough DEF StrInv
  <2>3. CASE call.f = "strtol"
    <3>1. mem = m0 /\ ret = Number.value /\ s = Number.stop
      BY <1>1, <2>3 DEF StrInv, Promise, Kept, ParseInv
    <3> QED
      BY <2>3, <3>1 DEF Wanted
  <2> QED
    BY <2>1, <2>2, <2>3
<1> QED
  BY <1>1 DEF DoesWhatItSays
-----------------------------------------------------------------------------
(* The results.                                                            *)

(* Every function of string.c does what its name promises and touches      *)
(* nothing else, for memories, strings, counts and bases of every size.    *)
THEOREM AllDoWhatTheySay ==
  ASSUME StringsAssumption
  PROVE  Spec => []DoesWhatItSays
BY StringsInvariant, InvIsEnough, PTL

(* No function looks or writes beyond the end of the string or region it   *)
(* was given.                                                              *)
THEOREM StringsTypeOK == ASSUME StringsAssumption PROVE Spec => []TypeOK
BY StringsInvariant, InBounds, PTL
=============================================================================
