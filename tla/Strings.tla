------------------------------- MODULE Strings -------------------------------
(***************************************************************************)
(* The functions of lib/string.c, one turn of a loop per action, on a      *)
(* memory of characters; a pointer is an index into it.  A behaviour is    *)
(* one call.  `d', `s' and `n' are the parameters the loops move: dst (p)  *)
(* and src (q, s) and a count.                                             *)
(***************************************************************************)
EXTENDS Integers, FiniteSetsExt, Powers

CONSTANTS
  MemSize,   \* characters of memory
  Char,      \* what they may be; includes NUL
  IntBits,   \* width of an int
  NumChar, Bases   \* the text and the bases strtol() is called with

NUL == 0

StringsAssumption ==
  /\ MemSize \in Nat \ {0} /\ IntBits \in Nat \ {0}
  /\ Char \subseteq Nat /\ NumChar \subseteq Nat /\ NUL \in Char \cap NumChar
  /\ Bases \subseteq 0..99

Cell == 0 .. MemSize-1
NoChar == -1

VARIABLES
  call,      \* the function, its arguments and the memory it was called on
  mem,
  at,        \* the function or loop being executed, or "done"
  d, s, n,
  ret        \* what the call returned

vars == <<call, mem, at, d, s, n, ret>>
-----------------------------------------------------------------------------
(* Calls with defined behaviour: strings that end, or are longer than the  *)
(* count, regions inside the memory, no overlap except for memmove().      *)
End(m, p) == Min({i \in Cell : i >= p /\ m[i] = NUL} \cup {MemSize})
IsString(m, p) == \E i \in Cell : i >= p /\ m[i] = NUL
Length(m, p) == End(m, p) - p
Apart(p, k, q, l) == p + k <= q \/ q + l <= p
InMemory(p, k) == p + k <= MemSize
Bounded(m, p, k) == IsString(m, p) \/ InMemory(p, k)

Defined(f, m, p, q, k) ==
  /\ f \in {"strlen", "strchr", "strfind"} => IsString(m, q) /\ p = 0 /\ k = 0
  /\ f = "strnlen" => Bounded(m, q, k) /\ p = 0
  /\ f \in {"strncpy", "strlcpy"} =>
       Bounded(m, q, k) /\ InMemory(p, k) /\ Apart(p, k, q, Length(m, q) + 1)
  /\ f = "strcpy" =>
       /\ IsString(m, q) /\ InMemory(p, Length(m, q) + 1) /\ k = 0
       /\ Apart(p, Length(m, q) + 1, q, Length(m, q) + 1)
  /\ f = "strcat" =>
       /\ IsString(m, p) /\ IsString(m, q) /\ k = 0
       /\ InMemory(End(m, p), Length(m, q) + 1)
       /\ Apart(p, Length(m, p) + Length(m, q) + 1, q, Length(m, q) + 1)
  /\ f = "strcmp" => IsString(m, p) /\ IsString(m, q) /\ k = 0
  /\ f = "strncmp" => Bounded(m, p, k) /\ Bounded(m, q, k)
  /\ f \in {"memmove", "memcmp"} => InMemory(p, k) /\ InMemory(q, k)
  /\ f = "memcpy" => InMemory(p, k) /\ InMemory(q, k) /\ Apart(p, k, q, k)
  /\ f = "memset" => InMemory(p, k) /\ q = 0
  /\ f = "memfind" => InMemory(q, k) /\ p = 0

TakesChar == {"strchr", "strfind", "memset", "memfind"}
Function  == TakesChar \cup {"strlen", "strnlen", "strcpy", "strcat", "strncpy",
               "strlcpy", "strcmp", "strncmp", "memmove", "memcpy", "memcmp"}

Called(f, m, p, q, k, c) ==
  /\ call = [f |-> f, mem |-> m, d |-> p, s |-> q, n |-> k, c |-> c]
  /\ mem = m /\ at = f /\ d = p /\ s = q /\ n = k /\ ret = 0

Init ==
  \/ \E m \in [Cell -> Char], p, q \in Cell, k \in 0..MemSize, f \in Function :
       /\ Defined(f, m, p, q, k)
       /\ \E c \in IF f \in TakesChar THEN Char ELSE {NUL} : Called(f, m, p, q, k, c)
  \/ \E m \in [Cell -> NumChar], base \in Bases :
       IsString(m, 0) /\ Called("strtol", m, 0, 0, base, NUL)
-----------------------------------------------------------------------------
Move(dd, ds, dn) ==
  d' = d + dd /\ s' = s + ds /\ n' = n + dn /\ UNCHANGED <<call, mem, at, ret>>

Store(cell, c, dd, ds, dn) ==
  /\ mem' = [mem EXCEPT ![cell] = c]
  /\ d' = d + dd /\ s' = s + ds /\ n' = n + dn /\ UNCHANGED <<call, at, ret>>

Return(v) == at' = "done" /\ ret' = v /\ UNCHANGED <<call, mem, d, s, n>>

GoOnAt(loop) == at' = loop /\ UNCHANGED <<call, mem, d, s, n, ret>>

(* The count of strlen() and strnlen() is how far s has moved.             *)
strlen ==
  /\ at = "strlen"
  /\ IF mem[s] # NUL THEN Move(0, 1, 0) ELSE Return(s - call.s)

strnlen ==
  /\ at = "strnlen"
  /\ IF n > 0 /\ mem[s] # NUL THEN Move(0, 1, -1) ELSE Return(s - call.s)

strcpy ==
  /\ at = "strcpy"
  /\ mem' = [mem EXCEPT ![d] = mem[s]]
  /\ d' = d + 1 /\ s' = s + 1
  /\ at' = IF mem[s] = NUL THEN "done" ELSE at
  /\ UNCHANGED <<call, n, ret>>

strcat ==
  /\ at = "strcat"
  /\ IF mem[d] # NUL THEN Move(1, 0, 0) ELSE GoOnAt("strcpy")

strncpy ==
  /\ at = "strncpy"
  /\ IF n > 0 THEN Store(d, mem[s], 1, IF mem[s] = NUL THEN 0 ELSE 1, -1)
              ELSE Return(0)

(* strlcpy(): `size' keeps one place for the NUL.                          *)
NoPlaceForNUL(size) == size > 0
PlaceForNUL(size) == size > 1

strlcpy ==
  /\ at = "strlcpy"
  /\ \/ /\ PlaceForNUL(n) /\ mem[s] # NUL
        /\ Store(d, mem[s], 1, 1, -1)
     \/ /\ n > 0 /\ ~(PlaceForNUL(n) /\ mem[s] # NUL)
        /\ mem' = [mem EXCEPT ![d] = NUL]
        /\ at' = "done" /\ ret' = d - call.d
        /\ UNCHANGED <<call, d, s, n>>
     \/ n = 0 /\ Return(0)

SameChar == mem[d] = mem[s]
SameCharGoesOn == mem[d] # NUL /\ mem[d] = mem[s]

strcmp ==
  /\ at = "strcmp"
  /\ IF SameCharGoesOn THEN Move(1, 1, 0)
     ELSE Return(mem[d] - mem[s])

strncmp ==
  /\ at = "strncmp"
  /\ IF n > 0 /\ SameCharGoesOn THEN Move(1, 1, -1)
     ELSE Return(IF n = 0 THEN 0 ELSE mem[d] - mem[s])

strchr ==
  /\ at = "strchr"
  /\ IF mem[s] # NUL /\ mem[s] # call.c THEN Move(0, 1, 0)
     ELSE Return(IF mem[s] = NUL THEN NoChar ELSE s)

strfind ==
  /\ at = "strfind"
  /\ IF mem[s] # NUL /\ mem[s] # call.c THEN Move(0, 1, 0) ELSE Return(s)

(* memset() counts in an int: `done' bytes are set when m has been         *)
(* decremented that often.                                                 *)
AsInt(k) ==
  LET low == k % Power(2, IntBits)
  IN  IF low < Power(2, IntBits-1) THEN low ELSE low - Power(2, IntBits)
memset ==
  /\ at = "memset"
  /\ IF AsInt(call.n) - (d - call.d) > 0 THEN Store(d, call.c, 1, 0, 0) ELSE Return(0)

(* memmove() copies downwards when the destination starts inside the       *)
(* source.                                                                 *)
NeverDown == FALSE
Down == s < d /\ s + n > d

memmove ==
  /\ at = "memmove"
  /\ IF Down THEN d' = d + n /\ s' = s + n /\ at' = "down"
             ELSE at' = "up" /\ UNCHANGED <<d, s>>
  /\ UNCHANGED <<call, mem, n, ret>>
CopyDown ==
  /\ at = "down"
  /\ IF n > 0 THEN Store(d-1, mem[s-1], -1, -1, -1) ELSE Return(0)
CopyUp ==
  /\ at = "up"
  /\ IF n > 0 THEN Store(d, mem[s], 1, 1, -1) ELSE Return(0)

memcpy == at = "memcpy" /\ GoOnAt("memmove")

memcmp ==
  /\ at = "memcmp"
  /\ IF n > 0 /\ mem[d] = mem[s] THEN Move(1, 1, -1)
     ELSE Return(IF n = 0 THEN 0 ELSE mem[d] - mem[s])

memfind ==
  /\ at = "memfind"
  /\ IF n > 0 /\ mem[s] # call.c THEN Move(0, 1, -1) ELSE Return(s)
-----------------------------------------------------------------------------
(***************************************************************************)
(* strtol(): n is the base, d the sign, ret the value so far; s is what    *)
(* *endptr is set to.  A value beyond a long is undefined in C (overflow   *)
(* is not detected, says string.c:216) and stands for itself here.         *)
(***************************************************************************)
Space == {32, 9}
Plus == 43
Minus == 45
Zero == 48
LowerX == 120

Digit(c) == CASE c \in 48..57  -> c - 48
              [] c \in 97..122 -> c - 97 + 10
              [] c \in 65..90  -> c - 65 + 10
              [] OTHER -> 99

strtol ==
  /\ at = "strtol"
  /\ IF mem[s] \in Space THEN Move(0, 1, 0) ELSE GoOnAt("sign")

SignOf ==
  /\ at = "sign" /\ at' = "prefix"
  /\ s' = IF mem[s] \in {Plus, Minus} THEN s + 1 ELSE s
  /\ d' = IF mem[s] = Minus THEN -1 ELSE 1
  /\ UNCHANGED <<call, mem, n, ret>>

HexPrefix == mem[s] = Zero /\ mem[s+1] = LowerX

BasePrefix ==
  /\ at = "prefix" /\ at' = "digits"
  /\ \/ n \in {0, 16} /\ HexPrefix /\ s' = s + 2 /\ n' = 16
     \/ n = 0 /\ ~HexPrefix /\ mem[s] = Zero /\ s' = s + 1 /\ n' = 8
     \/ n = 0 /\ mem[s] # Zero /\ n' = 10 /\ UNCHANGED s
     \/ n # 0 /\ ~(n = 16 /\ HexPrefix) /\ UNCHANGED <<n, s>>
  /\ UNCHANGED <<call, mem, d, ret>>

AnyDigit(c) == Digit(c) < 99
DigitOfBase(c) == Digit(c) < n

Digits ==
  /\ at = "digits"
  /\ IF DigitOfBase(mem[s])
     THEN /\ ret' = ret * n + Digit(mem[s]) /\ s' = s + 1
          /\ UNCHANGED <<call, mem, at, d, n>>
     ELSE Return(d * ret)

Next ==
  \/ strlen \/ strnlen \/ strcpy \/ strcat \/ strncpy \/ strlcpy
  \/ strcmp \/ strncmp \/ strchr \/ strfind \/ memset
  \/ memmove \/ CopyDown \/ CopyUp \/ memcpy \/ memcmp \/ memfind
  \/ strtol \/ SignOf \/ BasePrefix \/ Digits

Spec == Init /\ [][Next]_vars
-----------------------------------------------------------------------------
Loop == Function \cup {"up", "down", "strtol", "sign", "prefix", "digits", "done"}

(* No function looks or writes beyond the end of the string or region it   *)
(* was given; a pointer may come to rest one behind the memory.            *)
TypeOK ==
  /\ mem \in [Cell -> Char \cup NumChar]
  /\ at \in Loop
  /\ at \in Function => d \in 0..MemSize /\ s \in 0..MemSize
  /\ at \in {"strlen", "strcpy", "strcmp", "strchr", "strfind", "strtol", "digits"} =>
       s \in Cell
  /\ at \in {"memmove", "up", "memcmp"} =>
       n >= 0 /\ d + n <= MemSize /\ s + n <= MemSize
  /\ at = "down" => n >= 0 /\ d - n >= 0 /\ s - n >= 0
-----------------------------------------------------------------------------
(* What the calls should do, stated on the memory they were called on.     *)
m0 == call.mem
StrEnd(p) == End(m0, p)
StrLen(p) == Length(m0, p)
Least(i, j) == IF i < j THEN i ELSE j

(* The memory with cells p .. p+k-1 replaced by what f gives for 0 .. k-1. *)
With(p, k, f(_)) == [i \in Cell |-> IF i \in p .. p+k-1 THEN f(i - p) ELSE m0[i]]
Source(i) == m0[call.s + i]
Copied(p, k) == [i \in Cell |-> IF i \in p .. p+k-1 THEN Source(i - p) ELSE m0[i]]
Padded(i) == IF i < StrLen(call.s) THEN Source(i) ELSE NUL
SetChar(i) == call.c
CutAt(k)  == [Copied(call.d, k) EXCEPT ![call.d + k] = NUL]

(* The sign of the difference at the first of k places where the operands  *)
(* differ.                                                                 *)
Difference(k) ==
  LET diff == {i \in 0 .. k-1 : m0[call.d + i] # m0[call.s + i]}
  IN  IF diff = {} THEN 0 ELSE LET i == Min(diff) IN m0[call.d + i] - m0[call.s + i]
Shorter == Least(StrLen(call.d), StrLen(call.s)) + 1

First(c, p, k, otherwise) ==
  LET found == {i \in p .. p+k-1 : m0[i] = c}
  IN  IF found = {} THEN otherwise ELSE Min(found)

(* strtol(): blanks, a sign, a prefix that gives the base if the caller    *)
(* did not, and then the longest run of digits.                            *)
SignAt  == Min({i \in Cell : m0[i] \notin Space})
Body    == IF m0[SignAt] \in {Plus, Minus} THEN SignAt + 1 ELSE SignAt
Hex     == call.n \in {0, 16} /\ m0[Body] = Zero /\ m0[Body+1] = LowerX
BaseOf  == IF Hex THEN 16 ELSE IF call.n # 0 THEN call.n
           ELSE IF m0[Body] = Zero THEN 8 ELSE 10
Leading == IF Hex THEN Body + 2 ELSE Body
Stop    == Min({i \in Cell : i >= Leading /\ Digit(m0[i]) >= BaseOf})

(* The k digits before a place: each counts what its place is worth.       *)
ValueOf(stop, base, k) ==
  LET value[j \in Nat] ==
        IF j = 0 THEN 0 ELSE value[j-1] + Digit(m0[stop - j]) * Power(base, j-1)
  IN  value[k]

Number ==
  LET value == ValueOf(Stop, BaseOf, Stop - Leading)
  IN  [value |-> IF m0[SignAt] = Minus THEN -value ELSE value, stop |-> Stop]

Wanted ==
  LET p == call.d  q == call.s  k == call.n  c == call.c IN
  CASE call.f = "strlen"  -> mem = m0 /\ ret = StrLen(q)
    [] call.f = "strnlen" -> mem = m0 /\ ret = Least(k, StrLen(q))
    [] call.f = "strcpy"  -> mem = Copied(p, StrLen(q) + 1)
    [] call.f = "strcat"  -> mem = Copied(StrEnd(p), StrLen(q) + 1)
    [] call.f = "strncpy" -> mem = With(p, k, Padded)
    [] call.f = "strlcpy" -> LET l == Least(k - 1, StrLen(q))
                             IN  IF k = 0 THEN mem = m0 /\ ret = 0
                                 ELSE mem = CutAt(l) /\ ret = l
    [] call.f = "strcmp"  -> mem = m0 /\ ret = Difference(Shorter)
    [] call.f = "strncmp" -> mem = m0 /\ ret = Difference(Least(k, Shorter))
    [] call.f = "strchr"  -> mem = m0 /\ ret = First(c, q, StrLen(q), NoChar)
    [] call.f = "strfind" -> mem = m0 /\ ret = First(c, q, StrLen(q), StrEnd(q))
    [] call.f = "memset"  -> k < Power(2, IntBits-1) => mem = With(p, k, SetChar)
    [] call.f \in {"memmove", "memcpy"} -> mem = Copied(p, k)
    [] call.f = "memcmp"  -> mem = m0 /\ ret = Difference(k)
    [] call.f = "memfind" -> mem = m0 /\ ret = First(c, q, k, q + k)
    [] call.f = "strtol"  -> mem = m0 /\ ret = Number.value /\ s = Number.stop

(* Every function of string.c does what its name and comment promise and   *)
(* touches nothing else: memmove() although the regions overlap either     *)
(* way, strncpy() with its padding, strlcpy() with its NUL, comparisons    *)
(* with the sign of the first difference, also of prefixes.                *)
DoesWhatItSays == at = "done" => Wanted
=============================================================================
