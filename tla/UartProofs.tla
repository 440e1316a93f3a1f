----------------------------- MODULE UartProofs -----------------------------
(***************************************************************************)
(* Proofs about Uart.tla, for buffers of every size: the driver's ring     *)
(* buffers are sequences of bytes, no byte is lost, repeated or reordered  *)
(* on the way in or out, and both interrupts are enabled whenever they are *)
(* needed.  Positions count modulo UART_IOBUFSIZE; the first lemmas turn   *)
(* that into a case split, and the rest is linear or about sequences.      *)
(***************************************************************************)
EXTENDS Uart, SequenceTheorems, TLAPS

N == UART_IOBUFSIZE

Ring == [buf : [Pos -> Byte], rpos : Pos, wpos : Pos]

(* The array of a ring buffer.                                             *)
LEMMA SizeIsPositive ==
  N \in Nat /\ N > 1 /\ Pos = 0 .. N-1
BY UartAssumption DEF N, Pos

(* A position that is off the array by less than its size, wrapped.        *)
LEMMA Wraps ==
  ASSUME NEW x \in Int, -N <= x, x < 2*N
  PROVE  /\ x % N = IF x < 0 THEN x + N ELSE IF x < N THEN x ELSE x - N
         /\ x % N \in Pos
BY SizeIsPositive

(* n places after position a. *)
LEMMA Forward ==
  ASSUME NEW a \in 0 .. N-1, NEW n \in 0 .. N-1
  PROVE  (a + n) % N = IF a + n < N THEN a + n ELSE a + n - N
BY SizeIsPositive

(* n places back from position a. *)
LEMMA Backward ==
  ASSUME NEW a \in 0 .. N-1, NEW n \in 0 .. N-1
  PROVE  (a - n) % N = IF a < n THEN a - n + N ELSE a - n
BY SizeIsPositive

(* The cell of the i-th oldest byte. *)
Cell(r, i) == (r.rpos + i - 1) % N
CellAt(r, i) == IF r.rpos + i - 1 < N THEN r.rpos + i - 1 ELSE r.rpos + i - 1 - N

(* Changing a ring within its bounds leaves a ring. *)
LEMMA RingUpdates ==
  ASSUME NEW r \in Ring, NEW B \in [Pos -> Byte], NEW P \in Pos, NEW W \in Pos
  PROVE  /\ [r EXCEPT !.rpos = P] \in Ring
         /\ [r EXCEPT !.buf = B, !.wpos = W] \in Ring
BY DEF Ring

(* What ringbuf_size() and the room left say of a ring buffer.             *)
LEMMA RingFacts ==
  ASSUME NEW r \in Ring
  PROVE  /\ N \in Nat /\ N > 1 /\ Pos = 0 .. N-1
         /\ r.rpos \in 0 .. N-1 /\ r.wpos \in 0 .. N-1 /\ r.buf \in [Pos -> Byte]
         /\ Size(r) = IF r.wpos < r.rpos THEN r.wpos - r.rpos + N ELSE r.wpos - r.rpos
         /\ Size(r) \in 0 .. N-1
         /\ Room(r) = N - 1 - Size(r)
         /\ ringbuf_empty(r) <=> Size(r) = 0
<1>1. /\ N \in Nat /\ N > 1 /\ Pos = 0 .. N-1
      /\ r.rpos \in 0 .. N-1 /\ r.wpos \in 0 .. N-1 /\ r.buf \in [Pos -> Byte]
  BY UartAssumption DEF N, Pos, Ring
<1>2. Size(r) = IF r.wpos < r.rpos THEN r.wpos - r.rpos + N ELSE r.wpos - r.rpos
  <2> DEFINE x == r.wpos - r.rpos
  <2>1. x \in Int /\ -N <= x /\ x < N
    BY <1>1
  <2>2. x % N = IF x < 0 THEN x + N ELSE IF x < N THEN x ELSE x - N
    BY <1>1, <2>1, Wraps
  <2> QED BY <1>1, <2>1, <2>2 DEF Size, N
<1> QED BY <1>1, <1>2 DEF Room, N, ringbuf_empty

(* The bytes of a ring, as a sequence. *)
LEMMA ContentsFacts ==
  ASSUME NEW r \in Ring
  PROVE  /\ Contents(r) \in Seq(Byte) /\ Len(Contents(r)) = Size(r)
         /\ \A i \in 1 .. Size(r) : Contents(r)[i] = r.buf[CellAt(r, i)]
         /\ \A i \in 1 .. N : CellAt(r, i) \in 0 .. N-1
<1>1. \A i \in 1 .. N : Cell(r, i) = CellAt(r, i) /\ CellAt(r, i) \in 0 .. N-1
  <2> SUFFICES ASSUME NEW i \in 1 .. N
               PROVE  Cell(r, i) = CellAt(r, i) /\ CellAt(r, i) \in 0 .. N-1
    OBVIOUS
  <2> DEFINE x == r.rpos + i - 1
  <2>1. x \in Int /\ 0 <= x /\ x < 2*N
    BY RingFacts
  <2>2. x % N = IF x < 0 THEN x + N ELSE IF x < N THEN x ELSE x - N
    BY <2>1, RingFacts, Wraps
  <2> QED BY <2>1, <2>2, RingFacts DEF Cell, CellAt
<1>2. \A i \in 1 .. Size(r) : i \in 1 .. N
  BY RingFacts
<1>3. Contents(r) = [i \in 1 .. Size(r) |-> r.buf[Cell(r, i)]]
  BY DEF Contents, Cell, N
<1>4. Contents(r) \in [1 .. Size(r) -> Byte]
  BY <1>1, <1>2, <1>3, RingFacts
<1>5. Contents(r) \in Seq(Byte) /\ Len(Contents(r)) = Size(r)
  BY <1>4, RingFacts, SeqDef, LenProperties
<1> QED BY <1>1, <1>2, <1>3, <1>5

(* Pushing bytes for which there is room appends them. *)
LEMMA PushAppends ==
  ASSUME NEW r \in Ring, NEW s \in Seq(Byte), Len(s) <= Room(r)
  PROVE  /\ PushAll(r, s) \in Ring
         /\ Size(PushAll(r, s)) = Size(r) + Len(s)
         /\ Contents(PushAll(r, s)) = Contents(r) \o s
<1> DEFINE k(i) == (i - r.wpos) % N
           p == PushAll(r, s)
           n == Len(s)
<1>1. n \in 0 .. N-1 /\ n <= N - 1 - Size(r) /\ \A i \in 1..n : s[i] \in Byte
  BY RingFacts, LenProperties, ElementOfSeq
<1>2. p = [r EXCEPT !.buf = [i \in Pos |-> IF k(i) < n THEN s[k(i)+1] ELSE r.buf[i]],
                    !.wpos = (r.wpos + n) % N]
  BY DEF PushAll, N, Ring
<1>3. \A i \in Pos : k(i) = IF i < r.wpos THEN i - r.wpos + N ELSE i - r.wpos
  BY RingFacts, Backward
<1>4. (r.wpos + n) % N = IF r.wpos + n < N THEN r.wpos + n ELSE r.wpos + n - N
  BY <1>1, RingFacts, Forward
<1>5. /\ p.rpos = r.rpos
      /\ p.wpos = IF r.wpos + n < N THEN r.wpos + n ELSE r.wpos + n - N
      /\ p.buf = [i \in Pos |-> IF k(i) < n THEN s[k(i)+1] ELSE r.buf[i]]
  BY <1>2, <1>4 DEF Ring
<1>6. p \in Ring
  <2>1. p.wpos \in Pos
    BY <1>1, <1>5, RingFacts
  <2>2. \A i \in Pos : (IF k(i) < n THEN s[k(i)+1] ELSE r.buf[i]) \in Byte
    <3> SUFFICES ASSUME NEW i \in Pos
                 PROVE  (IF k(i) < n THEN s[k(i)+1] ELSE r.buf[i]) \in Byte
      OBVIOUS
    <3>1. k(i) \in Nat
      BY <1>3, RingFacts
    <3> HIDE DEF k
    <3> QED BY <1>1, <3>1, RingFacts
  <2>3. [i \in Pos |-> IF k(i) < n THEN s[k(i)+1] ELSE r.buf[i]] \in [Pos -> Byte]
    BY <2>2
  <2>4. (r.wpos + n) % N \in Pos
    BY <1>4, <1>5, <2>1
  <2> DEFINE B == [i \in Pos |-> IF k(i) < n THEN s[k(i)+1] ELSE r.buf[i]]
             W == (r.wpos + n) % N
  <2>5. p = [r EXCEPT !.buf = B, !.wpos = W]
    BY <1>2
  <2>6. B \in [Pos -> Byte] /\ W \in Pos
    BY <2>3, <2>4
  <2> HIDE DEF p, B, W
  <2> QED BY <2>5, <2>6, RingUpdates
<1>7. Size(p) = Size(r) + n
  <2>1. /\ Size(p) = IF p.wpos < p.rpos THEN p.wpos - p.rpos + N ELSE p.wpos - p.rpos
        /\ Size(p) \in 0 .. N-1
    BY <1>6, RingFacts
  <2>2. /\ Size(r) = IF r.wpos < r.rpos THEN r.wpos - r.rpos + N
                     ELSE r.wpos - r.rpos
        /\ r.wpos \in 0 .. N-1 /\ r.rpos \in 0 .. N-1 /\ N \in Nat
    BY RingFacts
  <2>3. /\ p.rpos = r.rpos
        /\ p.wpos = IF r.wpos + n < N THEN r.wpos + n ELSE r.wpos + n - N
    BY <1>5
  <2> HIDE DEF p, n
  <2> QED BY <1>1, <2>1, <2>2, <2>3
<1>8. /\ Contents(p) \in Seq(Byte) /\ Len(Contents(p)) = Size(r) + n
      /\ \A i \in 1 .. Size(r) + n : Contents(p)[i] = p.buf[CellAt(r, i)]
  <2>1. \A i : CellAt(p, i) = CellAt(r, i)
    BY <1>5 DEF CellAt
  <2> QED BY <1>6, <1>7, <2>1, ContentsFacts
<1>9. /\ Contents(r) \o s \in Seq(Byte) /\ Len(Contents(r) \o s) = Size(r) + n
      /\ \A i \in 1 .. Size(r) + n :
           (Contents(r) \o s)[i] = IF i <= Size(r) THEN r.buf[CellAt(r, i)]
                                   ELSE s[i - Size(r)]
  <2>1. Contents(r) \in Seq(Byte) /\ Len(Contents(r)) = Size(r)
    BY ContentsFacts
  <2>2. /\ Contents(r) \o s \in Seq(Byte) /\ Len(Contents(r) \o s) = Size(r) + n
        /\ \A i \in 1 .. Size(r) + n :
             (Contents(r) \o s)[i] = IF i <= Size(r) THEN Contents(r)[i]
                                     ELSE s[i - Size(r)]
    <3> DEFINE c == Contents(r)
    <3>1. c \in Seq(Byte) /\ Len(c) = Size(r)
      BY <2>1
    <3> HIDE DEF c
    <3>2. /\ c \o s \in Seq(Byte) /\ Len(c \o s) = Len(c) + Len(s)
          /\ \A i \in 1 .. Len(c) + Len(s) :
               (c \o s)[i] = IF i <= Len(c) THEN c[i] ELSE s[i - Len(c)]
      BY <3>1, ConcatProperties, Zenon
    <3> QED BY <3>1, <3>2 DEF c
  <2>3. \A i \in 1 .. Size(r) + n : i <= Size(r) => i \in 1 .. Size(r)
    BY <1>1, RingFacts
  <2> QED BY <2>2, <2>3, ContentsFacts
<1>10. ASSUME NEW i \in 1 .. Size(r) + n
       PROVE  Contents(p)[i] = (Contents(r) \o s)[i]
  <2>1. CellAt(r, i) \in Pos /\ i \in 1 .. N
    BY <1>1, ContentsFacts, RingFacts
  <2>2. k(CellAt(r, i)) = IF i <= Size(r) THEN i - 1 - Size(r) + N
                          ELSE i - 1 - Size(r)
    <3> DEFINE c  == CellAt(r, i)
               kc == k(c)
    <3>1. kc = IF c < r.wpos THEN c - r.wpos + N ELSE c - r.wpos
      BY <1>3, <2>1
    <3>2. c = IF r.rpos + i - 1 < N THEN r.rpos + i - 1 ELSE r.rpos + i - 1 - N
      BY DEF CellAt
    <3>3. i \in 1 .. N-1
      BY <1>1, RingFacts
    <3> HIDE DEF k, kc, c, n
    <3>4. kc = IF i <= Size(r) THEN i - 1 - Size(r) + N ELSE i - 1 - Size(r)
      <4> DEFINE rp == r.rpos
                 w  == r.wpos
                 z  == Size(r)
      <4>1. /\ rp \in 0 .. N-1 /\ w \in 0 .. N-1 /\ z \in 0 .. N-1
            /\ z = IF w < rp THEN w - rp + N ELSE w - rp
        BY RingFacts
      <4>2. kc = IF c < w THEN c - w + N ELSE c - w
        BY <3>1
      <4>3. c = IF rp + i - 1 < N THEN rp + i - 1 ELSE rp + i - 1 - N
        BY <3>2
      <4> HIDE DEF rp, w, z
      <4>4. kc = IF i <= z THEN i - 1 - z + N ELSE i - 1 - z
        BY <3>3, <4>1, <4>2, <4>3, SizeIsPositive
      <4> QED BY <4>4 DEF z
    <3> QED BY <3>4 DEF c, kc
  <2>3. p.buf[CellAt(r, i)] = IF k(CellAt(r, i)) < n THEN s[k(CellAt(r, i)) + 1]
                              ELSE r.buf[CellAt(r, i)]
    BY <1>5, <2>1
  <2> HIDE DEF k, p
  <2>4. CASE i <= Size(r)
    <3>1. ~(k(CellAt(r, i)) < n)
      BY <1>1, <2>2, <2>4, RingFacts
    <3> QED BY <1>8, <1>9, <2>3, <2>4, <3>1
  <2>5. CASE ~(i <= Size(r))
    <3>1. k(CellAt(r, i)) < n /\ k(CellAt(r, i)) + 1 = i - Size(r)
      BY <1>1, <2>2, <2>5, RingFacts
    <3> QED BY <1>8, <1>9, <2>3, <2>5, <3>1
  <2> QED BY <2>4, <2>5
<1> HIDE DEF p, n
<1>11. Contents(p) = Contents(r) \o s
  BY <1>8, <1>9, <1>10, SeqEqual
<1> QED BY <1>6, <1>7, <1>11 DEF p, n

(* Popping bytes that are there takes them off the front. *)
LEMMA PopDrops ==
  ASSUME NEW r \in Ring, NEW n \in 0 .. Size(r)
  PROVE  /\ PopMany(r, n) \in Ring
         /\ Size(PopMany(r, n)) = Size(r) - n
         /\ Contents(PopMany(r, n)) = SubSeq(Contents(r), n+1, Size(r))
<1> DEFINE p == PopMany(r, n)
<1>1. n \in 0 .. N-1
  BY RingFacts
<1>2. (r.rpos + n) % N = IF r.rpos + n < N THEN r.rpos + n ELSE r.rpos + n - N
  BY <1>1, RingFacts, Forward
<1>3. /\ p.buf = r.buf /\ p.wpos = r.wpos
      /\ p.rpos = IF r.rpos + n < N THEN r.rpos + n ELSE r.rpos + n - N
  BY <1>2 DEF PopMany, N, Ring
<1>4. p \in Ring
  <2>1. (r.rpos + n) % N \in Pos
    BY <1>1, <1>2, RingFacts
  <2>2. p = [r EXCEPT !.rpos = (r.rpos + n) % N]
    BY DEF PopMany, N, Ring
  <2> DEFINE P == (r.rpos + n) % N
  <2> HIDE DEF p, P
  <2>3. P \in Pos /\ p = [r EXCEPT !.rpos = P]
    BY <2>1, <2>2 DEF P
  <2>4. r.buf \in [Pos -> Byte] /\ r.wpos \in Pos
    BY DEF Ring
  <2> QED BY <2>3, <2>4, RingUpdates
<1>5. Size(p) = Size(r) - n
  <2>1. Size(p) = IF p.wpos < p.rpos THEN p.wpos - p.rpos + N ELSE p.wpos - p.rpos
    BY <1>4, RingFacts
  <2> DEFINE rp == r.rpos
             w  == r.wpos
             q  == p.rpos
             z  == Size(r)
             y  == Size(p)
  <2>2. /\ rp \in 0 .. N-1 /\ w \in 0 .. N-1 /\ z \in 0 .. N-1
        /\ z = IF w < rp THEN w - rp + N ELSE w - rp
    BY RingFacts
  <2>3. /\ q = IF rp + n < N THEN rp + n ELSE rp + n - N
        /\ y = IF w < q THEN w - q + N ELSE w - q
    BY <1>3, <2>1
  <2>4. n \in 0 .. z
    OBVIOUS
  <2> HIDE DEF p, rp, w, q, z, y
  <2>5. y = z - n
    BY <2>2, <2>3, <2>4, SizeIsPositive
  <2> QED BY <2>5 DEF y, z
<1> DEFINE t == SubSeq(Contents(r), n+1, Size(r))
<1>6. /\ t \in Seq(Byte) /\ Len(t) = Size(r) - n
      /\ \A i \in 1 .. Size(r) - n : t[i] = Contents(r)[n + i]
  <2>1. \A i \in n+1 .. Size(r) : Contents(r)[i] \in Byte
    <3>1. \A i \in n+1 .. Size(r) : i \in 1 .. Size(r)
      BY <1>1
    <3> QED BY <3>1, ContentsFacts, ElementOfSeq
  <2>2. n + 1 \in Int /\ Size(r) \in Int
    BY <1>1, RingFacts
  <2>3. /\ t \in Seq(Byte)
        /\ Len(t) = IF n+1 <= Size(r) THEN Size(r) - (n+1) + 1 ELSE 0
        /\ \A i \in 1 .. Size(r) - (n+1) + 1 : t[i] = Contents(r)[n + 1 + i - 1]
    BY <2>1, <2>2, SubSeqProperties
  <2> HIDE DEF t
  <2>4. \A i \in 1 .. Size(r) - n : /\ i \in 1 .. Size(r) - (n+1) + 1
                                    /\ n + 1 + i - 1 = n + i
    BY <1>1, RingFacts
  <2> QED BY <1>1, <2>3, <2>4, RingFacts
<1>7. /\ Contents(p) \in Seq(Byte) /\ Len(Contents(p)) = Size(r) - n
      /\ \A i \in 1 .. Size(r) - n : Contents(p)[i] = p.buf[CellAt(p, i)]
  BY <1>4, <1>5, ContentsFacts
<1>8. ASSUME NEW i \in 1 .. Size(r) - n PROVE Contents(p)[i] = t[i]
  <2>1. n + i \in 1 .. Size(r)
    BY <1>1, RingFacts
  <2>2. CellAt(p, i) = CellAt(r, n + i)
    <3> DEFINE rp == r.rpos
               q  == p.rpos
               a  == CellAt(p, i)
               b  == CellAt(r, n + i)
    <3>1. /\ a = IF q + i - 1 < N THEN q + i - 1 ELSE q + i - 1 - N
          /\ b = IF rp + (n + i) - 1 < N THEN rp + (n + i) - 1 ELSE rp + (n + i) - 1 - N
      BY DEF CellAt
    <3>2. q = IF rp + n < N THEN rp + n ELSE rp + n - N
      BY <1>3
    <3>3. rp \in 0 .. N-1 /\ n + i \in 1 .. N-1 /\ i \in 1 .. N-1
      BY <1>1, <2>1, RingFacts
    <3> HIDE DEF p, rp, q, a, b
    <3>4. a = b
      BY <1>1, <3>1, <3>2, <3>3, SizeIsPositive
    <3> QED BY <3>4 DEF a, b
  <2>3. Contents(r)[n + i] = r.buf[CellAt(r, n + i)]
    BY <2>1, ContentsFacts
  <2> HIDE DEF p, t
  <2> QED BY <1>3, <1>6, <1>7, <2>2, <2>3
<1> HIDE DEF p, t
<1>9. Contents(p) = t
  BY <1>6, <1>7, <1>8, SeqEqual
<1> QED BY <1>4, <1>5, <1>9 DEF p, t
-----------------------------------------------------------------------------
(* What each operation does to the buffers as sequences. *)

(* The least of two numbers is at most each.                               *)
LEMMA LeastFacts ==
  ASSUME NEW m \in Nat, NEW n \in Nat
  PROVE  /\ Least(m, n) \in Nat /\ Least(m, n) <= m /\ Least(m, n) <= n
         /\ Least(m, n) < m => Least(m, n) = n
BY DEF Least

(* The values of a byte.                                                   *)
LEMMA ByteRange ==
  Values \in Nat /\ Values > 1 /\ Byte = 0 .. Values-1
BY UartAssumption DEF Byte

(* A number wraps to a byte.                                               *)
LEMMA BytesWrap == \A b \in Nat : b % Values \in Byte
BY ByteRange

(* The type invariant, as the lemmas below use it.                         *)
LEMMA Types ==
  ASSUME TypeOK
  PROVE  /\ inbuf \in Ring /\ outbuf \in Ring
         /\ rxfifo \in Seq(Byte) /\ Len(rxfifo) \in 0 .. FifoSize
         /\ txfifo \in Seq(Byte) /\ Len(txfifo) \in 0 .. FifoSize
         /\ FifoSize \in Nat /\ MaxCount \in Nat
         /\ arrived \in Byte /\ delivered \in Byte /\ accepted \in Byte
         /\ sent \in Byte /\ elem \in Byte
         /\ imsc \in [tx : BOOLEAN, rx : BOOLEAN]
         /\ mask \in [tx : BOOLEAN, rx : BOOLEAN]
BY UartAssumption, LenProperties DEF TypeOK, Ring

(* The first n bytes of a sequence and the rest. *)
LEMMA Split ==
  ASSUME NEW s \in Seq(Byte), NEW n \in 0 .. Len(s)
  PROVE  /\ SubSeq(s, 1, n) \in Seq(Byte) /\ Len(SubSeq(s, 1, n)) = n
         /\ SubSeq(s, n+1, Len(s)) \in Seq(Byte)
         /\ Len(SubSeq(s, n+1, Len(s))) = Len(s) - n
         /\ \A i \in 1 .. n : SubSeq(s, 1, n)[i] = s[i]
         /\ \A i \in 1 .. Len(s) - n : SubSeq(s, n+1, Len(s))[i] = s[n + i]
         /\ s = SubSeq(s, 1, n) \o SubSeq(s, n+1, Len(s))
<1> DEFINE a == SubSeq(s, 1, n)
           b == SubSeq(s, n+1, Len(s))
           l == Len(s)
<1>1. l \in Nat /\ \A i \in 1 .. l : s[i] \in Byte
  BY LenProperties, ElementOfSeq
<1>2. /\ a \in Seq(Byte) /\ Len(a) = n
      /\ \A i \in 1 .. n : a[i] = s[i]
  <2>1. \A i \in 1 .. n : s[i] \in Byte
    BY <1>1
  <2>2. /\ a \in Seq(Byte)
        /\ Len(a) = IF 1 <= n THEN n - 1 + 1 ELSE 0
        /\ \A i \in 1 .. n - 1 + 1 : a[i] = s[1 + i - 1]
    BY <1>1, <2>1, SubSeqProperties
  <2> HIDE DEF a
  <2> QED BY <1>1, <2>2
<1>3. /\ b \in Seq(Byte) /\ Len(b) = l - n
      /\ \A i \in 1 .. l - n : b[i] = s[n + i]
  <2>1. \A i \in n+1 .. l : s[i] \in Byte
    BY <1>1
  <2>2. /\ b \in Seq(Byte)
        /\ Len(b) = IF n+1 <= l THEN l - (n+1) + 1 ELSE 0
        /\ \A i \in 1 .. l - (n+1) + 1 : b[i] = s[n + 1 + i - 1]
    BY <1>1, <2>1, SubSeqProperties
  <2>3. \A i \in 1 .. l - n : i \in 1 .. l - (n+1) + 1 /\ n + 1 + i - 1 = n + i
    BY <1>1
  <2> HIDE DEF b
  <2> QED BY <1>1, <2>2, <2>3
<1> HIDE DEF a, b, l
<1>4. SubSeq(s, 1, n) \o SubSeq(s, n+1, l) = SubSeq(s, 1, l)
  <2>1. 1 \in 1 .. l+1 /\ n \in 1-1 .. l /\ l \in n .. l
    BY <1>1 DEF l
  <2> QED BY <2>1, ConcatAdjacentSubSeq DEF l
<1>5. s = SubSeq(s, 1, n) \o SubSeq(s, n+1, l)
  BY <1>4, SubSeqFull DEF l
<1> QED BY <1>2, <1>3, <1>5 DEF a, b, l

(* uart_write and the bytes it takes. *)
Written(n) == [i \in 1 .. n |-> (accepted + i) % Values]

(* pl011_uart_write() appends what fits to the output.                     *)
LEMMA WriteEffect ==
  ASSUME TypeOK, NEW count \in 1 .. MaxCount, pl011_uart_write(count)
  PROVE  LET n == Least(count, Room(outbuf))
         IN  /\ n \in 0 .. count /\ n <= Room(outbuf)
             /\ n < count => n = Room(outbuf)
             /\ Written(n) \in Seq(Byte) /\ Len(Written(n)) = n
             /\ outbuf' \in Ring /\ accepted' = (accepted + n) % Values
             /\ accepted' \in Byte
             /\ Size(outbuf') = Size(outbuf) + n
             /\ Contents(outbuf') = Contents(outbuf) \o Written(n)
<1> DEFINE n == Least(count, Room(outbuf))
<1>1. Room(outbuf) \in Nat /\ count \in Nat
  BY Types, RingFacts
<1>2. n \in 0 .. count /\ n <= Room(outbuf) /\ (n < count => n = Room(outbuf))
  BY <1>1, LeastFacts
<1>3. outbuf' = PushAll(outbuf, Written(n)) /\ accepted' = (accepted + n) % Values
  BY DEF pl011_uart_write, Written
<1> HIDE DEF n
<1>4. accepted \in Nat /\ n \in Nat
  BY <1>1, <1>2, Types, ByteRange
<1>5. Written(n) \in Seq(Byte) /\ Len(Written(n)) = n
  <2>1. \A i \in 1 .. n : (accepted + i) % Values \in Byte
    <3>1. \A i \in 1 .. n : accepted + i \in Nat
      BY <1>4
    <3> QED BY <3>1, BytesWrap, Zenon
  <2>2. Written(n) \in [1 .. n -> Byte]
    BY <2>1 DEF Written
  <2> QED BY <1>4, <2>2, SeqDef, LenProperties
<1>6. accepted' \in Byte
  <2>1. accepted + n \in Nat
    BY <1>4
  <2> QED BY <1>3, <2>1, BytesWrap, Zenon
<1>7. /\ outbuf' \in Ring /\ Size(outbuf') = Size(outbuf) + n
      /\ Contents(outbuf') = Contents(outbuf) \o Written(n)
  BY <1>2, <1>3, <1>5, Types, PushAppends
<1> QED BY <1>2, <1>3, <1>5, <1>6, <1>7 DEF n

(* pl011_uart_read() takes the oldest bytes of the input.                  *)
LEMMA ReadEffect ==
  ASSUME TypeOK, NEW count \in 1 .. MaxCount, pl011_uart_read(count)
  PROVE  LET n == Least(count, Size(inbuf))
         IN  /\ n \in 0 .. Size(inbuf)
             /\ inbuf' \in Ring /\ Size(inbuf') = Size(inbuf) - n
             /\ Contents(inbuf') = SubSeq(Contents(inbuf), n+1, Size(inbuf))
             /\ delivered' = IF n = 0 THEN delivered ELSE Contents(inbuf)[n]
             /\ delivered' \in Byte
<1> DEFINE n == Least(count, Size(inbuf))
<1>1. Size(inbuf) \in Nat /\ count \in Nat
  BY Types, RingFacts
<1>2. n \in 0 .. Size(inbuf)
  BY <1>1, LeastFacts
<1>3. /\ inbuf' = PopMany(inbuf, n)
      /\ delivered' = IF n = 0 THEN delivered ELSE Contents(inbuf)[n]
  BY DEF pl011_uart_read
<1> HIDE DEF n
<1>4. /\ inbuf' \in Ring /\ Size(inbuf') = Size(inbuf) - n
      /\ Contents(inbuf') = SubSeq(Contents(inbuf), n+1, Size(inbuf))
  BY <1>2, <1>3, Types, PopDrops
<1>5. delivered' \in Byte
  <2>1. CASE n = 0
    BY <1>3, <2>1, Types
  <2>2. CASE n # 0
    <3>1. n \in 1 .. Len(Contents(inbuf)) /\ Contents(inbuf) \in Seq(Byte)
      BY <1>1, <1>2, <2>2, Types, ContentsFacts
    <3> QED BY <1>3, <2>2, <3>1, ElementOfSeq
  <2> QED BY <2>1, <2>2
<1> QED BY <1>2, <1>3, <1>4, <1>5 DEF n

(* The shell's direct reader drops the byte it has looked at.              *)
LEMMA AdvanceEffect ==
  ASSUME TypeOK, Size(inbuf) >= 1, ShellAdvance
  PROVE  /\ inbuf' \in Ring /\ Size(inbuf') = Size(inbuf) - 1
         /\ Contents(inbuf') = SubSeq(Contents(inbuf), 2, Size(inbuf))
<1>1. inbuf' = PopMany(inbuf, 1)
  BY DEF ShellAdvance, ringbuf_pop, PopMany
<1>2. 1 \in 0 .. Size(inbuf) /\ 1 + 1 = 2
  BY Types, RingFacts
<1> QED BY <1>1, <1>2, Types, PopDrops

(* The handler moves the first Nrx bytes of rxfifo behind those of inbuf,  *)
(* and the first Ntx bytes of outbuf behind those of txfifo.               *)
Nrx == IF RXMIS THEN Least(Room(inbuf), Len(rxfifo)) ELSE 0
Ntx == IF TXMIS THEN Least(Size(outbuf), FifoSize - Len(txfifo)) ELSE 0

(* The handler moves bytes between buffers and FIFOs and loses none.       *)
LEMMA IntrEffect ==
  ASSUME TypeOK, pl011_uart_intr
  PROVE  /\ Nrx \in 0 .. Len(rxfifo) /\ Nrx <= Room(inbuf)
         /\ Ntx \in 0 .. Size(outbuf) /\ Ntx <= FifoSize - Len(txfifo)
         /\ inbuf' \in Ring /\ Size(inbuf') = Size(inbuf) + Nrx
         /\ rxfifo' \in Seq(Byte) /\ Len(rxfifo') = Len(rxfifo) - Nrx
         /\ Contents(inbuf') \o rxfifo' = Contents(inbuf) \o rxfifo
         /\ outbuf' \in Ring /\ Size(outbuf') = Size(outbuf) - Ntx
         /\ txfifo' \in Seq(Byte) /\ Len(txfifo') = Len(txfifo) + Ntx
         /\ txfifo' \o Contents(outbuf') = txfifo \o Contents(outbuf)
<1> DEFINE nrx == Nrx
           ntx == Ntx
           c == Contents(inbuf)
           a == SubSeq(rxfifo, 1, nrx)
           b == SubSeq(rxfifo, nrx+1, Len(rxfifo))
           d == Contents(outbuf)
           e == SubSeq(d, 1, ntx)
           f == SubSeq(d, ntx+1, Size(outbuf))
<1>1. /\ Room(inbuf) \in Nat /\ Len(rxfifo) \in Nat
      /\ Size(outbuf) \in Nat /\ FifoSize - Len(txfifo) \in Nat
      /\ Len(txfifo) \in Nat
  BY Types, RingFacts
<1>2. /\ nrx \in 0 .. Len(rxfifo) /\ nrx <= Room(inbuf)
      /\ ntx \in 0 .. Size(outbuf) /\ ntx <= FifoSize - Len(txfifo)
  <2> DEFINE u == Least(Room(inbuf), Len(rxfifo))
             v == Least(Size(outbuf), FifoSize - Len(txfifo))
  <2>1. /\ u \in 0 .. Len(rxfifo) /\ u <= Room(inbuf)
        /\ v \in 0 .. Size(outbuf) /\ v <= FifoSize - Len(txfifo)
    BY <1>1, LeastFacts
  <2>2. nrx \in {0, u} /\ ntx \in {0, v}
    BY DEF Nrx, Ntx
  <2> HIDE DEF u, v, nrx, ntx
  <2> QED BY <1>1, <2>1, <2>2
<1>3. /\ inbuf' = PushAll(inbuf, a) /\ rxfifo' = b
      /\ txfifo' = txfifo \o e /\ outbuf' = PopMany(outbuf, ntx)
  BY DEF pl011_uart_intr, LeftInFifo, Nrx, Ntx
<1> HIDE DEF nrx, ntx
<1>4. /\ a \in Seq(Byte) /\ Len(a) = nrx /\ b \in Seq(Byte)
      /\ Len(b) = Len(rxfifo) - nrx /\ rxfifo = a \o b
  BY <1>2, Types, Split
<1>5. /\ inbuf' \in Ring /\ Size(inbuf') = Size(inbuf) + nrx
      /\ Contents(inbuf') = c \o a
  BY <1>2, <1>3, <1>4, Types, PushAppends
<1>6. c \in Seq(Byte) /\ d \in Seq(Byte) /\ Len(d) = Size(outbuf)
  BY Types, ContentsFacts
<1>7. /\ e \in Seq(Byte) /\ Len(e) = ntx /\ f \in Seq(Byte) /\ d = e \o f
  <2> HIDE DEF d
  <2> QED BY <1>2, <1>6, Split
<1>8. /\ outbuf' \in Ring /\ Size(outbuf') = Size(outbuf) - ntx
      /\ Contents(outbuf') = f
  BY <1>2, <1>3, Types, PopDrops
<1>9. Contents(inbuf') \o rxfifo' = c \o rxfifo
  <2> HIDE DEF a, b, c
  <2>1. (c \o a) \o b = c \o (a \o b)
    <3>1. a \in Seq(Byte) /\ b \in Seq(Byte) /\ c \in Seq(Byte)
      BY <1>4, <1>6
    <3> QED BY <3>1, ConcatAssociative
  <2> QED BY <1>3, <1>4, <1>5, <2>1
<1>10. /\ txfifo' \in Seq(Byte) /\ Len(txfifo') = Len(txfifo) + ntx
       /\ txfifo' \o Contents(outbuf') = txfifo \o d
  <2> HIDE DEF d, e, f
  <2>0. txfifo \in Seq(Byte)
    BY Types
  <2>1. (txfifo \o e) \o f = txfifo \o (e \o f)
    <3>1. e \in Seq(Byte) /\ f \in Seq(Byte)
      BY <1>7
    <3> QED BY <2>0, <3>1, ConcatAssociative
  <2>2. txfifo \o e \in Seq(Byte) /\ Len(txfifo \o e) = Len(txfifo) + Len(e)
    BY <1>7, <2>0, ConcatProperties
  <2> QED BY <1>3, <1>7, <1>8, <2>1, <2>2
<1> QED BY <1>2, <1>3, <1>4, <1>5, <1>8, <1>9, <1>10 DEF nrx, ntx, a, b, c, d
-----------------------------------------------------------------------------
(***************************************************************************)
(* The types.  The shell's loop is bounded by its own test of num_read,    *)
(* and it advances rpos only past a byte that it has found.                *)
(***************************************************************************)
Reading == at \in {"pop", "advance"} => num_read < MaxCount /\ Size(inbuf) >= 1
Inv == TypeOK /\ Reading

(* The driver begins with empty buffers.                                   *)
LEMMA InitInv == Init => Inv
<1> SUFFICES ASSUME Init PROVE Inv
  OBVIOUS
<1>1. EmptyRing \in Ring
  BY SizeIsPositive, ByteRange DEF EmptyRing, Ring
<1>2. <<>> \in Seq(Byte) /\ Len(<<>>) = 0
  OBVIOUS
<1>3. FifoSize \in Nat /\ MaxCount \in Nat
  BY UartAssumption
<1> QED BY <1>1, <1>2, <1>3, ByteRange DEF Init, Inv, Reading, NoMask, TypeOK, Ring

(* The line delivers the next byte.                                        *)
LEMMA ArriveEffect ==
  ASSUME TypeOK, Arrive
  PROVE  /\ rxfifo' \in Seq(Byte) /\ Len(rxfifo') = Len(rxfifo) + 1
         /\ rxfifo' = Append(rxfifo, After(arrived)) /\ arrived' = After(arrived)
         /\ arrived' \in Byte
<1>1. After(arrived) \in Byte
  <2>1. arrived + 1 \in Nat
    BY Types, ByteRange
  <2> QED BY <2>1, BytesWrap, Zenon DEF After
<1> QED BY <1>1, Types, AppendProperties DEF Arrive

(* The line takes the oldest byte of the FIFO.                             *)
LEMMA LeaveEffect ==
  ASSUME TypeOK, Leave
  PROVE  /\ txfifo' \in Seq(Byte) /\ Len(txfifo') = Len(txfifo) - 1
         /\ txfifo # <<>> /\ txfifo' = Tail(txfifo)
         /\ sent' = Head(txfifo) /\ sent' \in Byte
BY Types, HeadTailProperties DEF Leave

(* Every step keeps the invariant.                                         *)
LEMMA NextInv == Inv /\ [Next]_vars => Inv'
<1> SUFFICES ASSUME Inv, [Next]_vars PROVE Inv'
  OBVIOUS
<1>0. TypeOK /\ Reading
  BY DEF Inv
<1>1. CASE Arrive
  <2>1. /\ rxfifo' \in Seq(Byte) /\ Len(rxfifo') <= FifoSize /\ arrived' \in Byte
        /\ UNCHANGED <<inbuf, outbuf, txfifo, imsc, delivered, accepted, sent, shell>>
    BY <1>0, <1>1, ArriveEffect, Types DEF Arrive
  <2>2. TypeOK'
    BY <1>0, <2>1 DEF TypeOK, shell
  <2> QED BY <1>0, <2>1, <2>2 DEF shell, Reading, Inv
<1>2. CASE Leave
  <2>1. /\ txfifo' \in Seq(Byte) /\ Len(txfifo') <= FifoSize /\ sent' \in Byte
        /\ UNCHANGED <<inbuf, outbuf, rxfifo, imsc, arrived, delivered, accepted, shell>>
    BY <1>0, <1>2, LeaveEffect, Types DEF Leave
  <2>2. TypeOK'
    BY <1>0, <2>1 DEF TypeOK, shell
  <2> QED BY <1>0, <2>1, <2>2 DEF shell, Reading, Inv
<1>3. ASSUME NEW count \in 1 .. MaxCount, pl011_uart_write(count) PROVE Inv'
  <2>1. outbuf' \in Ring /\ accepted' \in Byte
    BY <1>0, <1>3, WriteEffect
  <2>2. /\ imsc' \in [tx : BOOLEAN, rx : BOOLEAN]
        /\ UNCHANGED <<inbuf, rxfifo, txfifo, arrived, delivered, sent, shell>>
    BY <1>0, <1>3, Types DEF pl011_uart_write, TxEnabled
  <2>3. TypeOK'
    BY <1>0, <2>1, <2>2 DEF TypeOK, Ring, shell
  <2> QED BY <1>0, <2>2, <2>3 DEF shell, Reading, Inv
<1>4. ASSUME NEW count \in 1 .. MaxCount, pl011_uart_read(count) PROVE Inv'
  <2>1. inbuf' \in Ring /\ delivered' \in Byte
    BY <1>0, <1>4, ReadEffect
  <2>2. /\ imsc' \in [tx : BOOLEAN, rx : BOOLEAN] /\ at = "idle"
        /\ UNCHANGED <<outbuf, rxfifo, txfifo, arrived, accepted, sent, shell>>
    BY <1>0, <1>4, Types DEF pl011_uart_read, RxEnabled
  <2>3. TypeOK'
    BY <1>0, <2>1, <2>2 DEF TypeOK, Ring, shell
  <2> QED BY <2>2, <2>3 DEF shell, Reading, Inv
<1>5. CASE ShellCall
  BY <1>0, <1>5 DEF ShellCall, outside, TypeOK, Reading, Inv
<1>6. CASE ShellTest
  <2>1. MaxCount \in Nat /\ Size(inbuf) \in Nat /\ (ringbuf_empty(inbuf) <=> Size(inbuf) = 0)
    BY <1>0, Types, RingFacts
  <2>2. TypeOK'
    BY <1>0, <1>6, <2>1 DEF ShellTest, outside, TypeOK
  <2>3. at' = "pop" => num_read' < MaxCount /\ Size(inbuf') >= 1
    BY <1>6, <2>1 DEF ShellTest
  <2> QED BY <1>6, <2>2, <2>3 DEF ShellTest, Reading, Inv
<1>7. CASE ShellPop
  <2>1. elem' \in Byte
    <3>1. inbuf.rpos \in Pos /\ inbuf.buf \in [Pos -> Byte]
      BY <1>0 DEF TypeOK
    <3>2. elem' = inbuf.buf[inbuf.rpos]
      BY <1>7 DEF ShellPop
    <3> QED BY <3>1, <3>2
  <2> QED BY <1>0, <1>7, <2>1 DEF ShellPop, outside, TypeOK, Reading, Inv
<1>8. CASE ShellAdvance
  <2>1. /\ Size(inbuf) >= 1 /\ num_read + 1 \in 0 .. MaxCount /\ 0 \in Byte
    <3>1. num_read \in 0 .. MaxCount /\ num_read < MaxCount /\ Size(inbuf) >= 1
      BY <1>0, <1>8 DEF ShellAdvance, Reading, TypeOK
    <3>2. MaxCount \in Nat
      BY UartAssumption
    <3>3. 0 \in Byte
      BY ByteRange
    <3> QED BY <3>1, <3>2, <3>3
  <2>2. inbuf' \in Ring
    BY <1>0, <1>8, <2>1, AdvanceEffect
  <2> QED BY <1>0, <1>8, <2>1, <2>2 DEF ShellAdvance, outside, TypeOK, Ring, Reading, Inv
<1>9. CASE ShellLoad
  BY <1>0, <1>9 DEF ShellLoad, outside, TypeOK, Reading, Inv
<1>10. CASE ShellStore
  <2>1. /\ imsc' \in [tx : BOOLEAN, rx : BOOLEAN]
        /\ mask' \in [tx : BOOLEAN, rx : BOOLEAN]
    BY <1>0, <1>10, Types DEF ShellStore, RxEnabled, NoMask
  <2> QED BY <1>0, <1>10, <2>1 DEF ShellStore, outside, TypeOK, Reading, Inv
<1>11. CASE pl011_uart_intr
  <2>1. imsc' \in [tx : BOOLEAN, rx : BOOLEAN] /\ UNCHANGED <<line, shell>>
    BY <1>0, <1>11, Types DEF pl011_uart_intr
  <2>2. /\ inbuf' \in Ring /\ outbuf' \in Ring
        /\ rxfifo' \in Seq(Byte) /\ txfifo' \in Seq(Byte)
    BY <1>0, <1>11, IntrEffect
  <2>3. /\ Nrx \in Nat /\ Ntx \in Nat /\ Ntx <= FifoSize - Len(txfifo)
        /\ Size(inbuf') = Size(inbuf) + Nrx /\ Len(rxfifo') = Len(rxfifo) - Nrx
        /\ Len(txfifo') = Len(txfifo) + Ntx
    BY <1>0, <1>11, IntrEffect, Types, RingFacts
  <2>4. /\ Len(rxfifo') <= FifoSize /\ Len(txfifo') <= FifoSize
        /\ Size(inbuf') >= Size(inbuf) /\ Size(inbuf) \in Nat /\ Size(inbuf') \in Nat
    <3>1. Size(inbuf) \in Nat
      BY <1>0, Types, RingFacts
    <3>2. /\ FifoSize \in Nat /\ Len(rxfifo) \in 0 .. FifoSize
          /\ Len(txfifo) \in 0 .. FifoSize
      BY <1>0, Types
    <3> QED BY <2>3, <3>1, <3>2
  <2>5. TypeOK'
    BY <1>0, <2>1, <2>2, <2>4 DEF TypeOK, Ring, line, shell
  <2> QED BY <1>0, <2>1, <2>4, <2>5 DEF shell, Reading, Inv
<1>12. CASE UNCHANGED vars
  BY <1>0, <1>12 DEF vars, line, shell, TypeOK, Reading, Inv
<1> QED
  BY <1>1, <1>2, <1>3, <1>4, <1>5, <1>6, <1>7, <1>8, <1>9, <1>10, <1>11, <1>12
     DEF Next, ShellStep

(***************************************************************************)
(* The driver stays within its buffers, whatever their size, although the  *)
(* interrupt handler comes between any two steps of the shell's read.      *)
(***************************************************************************)
THEOREM SpecInv == Spec => []Inv
<1>1. Init => Inv
  BY InitInv
<1>2. Inv /\ [Next]_vars => Inv'
  BY NextInv
<1> QED BY <1>1, <1>2, PTL DEF Spec

(* Positions, counts and modes stay in their ranges, for buffers of every  *)
(* size.                                                                   *)
THEOREM SpecTypeOK == Spec => []TypeOK
<1>1. Inv => TypeOK
  BY DEF Inv
<1> QED BY <1>1, SpecInv, PTL
-----------------------------------------------------------------------------
(***************************************************************************)
(* The receive interrupt is never left disabled while inbuf has room and   *)
(* no reader is about to enable it: with another task printing too.        *)
(***************************************************************************)
THEOREM SpecRxArmed == Spec => []RxArmed
<1>1. Init => RxArmed
  BY DEF Init, RxArmed
<1>2. Inv /\ RxArmed /\ [Next]_vars => RxArmed'
  <2> SUFFICES ASSUME Inv, RxArmed, [Next]_vars PROVE RxArmed'
    OBVIOUS
  <2>0. TypeOK /\ imsc \in [tx : BOOLEAN, rx : BOOLEAN]
    BY DEF Inv, TypeOK
  <2>1. CASE \/ Arrive \/ Leave \/ UNCHANGED vars
    BY <2>1 DEF Arrive, Leave, vars, shell, RxArmed, Room, Size
  <2>2. ASSUME NEW count \in 1 .. MaxCount, pl011_uart_write(count) PROVE RxArmed'
    BY <2>0, <2>2 DEF pl011_uart_write, TxEnabled, shell, RxArmed, Room, Size
  <2>3. ASSUME NEW count \in 1 .. MaxCount, pl011_uart_read(count) PROVE RxArmed'
    BY <2>0, <2>3 DEF pl011_uart_read, RxEnabled, RxArmed
  <2>4. CASE ShellStore
    BY <2>0, <2>4 DEF ShellStore, RxEnabled, RxArmed, Inv, TypeOK
  <2>5. CASE \/ ShellCall \/ ShellTest \/ ShellPop \/ ShellAdvance \/ ShellLoad
    BY <2>5 DEF ShellCall, ShellTest, ShellPop, ShellAdvance, ShellLoad, RxArmed
  <2>6. CASE pl011_uart_intr
    <3>1. UNCHANGED shell /\ imsc'.rx = (imsc.rx /\ ~(RXMIS /\ Room(inbuf') = 0))
      BY <2>6 DEF pl011_uart_intr
    <3>2. ~imsc.rx => Size(inbuf') = Size(inbuf)
      <4>1. ~imsc.rx => Nrx = 0
        BY DEF Nrx, RXMIS
      <4>2. Size(inbuf') = Size(inbuf) + Nrx /\ Size(inbuf) \in Nat
        BY <2>0, <2>6, IntrEffect, Types, RingFacts
      <4> QED BY <4>1, <4>2
    <3>3. ~imsc.rx => Room(inbuf') = Room(inbuf)
      BY <3>2 DEF Room
    <3> QED BY <2>0, <3>1, <3>3 DEF RxArmed, shell
  <2> QED BY <2>1, <2>2, <2>3, <2>4, <2>5, <2>6 DEF Next, ShellStep
<1> QED BY <1>1, <1>2, SpecInv, PTL DEF Spec

(***************************************************************************)
(* While the shell is between its load and its store of IMSC nobody but    *)
(* the handler writes IMSC, if no other task prints; and the handler only  *)
(* clears bits.  So the store clears no transmit interrupt that is on, and *)
(* a byte in outbuf always has one.                                        *)
(***************************************************************************)
StoreKeepsTx == at = "store" /\ imsc.tx => mask.tx

(* Every step keeps the transmit interrupt armed while there is output.    *)
LEMMA NextTx ==
  ASSUME Printer = FALSE, Inv, TxArmed, StoreKeepsTx, [Next]_vars
  PROVE  TxArmed' /\ StoreKeepsTx'
<1>0. /\ TypeOK /\ imsc \in [tx : BOOLEAN, rx : BOOLEAN]
      /\ mask \in [tx : BOOLEAN, rx : BOOLEAN]
  BY DEF Inv, TypeOK
<1>1. CASE \/ Arrive \/ Leave \/ UNCHANGED vars
  BY <1>1 DEF Arrive, Leave, vars, shell, TxArmed, StoreKeepsTx
<1>2. ASSUME NEW count \in 1 .. MaxCount, pl011_uart_write(count)
      PROVE  TxArmed' /\ StoreKeepsTx'
  BY <1>0, <1>2
     DEF pl011_uart_write, MayCall, TxEnabled, shell, TxArmed, StoreKeepsTx
<1>3. ASSUME NEW count \in 1 .. MaxCount, pl011_uart_read(count)
      PROVE  TxArmed' /\ StoreKeepsTx'
  BY <1>0, <1>3 DEF pl011_uart_read, RxEnabled, shell, TxArmed, StoreKeepsTx
<1>4. CASE ShellStore
  BY <1>0, <1>4 DEF ShellStore, RxEnabled, outside, TxArmed, StoreKeepsTx
<1>5. CASE \/ ShellCall \/ ShellTest \/ ShellPop \/ ShellAdvance \/ ShellLoad
  BY <1>0, <1>5 DEF ShellCall, ShellTest, ShellPop, ShellAdvance, ShellLoad,
                    outside, TxArmed, StoreKeepsTx
<1>6. CASE pl011_uart_intr
  <2>1. /\ UNCHANGED shell
        /\ imsc'.tx = (imsc.tx /\ ~(TXMIS /\ NothingToSend(outbuf')))
    BY <1>6 DEF pl011_uart_intr
  <2>2. ~imsc.tx => Size(outbuf') = Size(outbuf)
    <3>1. ~imsc.tx => Ntx = 0
      BY DEF Ntx, TXMIS
    <3>2. Size(outbuf') = Size(outbuf) - Ntx /\ Size(outbuf) \in Nat
      BY <1>0, <1>6, IntrEffect, Types, RingFacts
    <3> QED BY <3>1, <3>2
  <2>3. /\ ringbuf_empty(outbuf) <=> Size(outbuf) = 0
        /\ ringbuf_empty(outbuf') <=> Size(outbuf') = 0
    BY <1>0, <1>6, IntrEffect, Types, RingFacts
  <2> QED BY <1>0, <2>1, <2>2, <2>3 DEF TxArmed, StoreKeepsTx, shell, NothingToSend
<1> QED BY <1>1, <1>2, <1>3, <1>4, <1>5, <1>6 DEF Next, ShellStep

(* Without the polling printer, output in the buffer always has the
   transmit interrupt armed: pl011_uart_write() is the only one to fill it. *)
THEOREM SpecTxArmed ==
  ASSUME Printer = FALSE
  PROVE  Spec => []TxArmed /\ []StoreKeepsTx
<1>1. Init => TxArmed /\ StoreKeepsTx
  BY DEF Init, EmptyRing, ringbuf_empty, TxArmed, StoreKeepsTx
<1>2. Inv /\ TxArmed /\ StoreKeepsTx /\ [Next]_vars => TxArmed' /\ StoreKeepsTx'
  BY NextTx
<1> QED BY <1>1, <1>2, SpecInv, PTL DEF Spec
-----------------------------------------------------------------------------
(***************************************************************************)
(* How full the buffers are evolves as UartLevels says: what the bytes are *)
(* decides nothing.  The shell's store of IMSC is a UserStore because of   *)
(* StoreKeepsTx.                                                           *)
(***************************************************************************)
LEMMA LevelsStep ==
  ASSUME Inv, StoreKeepsTx, [Next]_vars
  PROVE  Levels!Next \/ UNCHANGED Levels!uart
<1>0. /\ TypeOK /\ imsc \in [tx : BOOLEAN, rx : BOOLEAN]
      /\ mask \in [tx : BOOLEAN, rx : BOOLEAN]
  BY DEF Inv, TypeOK
<1>1. CASE Arrive
  <2>1. /\ Len(rxfifo) < FifoSize /\ Len(rxfifo') = Len(rxfifo) + 1
        /\ UNCHANGED <<Size(inbuf), Size(outbuf), Len(txfifo), imsc>>
    BY <1>0, <1>1, ArriveEffect DEF Arrive
  <2>2. Levels!Arrive
    BY <2>1 DEF Levels!Arrive
  <2> QED BY <2>2 DEF Levels!Next
<1>2. CASE Leave
  <2>1. /\ Len(txfifo) > 0 /\ Len(txfifo') = Len(txfifo) - 1
        /\ UNCHANGED <<Size(inbuf), Size(outbuf), Len(rxfifo), imsc>>
    <3>1. Len(txfifo) > 0
      BY <1>0, <1>2, LeaveEffect, Types, EmptySeq
    <3> QED BY <1>0, <1>2, <3>1, LeaveEffect DEF Leave
  <2>2. Levels!Leave
    BY <2>1 DEF Levels!Leave
  <2> QED BY <2>2 DEF Levels!Next
<1>3. ASSUME NEW count \in 1 .. MaxCount, pl011_uart_write(count)
      PROVE  Levels!Next
  <2>1. /\ Size(outbuf') = Size(outbuf) + Least(count, Room(outbuf))
        /\ Room(outbuf) = UART_IOBUFSIZE - 1 - Size(outbuf)
    BY <1>0, <1>3, WriteEffect DEF Room
  <2>2. /\ imsc' = [imsc EXCEPT !.tx = TRUE]
        /\ UNCHANGED <<Size(inbuf), Len(rxfifo), Len(txfifo)>>
    BY <1>3 DEF pl011_uart_write, TxEnabled
  <2>3. Levels!pl011_uart_write(count)
    BY <2>1, <2>2 DEF Levels!pl011_uart_write, Levels!Least, Levels!Full, Least
  <2> QED BY <2>3 DEF Levels!Next
<1>4. ASSUME NEW count \in 1 .. MaxCount, pl011_uart_read(count)
      PROVE  Levels!Next
  <2>1. Size(inbuf') = Size(inbuf) - Least(count, Size(inbuf))
    BY <1>0, <1>4, ReadEffect
  <2>2. /\ imsc' = [imsc EXCEPT !.rx = TRUE]
        /\ UNCHANGED <<Size(outbuf), Len(rxfifo), Len(txfifo)>>
    BY <1>4 DEF pl011_uart_read, RxEnabled
  <2>3. Levels!pl011_uart_read(count)
    BY <2>1, <2>2 DEF Levels!pl011_uart_read, Levels!Least, Least
  <2> QED BY <2>3 DEF Levels!Next
<1>5. CASE ShellCall \/ ShellTest \/ ShellPop \/ ShellLoad \/ UNCHANGED vars
  BY <1>5 DEF ShellCall, ShellTest, ShellPop, ShellLoad, outside, vars,
              Levels!uart
<1>6. CASE ShellAdvance
  <2>1. Size(inbuf) >= 1
    BY <1>6 DEF ShellAdvance, Inv, Reading
  <2>2. /\ Size(inbuf) > 0 /\ Size(inbuf') = Size(inbuf) - 1
        /\ UNCHANGED <<Size(outbuf), Len(rxfifo), Len(txfifo), imsc>>
    <3>1. Size(inbuf) \in Nat
      BY <1>0, Types, RingFacts
    <3> QED BY <1>0, <1>6, <2>1, <3>1, AdvanceEffect DEF ShellAdvance, outside
  <2>3. Levels!UserPop
    BY <2>2 DEF Levels!UserPop
  <2> QED BY <2>3 DEF Levels!Next
<1>7. CASE ShellStore
  <2>1. imsc' \in [tx : {imsc.tx, TRUE}, rx : {TRUE}]
    BY <1>0, <1>7 DEF ShellStore, RxEnabled, StoreKeepsTx
  <2>2. UNCHANGED <<Size(inbuf), Size(outbuf), Len(rxfifo), Len(txfifo)>>
    BY <1>7 DEF ShellStore, outside
  <2>3. Levels!UserStore
    BY <2>1, <2>2 DEF Levels!UserStore
  <2> QED BY <2>3 DEF Levels!Next
<1>8. CASE pl011_uart_intr
  <2>1. /\ Size(inbuf') = Size(inbuf) + Nrx /\ Len(rxfifo') = Len(rxfifo) - Nrx
        /\ Size(outbuf') = Size(outbuf) - Ntx /\ Len(txfifo') = Len(txfifo) + Ntx
    BY <1>0, <1>8, IntrEffect
  <2>2. /\ Levels!RXMIS = RXMIS /\ Levels!TXMIS = TXMIS
    BY DEF Levels!RXMIS, Levels!TXMIS, RXMIS, TXMIS
  <2>3. /\ Nrx = IF RXMIS THEN Levels!Least(Levels!Full - Size(inbuf), Len(rxfifo)) ELSE 0
        /\ Ntx = IF TXMIS THEN Levels!Least(Size(outbuf), FifoSize - Len(txfifo)) ELSE 0
    BY DEF Nrx, Ntx, Levels!Least, Levels!Full, Least, Room
  <2>4. /\ ringbuf_empty(outbuf') <=> Size(outbuf') = 0
        /\ Room(inbuf') = 0 <=> Size(inbuf') = Levels!Full
    BY <1>0, <1>8, IntrEffect, RingFacts, SizeIsPositive DEF Levels!Full, N
  <2>5. imsc' = [tx |-> Levels!DisableIf(imsc.tx, TXMIS /\ Size(outbuf') = 0),
                 rx |-> Levels!DisableIf(imsc.rx, RXMIS /\ Size(inbuf') = Levels!Full)]
    BY <1>8, <2>4 DEF pl011_uart_intr, NothingToSend, Levels!DisableIf
  <2>6. RXMIS \/ TXMIS
    BY <1>8 DEF pl011_uart_intr
  <2>7. Levels!pl011_uart_intr
    BY <2>1, <2>2, <2>3, <2>5, <2>6 DEF Levels!pl011_uart_intr
  <2> QED BY <2>7 DEF Levels!Next
<1> QED BY <1>1, <1>2, <1>3, <1>4, <1>5, <1>6, <1>7, <1>8 DEF Next, ShellStep

(* The driver implements UartLevels, the abstract view of its fill levels. *)
THEOREM SpecIsUartLevels ==
  ASSUME Printer = FALSE
  PROVE  Spec => IsUartLevels
<1>1. Init => Levels!Init
  <2> SUFFICES ASSUME Init PROVE Levels!Init
    OBVIOUS
  <2>1. TypeOK
    BY InitInv DEF Inv
  <2>2. Size(inbuf) = 0 /\ Size(outbuf) = 0
    BY <2>1, Types, RingFacts DEF Init, EmptyRing
  <2> QED BY <2>2 DEF Init, Levels!Init
<1>2. Inv /\ StoreKeepsTx /\ [Next]_vars => [Levels!Next]_Levels!uart
  BY LevelsStep
<1> QED BY <1>1, <1>2, SpecInv, SpecTxArmed, PTL DEF Spec, IsUartLevels, Levels!Spec
-----------------------------------------------------------------------------
(* Taking n elements off the front of c \o t takes them off c.             *)
LEMMA DropOfConcat ==
  ASSUME NEW c \in Seq(Byte), NEW t \in Seq(Byte), NEW n \in 0 .. Len(c)
  PROVE  SubSeq(c \o t, n+1, Len(c \o t)) = SubSeq(c, n+1, Len(c)) \o t
<1> DEFINE s == c \o t
           b == SubSeq(c, n+1, Len(c))
           d == SubSeq(s, n+1, Len(s))
<1>1. Len(c) \in Nat /\ Len(t) \in Nat
  BY LenProperties
<1>2. /\ s \in Seq(Byte) /\ Len(s) = Len(c) + Len(t)
      /\ \A i \in 1 .. Len(c) + Len(t) :
           s[i] = IF i <= Len(c) THEN c[i] ELSE t[i - Len(c)]
  BY ConcatProperties
<1>3. /\ b \in Seq(Byte) /\ Len(b) = Len(c) - n
      /\ \A i \in 1 .. Len(c) - n : b[i] = c[n + i]
  BY Split
<1> HIDE DEF s, b
<1>4. /\ d \in Seq(Byte) /\ Len(d) = Len(s) - n
      /\ \A i \in 1 .. Len(s) - n : d[i] = s[n + i]
  BY <1>1, <1>2, Split
<1>5. /\ b \o t \in Seq(Byte) /\ Len(b \o t) = Len(b) + Len(t)
      /\ \A i \in 1 .. Len(b) + Len(t) :
           (b \o t)[i] = IF i <= Len(b) THEN b[i] ELSE t[i - Len(b)]
  BY <1>3, ConcatProperties
<1> HIDE DEF d
<1>6. ASSUME NEW i \in 1 .. Len(d) PROVE d[i] = (b \o t)[i]
  <2>1. /\ i \in 1 .. Len(s) - n /\ i \in 1 .. Len(b) + Len(t)
        /\ n + i \in 1 .. Len(c) + Len(t)
        /\ (n + i) - Len(c) = i - Len(b) /\ (n + i <= Len(c) <=> i <= Len(b))
    BY <1>1, <1>2, <1>3, <1>4
  <2>2. CASE i <= Len(b)
    <3>1. i \in 1 .. Len(c) - n
      BY <1>3, <2>2
    <3> QED BY <1>2, <1>3, <1>4, <1>5, <2>1, <2>2, <3>1
  <2>3. CASE ~(i <= Len(b))
    BY <1>2, <1>4, <1>5, <2>1, <2>3
  <2> QED BY <2>2, <2>3
<1>7. Len(d) = Len(b \o t)
  BY <1>1, <1>2, <1>3, <1>4, <1>5
<1>8. d = b \o t
  BY <1>4, <1>5, <1>6, <1>7, SeqEqual
<1> QED BY <1>8 DEF d, s, b

(* Between without the auxiliary sequence. *)
Chain(from, s) == \A i \in 1 .. Len(s) : s[i] = After(IF i = 1 THEN from ELSE s[i-1])
Final(from, s) == IF Len(s) = 0 THEN from ELSE s[Len(s)]

(* Between, place by place.                                                *)
LEMMA BetweenIsChain ==
  ASSUME NEW from \in Byte, NEW s \in Seq(Byte), NEW to
  PROVE  Between(from, s, to) <=> Chain(from, s) /\ to = Final(from, s)
<1> DEFINE all == <<from>> \o s
<1>1. Len(s) \in Nat
  BY LenProperties
<1>2. /\ Len(all) = Len(s) + 1
      /\ \A i \in 1 .. Len(s) + 1 : all[i] = IF i = 1 THEN from ELSE s[i-1]
  <2>1. <<from>> \in Seq(Byte) /\ Len(<<from>>) = 1 /\ <<from>>[1] = from
    OBVIOUS
  <2>2. /\ Len(all) = 1 + Len(s)
        /\ \A i \in 1 .. 1 + Len(s) :
             all[i] = IF i <= 1 THEN <<from>>[i] ELSE s[i - 1]
    BY <2>1, ConcatProperties
  <2> HIDE DEF all
  <2> QED BY <1>1, <2>1, <2>2
<1> HIDE DEF all
<1>3. /\ \A i \in 1 .. Len(s) : all[i+1] = s[i]
      /\ \A i \in 1 .. Len(s) : all[i] = IF i = 1 THEN from ELSE s[i-1]
      /\ all[Len(all)] = Final(from, s)
  BY <1>1, <1>2 DEF Final
<1>4. Between(from, s, to) <=> /\ \A i \in 1 .. Len(s) : all[i+1] = After(all[i])
                               /\ all[Len(all)] = to
  BY DEF Between, all
<1> QED BY <1>3, <1>4 DEF Chain

(* One more byte at the end of the chain ...                               *)
LEMMA BetweenAppend ==
  ASSUME NEW from \in Byte, NEW s \in Seq(Byte), NEW to \in Byte,
         After(to) \in Byte, Between(from, s, to)
  PROVE  Between(from, Append(s, After(to)), After(to))
<1> DEFINE t == Append(s, After(to))
<1>1. /\ t \in Seq(Byte) /\ Len(t) = Len(s) + 1 /\ Len(s) \in Nat
      /\ \A i \in 1 .. Len(s) : t[i] = s[i]
      /\ t[Len(s) + 1] = After(to)
  BY AppendProperties, LenProperties
<1>2. Chain(from, s) /\ to = Final(from, s)
  BY BetweenIsChain
<1> HIDE DEF t
<1>3. After(to) = Final(from, t)
  BY <1>1 DEF Final
<1>4. ASSUME NEW i \in 1 .. Len(t)
      PROVE  t[i] = After(IF i = 1 THEN from ELSE t[i-1])
  <2>1. CASE i = Len(s) + 1
    <3>1. to = IF i = 1 THEN from ELSE t[i-1]
      BY <1>1, <1>2, <2>1 DEF Final
    <3> QED BY <1>1, <2>1, <3>1
  <2>2. CASE i # Len(s) + 1
    <3>1. i \in 1 .. Len(s) /\ (i # 1 => i - 1 \in 1 .. Len(s))
      BY <1>1, <2>2
    <3>2. s[i] = After(IF i = 1 THEN from ELSE s[i-1])
      BY <1>2, <3>1 DEF Chain
    <3> QED BY <1>1, <3>1, <3>2
  <2> QED BY <2>1, <2>2
<1>5. Between(from, t, After(to))
  BY <1>1, <1>3, <1>4, BetweenIsChain DEF Chain
<1> QED BY <1>5 DEF t

(* ... and the first n taken from its front.                               *)
LEMMA BetweenDrop ==
  ASSUME NEW from \in Byte, NEW s \in Seq(Byte), NEW to,
         NEW n \in 1 .. Len(s), Between(from, s, to)
  PROVE  Between(s[n], SubSeq(s, n+1, Len(s)), to)
<1> DEFINE t == SubSeq(s, n+1, Len(s))
<1>1. /\ t \in Seq(Byte) /\ Len(t) = Len(s) - n /\ Len(s) \in Nat
      /\ \A i \in 1 .. Len(s) - n : t[i] = s[n + i]
      /\ s[n] \in Byte
  BY Split, LenProperties, ElementOfSeq
<1>2. Chain(from, s) /\ to = Final(from, s)
  BY BetweenIsChain
<1> HIDE DEF t
<1>3. to = Final(s[n], t)
  <2>1. to = s[Len(s)]
    BY <1>1, <1>2 DEF Final
  <2>2. CASE Len(t) = 0
    <3>1. Len(s) = n
      BY <1>1, <2>2
    <3> QED BY <2>1, <2>2, <3>1 DEF Final
  <2>3. CASE Len(t) # 0
    <3>1. Len(t) \in 1 .. Len(s) - n /\ n + Len(t) = Len(s)
      BY <1>1, <2>3
    <3> QED BY <1>1, <2>1, <2>3, <3>1 DEF Final
  <2> QED BY <2>2, <2>3
<1>4. ASSUME NEW i \in 1 .. Len(t)
      PROVE  t[i] = After(IF i = 1 THEN s[n] ELSE t[i-1])
  <2>1. n + i \in 1 .. Len(s) /\ n + i # 1 /\ i \in 1 .. Len(s) - n
    BY <1>1
  <2>2. t[i] = After(s[n + i - 1])
    BY <1>1, <1>2, <2>1 DEF Chain
  <2>3. s[n + i - 1] = IF i = 1 THEN s[n] ELSE t[i-1]
    <3>1. CASE i = 1
      <4>1. n + i - 1 = n
        BY <3>1
      <4> QED BY <3>1, <4>1
    <3>2. CASE i # 1
      <4>1. i - 1 \in 1 .. Len(s) - n /\ n + i - 1 = n + (i - 1)
        BY <1>1, <3>2
      <4> QED BY <1>1, <3>2, <4>1
    <3> QED BY <3>1, <3>2
  <2> QED BY <2>2, <2>3
<1>5. Between(s[n], t, to)
  BY <1>1, <1>3, <1>4, BetweenIsChain DEF Chain
<1> QED BY <1>5 DEF t
-----------------------------------------------------------------------------
(***************************************************************************)
(* Input.  The shell holds the oldest byte of inbuf from its read of       *)
(* buf[rpos] until it advances rpos: the handler only adds younger ones.   *)
(***************************************************************************)
ElemIsOldest == at = "advance" => elem = Contents(inbuf)[1]

(* Every step keeps the input in order.                                    *)
LEMMA NextInput ==
  ASSUME Inv, InputInOrder, ElemIsOldest, [Next]_vars
  PROVE  InputInOrder' /\ ElemIsOldest'
<1> DEFINE c == Contents(inbuf)
           s == c \o rxfifo
<1>0. TypeOK /\ Between(delivered, s, arrived)
  BY DEF Inv, InputInOrder
<1>a. /\ inbuf \in Ring /\ rxfifo \in Seq(Byte) /\ arrived \in Byte
      /\ delivered \in Byte /\ Len(rxfifo) \in Nat
  BY <1>0, Types, LenProperties
<1>b. c \in Seq(Byte) /\ Len(c) = Size(inbuf) /\ Size(inbuf) \in Nat
  BY <1>a, ContentsFacts, RingFacts
<1>c. /\ s \in Seq(Byte) /\ Len(s) = Len(c) + Len(rxfifo)
      /\ \A i \in 1 .. Len(c) : s[i] = c[i]
  <2> HIDE DEF c
  <2>1. /\ s \in Seq(Byte) /\ Len(s) = Len(c) + Len(rxfifo)
        /\ \A i \in 1 .. Len(c) + Len(rxfifo) :
             s[i] = IF i <= Len(c) THEN c[i] ELSE rxfifo[i - Len(c)]
    BY <1>a, <1>b, ConcatProperties
  <2>2. \A i \in 1 .. Len(c) : i <= Len(c) /\ i \in 1 .. Len(c) + Len(rxfifo)
    BY <1>a, <1>b
  <2> HIDE DEF s
  <2> QED BY <2>1, <2>2
(* A reader that takes n > 0 bytes has been given the n-th of them. *)
<1>d. ASSUME NEW n \in 1 .. Size(inbuf), delivered' = c[n],
             Contents(inbuf') = SubSeq(c, n+1, Size(inbuf)),
             rxfifo' = rxfifo, arrived' = arrived
      PROVE  InputInOrder'
  <2>1. n \in 1 .. Len(s) /\ s[n] = c[n] /\ n \in 0 .. Len(c)
    <3> HIDE DEF c, s
    <3> QED BY <1>a, <1>b, <1>c
  <2>2. Between(s[n], SubSeq(s, n+1, Len(s)), arrived)
    <3> HIDE DEF s
    <3> QED BY <1>0, <1>a, <1>c, <2>1, BetweenDrop
  <2>3. SubSeq(s, n+1, Len(s)) = SubSeq(c, n+1, Len(c)) \o rxfifo
    <3> HIDE DEF c
    <3> QED BY <1>a, <1>b, <2>1, DropOfConcat
  <2> HIDE DEF c, s
  <2> QED BY <1>b, <1>d, <2>1, <2>2, <2>3 DEF InputInOrder
<1>1. CASE Arrive
  <2>1. /\ UNCHANGED <<inbuf, delivered, shell>> /\ arrived' = After(arrived)
        /\ rxfifo' = Append(rxfifo, After(arrived)) /\ After(arrived) \in Byte
    BY <1>0, <1>1, ArriveEffect DEF Arrive
  <2>2. c \o Append(rxfifo, After(arrived)) = Append(s, After(arrived))
    <3> DEFINE x == After(arrived)
    <3> HIDE DEF x, c
    <3>1. x \in Byte
      BY <2>1 DEF x
    <3>2. Append(rxfifo, x) = rxfifo \o <<x>> /\ <<x>> \in Seq(Byte)
      BY <1>a, <3>1, AppendIsConcat
    <3>3. Append(s, x) = s \o <<x>>
      <4> HIDE DEF s
      <4> QED BY <1>c, <3>1, AppendIsConcat
    <3>4. (c \o rxfifo) \o <<x>> = c \o (rxfifo \o <<x>>)
      BY <1>a, <1>b, <3>2, ConcatAssociative
    <3> QED BY <3>2, <3>3, <3>4 DEF x
  <2>3. Between(delivered, Append(s, After(arrived)), After(arrived))
    <3> HIDE DEF s
    <3> QED BY <1>0, <1>a, <1>c, <2>1, BetweenAppend
  <2> QED BY <2>1, <2>2, <2>3 DEF InputInOrder, ElemIsOldest, shell
<1>2. ASSUME NEW count \in 1 .. MaxCount, pl011_uart_read(count)
      PROVE  InputInOrder' /\ ElemIsOldest'
  <2> DEFINE n == Least(count, Size(inbuf))
  <2>1. /\ n \in 0 .. Size(inbuf)
        /\ Contents(inbuf') = SubSeq(c, n+1, Size(inbuf))
        /\ delivered' = IF n = 0 THEN delivered ELSE c[n]
    BY <1>0, <1>2, ReadEffect
  <2>2. UNCHANGED <<rxfifo, arrived, shell>> /\ at = "idle"
    BY <1>2 DEF pl011_uart_read
  <2> HIDE DEF n
  <2>3. CASE n = 0
    <3>1. SubSeq(c, 1, Len(c)) = c
      <4> HIDE DEF c
      <4> QED BY <1>b, SubSeqFull
    <3>2. Contents(inbuf') = c
      BY <1>b, <2>1, <2>3, <3>1
    <3> QED BY <1>0, <2>1, <2>2, <2>3, <3>2 DEF InputInOrder, ElemIsOldest, shell
  <2>4. CASE n # 0
    <3>1. n \in 1 .. Size(inbuf)
      BY <1>b, <2>1, <2>4
    <3>2. InputInOrder'
      BY <1>d, <2>1, <2>2, <2>4, <3>1
    <3> QED BY <2>2, <3>2 DEF ElemIsOldest, shell
  <2> QED BY <2>3, <2>4
<1>3. CASE ShellAdvance
  <2>1. Size(inbuf) >= 1 /\ elem = c[1]
    BY <1>3 DEF ShellAdvance, Inv, Reading, ElemIsOldest
  <2>2. Contents(inbuf') = SubSeq(c, 2, Size(inbuf))
    BY <1>0, <1>3, <2>1, AdvanceEffect
  <2>3. delivered' = elem /\ rxfifo' = rxfifo /\ arrived' = arrived /\ at' = "test"
    BY <1>3 DEF ShellAdvance, outside
  <2>4. 1 \in 1 .. Size(inbuf) /\ 1 + 1 = 2
    BY <1>b, <2>1
  <2>5. InputInOrder'
    BY <1>d, <2>1, <2>2, <2>3, <2>4
  <2> QED BY <2>3, <2>5 DEF ElemIsOldest
<1>4. CASE ShellPop
  <2>1. Size(inbuf) >= 1
    BY <1>4 DEF ShellPop, Inv, Reading
  <2>2. c[1] = inbuf.buf[CellAt(inbuf, 1)]
    <3>1. 1 \in 1 .. Size(inbuf)
      BY <1>b, <2>1
    <3> QED BY <1>a, <3>1, ContentsFacts
  <2>3. CellAt(inbuf, 1) = inbuf.rpos
    BY <1>a, RingFacts DEF CellAt
  <2> QED BY <1>0, <1>4, <2>2, <2>3 DEF ShellPop, outside, InputInOrder, ElemIsOldest
<1>5. CASE pl011_uart_intr
  <2>1. UNCHANGED <<line, shell>>
    BY <1>5 DEF pl011_uart_intr
  <2>2. /\ Contents(inbuf') \o rxfifo' = s
        /\ inbuf' \in Ring /\ rxfifo' \in Seq(Byte) /\ Size(inbuf') = Size(inbuf) + Nrx
        /\ Nrx \in Nat
    <3>1. /\ Nrx \in 0 .. Len(rxfifo) /\ Contents(inbuf') \o rxfifo' = s
          /\ inbuf' \in Ring /\ rxfifo' \in Seq(Byte)
          /\ Size(inbuf') = Size(inbuf) + Nrx
      BY <1>0, <1>5, IntrEffect
    <3> QED BY <1>a, <3>1
  <2>3. InputInOrder'
    BY <1>0, <2>1, <2>2 DEF InputInOrder, line
  <2>4. ASSUME at = "advance" PROVE Contents(inbuf')[1] = c[1]
    <3> DEFINE d == Contents(inbuf')
    <3>1. d \in Seq(Byte) /\ Len(d) = Size(inbuf')
      BY <2>2, ContentsFacts
    <3>2. 1 \in 1 .. Len(c) /\ 1 \in 1 .. Len(d)
      BY <1>b, <2>2, <2>4, <3>1 DEF Inv, Reading
    <3> HIDE DEF d
    <3>3. (d \o rxfifo')[1] = d[1]
      <4>1. 1 \in 1 .. Len(d) + Len(rxfifo') /\ 1 <= Len(d)
        BY <2>2, <3>1, <3>2, LenProperties
      <4> QED BY <2>2, <3>1, <4>1, ConcatProperties
    <3>4. s[1] = c[1]
      <4> HIDE DEF s, c
      <4> QED BY <1>c, <3>2
    <3> QED BY <2>2, <3>3, <3>4 DEF d
  <2> QED BY <2>1, <2>3, <2>4 DEF ElemIsOldest, shell
<1>6. ASSUME NEW count \in 1 .. MaxCount, pl011_uart_write(count)
      PROVE  InputInOrder' /\ ElemIsOldest'
  BY <1>6 DEF pl011_uart_write, shell, InputInOrder, ElemIsOldest
<1>7. CASE \/ Leave \/ ShellCall \/ ShellTest \/ ShellLoad \/ ShellStore
           \/ UNCHANGED vars
  BY <1>7 DEF Leave, ShellCall, ShellTest, ShellLoad, ShellStore, vars, line, shell,
              outside, InputInOrder, ElemIsOldest
<1> QED BY <1>1, <1>2, <1>3, <1>4, <1>5, <1>6, <1>7 DEF Next, ShellStep

(***************************************************************************)
(* Every byte that arrives is given to a reader once and in order, for     *)
(* buffers of every size and whether or not another task prints.           *)
(***************************************************************************)
THEOREM SpecInputInOrder == Spec => []InputInOrder
<1>1. Init => InputInOrder /\ ElemIsOldest
  <2> SUFFICES ASSUME Init PROVE InputInOrder /\ ElemIsOldest
    OBVIOUS
  <2>1. TypeOK
    BY InitInv DEF Inv
  <2>2. Size(inbuf) = 0 /\ Contents(inbuf) \in Seq(Byte) /\ Len(Contents(inbuf)) = Size(inbuf)
    BY <2>1, Types, RingFacts, ContentsFacts DEF Init, EmptyRing
  <2>3. Contents(inbuf) = <<>>
    BY <2>2, EmptySeq
  <2>4. Contents(inbuf) \o rxfifo = <<>> /\ delivered = arrived /\ delivered \in Byte
    BY <2>1, <2>3, Types DEF Init
  <2>5. Between(delivered, <<>>, arrived)
    <3>1. <<>> \in Seq(Byte) /\ Len(<<>>) = 0
      OBVIOUS
    <3>2. Chain(delivered, <<>>) /\ arrived = Final(delivered, <<>>)
      BY <2>4, <3>1 DEF Chain, Final
    <3> QED BY <2>4, <3>1, <3>2, BetweenIsChain
  <2> QED BY <2>4, <2>5 DEF InputInOrder, ElemIsOldest, Init
<1>2. Inv /\ InputInOrder /\ ElemIsOldest /\ [Next]_vars
        => InputInOrder' /\ ElemIsOldest'
  BY NextInput
<1> QED BY <1>1, <1>2, SpecInv, PTL DEF Spec
-----------------------------------------------------------------------------
(* The oldest byte on its way out. *)
LEMMA HeadOfConcat ==
  ASSUME NEW c \in Seq(Byte), NEW t \in Seq(Byte), c # <<>>
  PROVE  /\ c \o t # <<>> /\ Head(c \o t) = Head(c) /\ Tail(c \o t) = Tail(c) \o t
<1> DEFINE s == c \o t
<1>1. Len(c) \in Nat \ {0} /\ Len(t) \in Nat /\ 1 \in 0 .. Len(c)
  BY EmptySeq, LenProperties
<1>2. s \in Seq(Byte) /\ Len(s) = Len(c) + Len(t) /\ s[1] = c[1]
  <2>1. /\ s \in Seq(Byte) /\ Len(s) = Len(c) + Len(t)
        /\ \A i \in 1 .. Len(c) + Len(t) :
             s[i] = IF i <= Len(c) THEN c[i] ELSE t[i - Len(c)]
    BY ConcatProperties
  <2>2. 1 \in 1 .. Len(c) + Len(t) /\ 1 <= Len(c)
    BY <1>1
  <2> HIDE DEF s
  <2> QED BY <2>1, <2>2
<1>3. SubSeq(s, 2, Len(s)) = SubSeq(c, 2, Len(c)) \o t
  <2>1. SubSeq(s, 1+1, Len(s)) = SubSeq(c, 1+1, Len(c)) \o t
    BY <1>1, DropOfConcat
  <2>2. 1 + 1 = 2
    OBVIOUS
  <2> QED BY <2>1, <2>2, Zenon
<1> HIDE DEF s
<1>4. s # <<>>
  BY <1>1, <1>2, EmptySeq
<1>5. Tail(s) = SubSeq(s, 2, Len(s)) /\ Tail(c) = SubSeq(c, 2, Len(c))
  BY <1>2, <1>4, TailIsSubSeq
<1>6. Head(s) = s[1] /\ Head(c) = c[1]
  BY <1>2, <1>4
<1>7. Tail(s) = Tail(c) \o t
  BY <1>3, <1>5
<1> QED BY <1>2, <1>4, <1>6, <1>7 DEF s

(***************************************************************************)
(* Output.  The bytes in txfifo and then those in outbuf are the abstract  *)
(* stream: a write appends to it, the line takes its head, and the handler *)
(* leaves it alone.                                                        *)
(***************************************************************************)
waiting == txfifo \o Contents(outbuf)

(* Every step is one of the byte stream, or leaves the output as it is.    *)
LEMMA StreamStep ==
  ASSUME TypeOK, [Next]_vars
  PROVE  Stream!Next \/ UNCHANGED <<waiting, accepted, sent>>
<1> DEFINE c == Contents(outbuf)
<1>1. /\ txfifo \in Seq(Byte) /\ Len(txfifo) \in Nat /\ c \in Seq(Byte)
      /\ Len(c) = Size(outbuf) /\ Size(outbuf) \in Nat
  BY Types, LenProperties, ContentsFacts, RingFacts
<1>2. CASE Leave
  <2>1. /\ txfifo # <<>> /\ txfifo' = Tail(txfifo) /\ sent' = Head(txfifo)
        /\ Contents(outbuf') = c /\ accepted' = accepted
    BY <1>2 DEF Leave
  <2>2. /\ txfifo \o c # <<>> /\ Head(txfifo \o c) = Head(txfifo)
        /\ Tail(txfifo \o c) = Tail(txfifo) \o c
    <3> HIDE DEF c
    <3> QED BY <1>1, <2>1, HeadOfConcat
  <2>3. Stream!Send
    BY <2>1, <2>2 DEF Stream!Send
  <2> QED BY <2>3 DEF Stream!Next
<1>3. ASSUME NEW count \in 1 .. MaxCount, pl011_uart_write(count)
      PROVE  Stream!Next
  <2> DEFINE n == Least(count, Room(outbuf))
             s == txfifo \o c
  <2>1. /\ n \in 0 .. count /\ n <= Room(outbuf) /\ (n < count => n = Room(outbuf))
        /\ Contents(outbuf') = c \o Written(n) /\ Written(n) \in Seq(Byte)
        /\ accepted' = (accepted + n) % Values
    BY <1>3, WriteEffect
  <2>2. UNCHANGED <<txfifo, sent>>
    BY <1>3 DEF pl011_uart_write
  <2> HIDE DEF n
  <2>3. Len(s) = Len(txfifo) + Size(outbuf)
    <3> HIDE DEF c
    <3> QED BY <1>1, ConcatProperties
  <2>4. txfifo \o (c \o Written(n)) = s \o Written(n)
    <3> DEFINE w == Written(n)
    <3>1. w \in Seq(Byte)
      BY <2>1
    <3> HIDE DEF c, w
    <3>2. (txfifo \o c) \o w = txfifo \o (c \o w)
      BY <1>1, <3>1, ConcatAssociative
    <3> QED BY <3>2 DEF w
  <2>5. n \in Stream!Taken(Len(s), count)
    <3>1. n < count => Len(s) + n >= UART_IOBUFSIZE - 1
      <4>1. Room(outbuf) = UART_IOBUFSIZE - 1 - Size(outbuf) /\ UART_IOBUFSIZE \in Nat
        BY UartAssumption DEF Room
      <4> HIDE DEF s, c
      <4> QED BY <1>1, <2>1, <2>3, <4>1
    <3> QED BY <2>1, <3>1 DEF Stream!Taken
  <2>6. Stream!Write(count)
    BY <2>1, <2>2, <2>4, <2>5 DEF Stream!Write, Written
  <2> QED BY <2>6 DEF Stream!Next
<1>4. CASE pl011_uart_intr
  BY <1>4, IntrEffect DEF pl011_uart_intr, line, waiting
<1>5. ASSUME NEW count \in 1 .. MaxCount, pl011_uart_read(count)
      PROVE  UNCHANGED <<waiting, accepted, sent>>
  BY <1>5 DEF pl011_uart_read, waiting
<1>6. CASE Arrive \/ ShellStep \/ UNCHANGED vars
  BY <1>6 DEF Arrive, ShellStep, ShellCall, ShellTest, ShellPop, ShellAdvance,
              ShellLoad, ShellStore, outside, vars, line, waiting
<1> QED BY <1>2, <1>3, <1>4, <1>5, <1>6 DEF Next

(***************************************************************************)
(* uart_write keeps the contract of ByteStream: every byte it takes leaves *)
(* on the line once and in order, and it is cut short by a full outbuf     *)
(* only.                                                                   *)
(***************************************************************************)
THEOREM SpecIsByteStream == Spec => IsByteStream
<1>1. Init => Stream!Init
  <2> SUFFICES ASSUME Init PROVE Stream!Init
    OBVIOUS
  <2>1. TypeOK
    BY InitInv DEF Inv
  <2>2. /\ Size(outbuf) = 0 /\ Contents(outbuf) \in Seq(Byte)
        /\ Len(Contents(outbuf)) = Size(outbuf)
    BY <2>1, Types, RingFacts, ContentsFacts DEF Init, EmptyRing
  <2>3. Contents(outbuf) = <<>>
    BY <2>2, EmptySeq
  <2> QED BY <2>3 DEF Init, Stream!Init
<1>2. TypeOK /\ [Next]_vars => [Stream!Next]_<<txfifo \o Contents(outbuf), accepted, sent>>
  BY StreamStep DEF waiting
<1> QED BY <1>1, <1>2, SpecTypeOK, PTL DEF Spec, IsByteStream, Stream!Spec
=============================================================================
