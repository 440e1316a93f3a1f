---------------------------- MODULE ConsoleProofs ----------------------------
(***************************************************************************)
(* Proofs about Console.tla, for every set of tasks, size of a buffer and  *)
(* length of a text: the retry loops of the printing functions neither     *)
(* lose nor repeat a character, however the tasks' writes are cut short    *)
(* and mixed with each other.                                              *)
(***************************************************************************)
EXTENDS Console, SequenceTheorems, TLAPS

FieldTypes ==
  /\ buf \in [Task -> Seq(Char)] /\ nwritten \in [Task -> Nat]

(* What a task has in its hands is its own.                                *)
OwnChars(t) ==
  /\ shown[t].by = t /\ made[t].by = t
  /\ \A i \in 1..Len(buf[t]) : buf[t][i].by = t

(* Between two calls nothing is left over, and a text ends with its call.  *)
CallInv(t) ==
  /\ at[t] = "user" => left[t] = 0 /\ buf[t] = <<>>
  /\ at[t] = "format" => left[t] > 0 /\ nwritten[t] = 0
  /\ left[t] = 0 => made[t].ends
  /\ ~made[t].ends => made[t].n + left[t] <= MaxText

BufInv(t) ==
  /\ \A i \in 1..Len(buf[t])-1 : Follows(buf[t][i], buf[t][i+1])
  /\ buf[t] # <<>> => buf[t][Len(buf[t])] = made[t]

(* What was written of a task is in order, up to a character that what it  *)
(* still has to write goes on from.                                        *)
GoesOn(t, c) ==
  IF nwritten[t] < Len(buf[t]) THEN Follows(c, buf[t][nwritten[t] + 1])
                               ELSE c = made[t]
OrderInv(t) ==
  \E c \in Char : InOrder(<<shown[t]>> \o stream, t, c) /\ GoesOn(t, c)

TaskInv(t) == OwnChars(t) /\ CallInv(t) /\ BufInv(t) /\ OrderInv(t)

IInv == TypeOK /\ FieldTypes /\ \A t \in Task : TaskInv(t)
-----------------------------------------------------------------------------
(* Concatenation, element by element.                                      *)
LEMMA Concat ==
  ASSUME NEW S, NEW s \in Seq(S), NEW w \in Seq(S)
  PROVE  /\ s \o w \in Seq(S) /\ Len(s \o w) = Len(s) + Len(w)
         /\ Len(s) \in Nat /\ Len(w) \in Nat
         /\ \A i \in 1..Len(s) : (s \o w)[i] = s[i]
         /\ \A i \in Len(s)+1 .. Len(s)+Len(w) :
               (s \o w)[i] = w[i - Len(s)] /\ i - Len(s) \in 1..Len(w)
OBVIOUS

(* A part of a sequence, element by element.                               *)
LEMMA Part ==
  ASSUME NEW S, NEW b \in Seq(S), NEW m \in Nat, NEW n \in Nat, m + n <= Len(b)
  PROVE  /\ SubSeq(b, m + 1, m + n) \in Seq(S)
         /\ Len(SubSeq(b, m + 1, m + n)) = n
         /\ \A i \in 1..n : SubSeq(b, m + 1, m + n)[i] = b[m + i]
<1>0. Len(b) \in Nat /\ m + 1 \in Int /\ m + n \in Int
  OBVIOUS
<1>1. \A i \in m+1 .. m+n : b[i] \in S
  <2> TAKE i \in m+1 .. m+n
  <2>1. i \in 1..Len(b)
    BY <1>0
  <2> QED
    BY <2>1
<1> DEFINE w == SubSeq(b, m + 1, m + n)
<1>2. /\ w \in Seq(S)
      /\ Len(w) = IF m + 1 <= m + n THEN (m + n) - (m + 1) + 1 ELSE 0
      /\ \A i \in 1 .. (m + n) - (m + 1) + 1 : w[i] = b[(m + 1) + i - 1]
  BY <1>0, <1>1, SubSeqProperties
<1> HIDE DEF w
<1>3. Len(w) = n
  BY <1>2
<1>4. \A i \in 1..n : i \in 1 .. (m + n) - (m + 1) + 1 /\ (m + 1) + i - 1 = m + i
  OBVIOUS
<1>5. \A i \in 1..n : w[i] = b[m + i]
  BY <1>2, <1>4
<1> QED
  BY <1>2, <1>3, <1>5 DEF w

(* A sequence with a length is not empty.                                  *)
LEMMA NonEmpty ==
  ASSUME NEW S, NEW s \in Seq(S)
  PROVE  Len(s) > 0 => s # <<>>
BY EmptySeq

(* The places of a part of a sequence, in the sequence.                    *)
LEMMA Positions ==
  ASSUME NEW l \in Nat, NEW m \in Nat, NEW n \in Nat, m + n <= l
  PROVE  /\ \A i \in 1..n : m + i \in 1..l
         /\ \A i \in 1..n-1 : /\ m + i \in 1..l-1 /\ (m + i) + 1 = m + (i + 1)
                            /\ i \in 1..n /\ i + 1 \in 1..n
OBVIOUS

(* Characters of other tasks at the end change nothing for t.              *)
LEMMA AppendForeign ==
  ASSUME NEW t, NEW c, NEW s \in Seq(Char), NEW w \in Seq(Char), InOrder(s, t, c),
         \A i \in 1..Len(w) : w[i].by # t
  PROVE  InOrder(s \o w, t, c)
<1> DEFINE own == {i \in 1..Len(s) : s[i].by = t}
           all == s \o w
<1>1. own = {i \in 1..Len(all) : all[i].by = t}
  BY Concat
<1>2. \A i \in own : all[i] = s[i]
  BY Concat
<1>3. /\ \A i, j \in own :
           i < j /\ (\A k \in own : k <= i \/ j <= k) => Follows(s[i], s[j])
      /\ \E i \in own : s[i] = c /\ \A k \in own : k <= i
  BY DEF InOrder
<1> HIDE DEF own, all
<1>4. /\ \A i, j \in own :
           i < j /\ (\A k \in own : k <= i \/ j <= k) => Follows(all[i], all[j])
      /\ \E i \in own : all[i] = c /\ \A k \in own : k <= i
  BY <1>2, <1>3
<1>5. InOrder(all, t, c)
  BY <1>1, <1>4 DEF InOrder
<1> QED
  BY <1>5 DEF all

(* Characters of t that go on from c carry the order to the last of them.  *)
LEMMA AppendOwn ==
  ASSUME NEW t, NEW c, NEW s \in Seq(Char), NEW w \in Seq(Char), InOrder(s, t, c),
         w # <<>>, \A i \in 1..Len(w) : w[i].by = t,
         Follows(c, w[1]), \A i \in 1..Len(w)-1 : Follows(w[i], w[i+1])
  PROVE  InOrder(s \o w, t, w[Len(w)])
<1> DEFINE own == {i \in 1..Len(s) : s[i].by = t}
           all == s \o w
           mine == {i \in 1..Len(all) : all[i].by = t}
<1>0. Len(w) \in Nat /\ Len(w) > 0 /\ Len(s) \in Nat /\ Len(all) = Len(s) + Len(w)
  BY EmptySeq, Concat
<1>1. /\ \A i \in 1..Len(s) : all[i] = s[i]
      /\ \A i \in Len(s)+1 .. Len(s)+Len(w) :
           all[i] = w[i - Len(s)] /\ i - Len(s) \in 1..Len(w)
  BY Concat
<1>2. mine = own \cup (Len(s)+1 .. Len(s)+Len(w))
  BY <1>0, <1>1
<1>3. PICK last \in own : s[last] = c /\ \A k \in own : k <= last
  BY DEF InOrder
<1>4. \A i, j \in own :
        i < j /\ (\A k \in own : k <= i \/ j <= k) => Follows(s[i], s[j])
  BY DEF InOrder
<1>5. own \subseteq 1..Len(s)
  OBVIOUS
<1> HIDE DEF own, all, mine
<1>6. ASSUME NEW i \in mine, NEW j \in mine, i < j, \A k \in mine : k <= i \/ j <= k
      PROVE  Follows(all[i], all[j])
  <2>1. CASE j \in own
    <3>1. i \in own
      BY <1>0, <1>2, <1>5, <1>6, <2>1
    <3> QED
      BY <1>1, <1>2, <1>4, <1>5, <1>6, <2>1, <3>1
  <2>2. CASE j = Len(s) + 1
    <3>1. i = last
      <4>1. last <= i \/ j <= last
        BY <1>2, <1>6
      <4>2. i \in own /\ i <= last
        BY <1>0, <1>2, <1>3, <1>6, <2>2
      <4> QED
        BY <1>0, <1>5, <2>2, <4>1, <4>2
    <3>2. all[i] = c /\ all[j] = w[1]
      <4>1. j - Len(s) = 1 /\ j \in Len(s)+1 .. Len(s)+Len(w)
        BY <1>0, <2>2
      <4>2. i \in 1..Len(s)
        BY <1>3, <1>5, <3>1
      <4> QED
        BY <1>1, <1>3, <3>1, <4>1, <4>2
    <3> QED
      BY <3>2
  <2>3. CASE j \in Len(s)+2 .. Len(s)+Len(w)
    <3>1. j - 1 \in mine /\ j - 1 \in Len(s)+1 .. Len(s)+Len(w)
      BY <1>0, <1>2, <2>3
    <3>2. i = j - 1
      <4>1. j - 1 <= i \/ j <= j - 1
        BY <1>6, <3>1
      <4>2. i \in Nat /\ j \in Nat
        BY <1>0, <1>2, <1>5
      <4> QED
        BY <1>6, <4>1, <4>2
    <3> DEFINE k == i - Len(s)
    <3>3. k \in 1..Len(w)-1 /\ j - Len(s) = k + 1
      BY <1>0, <2>3, <3>1, <3>2
    <3>4. all[i] = w[k] /\ all[j] = w[k+1]
      <4>1. i \in Len(s)+1 .. Len(s)+Len(w) /\ j \in Len(s)+1 .. Len(s)+Len(w)
        BY <1>0, <2>3, <3>1, <3>2
      <4> QED
        BY <1>1, <3>3, <4>1
    <3> HIDE DEF k
    <3> QED
      BY <3>3, <3>4
  <2> QED
    BY <1>0, <1>2, <2>1, <2>2, <2>3
<1>7. /\ Len(all) \in mine /\ all[Len(all)] = w[Len(w)]
      /\ \A k \in mine : k <= Len(all)
  <2>1. Len(all) \in Len(s)+1 .. Len(s)+Len(w) /\ Len(all) - Len(s) = Len(w)
    BY <1>0
  <2>2. all[Len(all)] = w[Len(w)]
    BY <1>1, <2>1
  <2> QED
    BY <1>0, <1>2, <1>5, <2>1, <2>2
<1>8. InOrder(all, t, w[Len(w)])
  BY <1>6, <1>7 DEF InOrder, mine
<1> QED
  BY <1>8 DEF all

(* The first character of t stands for what was shown of it: it may be     *)
(* dropped when the next one is of t, and the next one when it is not.     *)
LEMMA DropShown ==
  ASSUME NEW t, NEW c, NEW a \in Char, NEW s \in Seq(Char), s # <<>>,
         InOrder(<<a>> \o s, t, c), a.by = t, Head(s).by = t
  PROVE  InOrder(<<Head(s)>> \o Tail(s), t, c)
<1> DEFINE all == <<a>> \o s
           own == {i \in 1..Len(all) : all[i].by = t}
           mine == {i \in 1..Len(s) : s[i].by = t}
<1>1. <<Head(s)>> \o Tail(s) = s
  OBVIOUS
<1>2. /\ Len(s) \in Nat /\ Len(s) > 0 /\ Head(s) = s[1]
      /\ Len(all) = Len(s) + 1
      /\ \A i \in 1..Len(s) : all[i+1] = s[i]
  BY EmptySeq
<1>3. \A i \in 1..Len(s) : i \in mine <=> i + 1 \in own
  BY <1>2
<1>4. /\ \A i, j \in own :
           i < j /\ (\A k \in own : k <= i \/ j <= k) => Follows(all[i], all[j])
      /\ \E i \in own : all[i] = c /\ \A k \in own : k <= i
  BY DEF InOrder
<1>5. own \subseteq 1..Len(s)+1 /\ mine \subseteq 1..Len(s) /\ 1 \in mine
  BY <1>2
<1> HIDE DEF all, own, mine
<1>6. ASSUME NEW i \in mine, NEW j \in mine, i < j, \A k \in mine : k <= i \/ j <= k
      PROVE  Follows(s[i], s[j])
  <2>1. i + 1 \in own /\ j + 1 \in own /\ i + 1 < j + 1
    BY <1>2, <1>3, <1>5, <1>6
  <2>2. ASSUME NEW k \in own PROVE k <= i + 1 \/ j + 1 <= k
    <3>1. CASE k = 1
      BY <3>1, <1>5
    <3>2. CASE k # 1
      <4>1. k - 1 \in 1..Len(s) /\ (k - 1) + 1 = k
        BY <1>2, <1>5, <3>2
      <4>2. k - 1 \in mine
        BY <1>3, <4>1
      <4>3. k - 1 <= i \/ j <= k - 1
        BY <1>6, <4>2
      <4> QED
        BY <1>2, <1>5, <4>1, <4>3
    <3> QED
      BY <3>1, <3>2
  <2> QED
    BY <1>2, <1>4, <1>5, <2>1, <2>2
<1>7. \E i \in mine : s[i] = c /\ \A k \in mine : k <= i
  <2>1. PICK l \in own : all[l] = c /\ \A k \in own : k <= l
    BY <1>4
  <2>2. l - 1 \in 1..Len(s) /\ (l - 1) + 1 = l
    <3>1. 2 \in own
      BY <1>2, <1>3, <1>5
    <3> QED
      BY <1>2, <1>5, <2>1, <3>1
  <2>3. l - 1 \in mine /\ s[l-1] = c
    BY <1>2, <1>3, <2>1, <2>2
  <2>4. \A k \in mine : k <= l - 1
    <3> TAKE k \in mine
    <3>1. k + 1 <= l
      BY <1>3, <1>5, <2>1
    <3> QED
      BY <1>2, <1>5, <2>2, <3>1
  <2> QED
    BY <2>3, <2>4
<1> QED
  BY <1>1, <1>6, <1>7 DEF InOrder, mine

(* A character of another task leaves the queue: nothing changes for t.    *)
LEMMA DropForeign ==
  ASSUME NEW t, NEW c, NEW a \in Char, NEW s \in Seq(Char), s # <<>>,
         InOrder(<<a>> \o s, t, c), a.by = t, Head(s).by # t
  PROVE  InOrder(<<a>> \o Tail(s), t, c)
<1> DEFINE all == <<a>> \o s
           rest == <<a>> \o Tail(s)
           own == {i \in 1..Len(all) : all[i].by = t}
           mine == {i \in 1..Len(rest) : rest[i].by = t}
           old(i) == IF i = 1 THEN 1 ELSE i + 1
<1>1. /\ Len(s) \in Nat /\ Len(s) > 0 /\ Len(all) = Len(s) + 1 /\ Len(rest) = Len(s)
      /\ all[1] = a /\ rest[1] = a /\ all[2] = Head(s)
      /\ \A i \in 2..Len(s) : all[i+1] = rest[i]
  <2>1. Len(s) \in Nat /\ Len(s) > 0
    BY EmptySeq
  <2>2. Tail(s) \in Seq(Char) /\ Len(Tail(s)) = Len(s) - 1 /\ Head(s) = s[1]
    OBVIOUS
  <2>3. \A i \in 1..Len(s)-1 : Tail(s)[i] = s[i+1]
    OBVIOUS
  <2>4. /\ Len(all) = Len(s) + 1 /\ all[1] = a
        /\ \A i \in 2..Len(s)+1 : all[i] = s[i-1]
    OBVIOUS
  <2>5. /\ Len(rest) = Len(s) /\ rest[1] = a
        /\ \A i \in 2..Len(s) : rest[i] = Tail(s)[i-1]
    BY <2>1, <2>2
  <2>6. all[2] = Head(s)
    <3>1. 2 \in 2..Len(s)+1 /\ 2 - 1 = 1
      BY <2>1
    <3> QED
      BY <2>2, <2>4, <3>1
  <2>7. \A i \in 2..Len(s) : all[i+1] = rest[i]
    <3> TAKE i \in 2..Len(s)
    <3>1. i + 1 \in 2..Len(s)+1 /\ (i + 1) - 1 = i /\ i - 1 \in 1..Len(s)-1 /\ (i - 1) + 1 = i
      BY <2>1
    <3> QED
      BY <2>3, <2>4, <2>5, <3>1
  <2> QED
    BY <2>1, <2>4, <2>5, <2>6, <2>7
<1>2. /\ own \subseteq 1..Len(s)+1 /\ mine \subseteq 1..Len(s)
      /\ 1 \in own /\ 1 \in mine /\ 2 \notin own
      /\ \A i \in 2..Len(s) : i \in mine <=> i + 1 \in own
  BY <1>1
<1>3. /\ \A i, j \in own :
           i < j /\ (\A k \in own : k <= i \/ j <= k) => Follows(all[i], all[j])
      /\ \E i \in own : all[i] = c /\ \A k \in own : k <= i
  BY DEF InOrder
<1> HIDE DEF all, rest, own, mine
<1>4. \A i \in mine : old(i) \in own /\ all[old(i)] = rest[i]
  BY <1>1, <1>2
<1>5. \A k \in own : \E i \in mine : k = old(i)
  <2> TAKE k \in own
  <2>1. CASE k = 1
    BY <1>2, <2>1
  <2>2. CASE k # 1
    <3>1. k - 1 \in 2..Len(s) /\ (k - 1) + 1 = k
      BY <1>1, <1>2, <2>2
    <3>2. k - 1 \in mine /\ k - 1 # 1
      BY <1>2, <3>1
    <3> QED
      BY <3>1, <3>2
  <2> QED
    BY <2>1, <2>2
<1>6. \A i, j \in mine : (i <= j <=> old(i) <= old(j)) /\ (i < j <=> old(i) < old(j))
  BY <1>1, <1>2
<1> HIDE DEF old
<1>7. ASSUME NEW i \in mine, NEW j \in mine, i < j, \A k \in mine : k <= i \/ j <= k
      PROVE  Follows(rest[i], rest[j])
  <2>1. \A k \in own : k <= old(i) \/ old(j) <= k
    BY <1>5, <1>6, <1>7
  <2>2. Follows(all[old(i)], all[old(j)])
    BY <1>3, <1>4, <1>6, <1>7, <2>1
  <2> QED
    BY <1>4, <2>2
<1>8. \E i \in mine : rest[i] = c /\ \A k \in mine : k <= i
  BY <1>3, <1>4, <1>5, <1>6
<1>9. InOrder(rest, t, c)
  BY <1>7, <1>8 DEF InOrder, mine
<1> QED
  BY <1>9 DEF rest
-----------------------------------------------------------------------------
(* The steps. *)

(* The invariant, as the steps below use it.                               *)
LEMMA Facts ==
  ASSUME IInv, NEW t \in Task
  PROVE  /\ at[t] \in {"user", "format", "write"} /\ left[t] \in 0..MaxText
         /\ buf[t] \in Seq(Char) /\ nwritten[t] \in 0..Len(buf[t])
         /\ Len(buf[t]) \in Nat /\ made[t] \in Char /\ shown[t] \in Char
         /\ made[t].by = t /\ shown[t].by = t
         /\ MaxText \in Nat
BY ConsoleAssumption DEF IInv, TypeOK, FieldTypes, TaskInv, OwnChars

(* The next character is one of the task's text.                           *)
LEMMA NextCharFacts ==
  ASSUME IInv, NEW t \in Task, left[t] > 0
  PROVE  /\ NextChar(t) \in Char /\ NextChar(t).by = t
         /\ Follows(made[t], NextChar(t))
         /\ NextChar(t).ends <=> left[t] = 1
         /\ ~NextChar(t).ends => NextChar(t).n + (left[t] - 1) <= MaxText
<1>1. /\ left[t] \in 1..MaxText /\ MaxText \in Nat /\ made[t] \in Char
      /\ made[t].ends \in BOOLEAN /\ made[t].n \in 0..MaxText
      /\ ~made[t].ends => made[t].n + left[t] <= MaxText
  BY Facts DEF IInv, TaskInv, CallInv, Char
<1> DEFINE n == IF made[t].ends THEN 1 ELSE made[t].n + 1
<1>2. n \in 0..MaxText /\ n + (left[t] - 1) <= MaxText
  BY <1>1
<1> DEFINE last == left[t] = 1
<1>3. NextChar(t) = [by |-> t, n |-> n, ends |-> last] /\ last \in BOOLEAN
  BY DEF NextChar
<1> HIDE DEF n, last
<1>4. /\ NextChar(t).by = t /\ NextChar(t).n = n /\ NextChar(t).ends = last
      /\ NextChar(t) \in Char
  BY <1>2, <1>3 DEF Char
<1>5. Follows(made[t], NextChar(t))
  BY <1>4 DEF Follows, n
<1> QED
  BY <1>2, <1>4, <1>5 DEF last

(* Before the first call.                                                  *)
LEMMA InitIInv == Init => IInv
<1> SUFFICES ASSUME Init PROVE IInv
  OBVIOUS
<1>0. /\ 0 \in 0..MaxText /\ MaxText \in Nat /\ BufSize \in Nat /\ BufSize > 1
      /\ MaxWaiting \in Nat
  BY ConsoleAssumption
<1>1. \A t : None(t).by = t /\ None(t).ends /\ None(t).n = 0
  BY DEF None
<1>2. \A t \in Task : None(t) \in Char
  BY <1>0 DEF None, Char
<1>3. Len(<<>>) = 0 /\ <<>> \in Seq(Char)
  OBVIOUS
<1>4. FieldTypes
  BY <1>3 DEF Init, FieldTypes
<1>5. TypeOK
  <2>1. at \in [Task -> {"user", "format", "write"}] /\ left \in [Task -> 0..MaxText]
    BY <1>0 DEF Init
  <2>2. made \in [Task -> Char] /\ shown \in [Task -> Char]
    BY <1>2 DEF Init
  <2>3. stream \in Seq(Char) /\ Len(stream) <= MaxWaiting
    BY <1>0, <1>3 DEF Init
  <2>4. ASSUME NEW t \in Task
        PROVE  /\ buf[t] \in Seq(Char) /\ nwritten[t] \in 0..Len(buf[t])
               /\ at[t] = "user"
    <3>1. buf[t] = <<>> /\ nwritten[t] = 0 /\ at[t] = "user"
      BY DEF Init
    <3>2. 0 \in 0..Len(<<>>)
      BY <1>3
    <3> QED
      BY <1>3, <3>1, <3>2
  <2> QED
    BY <2>1, <2>2, <2>3, <2>4 DEF TypeOK
<1>6. ASSUME NEW t \in Task PROVE TaskInv(t)
  <2>1. OwnChars(t) /\ CallInv(t) /\ BufInv(t)
    BY <1>0, <1>1, <1>3 DEF Init, OwnChars, CallInv, BufInv
  <2>2. <<shown[t]>> \o stream = <<None(t)>>
    BY <1>2 DEF Init
  <2>3. Len(<<None(t)>>) = 1 /\ <<None(t)>>[1] = None(t)
    OBVIOUS
  <2>4. InOrder(<<None(t)>>, t, None(t))
    <3>1. {i \in 1..Len(<<None(t)>>) : <<None(t)>>[i].by = t} = {1}
      BY <1>1, <2>3
    <3> QED
      BY <2>3, <3>1 DEF InOrder
  <2>5. GoesOn(t, None(t))
    BY <1>3 DEF Init, GoesOn
  <2> QED
    BY <1>2, <2>1, <2>2, <2>4, <2>5 DEF TaskInv, OrderInv
<1> QED
  BY <1>4, <1>5, <1>6 DEF IInv

(* A task that does nothing keeps what it has, if its characters in the    *)
(* stream stay in order.                                                   *)
LEMMA OthersKeep ==
  ASSUME NEW u \in Task, TaskInv(u),
         UNCHANGED <<at[u], left[u], buf[u], nwritten[u], made[u], shown[u]>>,
         \A c \in Char : InOrder(<<shown[u]>> \o stream, u, c)
                         => InOrder(<<shown[u]>> \o stream', u, c)
  PROVE  TaskInv(u)'
<1>1. OwnChars(u)' /\ CallInv(u)' /\ BufInv(u)'
  BY DEF TaskInv, OwnChars, CallInv, BufInv
<1>2. OrderInv(u)'
  BY DEF TaskInv, OrderInv, GoesOn
<1> QED
  BY <1>1, <1>2 DEF TaskInv

(* Every step is the types' business of one task, of the others, or Send.  *)
LEMMA Assemble ==
  ASSUME IInv, NEW t \in Task,
         TypeOK', FieldTypes', TaskInv(t)',
         \A u \in Task \ {t} :
           UNCHANGED <<at[u], left[u], buf[u], nwritten[u], made[u], shown[u]>>,
         \A u \in Task \ {t}, c \in Char :
           InOrder(<<shown[u]>> \o stream, u, c) => InOrder(<<shown[u]>> \o stream', u, c)
  PROVE  IInv'
<1>1. ASSUME NEW u \in Task, u # t PROVE TaskInv(u)'
  <2>1. TaskInv(u)
    BY DEF IInv
  <2> QED
    BY <1>1, <2>1, OthersKeep
<1> QED
  BY <1>1 DEF IInv

(* A call begins with an empty buffer.                                     *)
LEMMA VprintfKeeps == ASSUME IInv, NEW t \in Task, vprintf(t) PROVE IInv'
<1>1. PICK k \in 1..MaxText :
        /\ at[t] = "user" /\ at' = [at EXCEPT ![t] = "format"]
        /\ left' = [left EXCEPT ![t] = k]
        /\ UNCHANGED <<buf, nwritten, made, stream, shown>>
  BY DEF vprintf
<1>2. k \in 0..MaxText /\ k > 0 /\ MaxText \in Nat /\ k \in Nat
  BY <1>1, ConsoleAssumption
<1>3. buf[t] = <<>> /\ Len(<<>>) = 0 /\ nwritten[t] = 0 /\ left[t] = 0 /\ made[t].ends
  BY <1>1, Facts DEF IInv, TaskInv, CallInv
<1>4. at'[t] = "format" /\ left'[t] = k
  BY <1>1 DEF IInv, TypeOK
<1>5. FieldTypes'
  BY <1>1 DEF IInv, FieldTypes
<1>6. TypeOK'
  <2>1. \A u \in Task : at'[u] = "format" => Len(buf[u]) < BufSize - 1
    BY <1>1, <1>3, ConsoleAssumption DEF IInv, TypeOK
  <2> QED
    BY <1>1, <1>2, <2>1 DEF IInv, TypeOK
<1>7. TaskInv(t)'
  BY <1>1, <1>2, <1>3, <1>4
     DEF IInv, TaskInv, OwnChars, CallInv, BufInv, OrderInv, GoesOn
<1>8. \A u \in Task \ {t} :
        UNCHANGED <<at[u], left[u], buf[u], nwritten[u], made[u], shown[u]>>
  BY <1>1 DEF IInv, TypeOK
<1> QED
  BY <1>1, <1>5, <1>6, <1>7, <1>8, Assemble

(* A written buffer is emptied; at the end of a text the call returns.     *)
LEMMA FlushedKeeps == ASSUME IInv, NEW t \in Task, Flushed(t) PROVE IInv'
<1>1. /\ at[t] = "write" /\ nwritten[t] >= Len(buf[t])
      /\ buf' = [buf EXCEPT ![t] = <<>>] /\ nwritten' = [nwritten EXCEPT ![t] = 0]
      /\ at' = [at EXCEPT ![t] = IF left[t] = 0 THEN "user" ELSE "format"]
      /\ UNCHANGED <<left, made, stream, shown>>
  BY DEF Flushed, AllTaken
<1>2. Len(<<>>) = 0 /\ <<>> \in Seq(Char)
  OBVIOUS
<1>3. /\ buf'[t] = <<>> /\ nwritten'[t] = 0
      /\ at'[t] = IF left[t] = 0 THEN "user" ELSE "format"
  BY <1>1 DEF IInv, FieldTypes, TypeOK
<1>4. FieldTypes'
  BY <1>1, <1>2 DEF IInv, FieldTypes
<1>5. TypeOK'
  <2>1. ASSUME NEW u \in Task
        PROVE  /\ buf'[u] \in Seq(Char) /\ nwritten'[u] \in 0..Len(buf'[u])
               /\ at'[u] = "format" => Len(buf'[u]) < BufSize - 1
    <3>1. CASE u = t
      <4>1. 0 \in 0..Len(<<>>) /\ 0 < BufSize - 1
        BY <1>2, ConsoleAssumption
      <4> QED
        BY <1>2, <1>3, <3>1, <4>1
    <3>2. CASE u # t
      BY <1>1, <3>2 DEF IInv, TypeOK
    <3> QED
      BY <3>1, <3>2
  <2> QED
    BY <1>1, <2>1 DEF IInv, TypeOK
<1>6. TaskInv(t)'
  <2>1. nwritten[t] >= Len(buf[t]) /\ ~(nwritten[t] < Len(buf[t])) /\ left[t] \in Nat
    BY <1>1, Facts
  <2>2. OwnChars(t)' /\ BufInv(t)'
    BY <1>1, <1>2, <1>3 DEF IInv, TaskInv, OwnChars, BufInv
  <2>3. CallInv(t)'
    BY <1>1, <1>2, <1>3, <2>1 DEF IInv, TaskInv, CallInv
  <2>4. OrderInv(t)'
    BY <1>1, <1>2, <1>3, <2>1 DEF IInv, TaskInv, OrderInv, GoesOn
  <2> QED
    BY <2>2, <2>3, <2>4 DEF TaskInv
<1>7. \A u \in Task \ {t} :
        UNCHANGED <<at[u], left[u], buf[u], nwritten[u], made[u], shown[u]>>
  BY <1>1 DEF IInv, TypeOK, FieldTypes
<1> QED
  BY <1>1, <1>4, <1>5, <1>6, <1>7, Assemble

(* The next character goes on from the last one, in the buffer or before.  *)
LEMMA PutchKeeps == ASSUME IInv, NEW t \in Task, putch(t) PROVE IInv'
<1>1. /\ at[t] = "format" /\ left[t] > 0
      /\ buf' = [buf EXCEPT ![t] = Append(@, NextChar(t))]
      /\ made' = [made EXCEPT ![t] = NextChar(t)]
      /\ left' = [left EXCEPT ![t] = @ - 1]
      /\ at' = [at EXCEPT ![t] = IF Full(buf'[t]) \/ left'[t] = 0
                                 THEN "write" ELSE "format"]
      /\ UNCHANGED <<nwritten, stream, shown>>
  BY DEF putch
<1>2. PICK d \in Char : d = NextChar(t)
  BY <1>1, NextCharFacts
<1>3. /\ d.by = t /\ Follows(made[t], d) /\ (d.ends <=> left[t] = 1)
      /\ ~d.ends => d.n + (left[t] - 1) <= MaxText
  BY <1>1, <1>2, NextCharFacts
<1>4. PICK b \in Seq(Char) : b = buf[t]
  BY Facts
<1>5. PICK b1 \in Seq(Char) : b1 = Append(b, d)
  <2>1. Append(b, d) \in Seq(Char)
    BY <1>2, <1>4
  <2> QED
    BY <2>1, Zenon
<1>6. /\ Len(b) \in Nat /\ Len(b1) = Len(b) + 1 /\ b1[Len(b)+1] = d
      /\ \A i \in 1..Len(b) : b1[i] = b[i]
  BY <1>5
<1>7. /\ buf'[t] = b1 /\ made'[t] = d /\ left'[t] = left[t] - 1
      /\ at'[t] = IF Full(b1) \/ left'[t] = 0 THEN "write" ELSE "format"
  <2>1. buf'[t] = b1
    BY <1>1, <1>2, <1>4, <1>5 DEF IInv, FieldTypes
  <2> QED
    BY <1>1, <1>2, <2>1 DEF IInv, TypeOK
<1>8. /\ left[t] \in 1..MaxText /\ MaxText \in Nat /\ nwritten[t] = 0
      /\ Len(b) < BufSize - 1 /\ BufSize \in Nat
      /\ TaskInv(t)
  <2>1. nwritten[t] = 0 /\ TaskInv(t)
    BY <1>1 DEF IInv, TaskInv, CallInv
  <2>2. Len(b) < BufSize - 1 /\ BufSize \in Nat
    BY <1>1, <1>4, ConsoleAssumption DEF IInv, TypeOK
  <2> QED
    BY <1>1, <2>1, <2>2, Facts
<1>9. FieldTypes'
  BY <1>1, <1>2, <1>4, <1>5 DEF IInv, FieldTypes
<1>10. TypeOK'
  <2>1. ASSUME NEW u \in Task
        PROVE  /\ buf'[u] \in Seq(Char) /\ nwritten'[u] \in 0..Len(buf'[u])
               /\ at'[u] = "format" => Len(buf'[u]) < BufSize - 1
    <3>1. CASE u = t
      <4>1. nwritten'[t] = 0 /\ 0 \in 0..Len(b1)
        BY <1>1, <1>6, <1>8
      <4>2. at'[t] = "format" => Len(b1) < BufSize - 1
        BY <1>6, <1>7, <1>8 DEF Full
      <4> QED
        BY <1>7, <3>1, <4>1, <4>2
    <3>2. CASE u # t
      BY <1>1, <3>2 DEF IInv, TypeOK
    <3> QED
      BY <3>1, <3>2
  <2>2. left' \in [Task -> 0..MaxText] /\ made' \in [Task -> Char]
    BY <1>1, <1>2, <1>8 DEF IInv, TypeOK
  <2>3. /\ at' \in [Task -> {"user", "format", "write"}] /\ shown' \in [Task -> Char]
        /\ stream' \in Seq(Char) /\ Len(stream') <= MaxWaiting
    BY <1>1 DEF IInv, TypeOK
  <2> QED
    BY <2>1, <2>2, <2>3 DEF TypeOK
<1>11. OwnChars(t)'
  <2>1. \A i \in 1..Len(b1) : b1[i].by = t
    <3> TAKE i \in 1..Len(b1)
    <3>1. i \in 1..Len(b) \/ i = Len(b) + 1
      BY <1>6
    <3> QED
      BY <1>3, <1>4, <1>6, <1>8, <3>1 DEF TaskInv, OwnChars
  <2> QED
    BY <1>1, <1>3, <1>7, <1>8, <2>1 DEF TaskInv, OwnChars
<1>12. CallInv(t)'
  BY <1>1, <1>3, <1>7, <1>8 DEF CallInv
<1>13. BufInv(t)'
  <2>1. \A i \in 1..Len(b1)-1 : Follows(b1[i], b1[i+1])
    <3> TAKE i \in 1..Len(b1)-1
    <3>1. CASE i \in 1..Len(b)-1
      <4>1. i \in 1..Len(b) /\ i + 1 \in 1..Len(b)
        BY <1>6, <3>1
      <4> QED
        BY <1>4, <1>6, <1>8, <3>1, <4>1 DEF TaskInv, BufInv
    <3>2. CASE i = Len(b) /\ Len(b) > 0
      <4>1. b # <<>> /\ i \in 1..Len(b)
        BY <1>6, <3>2
      <4>2. b1[i] = made[t]
        BY <1>4, <1>6, <1>8, <3>2, <4>1 DEF TaskInv, BufInv
      <4> QED
        BY <1>3, <1>6, <3>2, <4>2
    <3> QED
      BY <1>6, <3>1, <3>2
  <2>2. b1[Len(b1)] = d
    BY <1>6
  <2> QED
    BY <1>7, <2>1, <2>2 DEF BufInv
<1>14. OrderInv(t)'
  <2>1. PICK c \in Char : InOrder(<<shown[t]>> \o stream, t, c) /\ GoesOn(t, c)
    BY <1>8 DEF TaskInv, OrderInv
  <2>2. Follows(c, b1[1])
    <3>1. CASE Len(b) = 0
      BY <1>3, <1>4, <1>6, <1>8, <2>1, <3>1 DEF GoesOn
    <3>2. CASE Len(b) > 0
      <4>1. 1 \in 1..Len(b)
        BY <1>6, <3>2
      <4> QED
        BY <1>4, <1>6, <1>8, <2>1, <3>2, <4>1 DEF GoesOn
    <3> QED
      BY <1>6, <3>1, <3>2
  <2>3. GoesOn(t, c)'
    <3>1. nwritten'[t] = 0 /\ 0 < Len(b1) /\ 0 + 1 = 1
      BY <1>1, <1>6, <1>8
    <3> QED
      BY <1>7, <2>2, <3>1 DEF GoesOn
  <2> QED
    BY <1>1, <2>1, <2>3 DEF OrderInv
<1>15. \A u \in Task \ {t} :
        UNCHANGED <<at[u], left[u], buf[u], nwritten[u], made[u], shown[u]>>
  BY <1>1 DEF IInv, TypeOK, FieldTypes
<1>16. TaskInv(t)'
  BY <1>11, <1>12, <1>13, <1>14 DEF TaskInv
<1> QED
  BY <1>1, <1>9, <1>10, <1>15, <1>16, Assemble

(* The string of puts() goes on from what its call before has printed.     *)
LEMMA PutsKeeps == ASSUME IInv, NEW t \in Task, puts(t) PROVE IInv'
<1>1. PICK k \in 1..MaxText-1 :
        /\ at[t] = "user" /\ at' = [at EXCEPT ![t] = "write"]
        /\ buf' = [buf EXCEPT ![t] = [i \in 1..k |->
                     [by |-> t, n |-> i, ends |-> FALSE]]]
        /\ made' = [made EXCEPT ![t] = [by |-> t, n |-> k, ends |-> FALSE]]
        /\ left' = [left EXCEPT ![t] = 1]
        /\ UNCHANGED <<nwritten, stream, shown>>
  BY DEF puts
<1>2. k \in Nat /\ k > 0 /\ k + 1 <= MaxText /\ MaxText \in Nat /\ k \in 1..k
  BY <1>1, ConsoleAssumption
<1> DEFINE ch(i) == [by |-> t, n |-> i, ends |-> FALSE]
           string == [i \in 1..k |-> ch(i)]
<1>3. \A i \in 1..k : ch(i) \in Char /\ ch(i).by = t /\ ch(i).n = i /\ ch(i).ends = FALSE
  BY <1>2 DEF Char
<1>4. PICK b1 : b1 = string
  OBVIOUS
<1>5. PICK d \in Char : d = ch(k)
  <2> HIDE DEF ch
  <2> QED
    BY <1>2, <1>3
<1>6. /\ b1 \in Seq(Char) /\ Len(b1) = k /\ \A i \in 1..k : b1[i] = ch(i)
  <2>1. string \in [1..k -> Char]
    BY <1>3
  <2> HIDE DEF ch
  <2> QED
    BY <1>2, <1>4, <2>1
<1>7. /\ buf'[t] = b1 /\ made'[t] = d /\ left'[t] = 1 /\ at'[t] = "write"
  BY <1>1, <1>4, <1>5 DEF IInv, TypeOK, FieldTypes
<1>8. /\ buf[t] = <<>> /\ Len(<<>>) = 0 /\ nwritten[t] = 0 /\ made[t].ends /\ TaskInv(t)
  <2>1. TaskInv(t) /\ buf[t] = <<>> /\ left[t] = 0
    BY <1>1 DEF IInv, TaskInv, CallInv
  <2> QED
    BY <2>1, Facts DEF TaskInv, CallInv
<1>9. /\ d.by = t /\ d.n = k /\ d.ends = FALSE /\ b1[k] = d
      /\ \A i \in 1..k : b1[i].by = t /\ b1[i].n = i /\ b1[i].ends = FALSE
  <2> HIDE DEF ch
  <2> QED
    BY <1>2, <1>3, <1>5, <1>6
<1> HIDE DEF ch, string
<1>10. FieldTypes'
  BY <1>1, <1>4, <1>6 DEF IInv, FieldTypes, string, ch
<1>11. TypeOK'
  <2>1. ASSUME NEW u \in Task
        PROVE  /\ buf'[u] \in Seq(Char) /\ nwritten'[u] \in 0..Len(buf'[u])
               /\ at'[u] = "format" => Len(buf'[u]) < BufSize - 1
    <3>1. CASE u = t
      <4>1. nwritten'[t] = 0 /\ 0 \in 0..Len(b1)
        BY <1>1, <1>2, <1>6, <1>8
      <4> QED
        BY <1>6, <1>7, <3>1, <4>1
    <3>2. CASE u # t
      BY <1>1, <3>2 DEF IInv, TypeOK
    <3> QED
      BY <3>1, <3>2
  <2>2. left' \in [Task -> 0..MaxText] /\ made' \in [Task -> Char]
    <3>1. 1 \in 0..MaxText
      BY <1>2
    <3>2. made' = [made EXCEPT ![t] = d]
      BY <1>1, <1>5 DEF ch
    <3> QED
      BY <1>1, <3>1, <3>2 DEF IInv, TypeOK
  <2>3. /\ at' \in [Task -> {"user", "format", "write"}] /\ shown' \in [Task -> Char]
        /\ stream' \in Seq(Char) /\ Len(stream') <= MaxWaiting
    BY <1>1 DEF IInv, TypeOK
  <2> QED
    BY <2>1, <2>2, <2>3 DEF TypeOK
<1>12. OwnChars(t)' /\ CallInv(t)'
  BY <1>1, <1>2, <1>6, <1>7, <1>8, <1>9 DEF TaskInv, OwnChars, CallInv
<1>13. BufInv(t)'
  <2>1. \A i \in 1..k-1 : b1[i].n = i /\ b1[i].ends = FALSE /\ b1[i+1].n = i + 1
    <3> TAKE i \in 1..k-1
    <3>1. i \in 1..k /\ i + 1 \in 1..k
      BY <1>2
    <3> QED
      BY <1>9, <3>1
  <2>2. \A i \in 1..k-1 : Follows(b1[i], b1[i+1])
    BY <2>1 DEF Follows
  <2> QED
    BY <1>6, <1>7, <1>9, <2>2 DEF BufInv
<1>14. OrderInv(t)'
  <2>1. PICK c \in Char : InOrder(<<shown[t]>> \o stream, t, c) /\ GoesOn(t, c)
    BY <1>8 DEF TaskInv, OrderInv
  <2>2. c = made[t]
    BY <1>8, <2>1 DEF GoesOn
  <2>3. Follows(c, b1[1])
    BY <1>2, <1>8, <1>9, <2>2 DEF Follows
  <2>4. GoesOn(t, c)'
    <3>1. nwritten'[t] = 0 /\ 0 < Len(b1) /\ 0 + 1 = 1
      BY <1>1, <1>2, <1>6, <1>8
    <3> QED
      BY <1>7, <2>3, <3>1 DEF GoesOn
  <2> QED
    BY <1>1, <2>1, <2>4 DEF OrderInv
<1>15. \A u \in Task \ {t} :
        UNCHANGED <<at[u], left[u], buf[u], nwritten[u], made[u], shown[u]>>
  BY <1>1 DEF IInv, TypeOK, FieldTypes
<1>16. TaskInv(t)'
  BY <1>12, <1>13, <1>14 DEF TaskInv
<1> QED
  BY <1>1, <1>10, <1>11, <1>15, <1>16, Assemble

(* The part of the buffer that uart_write() takes goes to the end of the   *)
(* stream, and the rest of the buffer goes on from it.                     *)
LEMMA WriteKeeps ==
  ASSUME IInv, NEW t \in Task, NEW n, uart_write(t, n) PROVE IInv'
<1>1. /\ at[t] = "write" /\ n \in UART!Taken(Len(stream), Len(buf[t]) - nwritten[t])
      /\ Len(stream) + n <= MaxWaiting
      /\ stream' = stream \o SubSeq(buf[t], nwritten[t] + 1, nwritten[t] + n)
      /\ nwritten' = [nwritten EXCEPT ![t] = @ + n]
      /\ UNCHANGED <<at, left, buf, made, shown>>
  BY DEF uart_write
<1>2. PICK b \in Seq(Char) : b = buf[t]
  BY Facts
<1>3. PICK m \in Nat : m = nwritten[t] /\ m \in 0..Len(b)
  BY <1>2, Facts
<1>4. /\ n \in 0..Len(b) - m /\ n \in Nat /\ m + n \in 0..Len(b) /\ Len(b) \in Nat
      /\ m + n <= Len(b)
  <2>1. n \in 0..Len(b) - m
    BY <1>1, <1>2, <1>3 DEF UART!Taken
  <2> QED
    BY <1>2, <1>3, <2>1
<1>5. PICK w \in Seq(Char) : w = SubSeq(b, m + 1, m + n)
  <2>1. SubSeq(b, m + 1, m + n) \in Seq(Char)
    BY <1>3, <1>4, Part
  <2> QED
    BY <2>1, Zenon
<1>6. Len(w) = n /\ \A i \in 1..n : w[i] = b[m + i]
  <2>1. n \in Nat /\ m \in Nat /\ m + n <= Len(b)
    BY <1>4
  <2> QED
    BY <1>5, <2>1, Part
<1>7. /\ stream \in Seq(Char) /\ Len(stream) \in Nat /\ TaskInv(t)
      /\ \A u \in Task : shown[u] \in Char
  BY DEF IInv, TypeOK
<1>8. /\ stream' = stream \o w /\ nwritten'[t] = m + n
  BY <1>1, <1>2, <1>3, <1>5 DEF IInv, FieldTypes
<1>9. stream' \in Seq(Char) /\ Len(stream') = Len(stream) + n
  BY <1>6, <1>7, <1>8, Concat
<1>10. \A u \in Task : /\ <<shown[u]>> \o stream \in Seq(Char)
                       /\ <<shown[u]>> \o stream' = (<<shown[u]>> \o stream) \o w
  <2> TAKE u \in Task
  <2>1. <<shown[u]>> \in Seq(Char)
    BY <1>7
  <2>2. stream \in Seq(Char) /\ stream' = stream \o w
    BY <1>7, <1>8
  <2>3. <<shown[u]>> \o (stream \o w) = (<<shown[u]>> \o stream) \o w
    BY <2>1, <2>2, ConcatAssociative
  <2>4. <<shown[u]>> \o stream \in Seq(Char)
    BY <2>1, <2>2, ConcatProperties
  <2> QED
    BY <2>2, <2>3, <2>4
<1>11. FieldTypes'
  <2>1. m + n \in Nat
    BY <1>4
  <2>2. nwritten' = [nwritten EXCEPT ![t] = nwritten[t] + n] /\ buf' = buf
    BY <1>1
  <2>3. nwritten' = [nwritten EXCEPT ![t] = m + n]
    BY <1>3, <2>2, Zenon
  <2> QED
    BY <2>1, <2>2, <2>3 DEF IInv, FieldTypes
<1>12. TypeOK'
  <2>1. ASSUME NEW u \in Task
        PROVE  /\ buf'[u] \in Seq(Char) /\ nwritten'[u] \in 0..Len(buf'[u])
               /\ at'[u] = "format" => Len(buf'[u]) < BufSize - 1
    <3>1. CASE u = t
      BY <1>1, <1>2, <1>4, <1>8, <3>1
    <3>2. CASE u # t
      BY <1>1, <3>2 DEF IInv, TypeOK
    <3> QED
      BY <3>1, <3>2
  <2>2. Len(stream') <= MaxWaiting
    BY <1>1, <1>9
  <2> QED
    BY <1>1, <1>9, <2>1, <2>2 DEF IInv, TypeOK
<1>13. \A i \in 1..n : w[i].by = t
  <2> TAKE i \in 1..n
  <2>1. m + i \in 1..Len(b)
    BY <1>3, <1>4
  <2> QED
    BY <1>2, <1>6, <1>7, <2>1 DEF TaskInv, OwnChars
<1>14. ASSUME NEW u \in Task \ {t}, NEW c \in Char, InOrder(<<shown[u]>> \o stream, u, c)
       PROVE  InOrder(<<shown[u]>> \o stream', u, c)
  <2>1. \A i \in 1..Len(w) : w[i].by # u
    BY <1>6, <1>13
  <2> QED
    BY <1>10, <1>14, <2>1, AppendForeign
<1>15. PICK c \in Char : InOrder(<<shown[t]>> \o stream, t, c) /\ GoesOn(t, c)
  BY <1>7 DEF TaskInv, OrderInv
<1>16. OrderInv(t)'
  <2>1. CASE n = 0
    <3>1. nwritten'[t] = nwritten[t] /\ w = <<>>
      BY <1>3, <1>6, <1>8, <2>1, EmptySeq
    <3>2. stream' = stream
      BY <1>7, <1>8, <3>1
    <3> QED
      BY <1>1, <1>15, <3>1, <3>2 DEF OrderInv, GoesOn
  <2>2. CASE n > 0
    <3>1. m < Len(b) /\ 1 \in 1..n /\ n \in 1..n /\ w # <<>>
      BY <1>3, <1>4, <1>6, <2>2, EmptySeq
    <3>2. Follows(c, w[1])
      BY <1>2, <1>3, <1>6, <1>15, <3>1 DEF GoesOn
    <3>3. \A i \in 1..n-1 : Follows(w[i], w[i+1])
      <4> TAKE i \in 1..n-1
      <4>1. m + i \in 1..Len(b)-1 /\ i \in 1..n /\ i + 1 \in 1..n /\ (m + i) + 1 = m + (i + 1)
        BY <1>4, Positions
      <4> QED
        BY <1>2, <1>6, <1>7, <4>1 DEF TaskInv, BufInv
    <3>4. InOrder((<<shown[t]>> \o stream) \o w, t, w[n])
      <4>1. <<shown[t]>> \o stream \in Seq(Char)
        BY <1>10
      <4>2. /\ \A i \in 1..Len(w) : w[i].by = t
            /\ \A i \in 1..Len(w)-1 : Follows(w[i], w[i+1])
        BY <1>6, <1>13, <3>3
      <4> QED
        BY <1>6, <1>15, <3>1, <3>2, <4>1, <4>2, AppendOwn
    <3>5. w[n] = b[m + n] /\ w[n] \in Char
      BY <1>4, <1>6, <3>1
    <3>6. GoesOn(t, w[n])'
      <4>1. CASE m + n < Len(b)
        <5>1. m + n \in 1..Len(b)-1
          BY <1>3, <1>4, <2>2, <4>1
        <5> QED
          BY <1>1, <1>2, <1>7, <1>8, <3>5, <4>1, <5>1 DEF TaskInv, BufInv, GoesOn
      <4>2. CASE m + n = Len(b)
        <5>1. b # <<>>
          BY <1>3, <1>4, <3>1, EmptySeq
        <5>2. ~(nwritten'[t] < Len(buf'[t]))
          BY <1>1, <1>2, <1>4, <1>8, <4>2
        <5>3. w[n] = made[t]
          BY <1>2, <1>7, <3>5, <4>2, <5>1 DEF TaskInv, BufInv
        <5> QED
          BY <1>1, <5>2, <5>3 DEF GoesOn
      <4> QED
        BY <1>4, <4>1, <4>2
    <3> QED
      BY <1>1, <1>10, <3>4, <3>5, <3>6 DEF OrderInv
  <2> QED
    BY <1>4, <2>1, <2>2
<1>17. TaskInv(t)'
  <2>1. OwnChars(t)' /\ BufInv(t)'
    BY <1>1, <1>7 DEF TaskInv, OwnChars, BufInv
  <2>2. CallInv(t)'
    BY <1>1, <1>7 DEF TaskInv, CallInv
  <2> QED
    BY <1>16, <2>1, <2>2 DEF TaskInv
<1>18. \A u \in Task \ {t} :
        UNCHANGED <<at[u], left[u], buf[u], nwritten[u], made[u], shown[u]>>
  BY <1>1 DEF IInv, FieldTypes
<1>19. \A u \in Task \ {t}, e \in Char :
         InOrder(<<shown[u]>> \o stream, u, e) => InOrder(<<shown[u]>> \o stream', u, e)
  BY <1>14
<1> QED
  BY <1>11, <1>12, <1>17, <1>18, <1>19, Assemble

(* The first of the stream becomes the last shown of its task.             *)
LEMMA SendKeeps == ASSUME IInv, Send PROVE IInv'
<1>1. /\ stream # <<>> /\ shown' = [shown EXCEPT ![Head(stream).by] = Head(stream)]
      /\ stream' = Tail(stream)
      /\ UNCHANGED <<at, left, buf, nwritten, made>>
  BY DEF Send
<1>2. PICK s \in Seq(Char) : s = stream
  BY DEF IInv, TypeOK
<1>3. PICK h \in Char : h = Head(stream)
  BY <1>1, <1>2
<1>4. PICK t \in Task : h.by = t
  BY DEF Char
<1>5. Tail(s) \in Seq(Char) /\ Len(Tail(s)) = Len(s) - 1 /\ Len(s) \in Nat /\ s # <<>>
  BY <1>1, <1>2
<1>6. /\ shown' = [shown EXCEPT ![t] = h] /\ shown \in [Task -> Char] /\ shown'[t] = h
  BY <1>1, <1>3, <1>4 DEF IInv, TypeOK
<1>7. TypeOK' /\ FieldTypes'
  <2>1. Len(stream') <= MaxWaiting /\ stream' \in Seq(Char)
    BY <1>1, <1>2, <1>5, ConsoleAssumption DEF IInv, TypeOK
  <2> QED
    BY <1>1, <1>6, <2>1 DEF IInv, TypeOK, FieldTypes
<1>8. TaskInv(t)'
  <2>1. TaskInv(t) /\ shown[t].by = t /\ shown[t] \in Char
    BY Facts DEF IInv
  <2>2. OwnChars(t)' /\ CallInv(t)' /\ BufInv(t)'
    BY <1>1, <1>4, <1>6, <2>1 DEF TaskInv, OwnChars, CallInv, BufInv
  <2>3. PICK c \in Char : InOrder(<<shown[t]>> \o stream, t, c) /\ GoesOn(t, c)
    BY <2>1 DEF TaskInv, OrderInv
  <2>4. InOrder(<<h>> \o Tail(s), t, c)
    <3>1. Head(s) = h /\ Head(s).by = t /\ InOrder(<<shown[t]>> \o s, t, c)
      BY <1>2, <1>3, <1>4, <2>3
    <3>2. InOrder(<<Head(s)>> \o Tail(s), t, c)
      BY <1>5, <2>1, <3>1, DropShown
    <3> QED
      BY <3>1, <3>2
  <2>5. GoesOn(t, c)'
    BY <1>1, <2>3 DEF GoesOn
  <2>6. OrderInv(t)'
    BY <1>1, <1>2, <1>6, <2>4, <2>5 DEF OrderInv
  <2> QED
    BY <2>2, <2>6 DEF TaskInv
<1>9. ASSUME NEW u \in Task, u # t PROVE TaskInv(u)'
  <2>1. TaskInv(u) /\ shown[u].by = u /\ shown[u] \in Char
    BY Facts DEF IInv
  <2>2. UNCHANGED <<at[u], left[u], buf[u], nwritten[u], made[u], shown[u]>>
    BY <1>1, <1>6, <1>9
  <2>3. ASSUME NEW c \in Char, InOrder(<<shown[u]>> \o stream, u, c)
        PROVE  InOrder(<<shown[u]>> \o stream', u, c)
    <3>1. Head(s).by # u /\ InOrder(<<shown[u]>> \o s, u, c)
      BY <1>2, <1>3, <1>4, <1>9, <2>3
    <3>2. InOrder(<<shown[u]>> \o Tail(s), u, c)
      BY <1>5, <2>1, <3>1, DropForeign
    <3> QED
      BY <1>1, <1>2, <3>2
  <2> QED
    BY <2>1, <2>2, <2>3, OthersKeep
<1> QED
  BY <1>7, <1>8, <1>9 DEF IInv

(* Every step keeps the invariant.                                         *)
LEMMA NextIInv == IInv /\ [Next]_vars => IInv'
<1> SUFFICES ASSUME IInv, [Next]_vars PROVE IInv'
  OBVIOUS
<1>1. CASE \E t \in Task : \/ vprintf(t) \/ puts(t) \/ putch(t) \/ Flushed(t)
                           \/ \E n \in 0..MaxText : uart_write(t, n)
  BY <1>1, VprintfKeeps, PutsKeeps, PutchKeeps, FlushedKeeps, WriteKeeps
<1>2. CASE Send
  BY <1>2, SendKeeps
<1>3. CASE UNCHANGED vars
  BY <1>3 DEF vars, IInv, TypeOK, FieldTypes, TaskInv, OwnChars, CallInv, BufInv,
     OrderInv, GoesOn
<1> QED
  BY <1>1, <1>2, <1>3 DEF Next
-----------------------------------------------------------------------------
(* The results. *)

(* The inductive invariant holds throughout, for any number of tasks.      *)
THEOREM Invariance == Spec => []IInv
BY InitIInv, NextIInv, PTL DEF Spec

(* The index of printbuf stays inside the buffer and uart_write() is never *)
(* asked for more than the buffer holds.                                   *)
THEOREM TypeCorrect == Spec => []TypeOK
<1>1. IInv => TypeOK
  BY DEF IInv
<1> QED
  BY <1>1, Invariance, PTL

(* No retry loop loses, repeats or reorders a character of its task.       *)
THEOREM InOrderAlways == Spec => []PrintedInOrder
<1>1. IInv => PrintedInOrder
  <2> SUFFICES ASSUME IInv, NEW t \in Task
               PROVE  InOrder(<<shown[t]>> \o stream \o Rest(t), t, made[t])
    BY DEF PrintedInOrder
  <2>1. TaskInv(t) /\ stream \in Seq(Char) /\ shown[t] \in Char
    BY Facts DEF IInv, TypeOK
  <2>2. PICK b \in Seq(Char) : b = buf[t]
    BY Facts
  <2>3. PICK m \in Nat : m = nwritten[t] /\ m \in 0..Len(b)
    BY <2>2, Facts
  <2>4. PICK s \in Seq(Char) : s = <<shown[t]>> \o stream
    <3>1. <<shown[t]>> \o stream \in Seq(Char)
      BY <2>1
    <3> QED
      BY <3>1, Zenon
  <2>5. PICK c \in Char : InOrder(s, t, c) /\ GoesOn(t, c)
    BY <2>1, <2>4 DEF TaskInv, OrderInv
  <2>6. PICK n \in Nat : n = Len(b) - m /\ m + n = Len(b) /\ m + n <= Len(b)
    <3>1. Len(b) - m \in Nat /\ m + (Len(b) - m) = Len(b)
      BY <2>2, <2>3
    <3> QED
      BY <2>2, <2>3, <3>1
  <2>7. PICK w \in Seq(Char) :
          /\ w = SubSeq(b, m + 1, Len(b))
          /\ Len(w) = n /\ \A i \in 1..n : w[i] = b[m + i]
    <3>1. /\ SubSeq(b, m + 1, m + n) \in Seq(Char) /\ Len(SubSeq(b, m + 1, m + n)) = n
          /\ \A i \in 1..n : SubSeq(b, m + 1, m + n)[i] = b[m + i]
      BY <2>6, Part
    <3> QED
      BY <2>6, <3>1
  <2>8. InOrder(s \o w, t, made[t])
    <3>1. CASE m = Len(b)
      <4>1. w = <<>>
        BY <2>2, <2>6, <2>7, <3>1, EmptySeq
      <4>2. c = made[t]
        BY <2>2, <2>3, <2>5, <3>1 DEF GoesOn
      <4> QED
        BY <2>4, <2>5, <4>1, <4>2
    <3>2. CASE m < Len(b)
      <4>1. /\ Len(w) > 0 /\ w # <<>> /\ Len(w) \in Nat /\ Len(b) \in Nat
            /\ 1 \in 1..n /\ n \in 1..n /\ b # <<>>
        <5>1. Len(b) \in Nat /\ n > 0
          BY <2>6, <3>2
        <5>2. 1 \in 1..n /\ n \in 1..n
          BY <5>1
        <5>3. Len(w) > 0 /\ Len(b) > 0
          BY <2>7, <3>2, <5>1
        <5>4. w # <<>> /\ b # <<>>
          BY <5>3, NonEmpty
        <5> QED
          BY <2>7, <5>1, <5>2, <5>4
      <4>2. Follows(c, w[1])
        BY <2>2, <2>3, <2>5, <2>6, <2>7, <3>2, <4>1 DEF GoesOn
      <4>3. \A i \in 1..Len(w) : w[i].by = t
        <5> TAKE i \in 1..Len(w)
        <5>1. m + i \in 1..Len(b) /\ i \in 1..n
          BY <2>6, <2>7, <4>1, Positions
        <5> QED
          BY <2>1, <2>2, <2>7, <5>1 DEF TaskInv, OwnChars
      <4>4. \A i \in 1..Len(w)-1 : Follows(w[i], w[i+1])
        <5> TAKE i \in 1..Len(w)-1
        <5>1. /\ m + i \in 1..Len(b)-1 /\ (m + i) + 1 = m + (i + 1)
              /\ i \in 1..n /\ i + 1 \in 1..n
          BY <2>6, <2>7, <4>1, Positions
        <5> QED
          BY <2>1, <2>2, <2>7, <5>1 DEF TaskInv, BufInv
      <4>5. w[Len(w)] = made[t]
        <5>1. Len(w) \in 1..n /\ m + Len(w) = Len(b)
          BY <2>6, <2>7, <4>1
        <5>2. w[Len(w)] = b[Len(b)]
          BY <2>7, <5>1
        <5> QED
          BY <2>1, <2>2, <4>1, <5>2 DEF TaskInv, BufInv
      <4>6. InOrder(s \o w, t, w[Len(w)])
        BY <2>5, <4>1, <4>2, <4>3, <4>4, AppendOwn
      <4> QED
        BY <4>5, <4>6
    <3> QED
      BY <2>2, <2>3, <3>1, <3>2
  <2> QED
    BY <2>2, <2>3, <2>4, <2>7, <2>8 DEF Rest
<1> QED
  BY <1>1, Invariance, PTL
=============================================================================
