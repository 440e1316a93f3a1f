----------------------------- MODULE PartsProofs -----------------------------
(***************************************************************************)
(* Proofs about Parts.tla, for every value of its constants.  First the    *)
(* ring under a run queue, mailbox_call() beside the GPU and the shell     *)
(* with the image loader by themselves; then the modules of string.c and   *)
(* printfmt.c, whose proofs are in StringsProofs and PrintFmtProofs, are   *)
(* shown to be the parts S and F; last the invariants of the parts become  *)
(* one of the composition.                                                 *)
(*                                                                         *)
(* The ring is a FIFO because the slots from head on hold its contents in  *)
(* order and its positions tell how many they are.  The mailbox returns    *)
(* the response of its own call because the answers still to come are      *)
(* those of requests the call, or one like it before, has made.            *)
(***************************************************************************)
EXTENDS Parts, SequenceTheorems, TLAPS

(* The proofs of Strings.tla read with the constants of Parts.             *)
ST == INSTANCE StringsProofs WITH MemSize <- StringCells, IntBits <- StringIntBits
-----------------------------------------------------------------------------

(* k places after slot h, wrapping at the end of the array. *)
LEMMA Wraps ==
  ASSUME NEW h \in Slot, NEW k \in 0 .. NR_TASKS + 1
  PROVE  (h + k) % (NR_TASKS + 1) =
           IF h + k <= NR_TASKS THEN h + k ELSE h + k - (NR_TASKS + 1)
<1>1. NR_TASKS \in Nat \ {0} /\ h \in 0..NR_TASKS
  BY RunqueueAssumption DEF Slot
<1>2. \A x, m \in Nat : m > 0 /\ x < m => x % m = x
  BY SMT
<1>3. \A x, m \in Nat : m > 0 /\ m <= x /\ x < 2*m => x % m = x - m
  BY SMT
<1>4. CASE h + k <= NR_TASKS
  <2>1. h + k \in Nat /\ NR_TASKS + 1 \in Nat /\ h + k < NR_TASKS + 1
    BY <1>1, <1>4
  <2> QED BY <2>1, <1>2, <1>4
<1>5. CASE h + k > NR_TASKS
  <2>1. /\ h + k \in Nat /\ NR_TASKS + 1 \in Nat
        /\ NR_TASKS + 1 <= h + k
    BY <1>1, <1>5
  <2>2. CASE h + k < 2 * (NR_TASKS + 1)
    <3>0. NR_TASKS + 1 > 0
      BY <1>1
    <3>1. (h + k) % (NR_TASKS + 1) = (h + k) - (NR_TASKS + 1)
      BY <2>1, <2>2, <3>0, <1>3, Zenon
    <3> QED BY <3>1, <1>5, <1>1
  <2>3. CASE h + k >= 2 * (NR_TASKS + 1)
    BY <2>3, <1>1
  <2> QED BY <2>1, <2>2, <2>3
<1> QED BY <1>1, <1>4, <1>5

(* The slot after h. *)
LEMMA SuccWraps ==
  ASSUME NEW h \in Slot
  PROVE  Succ(h) \in Slot /\ Succ(h) = IF h = NR_TASKS THEN 0 ELSE h + 1
<1>1. Succ(h) = IF h + 1 <= NR_TASKS THEN h + 1 ELSE h + 1 - (NR_TASKS + 1)
  BY Wraps, RunqueueAssumption DEF Succ
<1> QED BY <1>1, RunqueueAssumption DEF Slot
-----------------------------------------------------------------------------
(* Every step keeps the positions inside the array and tasks in it.        *)
LEMMA TypeOKStep ==
  ASSUME TypeOK, [Next]_vars
  PROVE  TypeOK'
<1>1. CASE runqueue_pop
  <2>1. head' \in Slot
    BY <1>1, SuccWraps DEF runqueue_pop, TypeOK
  <2>2. popped' \in Task \cup {NULL}
    BY <1>1 DEF runqueue_pop, TypeOK
  <2> QED BY <1>1, <2>1, <2>2 DEF runqueue_pop, TypeOK
<1>2. ASSUME NEW ts \in Task, runqueue_push(ts) PROVE TypeOK'
  <2>1. tail' \in Slot
    BY <1>2, SuccWraps DEF runqueue_push, TypeOK
  <2>2. tasks' \in [Slot -> Task \cup {NULL}]
    BY <1>2 DEF runqueue_push, TypeOK
  <2> QED BY <1>2, <2>1, <2>2 DEF runqueue_push, TypeOK
<1>3. CASE UNCHANGED vars
  BY <1>3 DEF vars, TypeOK
<1> QED BY <1>1, <1>2, <1>3 DEF Next

(* Positions stay inside the array and the array holds tasks. *)
THEOREM RunqueueTypeOK == Spec => []TypeOK
<1>1. Init => TypeOK
  BY RunqueueAssumption DEF Init, TypeOK, Slot
<1> QED BY <1>1, TypeOKStep, PTL DEF Spec

(* runqueue_size() is between 0 and NR_TASKS and says whether the ring is  *)
(* empty or full.                                                          *)
LEMMA SizeFacts ==
  ASSUME TypeOK
  PROVE  /\ runqueue_size \in Nat /\ runqueue_size <= NR_TASKS
         /\ runqueue_size = 0 <=> runqueue_empty
         /\ runqueue_size = NR_TASKS <=> runqueue_full
<1>1. NR_TASKS \in Nat \ {0} /\ head \in 0..NR_TASKS /\ tail \in 0..NR_TASKS
  BY RunqueueAssumption DEF TypeOK, Slot
<1>2. Succ(tail) = IF tail = NR_TASKS THEN 0 ELSE tail + 1
  BY SuccWraps DEF TypeOK
<1> QED BY <1>1, <1>2 DEF runqueue_size, runqueue_empty, runqueue_full

(* "circular queue actual size = array size - 1" (task.h), for every size. *)
THEOREM SpecSizeTellsState == Spec => []SizeTellsState
<1>1. TypeOK => SizeTellsState
  BY SizeFacts, RunqueueAssumption DEF SizeTellsState
<1> QED BY <1>1, RunqueueTypeOK, PTL
-----------------------------------------------------------------------------
(* The k-th oldest task is k-1 places after head. *)
ContentsFact ==
  /\ Contents \in Seq(Task \cup {NULL})
  /\ Len(Contents) = runqueue_size
  /\ \A k \in 1..runqueue_size :
       /\ (head + k - 1) % (NR_TASKS + 1) \in Slot
       /\ (head + k - 1) % (NR_TASKS + 1) =
            IF head + k - 1 <= NR_TASKS THEN head + k - 1
            ELSE head + k - 1 - (NR_TASKS + 1)
       /\ Contents[k] = tasks[(head + k - 1) % (NR_TASKS + 1)]

(* Where the elements of the ring are, from the definition of Contents.    *)
LEMMA ContentsAt == TypeOK => ContentsFact
<1> SUFFICES ASSUME TypeOK PROVE ContentsFact
  OBVIOUS
<1>1. runqueue_size \in Nat /\ runqueue_size <= NR_TASKS
  BY SizeFacts
<1>2. NR_TASKS \in Nat \ {0} /\ head \in 0..NR_TASKS
  BY RunqueueAssumption DEF TypeOK, Slot
<1>3. ASSUME NEW k \in 1..runqueue_size
      PROVE  /\ (head + k - 1) % (NR_TASKS + 1) \in Slot
             /\ (head + k - 1) % (NR_TASKS + 1) =
                  IF head + k - 1 <= NR_TASKS THEN head + k - 1
                  ELSE head + k - 1 - (NR_TASKS + 1)
  <2>1. k - 1 \in 0 .. NR_TASKS + 1 /\ head + (k - 1) = head + k - 1
    BY <1>1, <1>2
  <2>2. head \in Slot
    BY DEF TypeOK
  <2>3. (head + (k - 1)) % (NR_TASKS + 1) =
          IF head + (k - 1) <= NR_TASKS THEN head + (k - 1)
          ELSE head + (k - 1) - (NR_TASKS + 1)
    BY <2>1, <2>2, Wraps
  <2>4. (head + k - 1) % (NR_TASKS + 1) =
          IF head + k - 1 <= NR_TASKS THEN head + k - 1
          ELSE head + k - 1 - (NR_TASKS + 1)
    BY <2>1, <2>3
  <2>5. (head + k - 1) % (NR_TASKS + 1) \in 0..NR_TASKS
    <3>1. CASE head + k - 1 <= NR_TASKS
      BY <3>1, <2>4, <1>1, <1>2
    <3>2. CASE ~(head + k - 1 <= NR_TASKS)
      BY <3>2, <2>4, <1>1, <1>2
    <3> QED BY <3>1, <3>2
  <2> QED BY <2>4, <2>5 DEF Slot
<1>4. Contents \in [1..runqueue_size -> Task \cup {NULL}]
  BY <1>3 DEF Contents, TypeOK
<1>5. Contents \in Seq(Task \cup {NULL}) /\ Len(Contents) = runqueue_size
  BY <1>1, <1>4, SeqDef, LenProperties
<1> QED BY <1>3, <1>5 DEF Contents, ContentsFact

(* Pushing to a ring that is not full appends. *)
LEMMA PushAppends ==
  ASSUME TypeOK, NEW ts \in Task, runqueue_push(ts), ~runqueue_full, TypeOK'
  PROVE  Contents' = Append(Contents, ts)
<1> DEFINE m == runqueue_size
           slot(k) == (head + k - 1) % (NR_TASKS + 1)
<1>1. NR_TASKS \in Nat \ {0} /\ head \in 0..NR_TASKS /\ tail \in 0..NR_TASKS
  BY RunqueueAssumption DEF TypeOK, Slot
<1>2. m \in Nat /\ m < NR_TASKS
  BY SizeFacts, <1>1
<1>3. tail' = Succ(tail) /\ head' = head /\ tasks' = [tasks EXCEPT ![tail] = ts]
  BY DEF runqueue_push
<1>4. Succ(tail) = IF tail = NR_TASKS THEN 0 ELSE tail + 1
  BY SuccWraps DEF TypeOK
<1>5. runqueue_size' = m + 1
  BY <1>1, <1>2, <1>3, <1>4 DEF runqueue_size, runqueue_full
<1>6. slot(m + 1) = tail
  <2>1. head \in Slot /\ m \in 0 .. NR_TASKS + 1 /\ head + (m + 1) - 1 = head + m
    BY <1>1, <1>2 DEF Slot
  <2>2. slot(m + 1) = IF head + m <= NR_TASKS THEN head + m
                      ELSE head + m - (NR_TASKS + 1)
    BY <2>1, Wraps
  <2> QED BY <2>2, <1>1, <1>2 DEF runqueue_size
<1>7. ASSUME NEW k \in 1..m PROVE slot(k) # tail
  <2>1. slot(k) = IF head + k - 1 <= NR_TASKS THEN head + k - 1
                  ELSE head + k - 1 - (NR_TASKS + 1)
    BY ContentsAt DEF ContentsFact
  <2> QED BY <2>1, <1>1, <1>2 DEF runqueue_size
<1>8. /\ Contents' \in Seq(Task \cup {NULL}) /\ Len(Contents') = m + 1
      /\ \A k \in 1..m+1 : Contents'[k] = tasks'[slot(k)]
  <2>1. (TypeOK => ContentsFact)'
    BY ContentsAt, PTL
  <2> QED BY <2>1, <1>3, <1>5 DEF ContentsFact
<1>9. Contents \in Seq(Task \cup {NULL}) /\ Len(Contents) = m
  BY ContentsAt DEF ContentsFact
<1>10. ASSUME NEW k \in 1..m PROVE Contents'[k] = Contents[k]
  <2>1. Contents[k] = tasks[slot(k)] /\ slot(k) \in Slot
    BY ContentsAt DEF ContentsFact
  <2>2. k \in 1..m+1
    BY <1>2
  <2>3. Contents'[k] = tasks'[slot(k)]
    BY <2>2, <1>8
  <2> QED BY <2>1, <2>3, <1>3, <1>7 DEF TypeOK
<1>11. Contents'[m+1] = ts
  <2>1. m + 1 \in 1..m+1
    BY <1>2
  <2>2. Contents'[m+1] = tasks'[tail]
    BY <2>1, <1>8, <1>6
  <2> QED BY <2>2, <1>3 DEF TypeOK
<1> HIDE DEF m, slot
<1> QED BY <1>2, <1>8, <1>9, <1>10, <1>11

(* Popping a ring that is not empty takes its first element off.           *)
LEMMA PopTakesHead ==
  ASSUME TypeOK, runqueue_pop, ~runqueue_empty, TypeOK'
  PROVE  /\ Contents # <<>>
         /\ popped' = Head(Contents)
         /\ Contents' = Tail(Contents)
<1> DEFINE m == runqueue_size
           slot(h, k) == (h + k - 1) % (NR_TASKS + 1)
<1>1. NR_TASKS \in Nat \ {0} /\ head \in 0..NR_TASKS /\ tail \in 0..NR_TASKS
  BY RunqueueAssumption DEF TypeOK, Slot
<1>2. m \in Nat /\ m > 0 /\ m <= NR_TASKS
  BY SizeFacts
<1>3. head' = Succ(head) /\ popped' = tasks[head] /\ tail' = tail /\ tasks' = tasks
  BY DEF runqueue_pop
<1>4. Succ(head) = IF head = NR_TASKS THEN 0 ELSE head + 1
  BY SuccWraps DEF TypeOK
<1>5. runqueue_size' = m - 1
  BY <1>1, <1>2, <1>3, <1>4 DEF runqueue_size, runqueue_empty
<1>6. /\ Contents \in Seq(Task \cup {NULL}) /\ Len(Contents) = m
      /\ \A k \in 1..m : /\ Contents[k] = tasks[slot(head, k)]
                         /\ slot(head, k) = IF head + k - 1 <= NR_TASKS
                              THEN head + k - 1 ELSE head + k - 1 - (NR_TASKS + 1)
  BY ContentsAt DEF ContentsFact
<1>7. /\ Contents' \in Seq(Task \cup {NULL}) /\ Len(Contents') = m - 1
      /\ \A k \in 1..m-1 : /\ Contents'[k] = tasks[slot(head', k)]
                           /\ slot(head', k) = IF head' + k - 1 <= NR_TASKS
                                THEN head' + k - 1 ELSE head' + k - 1 - (NR_TASKS + 1)
  <2>1. (TypeOK => ContentsFact)'
    BY ContentsAt, PTL
  <2> QED BY <2>1, <1>3, <1>5 DEF ContentsFact
<1>8. ASSUME NEW k \in 1..m-1 PROVE Contents'[k] = Contents[k + 1]
  <2>1. k \in Nat /\ k + 1 \in 1..m /\ head + (k + 1) - 1 = head + k
    BY <1>1, <1>2
  <2>2. slot(head, k + 1) = IF head + k <= NR_TASKS THEN head + k
                            ELSE head + k - (NR_TASKS + 1)
    BY <2>1, <1>6
  <2>3. slot(head', k) = slot(head, k + 1)
    <3>1. slot(head', k) = IF head' + k - 1 <= NR_TASKS THEN head' + k - 1
                           ELSE head' + k - 1 - (NR_TASKS + 1)
      BY <1>7
    <3>2. head' = IF head = NR_TASKS THEN 0 ELSE head + 1
      BY <1>3, <1>4
    <3>3. k \in Nat /\ 1 <= k /\ k + 1 <= NR_TASKS
      BY <1>1, <1>2
    <3> HIDE DEF slot
    <3> QED BY <3>1, <3>2, <3>3, <2>2, <1>1
  <2>4. Contents[k + 1] = tasks[slot(head, k + 1)]
    BY <2>1, <1>6
  <2> QED BY <2>3, <2>4, <1>7
<1>9. Contents[1] = tasks[head]
  <2>1. 1 \in 1..m /\ head + 1 - 1 = head
    BY <1>1, <1>2
  <2>2. slot(head, 1) = head
    BY <2>1, <1>6, <1>1
  <2> QED BY <2>1, <2>2, <1>6
<1> HIDE DEF m, slot
<1>10. Contents # <<>> /\ popped' = Head(Contents)
  BY <1>2, <1>3, <1>6, <1>9
<1>11. Contents' = Tail(Contents)
  BY <1>2, <1>6, <1>7, <1>8
<1> QED BY <1>10, <1>11

(* The ring of task.c is a FIFO of NR_TASKS tasks, for every NR_TASKS: the *)
(* queues that Kernel.tla schedules from are what the code keeps.          *)
THEOREM SpecIsFifo == Spec => IsFifo
<1>1. Init => Queue!Init
  <2> SUFFICES ASSUME Init PROVE Contents = <<>> /\ popped = NULL
    BY DEF Queue!Init
  <2>1. runqueue_size = 0
    BY DEF Init, runqueue_size
  <2> QED BY <2>1 DEF Init, Contents
<1>2. TypeOK /\ TypeOK' /\ [Next]_vars => [Queue!Next]_<<Contents, popped>>
  <2> SUFFICES ASSUME TypeOK, TypeOK', [Next]_vars
               PROVE  [Queue!Next]_<<Contents, popped>>
    OBVIOUS
  <2>1. CASE runqueue_pop /\ ~runqueue_empty
    BY <2>1, PopTakesHead DEF Queue!Next, Queue!Pop
  <2>2. CASE runqueue_pop /\ runqueue_empty
    <3>1. runqueue_size = 0
      BY <2>2, SizeFacts
    <3>2. Contents = <<>>
      BY <3>1 DEF Contents
    <3>3. Contents' = Contents /\ popped' = NULL
      BY <2>2 DEF runqueue_pop, Contents, runqueue_size
    <3> QED BY <3>2, <3>3 DEF Queue!Next, Queue!Pop
  <2>3. ASSUME NEW ts \in Task, runqueue_push(ts) PROVE Queue!Next
    <3>1. Len(Contents) = runqueue_size
      BY ContentsAt DEF ContentsFact
    <3>2. popped' = popped
      BY <2>3 DEF runqueue_push
    <3>3. CASE ~runqueue_full
      <4>1. Contents' = Append(Contents, ts)
        BY <2>3, <3>3, PushAppends
      <4>2. Len(Contents) # NR_TASKS
        BY <3>1, <3>3, SizeFacts
      <4> QED BY <4>1, <4>2, <3>2 DEF Queue!Next, Queue!Push
    <3>4. CASE runqueue_full
      <4>1. Len(Contents) = NR_TASKS
        BY <3>1, <3>4, SizeFacts
      <4>2. Contents' = Contents
        BY <2>3, <3>4 DEF runqueue_push, Contents, runqueue_size
      <4> QED BY <4>1, <4>2, <3>2 DEF Queue!Next, Queue!Push
    <3> QED BY <3>3, <3>4
  <2>4. CASE UNCHANGED vars
    BY <2>4 DEF vars, Contents, runqueue_size
  <2> QED BY <2>1, <2>2, <2>3, <2>4 DEF Next
<1> QED BY <1>1, <1>2, RunqueueTypeOK, PTL DEF Spec, IsFifo, Queue!Spec
-----------------------------------------------------------------------------

MailboxTypes ==
  /\ requests \in Seq(Buffer)
  /\ answers \in Seq(Buffer \cup {Foreign})
  /\ content \in [Buffer -> {"none", "request", "response"}]
  /\ at \in {"idle", "awaitroom", "write", "awaitanswer", "read"}
  /\ msg \in Buffer \cup {Foreign} /\ reused \in BOOLEAN
  /\ at # "idle" => msg \in Buffer

(* A message is under way for the present call from its write to its read, *)
(* and nothing but the read takes one out.                                 *)
Counted ==
  /\ Len(requests) + Len(answers) <=
       Unread + (IF at \in {"awaitanswer", "read"} THEN 1 ELSE 0)
  /\ at = "read" => answers # <<>>

(* Unless the buffer was in use already, an answer that names it is an     *)
(* answer to this call: the GPU wrote the response before it.              *)
AnsweredIsThere ==
  msg \in Buffer /\ ~reused =>
    \A j \in 1..Len(answers) : answers[j] = msg => content[msg] = "response"

MInv == MailboxTypes /\ Counted /\ AnsweredIsThere /\ B!ResponseThere

(* Reading the first entry of a queue leaves the rest, in their order.     *)
LEMMA TailFacts ==
  ASSUME NEW T, NEW q \in Seq(T), q # <<>>
  PROVE  /\ Head(q) = q[1] /\ Head(q) \in T /\ Len(q) \in Nat \ {0}
         /\ Tail(q) \in Seq(T) /\ Len(Tail(q)) = Len(q) - 1
         /\ \A j \in 1..Len(Tail(q)) : Tail(q)[j] = q[j+1]
BY HeadTailProperties, EmptySeq, LenProperties, ElementOfSeq

(* One more message in a queue.                                            *)
LEMMA AppendFacts ==
  ASSUME NEW T, NEW q \in Seq(T), NEW x \in T
  PROVE  /\ Append(q, x) \in Seq(T) /\ Len(Append(q, x)) = Len(q) + 1
         /\ Append(q, x) # <<>> /\ Len(q) \in Nat
         /\ \A j \in 1..Len(q) : Append(q, x)[j] = q[j]
         /\ Append(q, x)[Len(q) + 1] = x
BY AppendProperties, LenProperties

(* No message is under way when the mailbox begins.                        *)
LEMMA InitMInv == ASSUME B!MailboxAssumption, B!Init PROVE MInv
<1>1. PICK k \in 0..Unread : answers = [j \in 1..k |-> Foreign]
  BY DEF B!Init
<1>2. k \in Nat /\ Unread \in Nat
  BY DEF B!MailboxAssumption
<1>3. answers \in Seq(Buffer \cup {Foreign}) /\ Len(answers) = k
  BY <1>1, <1>2
<1>4. requests = <<>> /\ Len(requests) = 0 /\ requests \in Seq(Buffer)
  BY DEF B!Init
<1>5. MailboxTypes
  BY <1>3, <1>4 DEF B!Init, MailboxTypes
<1>6. Counted
  BY <1>1, <1>2, <1>3, <1>4 DEF B!Init, Counted
<1>7. msg \notin Buffer
  BY DEF B!Init, B!MailboxAssumption
<1> QED BY <1>5, <1>6, <1>7 DEF MInv, AnsweredIsThere, B!ResponseThere

(* The driver and the GPU keep the invariant of the mailbox.               *)
LEMMA StepMInv ==
  ASSUME B!MailboxAssumption, MInv, [B!Next]_(B!vars)
  PROVE  MInv'
<1> USE DEF MInv
<1>0. Unread \in Nat /\ Depth \in Nat /\ Len(requests) \in Nat /\ Len(answers) \in Nat
  BY LenProperties DEF B!MailboxAssumption, MailboxTypes
<1>1. CASE \E buf \in Buffer : B!Call(buf)
  <2>1. PICK buf \in Buffer : B!Call(buf)
    BY <1>1
  <2>2. MailboxTypes'
    BY <2>1 DEF B!Call, MailboxTypes
  <2>3. Counted'
    BY <2>1 DEF B!Call, Counted
  <2>4. AnsweredIsThere'
    <3>1. ~reused' => \A j \in 1..Len(answers) : answers[j] # buf
      BY <2>1 DEF B!Call, B!Sent
    <3> QED BY <2>1, <3>1 DEF B!Call, AnsweredIsThere
  <2>5. B!ResponseThere'
    BY <2>1 DEF B!Call, B!ResponseThere
  <2> QED BY <2>2, <2>3, <2>4, <2>5
<1>2. CASE B!AwaitRoom \/ B!AwaitAnswer
  <2>1. UNCHANGED <<requests, answers, content, msg, reused>>
    BY <1>2 DEF B!AwaitRoom, B!AwaitAnswer
  <2>2. MailboxTypes' /\ Counted'
    BY <1>2, <2>1 DEF B!AwaitRoom, B!AwaitAnswer, B!StatusNotEmpty, MailboxTypes, Counted
  <2>3. AnsweredIsThere' /\ B!ResponseThere'
    BY <1>2, <2>1 DEF B!AwaitRoom, B!AwaitAnswer, AnsweredIsThere, B!ResponseThere
  <2> QED BY <2>2, <2>3
<1>3. CASE B!Write
  <2>1. requests' \in Seq(Buffer) /\ Len(requests') = Len(requests) + 1
    BY <1>3, AppendFacts DEF B!Write, MailboxTypes
  <2>2. MailboxTypes'
    BY <1>3, <2>1 DEF B!Write, MailboxTypes
  <2>3. Counted'
    BY <1>0, <1>3, <2>1 DEF B!Write, Counted
  <2>4. AnsweredIsThere' /\ B!ResponseThere'
    BY <1>3 DEF B!Write, AnsweredIsThere, B!ResponseThere
  <2> QED BY <2>2, <2>3, <2>4
<1>4. CASE B!Read
  <2>1. at = "read" /\ answers # <<>>
    BY <1>4 DEF B!Read, Counted
  <2>2. /\ answers' = Tail(answers)
        /\ at' = IF Head(answers) = msg THEN "idle" ELSE "awaitroom"
        /\ UNCHANGED <<requests, content, msg, reused>>
    BY <1>4, <2>1 DEF B!Read, B!OwnAnswer
  <2>3. /\ Head(answers) = answers[1] /\ Len(answers) \in Nat \ {0}
        /\ Tail(answers) \in Seq(Buffer \cup {Foreign})
        /\ Len(Tail(answers)) = Len(answers) - 1
        /\ \A j \in 1..Len(Tail(answers)) : Tail(answers)[j] = answers[j+1]
    BY <2>1, TailFacts DEF MailboxTypes
  <2>4. MailboxTypes'
    BY <2>1, <2>2, <2>3 DEF MailboxTypes
  <2>5. Counted'
    BY <1>0, <2>1, <2>2, <2>3 DEF Counted
  <2>6. AnsweredIsThere'
    <3>1. \A j \in 1..Len(answers') :
            j+1 \in 1..Len(answers) /\ answers'[j] = answers[j+1]
      BY <2>2, <2>3
    <3> QED BY <2>2, <3>1 DEF AnsweredIsThere
  <2>7. B!ResponseThere'
    <3>1. 1 \in 1..Len(answers)
      BY <2>3
    <3> QED BY <2>2, <2>3, <3>1 DEF AnsweredIsThere, B!ResponseThere
  <2> QED BY <2>4, <2>5, <2>6, <2>7
<1>5. CASE B!GPU
  <2> DEFINE first == Head(requests)
  <2>1. /\ requests # <<>> /\ UNCHANGED <<at, msg, reused>>
        /\ content' = [content EXCEPT ![first] = "response"]
        /\ answers' = Append(answers, first) /\ requests' = Tail(requests)
    BY <1>5 DEF B!GPU
  <2>2. first \in Buffer /\ Tail(requests) \in Seq(Buffer)
        /\ Len(Tail(requests)) = Len(requests) - 1
    BY <2>1, TailFacts DEF MailboxTypes
  <2>3. /\ answers' \in Seq(Buffer \cup {Foreign}) /\ answers' # <<>>
        /\ Len(answers') = Len(answers) + 1
        /\ \A j \in 1..Len(answers) : answers'[j] = answers[j]
        /\ answers'[Len(answers) + 1] = first
    BY <2>1, <2>2, AppendFacts DEF MailboxTypes
  <2>4. content' \in [Buffer -> {"none", "request", "response"}]
        /\ content'[first] = "response"
        /\ \A buf \in Buffer \ {first} : content'[buf] = content[buf]
    BY <2>1, <2>2 DEF MailboxTypes
  <2>5. MailboxTypes'
    BY <2>1, <2>2, <2>3, <2>4 DEF MailboxTypes
  <2>6. Counted'
    BY <1>0, <2>1, <2>2, <2>3 DEF Counted
  <2>7. AnsweredIsThere'
    <3>1. \A j \in 1..Len(answers') : j \in 1..Len(answers) \/ j = Len(answers) + 1
      BY <1>0, <2>3
    <3> QED BY <2>1, <2>3, <2>4, <3>1 DEF AnsweredIsThere
  <2>8. B!ResponseThere'
    BY <2>1, <2>4 DEF B!ResponseThere
  <2> QED BY <2>5, <2>6, <2>7, <2>8
<1>6. CASE UNCHANGED B!vars
  BY <1>6 DEF B!vars, MailboxTypes, Counted, AnsweredIsThere, B!ResponseThere
<1> QED
  BY <1>1, <1>2, <1>3, <1>4, <1>5, <1>6 DEF B!Next, B!mailbox_call

(* The invariant of mailbox_call() beside the GPU holds throughout.        *)
THEOREM MailboxInvariant == ASSUME B!MailboxAssumption PROVE B!Spec => []MInv
BY InitMInv, StepMInv, PTL DEF B!Spec

(* Neither queue ever holds more than Unread + 1 messages, however often   *)
(* mailbox_call() repeats a request.                                       *)
LEMMA MInvTypes == ASSUME B!MailboxAssumption, MInv PROVE B!TypeOK
<1>1. Unread \in Nat /\ Len(requests) \in Nat /\ Len(answers) \in Nat
  BY LenProperties DEF B!MailboxAssumption, MInv, MailboxTypes
<1> QED BY <1>1 DEF MInv, MailboxTypes, Counted, B!TypeOK
(* mailbox_call() by itself never overfills a queue.                       *)
THEOREM MailboxTypeOK == ASSUME B!MailboxAssumption PROVE B!Spec => []B!TypeOK
BY MInvTypes, MailboxInvariant, PTL

(* A call returns only with the response in its buffer, unless a request   *)
(* for that buffer was under way when it began.                            *)
THEOREM SpecResponseThere == ASSUME B!MailboxAssumption PROVE B!Spec => []B!ResponseThere
<1>1. ASSUME MInv PROVE B!ResponseThere
  BY <1>1 DEF MInv
<1> QED BY <1>1, MailboxInvariant, PTL
-----------------------------------------------------------------------------
(***************************************************************************)
(* The shell, for every layout of the kernel, every set of image sizes and *)
(* load addresses and every fault of the line: the running kernel survives *)
(* the upload, the bootstrap code survives its own copying and only an     *)
(* image that was sent is started.                                         *)
(***************************************************************************)

(* The values of a uint32_t, as many as Width digits can tell.             *)
Limit == U!Power(Base, Width)

(* What the line carries; a CRC is that of an image that is sent.          *)
Token ==
  {x \in [k : {"byte", "image", "crc", "bad", "readline"}, v : Nat] :
     x.k = "crc" => x.v \in ImageSizes}

Typing == {"gets", "command"}
Reading == {"size", "addr"}

LineTypes == script \in Seq(Token) /\ line \in Seq(Token)

CmdTypes ==
  IF at \in Typing THEN cmd \in Seq(Int) /\ Len(cmd) < CMD_SIZE ELSE cmd \in Seq(Token)

NumberTypes ==
  /\ at \in {"gets", "command", "size", "addr", "checksum", "image", "check",
             "move", "bootstrap", "started"}
  /\ res \in 0..Limit-1 /\ image_size \in 0..Limit-1 /\ image_addr \in 0..Limit-1
  /\ nread \in 0..image_size /\ (at # "image" => nread = 0)
  /\ i \in Nat /\ (at \notin Reading \cup {"move", "bootstrap", "started"} => i = 0)
  /\ DOMAIN mem = 0..RamCells-1

(* The image in the place where it was received, from a byte on; in the    *)
(* place where it is to run, up to a byte; the bootstrap section likewise. *)
ReceivedFrom(m) ==
  \A j \in 0..image_size-1 : j >= m => mem[U!tmp_image_addr + j] = [k |-> "image", v |-> j + 1]
CopiedTo(m) ==
  \A j \in 0..image_size-1 : j < m => mem[image_addr + j] = [k |-> "image", v |-> j + 1]
BootstrapTo(m) ==
  \A j \in 0..m-1 : mem[U!new_bootstrap_addr + j] = U!Kernel(BootStart + j)

Units == U!ROUNDUP(image_size, Word) \div Word

LoadInv ==
  /\ at \in {"move", "bootstrap", "started"} => image_size \in ImageSizes
  /\ at = "move" => i \in 0..BootSize /\ ReceivedFrom(0) /\ BootstrapTo(i)
  /\ at = "bootstrap" =>
       i \in 0..Units /\ ReceivedFrom(i * Word) /\ CopiedTo(i * Word) /\ BootstrapTo(BootSize)
  /\ at = "started" => CopiedTo(image_size) /\ BootstrapTo(BootSize)

ShellInv == LineTypes /\ CmdTypes /\ NumberTypes /\ U!KernelIntact /\ LoadInv
-----------------------------------------------------------------------------
(* Rounding up to a multiple of w.                                         *)
LEMMA Division ==
  ASSUME NEW x \in Nat, NEW w \in Nat \ {0}
  PROVE  /\ x \div w \in Nat
         /\ (x \div w) * w <= x /\ x < (x \div w) * w + w
OBVIOUS

(* A multiple of w divided by w.                                           *)
LEMMA ExactDivision ==
  ASSUME NEW q \in Nat, NEW w \in Nat \ {0}
  PROVE  (q * w) \div w = q
OBVIOUS

(* ROUNDUP: the next multiple of w, less than w further on.                *)
LEMMA RoundedUp ==
  ASSUME NEW x \in Nat, NEW w \in Nat \ {0}
  PROVE  /\ U!ROUNDUP(x, w) \in Nat
         /\ x <= U!ROUNDUP(x, w) /\ U!ROUNDUP(x, w) <= x + w - 1
         /\ U!ROUNDUP(x, w) \div w \in Nat
         /\ (U!ROUNDUP(x, w) \div w) * w = U!ROUNDUP(x, w)
<1> DEFINE q == (x + w - 1) \div w
<1>1. x + w - 1 \in Nat
  OBVIOUS
<1>2. q \in Nat /\ q * w <= x + w - 1 /\ x + w - 1 < q * w + w
  BY <1>1, Division
<1>3. U!ROUNDUP(x, w) = q * w
  BY DEF U!ROUNDUP
<1> HIDE DEF q
<1>4. q * w \in Nat
  BY <1>2
<1>5. (q * w) \div w = q
  BY <1>2, ExactDivision
<1> QED
  BY <1>2, <1>3, <1>4, <1>5

(* Powers are positive numbers; so is the number of values of a uint32_t.  *)
LEMMA PowersOfBase ==
  ASSUME U!ShellAssumption
  PROVE  \A k \in Nat : U!Power(Base, k) \in Nat \ {0}
<1>1. Base \in Nat \ {0}
  BY DEF U!ShellAssumption
<1>2. \A k \in Nat : ST!Power(Base, k) \in Nat \ {0}
  BY <1>1, ST!Powers
<1> QED
  BY <1>2 DEF U!Power, ST!Power

LEMMA LimitIsPositive ==
  ASSUME U!ShellAssumption
  PROVE  Limit \in Nat \ {0}
BY PowersOfBase DEF U!ShellAssumption, Limit

(* What the assumption says of the sizes, as numbers.                      *)
LEMMA ImageFacts ==
  ASSUME U!ShellAssumption
  PROVE  /\ Word \in Nat \ {0} /\ BootSize \in Nat /\ BootStart \in Nat /\ KernelEnd \in Nat
         /\ RamCells \in Nat /\ Width \in Nat \ {0} /\ Base \in Nat \ {0}
         /\ ImageSizes \subseteq Nat /\ Addrs \subseteq Nat
         /\ \A x \in ImageSizes : x >= Word
BY LimitIsPositive DEF U!ShellAssumption, Limit

(* Where everything lies: the image received behind the kernel and behind  *)
(* the place it is to go to, the bootstrap code behind that.               *)
LEMMA Places ==
  ASSUME U!ShellAssumption, image_size \in 0..Limit-1, image_addr \in 0..Limit-1
  PROVE  /\ U!tmp_image_addr \in Nat /\ U!new_bootstrap_addr \in Nat
         /\ KernelEnd <= U!tmp_image_addr /\ image_addr + image_size <= U!tmp_image_addr
         /\ U!tmp_image_addr + image_size <= U!new_bootstrap_addr
         /\ U!new_bootstrap_addr + BootSize <= RamCells
         /\ Units \in Nat
         /\ image_size <= Units * Word /\ Units * Word <= image_size + Word - 1
<1>1. Limit \in Nat \ {0} /\ KernelEnd \in Nat /\ Word \in Nat \ {0} /\ BootSize \in Nat
      /\ RamCells \in Nat
  BY LimitIsPositive, ImageFacts
<1>2. /\ KernelEnd + Limit + Word + BootSize <= RamCells
      /\ 2 * Limit + Limit + Word + BootSize <= RamCells
  BY DEF U!ShellAssumption, Limit
<1>3. /\ U!tmp_image_addr \in Nat /\ KernelEnd <= U!tmp_image_addr
      /\ image_addr + image_size <= U!tmp_image_addr
      /\ U!tmp_image_addr = KernelEnd \/ U!tmp_image_addr <= 2 * Limit - 2
  BY <1>1 DEF U!tmp_image_addr, U!ImageEnd
<1> DEFINE x == U!tmp_image_addr + image_size
<1>4. x \in Nat
  BY <1>1, <1>3
<1>5. /\ U!ROUNDUP(x, Word) \in Nat /\ x <= U!ROUNDUP(x, Word)
      /\ U!ROUNDUP(x, Word) <= x + Word - 1
  BY <1>1, <1>4, RoundedUp
<1>6. U!new_bootstrap_addr = U!ROUNDUP(x, Word)
  BY DEF U!new_bootstrap_addr
<1>7. U!new_bootstrap_addr + BootSize <= RamCells
  BY <1>1, <1>2, <1>3, <1>5, <1>6
<1>8. Units \in Nat /\ image_size <= Units * Word /\ Units * Word <= image_size + Word - 1
  BY <1>1, RoundedUp DEF Units
<1> QED
  BY <1>3, <1>5, <1>6, <1>7, <1>8

(* What the uploader sends are tokens.                                     *)
LEMMA TokenFacts ==
  ASSUME U!ShellAssumption
  PROVE  /\ \A v \in Nat : U!Byte(v) \in Token
         /\ U!READLINE \in Token /\ U!Bad \in Token
         /\ \A x \in ImageSizes : U!CRC(x) \in Token
BY ImageFacts DEF U!Byte, U!READLINE, U!Bad, U!CRC, Token

(* What a string becomes on the line ...                                   *)
LEMMA BytesAreTokens ==
  ASSUME U!ShellAssumption, NEW t \in Seq(Nat)
  PROVE  U!Bytes(t) \in Seq(Token)
<1>1. Len(t) \in Nat /\ \A j \in 1..Len(t) : U!Byte(t[j]) \in Token
  BY TokenFacts, LenProperties, ElementOfSeq
<1> QED
  BY <1>1 DEF U!Bytes

(* ... and the image ...                                                   *)
LEMMA ImageIsTokens ==
  ASSUME NEW x \in Nat
  PROVE  U!Image(x) \in Seq(Token)
<1>1. \A j \in 1..x : [k |-> "image", v |-> j] \in Token
  BY DEF Token
<1> QED
  BY <1>1 DEF U!Image

(* ... and a number, digit by digit.                                       *)
LEMMA NumberIsTokens ==
  ASSUME U!ShellAssumption, NEW x \in Nat
  PROVE  U!Number(x) \in Seq(Token)
<1>1. Width \in Nat \ {0} /\ Base \in Nat \ {0}
  BY ImageFacts
<1>2. \A j \in 1..Width : (x \div U!Power(Base, Width-j)) % Base \in Nat
  <2> TAKE j \in 1..Width
  <2>1. Width-j \in Nat
    BY <1>1
  <2>2. U!Power(Base, Width-j) \in Nat \ {0}
    BY <2>1, PowersOfBase
  <2>3. x \div U!Power(Base, Width-j) \in Nat
    BY <2>2, Division
  <2> QED
    BY <1>1, <2>3
<1>3. \A j \in 1..Width : U!Byte((x \div U!Power(Base, Width-j)) % Base) \in Token
  BY <1>2, TokenFacts
<1> QED
  BY <1>1, <1>3 DEF U!Number

(* What the user types before the upload: ten characters.                  *)
LEMMA TextIsTyped == U!Text \in Seq(Nat) /\ Len(U!Text) = 10
<1>1. /\ <<0, U!NL>> \in Seq(Nat) /\ Len(<<0, U!NL>>) = 2
      /\ <<0, 0, U!CR>> \in Seq(Nat) /\ Len(<<0, 0, U!CR>>) = 3
      /\ <<0, 0, 0, 0, U!NL>> \in Seq(Nat) /\ Len(<<0, 0, 0, 0, U!NL>>) = 5
  BY DEF U!NL, U!CR
<1>2. <<0, U!NL>> \o <<0, 0, U!CR>> \in Seq(Nat) /\ Len(<<0, U!NL>> \o <<0, 0, U!CR>>) = 5
  BY <1>1, ConcatProperties
<1> QED
  BY <1>1, <1>2, ConcatProperties DEF U!Text

(* An upload begins in a state of the invariant.                           *)
LEMMA InitShellInv ==
  ASSUME U!ShellAssumption, U!Init
  PROVE  ShellInv
<1>1. LineTypes
  <2>1. PICK x \in ImageSizes, addr \in Addrs :
          script = U!Bytes(<<U!LOADIMG, U!NL>>) \o <<U!READLINE>> \o U!Number(x) \o <<U!READLINE>>
                   \o U!Number(addr) \o <<U!READLINE, U!CRC(x)>> \o U!Image(x)
    BY Zenon DEF U!Init
  <2>2. x \in Nat /\ addr \in Nat
    BY ImageFacts
  <2>3. <<U!LOADIMG, U!NL>> \in Seq(Nat)
    BY DEF U!LOADIMG, U!NL
  <2>4. /\ U!Bytes(<<U!LOADIMG, U!NL>>) \in Seq(Token) /\ <<U!READLINE>> \in Seq(Token)
        /\ U!Number(x) \in Seq(Token) /\ U!Number(addr) \in Seq(Token)
        /\ <<U!READLINE, U!CRC(x)>> \in Seq(Token) /\ U!Image(x) \in Seq(Token)
    <3>1. U!READLINE \in Token /\ U!CRC(x) \in Token
      BY TokenFacts
    <3>2. <<U!READLINE>> \in Seq(Token) /\ <<U!READLINE, U!CRC(x)>> \in Seq(Token)
      BY <3>1
    <3>3. U!Bytes(<<U!LOADIMG, U!NL>>) \in Seq(Token)
      BY <2>3, BytesAreTokens
    <3>4. U!Number(x) \in Seq(Token) /\ U!Number(addr) \in Seq(Token) /\ U!Image(x) \in Seq(Token)
      BY <2>2, NumberIsTokens, ImageIsTokens
    <3> QED
      BY <3>2, <3>3, <3>4
  <2>5. script \in Seq(Token)
    BY <2>1, <2>4, ConcatProperties
  <2>6. PICK m \in U!LineEnds : line = U!Bytes(SubSeq(U!Text, 1, m))
    BY DEF U!Init
  <2>7. SubSeq(U!Text, 1, m) \in Seq(Nat)
    <3>1. m \in 0..10
      BY DEF U!LineEnds
    <3>2. \A j \in 1..m : U!Text[j] \in Nat
      <4> TAKE j \in 1..m
      <4>1. j \in 1..Len(U!Text)
        BY <3>1, TextIsTyped
      <4> QED
        BY <4>1, TextIsTyped, ElementOfSeq
    <3> QED
      BY <3>1, <3>2, SubSeqProperties
  <2> QED
    BY <2>5, <2>6, <2>7, BytesAreTokens DEF LineTypes
<1>2. CmdTypes
  BY DEF U!Init, CmdTypes, Typing, U!ShellAssumption
<1>3. NumberTypes
  BY LimitIsPositive, ImageFacts DEF U!Init, NumberTypes, Reading
<1>4. U!KernelIntact
  <2>1. KernelEnd + Limit + Word + BootSize <= RamCells
    BY DEF U!ShellAssumption, Limit
  <2>2. KernelEnd <= RamCells /\ KernelEnd \in Nat /\ RamCells \in Nat
    BY <2>1, ImageFacts, LimitIsPositive
  <2>3. mem = [a \in 0..RamCells-1 |-> IF a < KernelEnd THEN U!Kernel(a) ELSE U!Bad]
    BY DEF U!Init
  <2> QED
    BY <2>2, <2>3 DEF U!KernelIntact
<1>5. LoadInv
  BY DEF U!Init, LoadInv
<1> QED
  BY <1>1, <1>2, <1>3, <1>4, <1>5 DEF ShellInv
-----------------------------------------------------------------------------
(* Steps that leave some parts of the invariant alone.                     *)

(* The beginning and the rest of what has arrived.                         *)
LEMMA Parted ==
  ASSUME NEW T, NEW t \in Seq(T), NEW k \in 0..Len(t)
  PROVE  /\ SubSeq(t, 1, k) \in Seq(T) /\ Len(SubSeq(t, 1, k)) = k
         /\ \A j \in 1..k : SubSeq(t, 1, k)[j] = t[j]
         /\ SubSeq(t, k+1, Len(t)) \in Seq(T)
<1>1. Len(t) \in Nat /\ k \in Nat /\ \A j \in 1..Len(t) : t[j] \in T
  BY LenProperties, ElementOfSeq
<1>2. /\ \A j \in 1..k : t[j] \in T
      /\ \A j \in k+1..Len(t) : t[j] \in T
  BY <1>1
<1>3. /\ SubSeq(t, 1, k) \in Seq(T)
      /\ Len(SubSeq(t, 1, k)) = IF 1 <= k THEN k - 1 + 1 ELSE 0
      /\ \A j \in 1 .. k - 1 + 1 : SubSeq(t, 1, k)[j] = t[1 + j - 1]
  BY <1>1, <1>2, SubSeqProperties
<1>4. SubSeq(t, k+1, Len(t)) \in Seq(T)
  BY <1>1, <1>2, SubSeqProperties
<1> QED
  BY <1>1, <1>3, <1>4

(* A read takes at least one byte, no more than wanted and have arrived.   *)
LEMMA ArrivedFacts ==
  ASSUME LineTypes, NEW wanted \in Nat, NEW k \in U!Arrived(wanted)
  PROVE  k \in Nat \ {0} /\ k <= wanted /\ k \in 0..Len(line)
<1>1. Len(line) \in Nat
  BY LenProperties DEF LineTypes
<1> QED
  BY <1>1 DEF U!Arrived, U!Least

(* A character typed or a byte of a number.                                *)
LEMMA ValueFacts ==
  ASSUME U!ShellAssumption, NEW x \in Token
  PROVE  U!Value(x) \in 0..Base-1
<1>1. x.v \in Nat /\ Base \in Nat \ {0}
  BY ImageFacts DEF Token
<1> QED
  BY <1>1 DEF U!Value

(* The uploader's steps and those of the line.                             *)
LEMMA HostKeeps ==
  ASSUME U!ShellAssumption, ShellInv, U!ReadLine \/ U!Send \/ U!SendFaulty
  PROVE  ShellInv'
<1>1. UNCHANGED <<at, cmd, res, image_size, image_addr, nread, i, mem>>
  BY DEF U!ReadLine, U!Send, U!SendFaulty, U!local
<1>2. LineTypes'
  <2>1. /\ script # <<>> /\ script' = Tail(script)
        /\ \/ line' = line
           \/ line' = Append(line, Head(script))
           \/ \E x \in U!Damaged(Head(script)) : line' = Append(line, x)
    BY DEF U!ReadLine, U!Send, U!SendFaulty
  <2>2. script \in Seq(Token) /\ line \in Seq(Token)
    BY DEF ShellInv, LineTypes
  <2>3. Head(script) \in Token /\ script' \in Seq(Token)
    BY <2>1, <2>2, HeadTailProperties
  <2>4. U!Damaged(Head(script)) \subseteq Token
    <3>1. 0..Base-1 \subseteq Nat
      OBVIOUS
    <3> QED
      BY <3>1, TokenFacts DEF U!Damaged
  <2>5. line' = line \/ \E x \in Token : line' = Append(line, x)
    BY <2>1, <2>3, <2>4
  <2>6. line' \in Seq(Token)
    BY <2>2, <2>5, AppendProperties
  <2> QED
    BY <2>3, <2>6 DEF LineTypes
<1>3. CmdTypes' /\ NumberTypes'
  BY <1>1 DEF ShellInv, CmdTypes, NumberTypes
<1>4. U!KernelIntact' /\ LoadInv'
  BY <1>1 DEF ShellInv, U!KernelIntact, LoadInv, ReceivedFrom, CopiedTo, BootstrapTo,
     Units, U!tmp_image_addr, U!new_bootstrap_addr, U!ImageEnd
<1> QED
  BY <1>2, <1>3, <1>4 DEF ShellInv

(* Before the image is checked nothing is claimed of the load but that the *)
(* kernel is intact.                                                       *)
LEMMA BeforeLoading ==
  ASSUME ShellInv, at \notin {"bootstrap", "started"}, UNCHANGED mem,
         at' \notin {"move", "bootstrap", "started"}
  PROVE  U!KernelIntact' /\ LoadInv'
BY DEF ShellInv, U!KernelIntact, LoadInv

(* gets_s() keeps the invariant: Full() guards the end of the line.        *)
LEMMA GetsKeeps ==
  ASSUME U!ShellAssumption, ShellInv, U!gets_s
  PROVE  ShellInv'
<1>1. /\ at = "gets" /\ line # <<>> /\ line' = Tail(line) /\ at' \in {"gets", "command"}
      /\ UNCHANGED <<script, res, image_size, image_addr, nread, i, mem>>
      /\ \/ cmd' = cmd
         \/ cmd' = Append(cmd, U!getchar) /\ ~U!Full(Len(cmd))
  BY DEF U!gets_s, U!host
<1>2. Head(line) \in Token /\ line' \in Seq(Token) /\ script \in Seq(Token)
  BY <1>1, HeadTailProperties DEF ShellInv, LineTypes
<1>3. LineTypes'
  BY <1>1, <1>2 DEF LineTypes
<1>4. CmdTypes'
  <2>1. cmd \in Seq(Int) /\ Len(cmd) < CMD_SIZE /\ CMD_SIZE \in Nat /\ Len(cmd) \in Nat
    BY <1>1, LenProperties DEF ShellInv, CmdTypes, Typing, U!ShellAssumption
  <2>2. U!getchar \in Int
    BY <1>2, ValueFacts, ImageFacts DEF U!getchar, U!NL
  <2>3. cmd' \in Seq(Int) /\ Len(cmd') < CMD_SIZE
    <3>1. CASE cmd' = cmd
      BY <2>1, <3>1
    <3>2. CASE cmd' = Append(cmd, U!getchar) /\ ~U!Full(Len(cmd))
      <4>1. cmd' \in Seq(Int) /\ Len(cmd') = Len(cmd) + 1
        BY <2>1, <2>2, <3>2, AppendProperties
      <4> QED
        BY <2>1, <3>2, <4>1 DEF U!Full
    <3> QED
      BY <1>1, <3>1, <3>2
  <2> QED
    BY <1>1, <2>3 DEF CmdTypes, Typing
<1>5. NumberTypes'
  BY <1>1 DEF ShellInv, NumberTypes, Reading
<1> QED
  BY <1>1, <1>3, <1>4, <1>5, BeforeLoading DEF ShellInv

(* The command loop keeps it; loadimg starts with no number read.          *)
LEMMA CommandKeeps ==
  ASSUME U!ShellAssumption, ShellInv, U!Command
  PROVE  ShellInv'
<1>1. /\ at = "command" /\ at' \in {"size", "gets"} /\ cmd' = <<>>
      /\ UNCHANGED <<script, line, res, image_size, image_addr, nread, i, mem>>
  BY DEF U!Command, U!host
<1>2. LineTypes' /\ NumberTypes'
  BY <1>1 DEF ShellInv, LineTypes, NumberTypes, Reading
<1>3. CmdTypes'
  BY <1>1 DEF CmdTypes, U!ShellAssumption
<1> QED
  BY <1>1, <1>2, <1>3, BeforeLoading DEF ShellInv

(* getuint32_be(), twice, keeps it: the number stays below 2^32.           *)
LEMMA NumberKeeps ==
  ASSUME U!ShellAssumption, ShellInv, U!ReadBytes \/ U!AddByte \/ U!GotSize \/ U!GotAddr
  PROVE  ShellInv'
<1>0. /\ at \in {"size", "addr"} /\ at' \in {"size", "addr", "checksum"}
      /\ UNCHANGED <<script, nread, mem>>
      /\ Width \in Nat \ {0} /\ Limit \in Nat \ {0} /\ nread = 0 /\ i \in Nat
      /\ cmd \in Seq(Token) /\ Len(cmd) \in Nat
  BY ImageFacts, LimitIsPositive, LenProperties
     DEF U!ReadBytes, U!AddByte, U!GotSize, U!GotAddr, U!host, ShellInv, NumberTypes, CmdTypes, Typing
<1>1. U!KernelIntact' /\ LoadInv'
  BY <1>0, BeforeLoading
<1>2. CASE U!ReadBytes
  <2>1. PICK k \in U!Arrived(Width - Len(cmd)) :
          cmd' = cmd \o SubSeq(line, 1, k) /\ line' = SubSeq(line, k+1, Len(line))
    BY <1>2 DEF U!ReadBytes
  <2>2. Len(cmd) < Width /\ UNCHANGED <<at, res, image_size, image_addr, i>>
    BY <1>2 DEF U!ReadBytes
  <2>3. k \in 0..Len(line)
    BY <1>0, <2>2, ArrivedFacts DEF ShellInv
  <2>4. SubSeq(line, 1, k) \in Seq(Token) /\ SubSeq(line, k+1, Len(line)) \in Seq(Token)
    BY <2>3, Parted DEF ShellInv, LineTypes
  <2>5. LineTypes' /\ CmdTypes'
    BY <1>0, <2>1, <2>2, <2>4, ConcatProperties DEF ShellInv, LineTypes, CmdTypes, Typing
  <2>6. NumberTypes'
    BY <1>0, <2>2 DEF ShellInv, NumberTypes
  <2> QED
    BY <1>1, <2>5, <2>6 DEF ShellInv
<1>3. CASE U!AddByte
  <2>1. /\ Len(cmd) = Width /\ i < Width /\ i' = i + 1
        /\ res' = (res * Base + U!Value(U!FromTheFront(cmd, i))) % Limit
        /\ UNCHANGED <<line, at, cmd, image_size, image_addr>>
    BY <1>3 DEF U!AddByte, Limit
  <2>2. cmd[i + 1] \in Token
    BY <1>0, <2>1, ElementOfSeq
  <2>3. U!Value(U!FromTheFront(cmd, i)) \in Int
    BY <2>2, ValueFacts, ImageFacts DEF U!FromTheFront
  <2>4. res * Base + U!Value(U!FromTheFront(cmd, i)) \in Int
    BY <2>3, ImageFacts DEF ShellInv, NumberTypes
  <2>5. res' \in 0..Limit-1
    BY <1>0, <2>1, <2>4
  <2>6. NumberTypes'
    BY <1>0, <2>1, <2>5 DEF ShellInv, NumberTypes, Reading
  <2>7. LineTypes' /\ CmdTypes'
    BY <1>0, <2>1 DEF ShellInv, LineTypes, CmdTypes
  <2> QED
    BY <1>1, <2>6, <2>7 DEF ShellInv
<1>4. CASE U!GotSize \/ U!GotAddr
  <2>1. /\ at' \in {"addr", "checksum"} /\ cmd' = <<>> /\ res' = 0 /\ i' = 0
        /\ image_size' \in {image_size, res} /\ image_addr' \in {image_addr, res}
        /\ UNCHANGED line
    BY <1>4 DEF U!GotSize, U!GotAddr, U!Returned
  <2>2. NumberTypes'
    BY <1>0, <2>1 DEF ShellInv, NumberTypes, Reading
  <2>3. LineTypes' /\ CmdTypes'
    BY <1>0, <2>1 DEF ShellInv, LineTypes, CmdTypes, Typing
  <2> QED
    BY <1>1, <2>2, <2>3 DEF ShellInv
<1> QED
  BY <1>2, <1>3, <1>4

(* Reading the checksum keeps it.                                          *)
LEMMA ReadChecksumKeeps ==
  ASSUME U!ShellAssumption, ShellInv, U!ReadChecksum
  PROVE  ShellInv'
<1>1. /\ at = "checksum" /\ at' = "image" /\ line # <<>>
      /\ cmd' = <<Head(line)>> /\ line' = Tail(line)
      /\ UNCHANGED <<script, res, image_size, image_addr, nread, i, mem>>
  BY DEF U!ReadChecksum, U!host
<1>2. Head(line) \in Token /\ line' \in Seq(Token) /\ script \in Seq(Token)
  BY <1>1, HeadTailProperties DEF ShellInv, LineTypes
<1>3. LineTypes' /\ CmdTypes'
  BY <1>1, <1>2 DEF LineTypes, CmdTypes, Typing
<1>4. NumberTypes'
  BY <1>1 DEF ShellInv, NumberTypes, Reading
<1> QED
  BY <1>1, <1>3, <1>4, BeforeLoading DEF ShellInv

(* Memory m differs from the present one by len cells t at address a.      *)
Placed(m, a, t, len) ==
  /\ DOMAIN m = DOMAIN mem
  /\ \A cell \in DOMAIN mem \cap Nat : cell < a \/ a + len <= cell => m[cell] = mem[cell]
  /\ \A j \in 0..len-1 : a + j \in DOMAIN mem => m[a + j] = t[j + 1]

(* What a store leaves of the memory.                                      *)
LEMMA StoredFacts ==
  ASSUME NEW a \in Nat, NEW t, NEW len \in Nat, Len(t) = len
  PROVE  Placed(U!Stored(a, t), a, t, len)
<1>1. a .. a + Len(t) - 1 = a .. a + len - 1
  OBVIOUS
<1>2. DOMAIN U!Stored(a, t) = DOMAIN mem
  BY DEF U!Stored
<1>3. \A cell \in DOMAIN mem :
        U!Stored(a, t)[cell] = IF cell \in a .. a + len - 1 THEN t[cell - a + 1] ELSE mem[cell]
  BY <1>1 DEF U!Stored
<1>4. \A j \in 0..len-1 : a + j \in a .. a + len - 1 /\ (a + j) - a + 1 = j + 1
  OBVIOUS
<1>5. \A cell \in Nat : cell < a \/ a + len <= cell => cell \notin a .. a + len - 1
  OBVIOUS
<1> QED
  BY <1>2, <1>3, <1>4, <1>5 DEF Placed

(* Reading the image keeps it: what is stored lies behind the kernel.      *)
LEMMA ReadImageKeeps ==
  ASSUME U!ShellAssumption, ShellInv, U!ReadImage
  PROVE  ShellInv'
<1>0. /\ at = "image" /\ nread \in 0..image_size /\ image_size \in Nat
      /\ DOMAIN mem = 0..RamCells-1 /\ RamCells \in Nat /\ KernelEnd \in Nat
      /\ U!tmp_image_addr \in Nat /\ KernelEnd <= U!tmp_image_addr
      /\ KernelEnd <= RamCells
      /\ UNCHANGED <<script, cmd, res, image_size, image_addr, i>>
  <2>1. KernelEnd <= RamCells
    BY ImageFacts, LimitIsPositive DEF U!ShellAssumption, Limit
  <2> QED
    BY <2>1, ImageFacts, Places DEF U!ReadImage, U!host, ShellInv, NumberTypes
<1>1. CASE nread < image_size
  <2>1. PICK k \in U!Arrived(image_size - nread) :
          /\ mem' = U!Stored(U!tmp_image_addr + nread, SubSeq(line, 1, k))
          /\ line' = SubSeq(line, k+1, Len(line))
          /\ nread' = nread + k /\ at' = at
    BY <1>1 DEF U!ReadImage
  <2>2. k \in Nat \ {0} /\ k <= image_size - nread /\ k \in 0..Len(line)
    BY <1>0, <1>1, ArrivedFacts DEF ShellInv
  <2>3. /\ SubSeq(line, k+1, Len(line)) \in Seq(Token)
        /\ Len(SubSeq(line, 1, k)) = k
    BY <2>2, Parted DEF ShellInv, LineTypes
  <2>4. LineTypes' /\ CmdTypes'
    BY <1>0, <2>1, <2>3 DEF ShellInv, LineTypes, CmdTypes
  <2>5. /\ DOMAIN mem' = DOMAIN mem
        /\ \A cell \in DOMAIN mem \cap Nat : cell < U!tmp_image_addr + nread => mem'[cell] = mem[cell]
    <3> DEFINE a == U!tmp_image_addr + nread
               t == SubSeq(line, 1, k)
    <3>1. a \in Nat /\ k \in Nat /\ Len(t) = k /\ mem' = U!Stored(a, t)
      BY <1>0, <2>1, <2>2, <2>3
    <3> HIDE DEF a, t
    <3>2. Placed(mem', a, t, k)
      BY <3>1, StoredFacts, Zenon
    <3> QED
      BY <3>2, Zenon DEF Placed, a
  <2>6. NumberTypes'
    BY <1>0, <2>1, <2>2, <2>5 DEF ShellInv, NumberTypes
  <2>7. U!KernelIntact'
    <3>1. \A cell \in 0..KernelEnd-1 : cell \in DOMAIN mem \cap Nat /\ cell < U!tmp_image_addr + nread
      BY <1>0
    <3> QED
      BY <1>0, <2>1, <2>5, <3>1 DEF ShellInv, U!KernelIntact
  <2>8. LoadInv'
    BY <1>0, <2>1 DEF LoadInv
  <2> QED
    BY <2>4, <2>6, <2>7, <2>8 DEF ShellInv
<1>2. CASE ~(nread < image_size)
  <2>1. at' = "check" /\ nread' = 0 /\ UNCHANGED <<mem, line>>
    BY <1>2 DEF U!ReadImage
  <2>2. LineTypes' /\ CmdTypes' /\ NumberTypes'
    BY <1>0, <2>1 DEF ShellInv, LineTypes, CmdTypes, NumberTypes, Typing, Reading
  <2> QED
    BY <1>0, <2>1, <2>2, BeforeLoading DEF ShellInv
<1> QED
  BY <1>1, <1>2

(* Past the checksum the size is that of an image that was sent, and that  *)
(* image is there.                                                         *)
LEMMA CheckKeeps ==
  ASSUME U!ShellAssumption, ShellInv, U!Check
  PROVE  ShellInv'
<1>1. /\ at = "check" /\ at' \in {"move", "gets"} /\ (at' = "move" => U!ChecksumRight)
      /\ cmd' = <<>>
      /\ UNCHANGED <<script, line, res, image_size, image_addr, nread, i, mem>>
  BY DEF U!Check, U!host
<1>2. LineTypes' /\ NumberTypes'
  BY <1>1 DEF ShellInv, LineTypes, NumberTypes, Reading
<1>3. CmdTypes'
  BY <1>1 DEF CmdTypes, U!ShellAssumption
<1>4. U!KernelIntact'
  BY <1>1 DEF ShellInv, U!KernelIntact
<1>5. LoadInv'
  <2> SUFFICES ASSUME at' = "move"
               PROVE  image_size \in ImageSizes /\ i \in 0..BootSize /\ ReceivedFrom(0) /\ BootstrapTo(i)
    BY <1>1 DEF LoadInv, ReceivedFrom, BootstrapTo, U!tmp_image_addr, U!new_bootstrap_addr, U!ImageEnd
  <2>1. /\ cmd = <<U!CRC(image_size)>> /\ cmd \in Seq(Token)
        /\ U!Stretch(U!tmp_image_addr, image_size) = U!Image(image_size)
        /\ i = 0 /\ BootSize \in Nat /\ image_size \in Nat /\ U!tmp_image_addr \in Nat
    BY <1>1, ImageFacts, Places DEF U!ChecksumRight, ShellInv, CmdTypes, Typing, NumberTypes, Reading
  <2>2. U!CRC(image_size) \in Token
    <3>1. Len(cmd) = 1 /\ cmd[1] = U!CRC(image_size)
      BY <2>1
    <3> QED
      BY <2>1, <3>1, ElementOfSeq
  <2>3. image_size \in ImageSizes
    BY <2>2 DEF Token, U!CRC
  <2>4. ReceivedFrom(0)
    <3>1. SUFFICES ASSUME NEW j \in 0..image_size-1
                   PROVE  mem[U!tmp_image_addr + j] = [k |-> "image", v |-> j + 1]
      BY DEF ReceivedFrom
    <3>2. j + 1 \in 1..image_size /\ U!tmp_image_addr + (j + 1) - 1 = U!tmp_image_addr + j
      BY <2>1
    <3>3. U!Stretch(U!tmp_image_addr, image_size)[j + 1] = mem[U!tmp_image_addr + j]
      BY <3>2 DEF U!Stretch
    <3>4. U!Image(image_size)[j + 1] = [k |-> "image", v |-> j + 1]
      BY <3>2 DEF U!Image
    <3> QED
      BY <2>1, <3>3, <3>4
  <2> QED
    BY <2>1, <2>3, <2>4 DEF BootstrapTo
<1> QED
  BY <1>2, <1>3, <1>4, <1>5 DEF ShellInv

(* The bootstrap section is copied to a place behind the image.            *)
LEMMA MoveKeeps ==
  ASSUME U!ShellAssumption, ShellInv, U!MoveBootstrap
  PROVE  ShellInv'
<1>0. /\ at = "move" /\ UNCHANGED <<script, line, cmd, res, image_size, image_addr, nread>>
      /\ image_size \in ImageSizes /\ i \in 0..BootSize /\ ReceivedFrom(0) /\ BootstrapTo(i)
  BY DEF U!MoveBootstrap, U!host, ShellInv, LoadInv
<1>1. /\ DOMAIN mem = 0..RamCells-1 /\ RamCells \in Nat /\ KernelEnd \in Nat
      /\ BootSize \in Nat /\ BootStart \in Nat /\ BootStart + BootSize <= KernelEnd
      /\ image_size \in Nat /\ U!tmp_image_addr \in Nat /\ U!new_bootstrap_addr \in Nat
      /\ KernelEnd <= U!tmp_image_addr
      /\ U!tmp_image_addr + image_size <= U!new_bootstrap_addr
      /\ U!new_bootstrap_addr + BootSize <= RamCells
  BY ImageFacts, Places DEF ShellInv, NumberTypes, U!ShellAssumption
<1>2. \A cell \in 0..KernelEnd-1 : mem[cell] = U!Kernel(cell)
  BY <1>0 DEF ShellInv, U!KernelIntact
<1>3. LineTypes' /\ CmdTypes'
  BY <1>0 DEF ShellInv, LineTypes, CmdTypes, U!MoveBootstrap, Typing
<1>4. CASE i < BootSize
  <2> DEFINE a == U!new_bootstrap_addr + i
             t == <<mem[BootStart + i]>>
  <2>1. mem' = U!Stored(a, t) /\ i' = i + 1 /\ at' = at
    BY <1>4 DEF U!MoveBootstrap
  <2>2. a \in Nat /\ Len(t) = 1 /\ a \in DOMAIN mem
    BY <1>0, <1>1, <1>4
  <2>3. t[1] = U!Kernel(BootStart + i)
    <3>1. BootStart + i \in 0..KernelEnd-1
      BY <1>0, <1>1, <1>4
    <3> QED
      BY <1>2, <3>1
  <2> HIDE DEF t
  <2>4. /\ DOMAIN mem' = DOMAIN mem
        /\ \A cell \in DOMAIN mem : cell < a => mem'[cell] = mem[cell]
        /\ mem'[a] = t[1]
    <3> HIDE DEF a
    <3>1. PICK len \in Nat : len = 1
      OBVIOUS
    <3>2. Placed(mem', a, t, len)
      <4>1. Len(t) = len
        BY <2>2, <3>1
      <4>2. a \in Nat
        BY <2>2
      <4> QED
        BY <2>1, <4>1, <4>2, StoredFacts, Zenon
    <3>3. \A cell \in DOMAIN mem : cell \in Nat
      BY <1>1
    <3>4. mem'[a] = t[1]
      <4>1. a + 0 = a /\ 0 + 1 = 1 /\ 0 \in 0..len-1
        BY <2>2, <3>1
      <4> QED
        BY <2>2, <3>2, <4>1 DEF Placed
    <3> QED
      BY <3>2, <3>3, <3>4 DEF Placed
  <2>5. NumberTypes'
    BY <1>0, <2>1, <2>4 DEF ShellInv, NumberTypes, Reading
  <2>6. U!KernelIntact'
    <3>1. \A cell \in 0..KernelEnd-1 : cell \in DOMAIN mem /\ cell < a
      BY <1>0, <1>1
    <3> QED
      BY <1>2, <2>4, <3>1 DEF U!KernelIntact
  <2>7. ReceivedFrom(0)'
    <3>1. \A j \in 0..image_size-1 : U!tmp_image_addr + j \in DOMAIN mem /\ U!tmp_image_addr + j < a
      BY <1>0, <1>1
    <3> QED
      BY <1>0, <2>4, <3>1 DEF ReceivedFrom, U!tmp_image_addr, U!ImageEnd
  <2>8. BootstrapTo(i)'
    <3>1. U!new_bootstrap_addr' = U!new_bootstrap_addr
      BY <1>0 DEF U!new_bootstrap_addr, U!tmp_image_addr, U!ImageEnd
    <3>2. \A j \in 0..i : mem'[U!new_bootstrap_addr + j] = U!Kernel(BootStart + j)
      <4> TAKE j \in 0..i
      <4>1. CASE j = i
        BY <2>3, <2>4, <4>1
      <4>2. CASE j # i
        <5>1. j \in 0..i-1 /\ U!new_bootstrap_addr + j \in DOMAIN mem
              /\ U!new_bootstrap_addr + j < a
          BY <1>0, <1>1, <4>2
        <5> QED
          BY <1>0, <2>4, <5>1 DEF BootstrapTo
      <4> QED
        BY <4>1, <4>2
    <3>3. 0..i'-1 = 0..i
      BY <1>0, <2>1
    <3> QED
      BY <3>1, <3>2, <3>3 DEF BootstrapTo
  <2>9. LoadInv'
    <3>1. i' \in 0..BootSize
      BY <1>0, <1>1, <1>4, <2>1
    <3> QED
      BY <1>0, <2>1, <2>7, <2>8, <3>1 DEF LoadInv
  <2> QED
    BY <1>3, <2>5, <2>6, <2>9 DEF ShellInv
<1>5. CASE ~(i < BootSize)
  <2>1. at' = "bootstrap" /\ i' = 0 /\ mem' = mem /\ i = BootSize
    BY <1>0, <1>1, <1>5 DEF U!MoveBootstrap
  <2>2. NumberTypes' /\ U!KernelIntact'
    BY <1>0, <2>1 DEF ShellInv, NumberTypes, Reading, U!KernelIntact
  <2>3. i' \in 0..Units' /\ i' * Word = 0
    <3>1. Units \in Nat /\ Word \in Nat
      BY ImageFacts, Places DEF ShellInv, NumberTypes
    <3> QED
      BY <1>0, <2>1, <3>1 DEF Units
  <2>4. ReceivedFrom(i * Word)' /\ CopiedTo(i * Word)' /\ BootstrapTo(BootSize)'
    <3>1. ReceivedFrom(0)' /\ BootstrapTo(BootSize)'
      BY <1>0, <2>1 DEF ReceivedFrom, BootstrapTo, U!tmp_image_addr, U!new_bootstrap_addr, U!ImageEnd
    <3>2. CopiedTo(0)'
      BY <1>0, <1>1 DEF CopiedTo
    <3> QED
      BY <2>3, <3>1, <3>2 DEF ReceivedFrom, CopiedTo
  <2>5. LoadInv'
    BY <1>0, <2>1, <2>3, <2>4 DEF LoadInv
  <2> QED
    BY <1>3, <2>2, <2>5 DEF ShellInv
<1> QED
  BY <1>4, <1>5

(* A word of the image is copied to its place: it lies below all that has  *)
(* still to be read, and below the bootstrap code, though the last word    *)
(* may be longer than what is left of the image.                           *)
LEMMA BootstrapKeeps ==
  ASSUME U!ShellAssumption, ShellInv, U!bootstrap_func
  PROVE  ShellInv'
<1>0. /\ at = "bootstrap"
      /\ UNCHANGED <<script, line, cmd, res, image_size, image_addr, nread>>
      /\ image_size \in ImageSizes /\ i \in 0..Units
      /\ ReceivedFrom(i * Word) /\ CopiedTo(i * Word) /\ BootstrapTo(BootSize)
  BY DEF U!bootstrap_func, U!host, ShellInv, LoadInv
<1>1. /\ DOMAIN mem = 0..RamCells-1 /\ RamCells \in Nat /\ BootSize \in Nat
      /\ Word \in Nat \ {0} /\ image_size \in Nat /\ image_size >= Word
      /\ image_addr \in Nat /\ U!tmp_image_addr \in Nat /\ U!new_bootstrap_addr \in Nat
      /\ image_addr + image_size <= U!tmp_image_addr
      /\ U!tmp_image_addr + image_size <= U!new_bootstrap_addr
      /\ U!new_bootstrap_addr + BootSize <= RamCells
      /\ Units \in Nat
      /\ image_size <= Units * Word /\ Units * Word <= image_size + Word - 1
  BY <1>0, ImageFacts, Places DEF ShellInv, NumberTypes
<1>2. LineTypes' /\ CmdTypes'
  BY <1>0 DEF ShellInv, LineTypes, CmdTypes, U!bootstrap_func, Typing
<1>3. /\ U!tmp_image_addr' = U!tmp_image_addr /\ U!new_bootstrap_addr' = U!new_bootstrap_addr
      /\ Units' = Units
  BY <1>0 DEF U!tmp_image_addr, U!new_bootstrap_addr, U!ImageEnd, Units
<1>4. CASE i < Units
  <2> DEFINE m == i * Word
             a == image_addr + m
             t == U!Stretch(U!tmp_image_addr + m, Word)
  <2>1. mem' = U!Stored(a, t) /\ i' = i + 1 /\ at' = at
    BY <1>4 DEF U!bootstrap_func, Units
  <2>2. /\ m \in Nat /\ i' * Word = m + Word
        /\ m + Word <= image_size + Word - 1
    <3>1. /\ i \in Nat /\ i * Word \in Nat /\ (i + 1) * Word = i * Word + Word
          /\ (i + 1) * Word <= Units * Word
      BY <1>0, <1>1, <1>4
    <3> QED
      BY <1>1, <2>1, <3>1
  <2>3. Len(t) = Word /\ \A j \in 0..Word-1 : t[j + 1] = mem[U!tmp_image_addr + (m + j)]
    <3>1. Len(t) = Word
      BY <1>1 DEF U!Stretch
    <3>2. \A j \in 0..Word-1 :
            /\ j + 1 \in 1..Word
            /\ (U!tmp_image_addr + m) + (j + 1) - 1 = U!tmp_image_addr + (m + j)
      BY <1>1, <2>2
    <3> QED
      BY <3>1, <3>2 DEF U!Stretch
  <2> HIDE DEF m, t
  <2>4. a \in Nat
    BY <1>1, <2>2
  <2> HIDE DEF a
  <2>5. /\ DOMAIN mem' = DOMAIN mem
        /\ \A cell \in DOMAIN mem \cap Nat : cell < a \/ a + Word <= cell => mem'[cell] = mem[cell]
        /\ \A j \in 0..Word-1 : a + j \in DOMAIN mem => mem'[a + j] = t[j + 1]
    <3>1. Word \in Nat /\ Len(t) = Word
      BY <1>1, <2>3
    <3>2. Placed(mem', a, t, Word)
      BY <2>1, <2>4, <3>1, StoredFacts, Zenon
    <3> QED
      BY <3>2, Zenon DEF Placed
  <2>6. a = image_addr + m
    BY DEF a
  <2>7. ReceivedFrom(i * Word)'
    <3> SUFFICES ASSUME NEW j \in 0..image_size-1, j >= m + Word
                 PROVE  mem'[U!tmp_image_addr + j] = [k |-> "image", v |-> j + 1]
      BY <1>0, <1>3, <2>2 DEF ReceivedFrom
    <3>1. j >= m /\ U!tmp_image_addr + j \in DOMAIN mem \cap Nat /\ a + Word <= U!tmp_image_addr + j
      BY <1>1, <2>2, <2>6
    <3>2. mem[U!tmp_image_addr + j] = [k |-> "image", v |-> j + 1]
      BY <1>0, <3>1 DEF ReceivedFrom, m
    <3> QED
      BY <2>5, <3>1, <3>2
  <2>8. CopiedTo(i * Word)'
    <3> SUFFICES ASSUME NEW j \in 0..image_size-1, j < m + Word
                 PROVE  mem'[image_addr + j] = [k |-> "image", v |-> j + 1]
      BY <1>0, <1>3, <2>2 DEF CopiedTo
    <3>0. image_addr + j \in DOMAIN mem \cap Nat
      BY <1>1
    <3>1. CASE j < m
      <4>1. mem[image_addr + j] = [k |-> "image", v |-> j + 1]
        BY <1>0, <3>1 DEF CopiedTo, m
      <4>2. image_addr + j < a
        BY <1>1, <2>2, <2>6, <3>1
      <4> QED
        BY <2>5, <3>0, <4>1, <4>2
    <3>2. CASE j >= m
      <4>1. PICK l \in 0..Word-1 : j = m + l
        <5>1. j - m \in 0..Word-1 /\ j = m + (j - m)
          BY <1>1, <2>2, <3>2
        <5> QED
          BY <5>1
      <4>2. a + l = image_addr + j
        BY <1>1, <2>2, <2>6, <4>1
      <4>3. mem'[image_addr + j] = mem[U!tmp_image_addr + j]
        BY <2>3, <2>5, <3>0, <4>1, <4>2
      <4>4. mem[U!tmp_image_addr + j] = [k |-> "image", v |-> j + 1]
        BY <1>0, <3>2 DEF ReceivedFrom, m
      <4> QED
        BY <4>3, <4>4
    <3> QED
      BY <1>1, <2>2, <3>1, <3>2
  <2>9. BootstrapTo(BootSize)'
    <3> SUFFICES ASSUME NEW j \in 0..BootSize-1
                 PROVE  mem'[U!new_bootstrap_addr + j] = U!Kernel(BootStart + j)
      BY <1>3 DEF BootstrapTo
    <3>1. U!new_bootstrap_addr + j \in DOMAIN mem \cap Nat /\ a + Word <= U!new_bootstrap_addr + j
      BY <1>1, <2>2, <2>6
    <3>2. mem[U!new_bootstrap_addr + j] = U!Kernel(BootStart + j)
      BY <1>0 DEF BootstrapTo
    <3> QED
      BY <2>5, <3>1, <3>2
  <2>10. NumberTypes'
    BY <1>0, <2>1, <2>5 DEF ShellInv, NumberTypes, Reading
  <2>11. U!KernelIntact'
    BY <1>0, <2>1 DEF U!KernelIntact
  <2>12. LoadInv'
    <3>1. i' \in 0..Units'
      BY <1>0, <1>1, <1>3, <1>4, <2>1
    <3> QED
      BY <1>0, <2>1, <2>7, <2>8, <2>9, <3>1 DEF LoadInv
  <2> QED
    BY <1>2, <2>10, <2>11, <2>12 DEF ShellInv
<1>5. CASE ~(i < Units)
  <2>1. at' = "started" /\ UNCHANGED <<mem, i>> /\ i = Units
    BY <1>0, <1>1, <1>5 DEF U!bootstrap_func, Units
  <2>2. NumberTypes' /\ U!KernelIntact'
    BY <1>0, <2>1 DEF ShellInv, NumberTypes, Reading, U!KernelIntact
  <2>3. CopiedTo(image_size)
    <3>1. \A j \in 0..image_size-1 : j < i * Word
      BY <1>1, <2>1
    <3> QED
      BY <1>0, <3>1 DEF CopiedTo
  <2>4. CopiedTo(image_size)' /\ BootstrapTo(BootSize)'
    BY <1>0, <1>3, <2>1, <2>3 DEF CopiedTo, BootstrapTo
  <2>5. LoadInv'
    BY <1>0, <2>1, <2>4 DEF LoadInv
  <2> QED
    BY <1>2, <2>2, <2>5 DEF ShellInv
<1> QED
  BY <1>4, <1>5

(* Every step keeps the invariant.                                         *)
LEMMA NextShellInv ==
  ASSUME U!ShellAssumption, ShellInv, [U!Next]_(U!vars)
  PROVE  ShellInv'
<1>1. CASE UNCHANGED U!vars
  BY <1>1 DEF U!vars, ShellInv, LineTypes, CmdTypes, NumberTypes, U!KernelIntact, LoadInv,
     ReceivedFrom, CopiedTo, BootstrapTo, Units, U!tmp_image_addr, U!new_bootstrap_addr, U!ImageEnd
<1> QED
  BY <1>1, HostKeeps, GetsKeeps, CommandKeeps, NumberKeeps, ReadChecksumKeeps,
     ReadImageKeeps, CheckKeeps, MoveKeeps, BootstrapKeeps DEF U!Next, U!Uploader, U!Run

(* What the invariant says of the properties.                              *)
LEMMA ShellInvIsEnough ==
  ASSUME U!ShellAssumption, ShellInv
  PROVE  U!TypeOK /\ U!KernelIntact /\ U!BootstrapIntact /\ U!StartsSentImage
<1>1. U!TypeOK
  <2>1. /\ image_size \in 0..Limit-1 /\ image_addr \in 0..Limit-1
        /\ U!new_bootstrap_addr + BootSize <= RamCells
    BY Places DEF ShellInv, NumberTypes
  <2> QED
    BY <2>1 DEF ShellInv, NumberTypes, CmdTypes, Typing, U!TypeOK, Limit
<1>2. U!BootstrapIntact
  BY DEF ShellInv, LoadInv, BootstrapTo, U!BootstrapIntact
<1>3. U!StartsSentImage
  <2> SUFFICES ASSUME at = "started"
               PROVE  U!Stretch(image_addr, image_size) = U!Image(image_size)
    BY DEF U!StartsSentImage
  <2>1. image_size \in Nat /\ image_addr \in Nat /\ CopiedTo(image_size)
    BY LimitIsPositive DEF ShellInv, NumberTypes, LoadInv
  <2>2. \A j \in 1..image_size :
          mem[image_addr + j - 1] = [k |-> "image", v |-> j]
    <3> TAKE j \in 1..image_size
    <3>1. j - 1 \in 0..image_size-1 /\ image_addr + (j - 1) = image_addr + j - 1
          /\ (j - 1) + 1 = j
      BY <2>1
    <3> QED
      BY <2>1, <3>1 DEF CopiedTo
  <2> QED
    BY <2>2 DEF U!Stretch, U!Image
<1> QED
  BY <1>1, <1>2, <1>3 DEF ShellInv

(* The inductive invariant holds throughout.                               *)
THEOREM ShellInvariance == ASSUME U!ShellAssumption PROVE U!Spec => []ShellInv
BY InitShellInv, NextShellInv, PTL DEF U!Spec

(* Nothing is stored outside the memory or the command's buffer, whatever  *)
(* is typed or comes in place of the image's size and address.             *)
THEOREM ShellTypeOK == ASSUME U!ShellAssumption PROVE U!Spec => []U!TypeOK
BY ShellInvariance, ShellInvIsEnough, PTL

(* The running kernel is untouched until the copy begins, and the code     *)
(* that copies until it is over.                                           *)
THEOREM MemoryIntact ==
  ASSUME U!ShellAssumption PROVE U!Spec => [](U!KernelIntact /\ U!BootstrapIntact)
BY ShellInvariance, ShellInvIsEnough, PTL

(* Only an image that was sent is ever started, byte for byte.             *)
THEOREM SentImage == ASSUME U!ShellAssumption PROVE U!Spec => []U!StartsSentImage
BY ShellInvariance, ShellInvIsEnough, PTL
-----------------------------------------------------------------------------
(* string.c: what is said of ST, the proof of Strings.tla, is said of S.   *)

(* The constants of Parts are constants of Strings.                        *)
LEMMA StringConstants == ST!StringsAssumption
BY PartsAssumption DEF PartsAssumption, S!StringsAssumption, ST!StringsAssumption, S!NUL, ST!NUL

(* The strings in memory and the calls on them.                            *)
LEMMA SameStrings ==
  /\ S!Cell = ST!Cell
  /\ \A m, p : S!End(m, p) = ST!End(m, p)
  /\ \A m, p : S!Length(m, p) = ST!Length(m, p)
  /\ \A f, m, p, q, k : S!Defined(f, m, p, q, k) => ST!Defined(f, m, p, q, k)
<1>1. S!Cell = ST!Cell
  BY DEF S!Cell, ST!Cell
<1>2. \A m, p : S!End(m, p) = ST!End(m, p)
  BY <1>1 DEF S!End, ST!End, S!Min, ST!Min, S!NUL, ST!NUL
<1>3. \A m, p : S!Length(m, p) = ST!Length(m, p)
  BY <1>2 DEF S!Length, ST!Length
<1>4. \A m, p : S!IsString(m, p) <=> ST!IsString(m, p)
  BY <1>1 DEF S!IsString, ST!IsString, S!NUL, ST!NUL
<1>5. \A p, k, q, l : S!Apart(p, k, q, l) <=> ST!Apart(p, k, q, l)
  BY DEF S!Apart, ST!Apart
<1>6. \A p, k : S!InMemory(p, k) <=> ST!InMemory(p, k)
  BY DEF S!InMemory, ST!InMemory
<1>7. \A m, p, k : S!Bounded(m, p, k) <=> ST!Bounded(m, p, k)
  BY <1>4, <1>6 DEF S!Bounded, ST!Bounded
<1>8. \A f, m, p, q, k : S!Defined(f, m, p, q, k) => ST!Defined(f, m, p, q, k)
  BY <1>2, <1>3, <1>4, <1>5, <1>6, <1>7 DEF S!Defined, ST!Defined
<1> QED
  BY <1>1, <1>2, <1>3, <1>8

(* The calls that begin.                                                   *)
LEMMA SameCalls == S!Init => ST!Init
<1>1. \A m : S!IsString(m, 0) => ST!IsString(m, 0)
  BY SameStrings DEF S!IsString, ST!IsString, S!NUL, ST!NUL
<1>2. \A f, m, p, q, k, c : S!Called(f, m, p, q, k, c) => ST!Called(f, m, p, q, k, c)
  BY DEF S!Called, ST!Called
<1>3. S!TakesChar = ST!TakesChar /\ S!Function = ST!Function /\ S!NUL = ST!NUL
  BY DEF S!TakesChar, ST!TakesChar, S!Function, ST!Function, S!NUL, ST!NUL
<1>4. CASE \E m \in [S!Cell -> NumChar], base \in Bases :
             S!IsString(m, 0) /\ S!Called("strtol", m, 0, 0, base, S!NUL)
  <2>1. PICK m \in [S!Cell -> NumChar], base \in Bases :
               S!IsString(m, 0) /\ S!Called("strtol", m, 0, 0, base, S!NUL)
    BY <1>4
  <2>2. ST!IsString(m, 0) /\ ST!Called("strtol", m, 0, 0, base, ST!NUL)
    BY <1>1, <1>2, <1>3, <2>1
  <2>3. m \in [ST!Cell -> NumChar]
    BY SameStrings
  <2> QED
    BY <2>2, <2>3 DEF ST!Init
<1>5. CASE \E m \in [S!Cell -> Char], p, q \in S!Cell, k \in 0..StringCells, f \in S!Function :
             /\ S!Defined(f, m, p, q, k)
             /\ \E c \in IF f \in S!TakesChar THEN Char ELSE {S!NUL} :
                  S!Called(f, m, p, q, k, c)
  <2>1. PICK m \in [S!Cell -> Char], p \in S!Cell, q \in S!Cell, k \in 0..StringCells,
             f \in S!Function :
             /\ S!Defined(f, m, p, q, k)
             /\ \E c \in IF f \in S!TakesChar THEN Char ELSE {S!NUL} :
                  S!Called(f, m, p, q, k, c)
    BY <1>5
  <2>2. ST!Defined(f, m, p, q, k)
    BY <2>1, SameStrings
  <2>3. \E c \in IF f \in ST!TakesChar THEN Char ELSE {ST!NUL} : ST!Called(f, m, p, q, k, c)
    BY <2>1, <1>2, <1>3
  <2>4. /\ m \in [ST!Cell -> Char] /\ p \in ST!Cell /\ q \in ST!Cell
        /\ f \in ST!Function
    BY SameStrings, <1>3
  <2> QED
    BY <2>2, <2>3, <2>4 DEF ST!Init
<1> QED
  BY <1>4, <1>5 DEF S!Init

(* The turns of the loops.                                                 *)
LEMMA SameTurns ==
  [S!Next]_(S!vars) => [ST!Next]_(ST!vars)
<1> USE DEF S!Move, ST!Move, S!Store, ST!Store, S!Return, ST!Return, S!GoOnAt, ST!GoOnAt,
         S!NUL, ST!NUL
<1>1. S!strlen => ST!strlen
  BY DEF S!strlen, ST!strlen
<1>2. S!strnlen => ST!strnlen
  BY DEF S!strnlen, ST!strnlen
<1>3. S!strcpy => ST!strcpy
  BY DEF S!strcpy, ST!strcpy
<1>4. S!strcat => ST!strcat
  BY DEF S!strcat, ST!strcat
<1>5. S!strncpy => ST!strncpy
  BY DEF S!strncpy, ST!strncpy
<1>6. S!strlcpy => ST!strlcpy
  BY DEF S!strlcpy, ST!strlcpy, S!PlaceForNUL, ST!PlaceForNUL
<1>7. S!strcmp => ST!strcmp
  BY DEF S!strcmp, ST!strcmp, S!SameCharGoesOn, ST!SameCharGoesOn
<1>8. S!strncmp => ST!strncmp
  BY DEF S!strncmp, ST!strncmp, S!SameCharGoesOn, ST!SameCharGoesOn
<1>9. S!strchr => ST!strchr
  BY DEF S!strchr, ST!strchr, S!NoChar, ST!NoChar
<1>10. S!strfind => ST!strfind
  BY DEF S!strfind, ST!strfind
<1>11. S!memset => ST!memset
  BY DEF S!memset, ST!memset, S!AsInt, ST!AsInt, S!Power, ST!Power
<1>12. S!memmove => ST!memmove
  BY DEF S!memmove, ST!memmove, S!Down, ST!Down
<1>13. S!CopyDown => ST!CopyDown
  BY DEF S!CopyDown, ST!CopyDown
<1>14. S!CopyUp => ST!CopyUp
  BY DEF S!CopyUp, ST!CopyUp
<1>15. S!memcpy => ST!memcpy
  BY DEF S!memcpy, ST!memcpy
<1>16. S!memcmp => ST!memcmp
  BY DEF S!memcmp, ST!memcmp
<1>17. S!memfind => ST!memfind
  BY DEF S!memfind, ST!memfind
<1>18. S!strtol => ST!strtol
  BY DEF S!strtol, ST!strtol, S!Space, ST!Space
<1>19. S!SignOf => ST!SignOf
  BY DEF S!SignOf, ST!SignOf, S!Plus, ST!Plus, S!Minus, ST!Minus
<1>20. S!BasePrefix => ST!BasePrefix
  BY DEF S!BasePrefix, ST!BasePrefix, S!HexPrefix, ST!HexPrefix, S!Zero, ST!Zero, S!LowerX, ST!LowerX
<1>21. S!Digits => ST!Digits
  BY DEF S!Digits, ST!Digits, S!DigitOfBase, ST!DigitOfBase, S!Digit, ST!Digit
<1>22. UNCHANGED S!vars => UNCHANGED ST!vars
  BY DEF S!vars, ST!vars
<1> QED
  BY <1>1, <1>2, <1>3, <1>4, <1>5, <1>6, <1>7, <1>8, <1>9, <1>10, <1>11, <1>12, <1>13, <1>14, <1>15, <1>16, <1>17, <1>18, <1>19, <1>20, <1>21, <1>22 DEF S!Next, ST!Next

(* The number that strtol() is asked for.                                  *)
LEMMA SameNumberAsked == S!Number = ST!Number
<1>1. S!m0 = ST!m0 /\ S!Cell = ST!Cell /\ S!Space = ST!Space
  BY DEF S!m0, ST!m0, S!Cell, ST!Cell, S!Space, ST!Space
<1>2. S!SignAt = ST!SignAt
  BY <1>1 DEF S!SignAt, ST!SignAt, S!Min, ST!Min
<1>3. S!Body = ST!Body
  BY <1>1, <1>2 DEF S!Body, ST!Body, S!Plus, ST!Plus, S!Minus, ST!Minus
<1>4. S!Hex <=> ST!Hex
  BY <1>1, <1>3 DEF S!Hex, ST!Hex, S!Zero, ST!Zero, S!LowerX, ST!LowerX
<1>5. S!BaseOf = ST!BaseOf /\ S!Leading = ST!Leading
  BY <1>1, <1>3, <1>4 DEF S!BaseOf, ST!BaseOf, S!Leading, ST!Leading, S!Zero, ST!Zero
<1>6. \A c : S!Digit(c) = ST!Digit(c)
  BY DEF S!Digit, ST!Digit
<1>7. S!Stop = ST!Stop
  BY <1>1, <1>5, <1>6 DEF S!Stop, ST!Stop, S!Min, ST!Min
<1>8. \A base, k : S!Power(base, k) = ST!Power(base, k)
  BY DEF S!Power, ST!Power
<1>9. \A stop, base, k : S!ValueOf(stop, base, k) = ST!ValueOf(stop, base, k)
  BY <1>1, <1>6, <1>8 DEF S!ValueOf, ST!ValueOf
<1> QED
  BY <1>1, <1>2, <1>5, <1>7, <1>9 DEF S!Number, ST!Number, S!Minus, ST!Minus

(* What the functions promise.                                             *)
LEMMA SameWanted ==
  /\ ST!TypeOK => S!TypeOK
  /\ call.f \in ST!Function \cup {"strtol"} /\ ST!Wanted => S!Wanted
<1>1. S!m0 = ST!m0 /\ S!Cell = ST!Cell
  BY DEF S!m0, ST!m0, S!Cell, ST!Cell
<1>2. \A x : S!Source(x) = ST!Source(x)
  BY <1>1 DEF S!Source, ST!Source
<1>3. \A p : S!StrEnd(p) = ST!StrEnd(p) /\ S!StrLen(p) = ST!StrLen(p)
  BY <1>1, SameStrings DEF S!StrEnd, ST!StrEnd, S!StrLen, ST!StrLen
<1>4. \A x : S!Padded(x) = ST!Padded(x)
  BY <1>2, <1>3 DEF S!Padded, ST!Padded, S!NUL, ST!NUL
<1>5. \A p, k : S!Copied(p, k) = ST!Copied(p, k)
  BY <1>1, <1>2 DEF S!Copied, ST!Copied
<1>6. \A p, k : S!With(p, k, S!Padded) = ST!With(p, k, ST!Padded)
  BY <1>1, <1>4 DEF S!With, ST!With
<1>7. \A p, k : S!With(p, k, S!SetChar) = ST!With(p, k, ST!SetChar)
  BY <1>1 DEF S!With, ST!With, S!SetChar, ST!SetChar
<1>8. \A k : S!CutAt(k) = ST!CutAt(k)
  BY <1>5 DEF S!CutAt, ST!CutAt, S!NUL, ST!NUL
<1>9. \A k : S!Difference(k) = ST!Difference(k)
  BY <1>1 DEF S!Difference, ST!Difference, S!Min, ST!Min
<1>10. \A c, p, k, o : S!First(c, p, k, o) = ST!First(c, p, k, o)
  BY <1>1 DEF S!First, ST!First, S!Min, ST!Min
<1>11. \A x, y : S!Least(x, y) = ST!Least(x, y)
  BY DEF S!Least, ST!Least
<1>12. S!Shorter = ST!Shorter
  BY <1>3, <1>11 DEF S!Shorter, ST!Shorter
<1>13. ST!TypeOK => S!TypeOK
  BY <1>1 DEF S!TypeOK, ST!TypeOK, S!Loop, ST!Loop, S!Function, ST!Function,
     S!TakesChar, ST!TakesChar
<1>14. ASSUME call.f \in ST!Function \cup {"strtol"}, ST!Wanted PROVE S!Wanted
  <2>1. CASE call.f \in {"memset", "strncpy"}
    <3>1. \A k : S!Power(2, k) = ST!Power(2, k)
      BY DEF S!Power, ST!Power
    <3> QED
      BY <1>6, <1>7, <1>14, <2>1, <3>1 DEF S!Wanted, ST!Wanted
  <2>2. CASE call.f \in {"strlen", "strnlen", "strcpy", "strcat", "memmove", "memcpy"}
    BY <1>1, <1>3, <1>5, <1>11, <1>14, <2>2 DEF S!Wanted, ST!Wanted
  <2>3. CASE call.f = "strlcpy"
    BY <1>1, <1>3, <1>8, <1>11, <1>14, <2>3 DEF S!Wanted, ST!Wanted
  <2>4. CASE call.f \in {"strcmp", "strncmp", "memcmp"}
    BY <1>1, <1>9, <1>11, <1>12, <1>14, <2>4 DEF S!Wanted, ST!Wanted
  <2>5. CASE call.f \in {"strchr", "strfind", "memfind"}
    BY <1>1, <1>3, <1>10, <1>14, <2>5 DEF S!Wanted, ST!Wanted, S!NoChar, ST!NoChar
  <2>6. CASE call.f = "strtol"
    BY <1>1, <1>14, <2>6, SameNumberAsked DEF S!Wanted, ST!Wanted
  <2> QED
    BY <1>14, <2>1, <2>2, <2>3, <2>4, <2>5, <2>6 DEF ST!Function, ST!TakesChar
<1> QED
  BY <1>13, <1>14
-----------------------------------------------------------------------------
(* printfmt.c, likewise, with FP the proof of PrintFmt.tla.                *)
FP == INSTANCE PrintFmtProofs

(* The constants of Parts are constants of PrintFmt.                       *)
LEMMA FormatConstants == FP!PrintFmtAssumption
BY PartsAssumption DEF PartsAssumption, F!PrintFmtAssumption, FP!PrintFmtAssumption,
   F!Power, FP!Power, F!NoFlag, FP!NoFlag

(* Numbers and their numerals, padding, and texts one behind the other.    *)
LEMMA SameNumbers ==
  /\ F!NoFlag = FP!NoFlag /\ F!Blank = FP!Blank /\ F!Digit = FP!Digit
  /\ \A base, k : F!Power(base, k) = FP!Power(base, k)
  /\ \A x, bits : F!Low(x, bits) = FP!Low(x, bits) /\ F!Signed(x, bits) = FP!Signed(x, bits)
  /\ \A c, k : F!Repeat(c, k) = FP!Repeat(c, k) /\ F!Least(c, k) = FP!Least(c, k)
  /\ \A k, base : F!Numeral(k, base) = FP!Numeral(k, base)
  /\ \A t : F!FlattenSeq(t) = FP!FlattenSeq(t)
BY DEF F!NoFlag, FP!NoFlag, F!Blank, FP!Blank, F!Digit, FP!Digit, F!Power, FP!Power, F!Low,
   FP!Low, F!Signed, FP!Signed, F!Repeat, FP!Repeat, F!Least, FP!Least, F!Numeral, FP!Numeral,
   F!FlattenSeq, FP!FlattenSeq

(* What a directive looks like, takes and asks for.                        *)
LEMMA SameDirectives ==
  /\ F!Directive = FP!Directive
  /\ \A x : F!Render(x) = FP!Render(x)
  /\ \A x : F!Arguments(x) = FP!Arguments(x)
  /\ \A x : F!Expected(x) = FP!Expected(x)
<1>1. F!Directive = FP!Directive
  BY SameNumbers DEF F!Directive, FP!Directive, F!D, FP!D, F!WidthGiven, FP!WidthGiven,
     F!Strings, FP!Strings, F!INT_MIN, FP!INT_MIN, F!NoFlag, FP!NoFlag
<1>2. \A x : F!Render(x) = FP!Render(x)
  BY SameNumbers DEF F!Render, FP!Render, F!NoFlag, FP!NoFlag
<1>3. \A x : F!Arguments(x) = FP!Arguments(x)
  BY DEF F!Arguments, FP!Arguments
<1>4. \A x : F!NumberAsked(x) = FP!NumberAsked(x)
  BY SameNumbers DEF F!NumberAsked, FP!NumberAsked, F!Bits, FP!Bits
<1>5. \A x : F!Sign(x) = FP!Sign(x) /\ F!Magnitude(x) = FP!Magnitude(x)
  BY SameNumbers, <1>4 DEF F!Sign, FP!Sign, F!Magnitude, FP!Magnitude, F!Radix, FP!Radix
<1>6. \A x : F!Shown(x) = FP!Shown(x)
  BY DEF F!Shown, FP!Shown, F!Least, FP!Least
<1>7. \A x : F!Expected(x) = FP!Expected(x)
  BY SameNumbers, <1>2, <1>5, <1>6 DEF F!Expected, FP!Expected
<1> QED
  BY <1>1, <1>2, <1>3, <1>7

(* What the conversions print.                                             *)
LEMMA SamePrinted ==
  /\ \A x, base, width, padc :
       F!printnum(x, base, width, padc) = FP!printnum(x, base, width, padc)
  /\ \A x, width, prec, padc, flag :
       F!printstr(x, width, prec, padc, flag) = FP!printstr(x, width, prec, padc, flag)
  /\ \A x : F!printerr(x) = FP!printerr(x)
<1>1. \A x, base, width, padc :
        F!printnum(x, base, width, padc) = FP!printnum(x, base, width, padc)
  BY DEF F!printnum, FP!printnum, F!Pad, FP!Pad, F!Repeat, FP!Repeat, F!Digit, FP!Digit
<1>2. \A x, width, prec, padc, flag :
        F!printstr(x, width, prec, padc, flag) = FP!printstr(x, width, prec, padc, flag)
  BY DEF F!printstr, FP!printstr, F!strnlen, FP!strnlen, F!Repeat, FP!Repeat, F!Least,
     FP!Least, F!Blank, FP!Blank
<1>3. \A x : F!printerr(x) = FP!printerr(x)
  BY SameNumbers, <1>1 DEF F!printerr, FP!printerr
<1> QED
  BY <1>1, <1>2, <1>3

(* The formats that are begun.                                             *)
LEMMA SameFormats == F!Init => FP!Init
BY SameNumbers, SameDirectives DEF F!Init, FP!Init, F!ConcatOf, FP!ConcatOf, F!Fresh, FP!Fresh

(* The steps over the format.                                              *)
LEMMA SameCases == [F!Next]_(F!vars) => [FP!Next]_(FP!vars)
<1>1. F!Literal => FP!Literal
  BY SameNumbers, SamePrinted DEF F!Literal, FP!Literal, F!Put, FP!Put, F!sprintputch,
     FP!sprintputch, F!ch, FP!ch
<1>2. F!Return => FP!Return
  BY SameNumbers, SamePrinted DEF F!Return, FP!Return, F!ch, FP!ch
<1>3. F!Escape => FP!Escape
  BY SameNumbers, SamePrinted DEF F!Escape, FP!Escape, F!Reset, FP!Reset, F!Fresh, FP!Fresh,
     F!ch, FP!ch
<1>4. F!Flag => FP!Flag
  BY SameNumbers, SamePrinted DEF F!Flag, FP!Flag, F!Case, FP!Case, F!reswitch, FP!reswitch,
     F!NextChar, FP!NextChar, F!ch, FP!ch
<1>5. F!Count => FP!Count
  BY DEF F!Count, FP!Count, F!Case, FP!Case, F!reswitch, FP!reswitch, F!process_precision,
     FP!process_precision, F!FoldLeft, FP!FoldLeft, F!MapThenFoldSet, FP!MapThenFoldSet,
     F!Max, FP!Max, F!Value, FP!Value, F!Digit, FP!Digit, F!ch, FP!ch
<1>6. F!Star => FP!Star
  BY SameNumbers, SamePrinted DEF F!Star, FP!Star, F!Case, FP!Case, F!reswitch, FP!reswitch,
     F!process_precision, FP!process_precision, F!ch, FP!ch
<1>7. F!Dot => FP!Dot
  BY SameNumbers, SamePrinted DEF F!Dot, FP!Dot, F!Case, FP!Case, F!reswitch, FP!reswitch,
     F!ch, FP!ch
<1>8. F!Long => FP!Long
  BY SameNumbers, SamePrinted DEF F!Long, FP!Long, F!Case, FP!Case, F!reswitch, FP!reswitch,
     F!ch, FP!ch
<1>9. F!Decimal => FP!Decimal
  BY SameNumbers, SamePrinted DEF F!Decimal, FP!Decimal, F!printd, FP!printd, F!number,
     FP!number, F!getint, FP!getint, F!Bits, FP!Bits, F!arg, FP!arg, F!Conversion,
     FP!Conversion, F!Case, FP!Case, F!Put, FP!Put, F!sprintputch, FP!sprintputch, F!ch, FP!ch
<1>10. F!Unsigned => FP!Unsigned
  BY SameNumbers, SamePrinted DEF F!Unsigned, FP!Unsigned, F!number, FP!number, F!getuint,
     FP!getuint, F!Bits, FP!Bits, F!arg, FP!arg, F!Conversion, FP!Conversion, F!Case, FP!Case,
     F!Put, FP!Put, F!sprintputch, FP!sprintputch, F!ch, FP!ch
<1>11. F!Hex => FP!Hex
  BY SameNumbers, SamePrinted DEF F!Hex, FP!Hex, F!number, FP!number, F!getuint, FP!getuint,
     F!Bits, FP!Bits, F!arg, FP!arg, F!Conversion, FP!Conversion, F!Case, FP!Case, F!Put,
     FP!Put, F!sprintputch, FP!sprintputch, F!ch, FP!ch
<1>12. F!Pointer => FP!Pointer
  BY SameNumbers, SamePrinted DEF F!Pointer, FP!Pointer, F!number, FP!number, F!arg, FP!arg,
     F!Conversion, FP!Conversion, F!Case, FP!Case, F!Put, FP!Put, F!sprintputch,
     FP!sprintputch, F!ch, FP!ch
<1>13. F!Character => FP!Character
  BY SameNumbers, SamePrinted DEF F!Character, FP!Character, F!arg, FP!arg, F!Conversion,
     FP!Conversion, F!Case, FP!Case, F!Put, FP!Put, F!sprintputch, FP!sprintputch, F!ch, FP!ch
<1>14. F!Error => FP!Error
  BY SameNumbers, SamePrinted DEF F!Error, FP!Error, F!arg, FP!arg, F!Conversion,
     FP!Conversion, F!Case, FP!Case, F!Put, FP!Put, F!sprintputch, FP!sprintputch, F!ch, FP!ch
<1>15. F!String => FP!String
  BY SameNumbers, SamePrinted DEF F!String, FP!String, F!StringOf, FP!StringOf, F!arg, FP!arg,
     F!Conversion, FP!Conversion, F!Case, FP!Case, F!Put, FP!Put, F!sprintputch,
     FP!sprintputch, F!ch, FP!ch
<1>16. F!Octal => FP!Octal
  BY SameNumbers, SamePrinted DEF F!Octal, FP!Octal, F!Conversion, FP!Conversion, F!Case,
     FP!Case, F!Put, FP!Put, F!sprintputch, FP!sprintputch, F!ch, FP!ch
<1>17. F!Percent => FP!Percent
  BY SameNumbers, SamePrinted DEF F!Percent, FP!Percent, F!Conversion, FP!Conversion, F!Case,
     FP!Case, F!Put, FP!Put, F!sprintputch, FP!sprintputch, F!ch, FP!ch
<1>18. F!Unrecognized => FP!Unrecognized
  BY SameNumbers, SamePrinted DEF F!Unrecognized, FP!Unrecognized, F!BackFrom, FP!BackFrom,
     F!Put, FP!Put, F!sprintputch, FP!sprintputch, F!ch, FP!ch
<1>19. UNCHANGED F!vars => UNCHANGED FP!vars
  BY DEF F!vars, FP!vars
<1> QED
  BY <1>1, <1>2, <1>3, <1>4, <1>5, <1>6, <1>7, <1>8, <1>9,
     <1>10, <1>11, <1>12, <1>13, <1>14, <1>15, <1>16, <1>17, <1>18, <1>19
     DEF F!Next, FP!Next

(* What vsnprintf() promises.                                              *)
LEMMA SameOutput ==
  /\ FP!TypeOK => F!TypeOK
  /\ FP!PrintsWhatWasAsked => F!PrintsWhatWasAsked
<1>1. FP!TypeOK => F!TypeOK
  BY SameNumbers DEF F!TypeOK, FP!TypeOK, F!ch, FP!ch, F!Blank, FP!Blank
<1>2. FP!PrintsWhatWasAsked => F!PrintsWhatWasAsked
  BY SameNumbers, SameDirectives DEF F!PrintsWhatWasAsked, FP!PrintsWhatWasAsked, F!Done,
     FP!Done, F!ConcatOf, FP!ConcatOf
<1> QED
  BY <1>1, <1>2
-----------------------------------------------------------------------------
(* The parts side by side.                                                 *)

(* Each part's invariant while that part has the floor; the ring's holds   *)
(* throughout.                                                             *)
PartsInv ==
  /\ TypeOK
  /\ Of("printfmt", FP!FormatInv)
  /\ Of("strings", ST!StrInv /\ ST!MoveInv /\ ST!ParseInv)
  /\ Of("mailbox", MInv)
  /\ Of("shell", ShellInv)

(* It holds whichever part begins.                                         *)
LEMMA InitPartsInv ==
  ASSUME PartsInit
  PROVE  PartsInv
<1>1. TypeOK
  BY RunqueueAssumption DEF PartsInit, Init, TypeOK, Slot
<1>2. Of("mailbox", MInv)
  <2>1. part = "mailbox" => B!Init
    BY DEF PartsInit
  <2> QED
    BY <2>1, PartsAssumption, InitMInv DEF PartsAssumption, Of
<1>3. Of("shell", ShellInv)
  <2>1. part = "shell" => U!Init
    BY DEF PartsInit
  <2> QED
    BY <2>1, PartsAssumption, InitShellInv DEF PartsAssumption, Of
<1>4. Of("strings", ST!StrInv /\ ST!MoveInv /\ ST!ParseInv)
  <2>1. part = "strings" => ST!Init
    BY SameCalls DEF PartsInit
  <2> QED
    BY <2>1, StringConstants, ST!InitStrInv, ST!InitMoveInv, ST!InitParseInv DEF Of
<1>5. Of("printfmt", FP!FormatInv)
  <2>1. part = "printfmt" => FP!Init
    BY SameFormats DEF PartsInit
  <2> QED
    BY <2>1, FormatConstants, FP!InitOK DEF Of
<1> QED
  BY <1>1, <1>2, <1>3, <1>4, <1>5 DEF PartsInv

(* A step of one part is a step of its module and leaves the ring alone,   *)
(* unless it is the ring's.                                                *)
LEMMA StepsOfParts ==
  ASSUME [PartsNext]_allvars
  PROVE  /\ part' = part
         /\ [Next]_vars
         /\ part = "printfmt" => [FP!Next]_(FP!vars)
         /\ part = "strings" => [ST!Next]_(ST!vars)
         /\ part = "mailbox" => [B!Next]_(B!vars)
         /\ part = "shell" => [U!Next]_(U!vars)
<1>1. CASE RunqueueStep
  BY <1>1 DEF RunqueueStep
<1>2. CASE PrintFmtStep
  BY <1>2, SameCases DEF PrintFmtStep
<1>3. CASE StringsStep
  BY <1>3, SameTurns DEF StringsStep
<1>4. CASE MailboxStep
  BY <1>4 DEF MailboxStep
<1>5. CASE ShellStep
  BY <1>5 DEF ShellStep
<1>6. CASE UNCHANGED allvars
  BY <1>6 DEF allvars, vars, printfmt, strings, mailbox, shell, FP!vars, ST!vars, B!vars, U!vars
<1> QED
  BY <1>1, <1>2, <1>3, <1>4, <1>5, <1>6 DEF PartsNext

(* Every step of whichever part keeps it.                                  *)
LEMMA StepPartsInv ==
  ASSUME PartsInv, [PartsNext]_allvars
  PROVE  PartsInv'
<1>1. TypeOK'
  BY StepsOfParts, TypeOKStep DEF PartsInv
<1>2. Of("mailbox", MInv)'
  BY StepsOfParts, StepMInv, PartsAssumption DEF PartsInv, PartsAssumption, Of
<1>3. Of("shell", ShellInv)'
  BY StepsOfParts, PartsAssumption, NextShellInv DEF PartsAssumption, PartsInv, Of
<1>4. Of("strings", ST!StrInv /\ ST!MoveInv /\ ST!ParseInv)'
  BY StepsOfParts, StringConstants, ST!StepStrInv, ST!StepMoveInv, ST!StepParseInv DEF PartsInv, Of
<1>5. Of("printfmt", FP!FormatInv)'
  BY StepsOfParts, FormatConstants, FP!NextOK DEF PartsInv, Of
<1> QED
  BY <1>1, <1>2, <1>3, <1>4, <1>5 DEF PartsInv

(* The invariant of the composition holds throughout.                      *)
THEOREM PartsInvariance == PartsSpec => []PartsInv
BY InitPartsInv, StepPartsInv, PTL DEF PartsSpec

(* A mailbox call returns only with the response in its buffer, unless a   *)
(* request for that buffer was under way when it began, for queues of      *)
(* every depth.                                                            *)
THEOREM ResponseAlwaysThere ==
  PartsSpec => []ResponseThere
<1>1. PartsInv => ResponseThere
  BY DEF PartsInv, Of, MInv, ResponseThere
<1> QED
  BY <1>1, PartsInvariance, PTL

(* While an image is uploaded the running kernel is untouched until the    *)
(* copy begins, and the code that copies until it is over, for every       *)
(* layout of memory, image size and load address, whatever the line does.  *)
THEOREM RamAlwaysIntact == PartsSpec => []RamIntact
<1>1. PartsInv => RamIntact
  BY PartsAssumption, ShellInvIsEnough DEF PartsAssumption, PartsInv, Of, RamIntact
<1> QED
  BY <1>1, PartsInvariance, PTL

(* Only an image that was sent is started, byte for byte.                  *)
THEOREM OnlySentImageStarts ==
  PartsSpec => []StartsSentImage
<1>1. PartsInv => StartsSentImage
  BY PartsAssumption, ShellInvIsEnough DEF PartsAssumption, PartsInv, Of, StartsSentImage
<1> QED
  BY <1>1, PartsInvariance, PTL

(* Every part keeps to its types: vprintfmt() inside the format, the       *)
(* arguments and the buffer, string functions inside the string or region  *)
(* they were given, mailbox_call() inside its queues, the shell inside its *)
(* line, the ring's positions inside the array.                            *)
THEOREM PartsKeepTheirTypes == PartsSpec => []PartsTypeOK
<1>1. PartsInv => PartsTypeOK
  <2> SUFFICES ASSUME PartsInv PROVE PartsTypeOK
    OBVIOUS
  <2>1. Of("mailbox", B!TypeOK)
    BY PartsAssumption, MInvTypes DEF PartsInv, PartsAssumption, Of
  <2>2. Of("shell", U!TypeOK)
    BY PartsAssumption, ShellInvIsEnough DEF PartsAssumption, PartsInv, Of
  <2>3. Of("strings", S!TypeOK)
    BY StringConstants, SameWanted, ST!InBounds DEF PartsInv, Of
  <2>4. Of("printfmt", F!TypeOK)
    BY FormatConstants, SameOutput, FP!InvImpliesType DEF PartsInv, Of
  <2> QED
    BY <2>1, <2>2, <2>3, <2>4 DEF PartsTypeOK, PartsInv
<1> QED
  BY <1>1, PartsInvariance, PTL

(* vsnprintf() prints what the directives ask for, cut where the buffer    *)
(* ends, and returns the length of the whole, for formats of every length  *)
(* and integers of every width, unless a number is asked for with "-".     *)
THEOREM PartsPrintWhatWasAsked ==
  ASSUME "-" \notin NumFlags
  PROVE  PartsSpec => []PrintsWhatWasAsked
<1>1. PartsInv => PrintsWhatWasAsked
  <2>1. FP!FormatInv => F!PrintsWhatWasAsked
    BY FormatConstants, SameOutput, FP!InvImpliesPrinted DEF FP!Right
  <2> QED
    BY <2>1 DEF PartsInv, PrintsWhatWasAsked, Of
<1> QED
  BY <1>1, PartsInvariance, PTL

(* Every function of string.c returns and leaves what it says, for         *)
(* memories, strings, counts, bases and characters of every kind.          *)
THEOREM StringsDoWhatTheySay == PartsSpec => []DoesWhatItSays
<1>1. ASSUME PartsInv, part = "strings" PROVE S!DoesWhatItSays
  <2>1. ST!StrInv /\ ST!MoveInv /\ ST!ParseInv
    BY <1>1 DEF PartsInv, Of
  <2>2. ST!DoesWhatItSays
    BY <2>1, StringConstants, ST!InvIsEnough
  <2>3. call.f \in ST!Function \cup {"strtol"}
    BY <2>1 DEF ST!StrInv, ST!CallFacts
  <2> QED
    BY <2>2, <2>3, SameWanted DEF S!DoesWhatItSays, ST!DoesWhatItSays
<1>2. PartsInv => DoesWhatItSays
  BY <1>1 DEF DoesWhatItSays, Of
<1> QED
  BY <1>2, PartsInvariance, PTL

(* Beside the other parts, too, the ring is a FIFO, and its positions tell *)
(* how full it is.                                                         *)
THEOREM PartsIsFifo == PartsSpec => IsFifo /\ []SizeTellsState
<1>1. PartsInit => Init
  BY DEF PartsInit
<1>2. [PartsNext]_allvars => [Next]_vars
  BY StepsOfParts
<1> QED
  BY <1>1, <1>2, SpecIsFifo, SpecSizeTellsState, PTL DEF PartsSpec, Spec
=============================================================================
