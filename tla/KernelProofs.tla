---------------------------- MODULE KernelProofs ----------------------------
(***************************************************************************)
(* Proofs about Kernel.tla for every number of tasks and every set of      *)
(* signals.  The inductive invariant IInv collects what the safety         *)
(* properties need of each other: schedule() finds a task to switch to     *)
(* only because main/idle never ends, which holds because its context      *)
(* never passes through check_signal(), and so on.                         *)
(***************************************************************************)
EXTENDS Kernel, FiniteSetTheorems, SequenceTheorems, WellFoundedInduction, TLAPS

Live(p) == state[p] \in {"RUNNABLE", "RUNNING"}

UserSide == KernelExit \cup {"el0"}

(* main() runs alone until idle(); user_test is then task 1, and the       *)
(* reaper task 2.                                                          *)
Boot ==
  /\ Live(0)
  /\ pc[0] \in {"create_user_test", "create_reaper", "idle", "finished"}
  /\ \A p \in Pid \ {0} : pc[p] \notin {"create_user_test", "create_reaper"}
  /\ pc[0] \in {"create_user_test", "create_reaper"} =>
        current = 0 /\ \A p \in Pid \ {0, 1} : state[p] = "FREE"
  /\ pc[0] = "create_user_test" => state[1] = "FREE"
  /\ pc[0] = "create_reaper" => state[1] = "RUNNABLE"
  /\ pc[0] \in {"idle", "finished"} => pc[2] = "reaper" /\ Live(2)

(* No task is in user code, on its way back to it or signalled until       *)
(* user_test has done its do_exec().                                       *)
UserTestFirst ==
  /\ \A p \in Pid : pc[p] = "user_test" => p = 1
  /\ pc[0] = "create_user_test" \/ pc[1] = "user_test" =>
        \A p \in Pid : signal[p] = {} /\ pc[p] \notin UserSide

(* Only the running task can be in user code; and while IRQs are unmasked  *)
(* in a kernel thread, no task at all is on its way back to user mode.     *)
MaskInv ==
  /\ \A p \in Pid : p # current => pc[p] # "el0"
  /\ pc[current] \in KernelExit => masked
  /\ ~masked /\ pc[current] \in KernelThread =>
        \A p \in Pid : pc[p] \notin KernelExit

(* A posted signal is pending, and a live task past check_signal() is the  *)
(* running one, with no SIGKILL posted.                                    *)
KillInv ==
  /\ \A p \in Pid : signal[p] # {} => sigpending[p]
  /\ \A p \in Pid : pc[p] = "eret" /\ Live(p) =>
        p = current /\ SIGKILL \notin signal[p]

IInv ==
  /\ TypeOK /\ OneRunning /\ QueuedOnce /\ SlotContext
  /\ Boot /\ UserTestFirst /\ MaskInv /\ KillInv
-----------------------------------------------------------------------------
(* Lemmas about the operators of Kernel. *)

(* The lowest element of a set of naturals that has one. *)
LEMMA MinOfNat ==
  ASSUME NEW S \in SUBSET Nat, S # {}
  PROVE  Min(S) \in S /\ \A y \in S : Min(S) <= y
<1> DEFINE R == OpToRel(<, Nat)
<1>1. PICK x \in S : \A y \in S : <<y, x>> \notin R
  BY NatLessThanWellFounded, WFMin, Zenon
<1>2. \A m, n \in Nat : n < m => <<n, m>> \in R
  BY Zenon DEF OpToRel
<1> HIDE DEF R
<1>3. ASSUME NEW y \in S PROVE x <= y
  <2>1. ~(y < x)
    BY <1>1, <1>2
  <2> QED
    BY <2>1
<1> QED
  BY <1>3 DEF Min

(* A queue of distinct tasks that lacks one task has room for it.          *)
LEMMA QueueRoom ==
  ASSUME NEW q \in Seq(Pid), NEW c \in Pid,
         \A i, j \in 1..Len(q) : q[i] = q[j] => i = j,
         \A i \in 1..Len(q) : q[i] # c
  PROVE  Len(q) < NR_TASKS
<1> DEFINE n == Len(q)
           Others == Pid \ {c}
<1>1. n \in Nat
  OBVIOUS
<1>2. q \in [1..n -> Others]
  BY DEF Others
<1> HIDE DEF n
<1>3. IsFiniteSet(Pid) /\ Cardinality(Pid) = NR_TASKS
  BY KernelAssumption, FS_Interval DEF Pid
<1>4. IsFiniteSet(Others) /\ Cardinality(Others) = NR_TASKS - 1
  BY <1>3, FS_RemoveElement
<1>5. Cardinality(1..n) = n
  BY <1>1, FS_Interval
<1>6. q \in Injection(1..n, Others)
  BY <1>2 DEF Injection, IsInjective, n
<1>7. Cardinality(1..n) <= Cardinality(Others)
  BY <1>4, <1>6, FS_Injection
<1> QED
  BY <1>1, <1>4, <1>5, <1>7, KernelAssumption DEF n

-----------------------------------------------------------------------------
(***************************************************************************)
(* schedule() may be called when the states are st if the queues hold      *)
(* exactly the RUNNABLE tasks and nothing but the caller is RUNNING.       *)
(***************************************************************************)
SchedPre(st) ==
  /\ st \in [Pid -> TaskState]
  /\ rq \in [Priority -> Seq(Pid)]
  /\ priority \in [Pid -> Priority]
  /\ current \in Pid
  /\ \A p \in Pid : st[p] = "RUNNING" => p = current
  /\ Queued(rq, st, priority)

(* A task that is not RUNNABLE can be pushed once it is: there is room,    *)
(* and the queues again hold exactly the RUNNABLE tasks.                   *)
LEMMA PushKeepsQueued ==
  ASSUME NEW qs \in [Priority -> Seq(Pid)], NEW st \in [Pid -> TaskState],
         NEW pri \in [Pid -> Priority], Queued(qs, st, pri),
         NEW p \in Pid, st[p] # "RUNNABLE", NEW l \in Priority
  PROVE  LET qs1 == [qs EXCEPT ![l] = Push(@, p)]
         IN  /\ qs1 \in [Priority -> Seq(Pid)]
             /\ Queued(qs1, [st EXCEPT ![p] = "RUNNABLE"],
                       [pri EXCEPT ![p] = l])
<1> DEFINE q == qs[l]
           q1 == Append(q, p)
           qs1 == [qs EXCEPT ![l] = Push(@, p)]
           st1 == [st EXCEPT ![p] = "RUNNABLE"]
           pri1 == [pri EXCEPT ![p] = l]
<1>1. q \in Seq(Pid) /\ Len(q) \in Nat
  OBVIOUS
<1>2. \A m \in Priority : \A i \in 1..Len(qs[m]) : qs[m][i] # p
  BY DEF Queued
<1>3. Len(q) < NR_TASKS
  BY <1>1, <1>2, QueueRoom DEF Queued
<1>4. Push(q, p) = q1
  BY <1>1, <1>3, KernelAssumption DEF Push
<1>5. /\ q1 \in Seq(Pid)
      /\ Len(q1) = Len(q) + 1
      /\ \A i \in 1..Len(q) : q1[i] = q[i]
      /\ q1[Len(q) + 1] = p
      /\ 1..Len(q1) = 1..Len(q) \cup {Len(q) + 1}
      /\ Len(q) + 1 \notin 1..Len(q)
  <2>1. /\ q1 \in Seq(Pid)
        /\ Len(q1) = Len(q) + 1
        /\ \A i \in 1..Len(q) : q1[i] = q[i]
        /\ q1[Len(q) + 1] = p
    BY <1>1, AppendProperties
  <2>2. 1..(Len(q) + 1) = 1..Len(q) \cup {Len(q) + 1}
    BY <1>1
  <2> QED
    BY <1>1, <2>1, <2>2
<1>6. /\ qs1 \in [Priority -> Seq(Pid)]
      /\ qs1[l] = q1
      /\ \A m \in Priority : m # l => qs1[m] = qs[m]
  BY <1>4, <1>5
<1>7. /\ st1 \in [Pid -> TaskState] /\ pri1 \in [Pid -> Priority]
      /\ st1[p] = "RUNNABLE" /\ pri1[p] = l
      /\ \A r \in Pid : r # p => st1[r] = st[r] /\ pri1[r] = pri[r]
  BY DEF TaskState
<1>8. \A i \in 1..Len(q) : /\ q[i] \in Pid /\ q[i] # p
                           /\ st[q[i]] = "RUNNABLE" /\ pri[q[i]] = l
                           /\ \A j \in 1..Len(q) : q[i] = q[j] => i = j
  BY <1>1, <1>2 DEF Queued
<1> HIDE DEF q, q1, qs1, st1, pri1
<1>9. ASSUME NEW m \in Priority, NEW i \in 1..Len(qs1[m])
      PROVE  /\ st1[qs1[m][i]] = "RUNNABLE"
             /\ pri1[qs1[m][i]] = m
             /\ \A j \in 1..Len(qs1[m]) : qs1[m][i] = qs1[m][j] => i = j
  <2>1. CASE m # l
    <3>1. qs1[m] = qs[m] /\ qs[m][i] \in Pid /\ qs[m][i] # p
      BY <1>2, <1>6, <2>1
    <3> QED
      BY <1>7, <3>1 DEF Queued
  <2>2. CASE m = l
    <3>1. ASSUME NEW j \in 1..Len(q1)
          PROVE  st1[q1[j]] = "RUNNABLE" /\ pri1[q1[j]] = l
      <4>1. CASE j \in 1..Len(q)
        <5>1. q1[j] = q[j] /\ q[j] \in Pid /\ q[j] # p
          BY <1>5, <1>8, <4>1
        <5> QED
          BY <1>7, <1>8, <4>1, <5>1
      <4>2. CASE j = Len(q) + 1
        BY <1>5, <1>7, <4>2
      <4> QED
        BY <1>5, <4>1, <4>2
    <3>2. ASSUME NEW j \in 1..Len(q1), NEW k \in 1..Len(q1), q1[j] = q1[k]
          PROVE  j = k
      <4>1. j \in 1..Len(q) /\ k \in 1..Len(q) => j = k
        BY <1>5, <1>8, <3>2
      <4>2. j \in 1..Len(q) => k # Len(q) + 1
        BY <1>5, <1>8, <3>2
      <4>3. k \in 1..Len(q) => j # Len(q) + 1
        BY <1>5, <1>8, <3>2
      <4> QED
        BY <1>5, <4>1, <4>2, <4>3
    <3> QED
      BY <1>6, <2>2, <3>1, <3>2
  <2> QED
    BY <2>1, <2>2
<1>10. ASSUME NEW r \in Pid, st1[r] = "RUNNABLE"
       PROVE  \E i \in 1..Len(qs1[pri1[r]]) : qs1[pri1[r]][i] = r
  <2>1. CASE r = p
    BY <1>5, <1>6, <1>7, <2>1
  <2>2. CASE r # p
    <3>1. PICK i \in 1..Len(qs[pri[r]]) : qs[pri[r]][i] = r
      BY <1>7, <1>10, <2>2 DEF Queued
    <3>2. pri[r] = l => i \in 1..Len(q1) /\ q1[i] = r
      BY <1>1, <1>5, <3>1 DEF q
    <3>3. pri1[r] = pri[r] /\ pri[r] \in Priority
      BY <1>7, <2>2
    <3>4. CASE pri[r] = l
      BY <1>6, <3>2, <3>3, <3>4
    <3>5. CASE pri[r] # l
      BY <1>6, <3>1, <3>3, <3>5
    <3> QED
      BY <3>4, <3>5
  <2> QED
    BY <2>1, <2>2
<1> QED
  BY <1>6, <1>9, <1>10 DEF Queued, qs1, st1, pri1

(* Taking the oldest entry of a non-empty queue, and making it RUNNING,    *)
(* leaves queues that hold exactly the RUNNABLE tasks.                     *)
LEMMA PopKeepsQueued ==
  ASSUME NEW qs \in [Priority -> Seq(Pid)], NEW st \in [Pid -> TaskState],
         NEW pri \in [Pid -> Priority], Queued(qs, st, pri),
         NEW l \in Priority, qs[l] # <<>>
  PROVE  LET p   == qs[l][1]
             qs1 == [qs EXCEPT ![l] = SubSeq(qs[l], 2, Len(qs[l]))]
         IN  /\ p \in Pid /\ st[p] = "RUNNABLE"
             /\ qs1 \in [Priority -> Seq(Pid)]
             /\ Queued(qs1, [st EXCEPT ![p] = "RUNNING"], pri)
<1> DEFINE q == qs[l]
           p == q[1]
           t == SubSeq(q, 2, Len(q))
           qs1 == [qs EXCEPT ![l] = t]
           st1 == [st EXCEPT ![p] = "RUNNING"]
<1>1. q \in Seq(Pid) /\ Len(q) \in Nat /\ Len(q) >= 1 /\ 1 \in 1..Len(q)
  <2>1. q \in Seq(Pid) /\ q # <<>>
    OBVIOUS
  <2> QED
    BY <2>1, EmptySeq, LenProperties
<1>2. p \in Pid /\ st[p] = "RUNNABLE" /\ pri[p] = l
  BY <1>1 DEF Queued
<1>3. /\ t \in Seq(Pid) /\ Len(t) = Len(q) - 1
      /\ \A i \in 1..Len(t) : i + 1 \in 1..Len(q) /\ t[i] = q[i+1]
  <2>1. q # <<>>
    OBVIOUS
  <2>2. t = Tail(q)
    BY <1>1, <2>1, TailIsSubSeq
  <2> HIDE DEF q, t
  <2>3. /\ t \in Seq(Pid) /\ Len(t) = Len(q) - 1
        /\ \A i \in 1..Len(t) : t[i] = q[i+1]
    BY <1>1, <2>1, <2>2, HeadTailProperties
  <2>4. \A i \in 1..Len(t) : i + 1 \in 1..Len(q)
    BY <1>1, <2>3
  <2> QED
    BY <2>3, <2>4
<1>4. \A i \in 1..Len(q) : /\ q[i] \in Pid /\ st[q[i]] = "RUNNABLE"
                           /\ pri[q[i]] = l
                           /\ \A j \in 1..Len(q) : q[i] = q[j] => i = j
  BY <1>1 DEF Queued
<1>5. /\ qs1 \in [Priority -> Seq(Pid)] /\ qs1[l] = t
      /\ \A m \in Priority : m # l => qs1[m] = qs[m]
  BY <1>3
<1>6. /\ st1 \in [Pid -> TaskState] /\ st1[p] = "RUNNING"
      /\ \A r \in Pid : r # p => st1[r] = st[r]
  BY <1>2 DEF TaskState
<1>7. \A i \in 1..Len(t) : /\ t[i] \in Pid /\ t[i] # p
                           /\ st[t[i]] = "RUNNABLE" /\ pri[t[i]] = l
                           /\ \A j \in 1..Len(t) : t[i] = t[j] => i = j
  <2> TAKE i \in 1..Len(t)
  <2>1. i \in Nat /\ i >= 1 /\ i + 1 \in 1..Len(q) /\ t[i] = q[i+1]
    BY <1>1, <1>3
  <2>2. t[i] # p
    BY <1>1, <1>4, <2>1
  <2>3. ASSUME NEW j \in 1..Len(t), t[i] = t[j] PROVE i = j
    <3>1. j \in Nat /\ j + 1 \in 1..Len(q) /\ t[j] = q[j+1]
      BY <1>1, <1>3
    <3>2. i + 1 = j + 1
      BY <1>4, <2>1, <2>3, <3>1
    <3> QED
      BY <2>1, <3>1, <3>2
  <2> QED
    BY <1>4, <2>1, <2>2, <2>3
<1> HIDE DEF q, p, t, qs1, st1
<1>8. ASSUME NEW m \in Priority, NEW i \in 1..Len(qs1[m])
      PROVE  /\ st1[qs1[m][i]] = "RUNNABLE"
             /\ pri[qs1[m][i]] = m
             /\ \A j \in 1..Len(qs1[m]) : qs1[m][i] = qs1[m][j] => i = j
  <2>1. CASE m # l
    <3>1. qs1[m] = qs[m] /\ qs[m][i] \in Pid /\ pri[qs[m][i]] = m
      BY <1>5, <2>1 DEF Queued
    <3>2. qs[m][i] # p
      BY <1>2, <2>1, <3>1
    <3> QED
      BY <1>5, <1>6, <2>1, <3>1, <3>2 DEF Queued
  <2>2. CASE m = l
    BY <1>5, <1>6, <1>7, <2>2
  <2> QED
    BY <2>1, <2>2
<1>9. ASSUME NEW r \in Pid, st1[r] = "RUNNABLE"
      PROVE  \E i \in 1..Len(qs1[pri[r]]) : qs1[pri[r]][i] = r
  <2>1. r # p /\ st[r] = "RUNNABLE"
    BY <1>6, <1>9
  <2>2. PICK i \in 1..Len(qs[pri[r]]) : qs[pri[r]][i] = r
    BY <2>1 DEF Queued
  <2>3. CASE pri[r] # l
    BY <1>5, <2>2, <2>3
  <2>4. CASE pri[r] = l
    <3>1. i \in 1..Len(q) /\ q[i] = r
      BY <2>2, <2>4 DEF q
    <3>2. i # 1
      BY <2>1, <3>1 DEF p
    <3>3. i-1 \in 1..Len(t)
      BY <1>1, <1>3, <3>1, <3>2
    <3>4. t[i-1] = r
      BY <1>3, <3>1, <3>3
    <3> QED
      BY <1>5, <2>4, <3>3, <3>4
  <2> QED
    BY <2>3, <2>4
<1> QED
  BY <1>2, <1>5, <1>8, <1>9 DEF Queued, q, p, t, qs1, st1

(* The caller's turn ends: it is RUNNABLE and queued if it was RUNNING.    *)
LEMMA YieldKeepsQueued ==
  ASSUME NEW st, SchedPre(st)
  PROVE  /\ Yielded(st) \in [Pid -> TaskState]
         /\ \A p \in Pid : Yielded(st)[p] = IF st[p] = "RUNNING"
                                            THEN "RUNNABLE" ELSE st[p]
         /\ Requeued(st) \in [Priority -> Seq(Pid)]
         /\ Queued(Requeued(st), Yielded(st), priority)
<1>1. CASE st[current] = "RUNNING"
  <2>1. [priority EXCEPT ![current] = priority[current]] = priority
    BY DEF SchedPre
  <2>2. priority[current] \in Priority
    BY DEF SchedPre
  <2>3. /\ st \in [Pid -> TaskState] /\ rq \in [Priority -> Seq(Pid)]
        /\ priority \in [Pid -> Priority] /\ current \in Pid
        /\ Queued(rq, st, priority) /\ st[current] # "RUNNABLE"
    BY <1>1 DEF SchedPre
  <2>4. /\ [rq EXCEPT ![priority[current]] = Push(@, current)]
              \in [Priority -> Seq(Pid)]
        /\ Queued([rq EXCEPT ![priority[current]] = Push(@, current)],
                  [st EXCEPT ![current] = "RUNNABLE"], priority)
    <3>1. LET qs1 == [rq EXCEPT ![priority[current]] = Push(@, current)]
          IN  /\ qs1 \in [Priority -> Seq(Pid)]
              /\ Queued(qs1, [st EXCEPT ![current] = "RUNNABLE"],
                        [priority EXCEPT ![current] = priority[current]])
      BY <2>2, <2>3, PushKeepsQueued, Zenon
    <3> QED
      BY <2>1, <3>1, Zenon
  <2>5. /\ Requeued(st) \in [Priority -> Seq(Pid)]
        /\ Queued(Requeued(st), Yielded(st), priority)
    BY <1>1, <2>4 DEF Requeued, Yielded
  <2> QED
    BY <1>1, <2>5 DEF SchedPre, Yielded, TaskState
<1>2. CASE st[current] # "RUNNING"
  BY <1>2 DEF SchedPre, Yielded, Requeued
<1> QED
  BY <1>1, <1>2

(***************************************************************************)
(* schedule() finds a task: it takes the oldest task of the first          *)
(* non-empty queue, and that task alone is RUNNING afterwards.  pri stands *)
(* for the priorities after the step, where the reaper clears the zombies. *)
(***************************************************************************)
LEMMA ScheduleRunsOne ==
  ASSUME NEW st, NEW pcs, NEW pri \in [Pid -> Priority], SchedPre(st),
         \E p \in Pid : st[p] \in {"RUNNABLE", "RUNNING"},
         \A p \in Pid : st[p] \in {"RUNNABLE", "RUNNING"} =>
                          pri[p] = priority[p],
         Schedule(st, pcs)
  PROVE  /\ pc' = pcs
         /\ current' \in Pid
         /\ state' \in [Pid -> TaskState]
         /\ rq' \in [Priority -> Seq(Pid)]
         /\ \A p \in Pid : state'[p] = "RUNNING" <=> p = current'
         /\ st[current'] \in {"RUNNABLE", "RUNNING"}
         /\ \A p \in Pid : st[p] \in {"RUNNABLE", "RUNNING"} <=>
                             state'[p] \in {"RUNNABLE", "RUNNING"}
         /\ \A p \in Pid : st[p] \in {"FREE", "ZOMBIE"} => state'[p] = st[p]
         /\ Queued(rq', state', pri)
<1> DEFINE st1 == Yielded(st)
           rq1 == Requeued(st)
           nonempty == {l \in Priority : rq1[l] # <<>>}
           first == Min(nonempty)
           q == rq1[first]
           runnable == {i \in 1..Len(q) : st1[q[i]] = "RUNNABLE"}
           k == Min(runnable)
<1>1. /\ st1 \in [Pid -> TaskState]
      /\ \A p \in Pid : st1[p] = IF st[p] = "RUNNING"
                                 THEN "RUNNABLE" ELSE st[p]
      /\ rq1 \in [Priority -> Seq(Pid)]
      /\ Queued(rq1, st1, priority)
  BY YieldKeepsQueued
<1>2. priority \in [Pid -> Priority]
  BY DEF SchedPre
<1>3. nonempty # {} /\ first \in Priority /\ q \in Seq(Pid) /\ q # <<>>
  <2>1. PICK p \in Pid : st1[p] = "RUNNABLE"
    BY <1>1
  <2>2. rq1[priority[p]] # <<>>
    BY <1>1, <2>1 DEF Queued
  <2>3. nonempty # {}
    BY <1>2, <2>2
  <2>4. nonempty \in SUBSET Nat
    BY DEF Priority, HIGH, MEDIUM, LOW
  <2>5. first \in nonempty
    BY <2>3, <2>4, MinOfNat
  <2> QED
    BY <1>1, <2>3, <2>5
<1>4. runnable # {} /\ k = 1
  <2>1. Len(q) \in Nat /\ 1 \in 1..Len(q)
    BY <1>3, EmptySeq, LenProperties
  <2>2. \A i \in 1..Len(q) : st1[q[i]] = "RUNNABLE"
    <3> HIDE DEF st1, rq1, first
    <3> QED
      BY <1>1, <1>3 DEF Queued
  <2>3. runnable \in SUBSET Nat /\ 1 \in runnable
    <3> HIDE DEF q, st1
    <3> QED
      BY <2>1, <2>2
  <2>4. k \in runnable /\ k <= 1
    <3> HIDE DEF runnable
    <3> QED
      BY <2>3, MinOfNat, Zenon
  <2>5. k \in 1..Len(q)
    BY <2>4
  <2> HIDE DEF k, runnable
  <2> QED
    BY <2>1, <2>3, <2>4, <2>5
<1>5. /\ pc' = pcs
      /\ state' = [st1 EXCEPT ![q[1]] = "RUNNING"]
      /\ rq' = [rq1 EXCEPT ![first] = SubSeq(rq1[first], 2, Len(rq1[first]))]
      /\ current' = q[1]
  <2> HIDE DEF st1, rq1
  <2>1. /\ pc' = pcs
        /\ state' = [st1 EXCEPT ![q[k]] = "RUNNING"]
        /\ rq' = [rq1 EXCEPT ![first] = SubSeq(q, k+1, Len(q))]
        /\ current' = q[k]
    <3>1. nonempty # {} /\ runnable # {}
      BY <1>3, <1>4
    <3> HIDE <1>3, <1>4
    <3> QED
      BY <3>1, ZenonT(40) DEF Schedule, st1, rq1
  <2>2. k+1 = 2
    BY <1>4
  <2> QED
    BY <1>4, <2>1, <2>2, Zenon
<1> HIDE DEF st1, rq1, nonempty, first
<1>6. /\ q[1] \in Pid /\ st1[q[1]] = "RUNNABLE"
      /\ rq' \in [Priority -> Seq(Pid)]
      /\ Queued(rq', state', priority)
  <2>1. rq1[first] # <<>> /\ first \in Priority
    BY <1>3
  <2>2. LET p   == rq1[first][1]
            qs1 == [rq1 EXCEPT ![first] =
                      SubSeq(rq1[first], 2, Len(rq1[first]))]
        IN  /\ p \in Pid /\ st1[p] = "RUNNABLE"
            /\ qs1 \in [Priority -> Seq(Pid)]
            /\ Queued(qs1, [st1 EXCEPT ![p] = "RUNNING"], priority)
    BY <1>1, <1>2, <2>1, PopKeepsQueued, Zenon
  <2> QED
    BY <1>5, <2>2, Zenon
<1>7. state' \in [Pid -> TaskState]
  BY <1>1, <1>5 DEF TaskState
<1>8. \A p \in Pid : state'[p] = IF p = current' THEN "RUNNING"
                                 ELSE IF st[p] = "RUNNING" THEN "RUNNABLE"
                                 ELSE st[p]
  BY <1>1, <1>5, <1>6
<1>9. Queued(rq', state', pri)
  <2>1. \A p \in Pid : state'[p] = "RUNNABLE" => pri[p] = priority[p]
    BY <1>8
  <2>2. \A l \in Priority : \A i \in 1..Len(rq'[l]) : rq'[l][i] \in Pid
    BY <1>6
  <2>3. ASSUME NEW l \in Priority, NEW i \in 1..Len(rq'[l])
        PROVE  /\ state'[rq'[l][i]] = "RUNNABLE"
               /\ pri[rq'[l][i]] = l
               /\ \A j \in 1..Len(rq'[l]) : rq'[l][i] = rq'[l][j] => i = j
    BY <1>6, <2>1, <2>2 DEF Queued
  <2>4. ASSUME NEW p \in Pid, state'[p] = "RUNNABLE"
        PROVE  \E i \in 1..Len(rq'[pri[p]]) : rq'[pri[p]][i] = p
    <3>1. pri[p] = priority[p]
      BY <2>1, <2>4
    <3> QED
      BY <1>6, <2>4, <3>1 DEF Queued
  <2>5. \A l \in Priority : \A i \in 1..Len(rq'[l]) :
              /\ state'[rq'[l][i]] = "RUNNABLE"
              /\ pri[rq'[l][i]] = l
              /\ \A j \in 1..Len(rq'[l]) : rq'[l][i] = rq'[l][j] => i = j
    BY <2>3, Zenon
  <2>6. \A p \in Pid : state'[p] = "RUNNABLE" =>
              \E i \in 1..Len(rq'[pri[p]]) : rq'[pri[p]][i] = p
    BY <2>4, Zenon
  <2> QED
    BY <2>5, <2>6, Zenon DEF Queued
<1>10. st1[current'] = "RUNNABLE" /\ current' \in Pid
  BY <1>5, <1>6
<1>11. st[current'] \in {"RUNNABLE", "RUNNING"}
  BY <1>1, <1>10
<1>12. \A p \in Pid :
         /\ state'[p] = "RUNNING" <=> p = current'
         /\ st[p] \in {"RUNNABLE", "RUNNING"} <=> state'[p] \in {"RUNNABLE", "RUNNING"}
         /\ st[p] \in {"FREE", "ZOMBIE"} => state'[p] = st[p]
  BY <1>8, <1>11
<1> QED
  BY <1>5, <1>6, <1>7, <1>9, <1>10, <1>11, <1>12, Zenon

-----------------------------------------------------------------------------
(* The current task is live; it is task 0 or 2 only as a kernel thread.    *)
LEMMA CurrentFacts ==
  ASSUME IInv
  PROVE  /\ current \in Pid /\ 0 \in Pid /\ 1 \in Pid /\ 2 \in Pid
         /\ state[current] = "RUNNING" /\ Live(current)
         /\ pc[current] # "none"
         /\ SchedPre(state)
         /\ current = 0 => pc[current] \in KernelThread
<1>1. 0 \in Pid /\ 1 \in Pid /\ 2 \in Pid
  BY KernelAssumption DEF Pid
<1>2. current \in Pid /\ state[current] = "RUNNING"
  BY DEF IInv, TypeOK, OneRunning
<1>3. Live(current) /\ pc[current] # "none"
  BY <1>2 DEF IInv, SlotContext, Live
<1>4. SchedPre(state)
  BY DEF IInv, TypeOK, OneRunning, QueuedOnce, SchedPre
<1>5. current = 0 => pc[current] \in KernelThread
  BY DEF IInv, Boot, KernelThread
<1> QED
  BY <1>1, <1>2, <1>3, <1>4, <1>5

(* The two outcomes of privilege_task_create(). *)
NoSlot(next) ==
  /\ \A p \in Pid : state[p] # "FREE"
  /\ \A p \in Pid : /\ state'[p] = state[p]
                    /\ pc'[p] = IF p = current THEN next ELSE pc[p]

NewTask(pid, func, next) ==
  /\ state[pid] = "FREE" /\ pid # current
  /\ \A p \in Pid : state[p] = "FREE" => pid <= p
  /\ \A p \in Pid : /\ state'[p] = IF p = pid THEN "RUNNABLE" ELSE state[p]
                    /\ pc'[p] = IF p = pid THEN func
                               ELSE IF p = current THEN next ELSE pc[p]

(* privilege_task_create(): nothing changes but the caller's location, or  *)
(* the lowest FREE slot becomes a RUNNABLE task.                           *)
LEMMA CreateMakesOne ==
  ASSUME IInv, NEW func \in Location \ {"none"}, NEW l \in Priority,
         NEW next \in Location \ {"none"},
         PrivilegeTaskCreate(func, l, next), UNCHANGED <<resched, current>>
  PROVE  /\ state' \in [Pid -> TaskState] /\ id' \in [Pid -> Pid]
         /\ priority' \in [Pid -> Priority] /\ pc' \in [Pid -> Location]
         /\ rq' \in [Priority -> Seq(Pid)]
         /\ OneRunning' /\ QueuedOnce' /\ SlotContext'
         /\ NoSlot(next) \/ \E pid \in Pid : NewTask(pid, func, next)
<1> DEFINE free == {p \in Pid : state[p] = "FREE"}
           pid == Min(free)
<1>1. /\ state \in [Pid -> TaskState] /\ id \in [Pid -> Pid]
      /\ priority \in [Pid -> Priority] /\ pc \in [Pid -> Location]
      /\ rq \in [Priority -> Seq(Pid)]
      /\ OneRunning /\ Queued(rq, state, priority) /\ SlotContext
  BY DEF IInv, TypeOK, QueuedOnce
<1>2. current \in Pid /\ state[current] = "RUNNING"
  BY CurrentFacts
<1>3. CASE free = {}
  <2>1. pc' = GoTo(next) /\ UNCHANGED <<state, id, priority, rq>>
    BY <1>3, Zenon DEF PrivilegeTaskCreate
  <2> QED
    BY <1>1, <1>2, <1>3, <2>1
       DEF GoTo, OneRunning, QueuedOnce, SlotContext, NoSlot
<1>4. CASE free # {}
  <2>1. pid \in free /\ \A p \in free : pid <= p
    BY <1>4, MinOfNat, KernelAssumption DEF Pid
  <2>2. /\ state' = [state EXCEPT ![pid] = "RUNNABLE"]
        /\ id' = [id EXCEPT ![pid] = pid]
        /\ priority' = [priority EXCEPT ![pid] = l]
        /\ pc' = [GoTo(next) EXCEPT ![pid] = func]
        /\ rq' = [rq EXCEPT ![l] = Push(@, pid)]
    BY <1>4, Zenon DEF PrivilegeTaskCreate
  <2> HIDE DEF free, pid
  <2>3. pid \in Pid /\ state[pid] = "FREE" /\ pid # current
    BY <1>2, <2>1 DEF free
  <2>4. rq' \in [Priority -> Seq(Pid)] /\ QueuedOnce'
    BY <1>1, <2>2, <2>3, PushKeepsQueued DEF QueuedOnce
  <2>5. /\ state' \in [Pid -> TaskState] /\ id' \in [Pid -> Pid]
        /\ priority' \in [Pid -> Priority] /\ pc' \in [Pid -> Location]
    BY <1>1, <1>2, <2>2, <2>3 DEF GoTo, TaskState
  <2>6. OneRunning'
    BY <1>1, <2>2, <2>3 DEF OneRunning
  <2>7. SlotContext'
    BY <1>1, <1>2, <2>2, <2>3 DEF SlotContext, GoTo
  <2>8. \A p \in Pid : state[p] = "FREE" => pid <= p
    BY <2>1 DEF free
  <2>9. NewTask(pid, func, next)
    BY <1>1, <1>2, <2>2, <2>3, <2>8 DEF NewTask, GoTo
  <2> QED
    BY <2>3, <2>4, <2>5, <2>6, <2>7, <2>9
<1> QED
  BY <1>3, <1>4

(* The state main() leaves to idle() satisfies the inductive invariant.     *)
THEOREM InitIInv == Init => IInv
<1> SUFFICES ASSUME Init PROVE IInv
  OBVIOUS
<1> USE KernelAssumption DEF Init
<1>1. TypeOK
  <2>1. 0 \in Pid /\ \A p \in Pid : 0 \in Pid
    BY DEF Pid
  <2>2. HIGH \in Priority /\ LOW \in Priority
    BY DEF Priority
  <2>3. state \in [Pid -> TaskState] /\ id \in [Pid -> Pid]
    BY <2>1 DEF TaskState
  <2>4. priority \in [Pid -> Priority]
    BY <2>2
  <2>5. rq \in [Priority -> Seq(Pid)]
    OBVIOUS
  <2>6. pc \in [Pid -> Location]
    BY DEF Location, KernelThread
  <2> QED
    BY <2>1, <2>3, <2>4, <2>5, <2>6 DEF TypeOK
<1>2. OneRunning
  BY DEF OneRunning, Pid
<1>3. QueuedOnce
  BY DEF QueuedOnce, Queued, Pid, Priority
<1>4. SlotContext
  BY DEF SlotContext, Pid
<1>5. Boot
  BY DEF Boot, Live, Pid
<1>6. UserTestFirst
  BY DEF UserTestFirst, UserSide, KernelExit, Pid
<1>7. MaskInv
  BY DEF MaskInv, KernelExit, Pid
<1>8. KillInv
  BY DEF KillInv, Pid
<1> QED
  BY <1>1, <1>2, <1>3, <1>4, <1>5, <1>6, <1>7, <1>8 DEF IInv

-----------------------------------------------------------------------------
(* schedule() may also be called when other tasks than RUNNABLE ones have  *)
(* changed state: the caller to ZOMBIE, or zombies to FREE.                *)
LEMMA SchedPreOfOther ==
  ASSUME IInv, NEW st \in [Pid -> TaskState],
         \A p \in Pid : st[p] = "RUNNABLE" <=> state[p] = "RUNNABLE",
         \A p \in Pid : st[p] = "RUNNING" => state[p] = "RUNNING"
  PROVE  SchedPre(st)
<1>1. Queued(rq, st, priority)
  <2>1. \A l \in Priority : \A i \in 1..Len(rq[l]) : rq[l][i] \in Pid
    BY DEF IInv, TypeOK
  <2> QED
    BY <2>1 DEF IInv, QueuedOnce, Queued
<1> QED
  BY <1>1 DEF IInv, TypeOK, OneRunning, SchedPre

(* What schedule() does to the invariant, whichever action calls it: the   *)
(* caller may have gone on to another location or ended, and zombies may   *)
(* have been cleared, but other live tasks are as they were.               *)
LEMMA ScheduleKeeps ==
  ASSUME IInv, NEW st \in [Pid -> TaskState], NEW pcs \in [Pid -> Location],
         NEW pri \in [Pid -> Priority], Schedule(st, pcs),
         st[current] \in {"RUNNING", "ZOMBIE"},
         st[current] = "ZOMBIE" => pc[current] \notin KernelThread,
         \A p \in Pid \ {current} :
             /\ Live(p) => st[p] = state[p] /\ pcs[p] = pc[p]
             /\ ~Live(p) => st[p] \in {"FREE", "ZOMBIE"}
             /\ pcs[p] \in {pc[p], "none"},
         \A p \in Pid : Live(p) => pri[p] = priority[p],
         pcs[current] \notin {"none", "el0", "user_test"},
         pc[current] \in KernelThread =>
             pcs[current] = pc[current] /\ pc[current] # "create_user_test",
         pc[current] \notin KernelThread => pcs[current] \in KernelExit,
         ~masked' => ~masked,
         pc[current] \notin KernelThread => masked'
  PROVE  /\ state' \in [Pid -> TaskState] /\ pc' = pcs
         /\ rq' \in [Priority -> Seq(Pid)] /\ current' \in Pid
         /\ OneRunning' /\ Queued(rq', state', pri)
         /\ st[current'] \in {"RUNNABLE", "RUNNING"}
         /\ \A p \in Pid : st[p] \in {"RUNNABLE", "RUNNING"} <=> Live(p)'
         /\ \A p \in Pid : st[p] \in {"FREE", "ZOMBIE"} => state'[p] = st[p]
         /\ MaskInv'
<1>1. SchedPre(st)
  <2>1. ASSUME NEW p \in Pid
        PROVE  /\ st[p] = "RUNNABLE" <=> state[p] = "RUNNABLE"
               /\ st[p] = "RUNNING" => state[p] = "RUNNING"
    BY CurrentFacts DEF Live
  <2> QED
    BY <2>1, SchedPreOfOther
<1>2. \E p \in Pid : st[p] \in {"RUNNABLE", "RUNNING"}
  <2>1. CASE st[current] = "RUNNING"
    BY <2>1, CurrentFacts
  <2>2. CASE st[current] = "ZOMBIE"
    <3>1. current # 0 /\ Live(0) /\ 0 \in Pid
      BY <2>2, CurrentFacts DEF IInv, Boot
    <3> QED
      BY <3>1 DEF Live
  <2> QED
    BY <2>1, <2>2
<1>3. \A p \in Pid : st[p] \in {"RUNNABLE", "RUNNING"} => pri[p] = priority[p]
  BY CurrentFacts DEF Live
<1>4. /\ pc' = pcs
      /\ current' \in Pid
      /\ state' \in [Pid -> TaskState]
      /\ rq' \in [Priority -> Seq(Pid)]
      /\ \A p \in Pid : state'[p] = "RUNNING" <=> p = current'
      /\ st[current'] \in {"RUNNABLE", "RUNNING"}
      /\ \A p \in Pid : st[p] \in {"RUNNABLE", "RUNNING"} <=>
                          state'[p] \in {"RUNNABLE", "RUNNING"}
      /\ \A p \in Pid : st[p] \in {"FREE", "ZOMBIE"} => state'[p] = st[p]
      /\ Queued(rq', state', pri)
  BY <1>1, <1>2, <1>3, ScheduleRunsOne
<1>5. MaskInv'
  <2>1. \A p \in Pid : pcs[p] # "el0"
    BY DEF IInv, MaskInv
  <2>2. pcs[current'] \in KernelExit => masked'
    BY <1>4 DEF IInv, MaskInv, KernelThread, KernelExit
  <2>3. ~masked' /\ pcs[current'] \in KernelThread =>
           \A p \in Pid : pcs[p] \notin KernelExit
    BY <1>4 DEF IInv, MaskInv, KernelThread, KernelExit
  <2> QED
    BY <1>4, <2>1, <2>2, <2>3 DEF MaskInv
<1> QED
  BY <1>4, <1>5 DEF OneRunning, Live

-----------------------------------------------------------------------------
(* One lemma per action. *)

(* The actions that only move the current task and set its flags. *)
LEMMA MoveKeeps ==
  ASSUME IInv, NEW loc \in Location \ {"none"}, pc' = GoTo(loc),
         UNCHANGED <<state, id, priority, rq, current>>,
         resched' \in [Pid -> BOOLEAN], sigpending' \in [Pid -> BOOLEAN],
         signal' \in [Pid -> SUBSET (0..63)], masked' \in BOOLEAN,
         \A p \in Pid : p # current => resched'[p] = resched[p]
  PROVE  /\ TypeOK' /\ OneRunning' /\ QueuedOnce' /\ SlotContext'
         /\ pc'[current] = loc
         /\ \A p \in Pid : p # current => pc'[p] = pc[p]
<1>1. TypeOK' /\ pc'[current] = loc
      /\ \A p \in Pid : p # current => pc'[p] = pc[p]
  BY CurrentFacts DEF IInv, TypeOK, GoTo
<1>2. OneRunning'
  BY DEF IInv, OneRunning
<1>3. QueuedOnce'
  BY DEF IInv, QueuedOnce, Queued
<1>4. SlotContext'
  BY <1>1, CurrentFacts DEF IInv, SlotContext
<1> QED
  BY <1>1, <1>2, <1>3, <1>4

(* A turn of the loop of idle() keeps the invariant: it gives up the CPU,   *)
(* and the reaper, RUNNABLE, guarantees that there is a task to run.        *)
LEMMA IdleKeeps == IInv /\ Idle => IInv'
<1> SUFFICES ASSUME IInv, Idle PROVE IInv'
  OBVIOUS
<1>1. /\ pc[current] = "idle" /\ pc[current] \in KernelThread
      /\ UNCHANGED <<id, priority, resched, sigpending, signal, masked>>
  BY DEF Idle, At, KernelThread, sigvars
<1>2. CASE num_runnable_tasks = 1
  <2>1. pc' = GoTo("finished") /\ UNCHANGED <<state, rq, current>>
    BY <1>2 DEF Idle
  <2>2. /\ TypeOK' /\ OneRunning' /\ QueuedOnce' /\ SlotContext'
        /\ pc'[current] = "finished"
        /\ \A p \in Pid : p # current => pc'[p] = pc[p]
    <3>1. "finished" \in Location \ {"none"}
      BY DEF Location, KernelThread
    <3> QED
      BY <1>1, <2>1, <3>1, MoveKeeps DEF IInv, TypeOK
  <2>3. Boot'
    BY <1>1, <2>1, <2>2, CurrentFacts DEF IInv, Boot, Live
  <2>4. UserTestFirst'
    BY <1>1, <2>1, <2>2, CurrentFacts
       DEF IInv, UserTestFirst, UserSide, KernelExit
  <2>5. MaskInv'
    BY <1>1, <2>1, <2>2, CurrentFacts
       DEF IInv, MaskInv, KernelThread, KernelExit
  <2>6. KillInv'
    BY <1>1, <2>1, <2>2, CurrentFacts DEF IInv, KillInv, Live
  <2> QED
    BY <2>2, <2>3, <2>4, <2>5, <2>6 DEF IInv
<1>3. CASE num_runnable_tasks # 1
  <2>1. Schedule(state, pc)
    BY <1>3 DEF Idle
  <2>2. /\ state' \in [Pid -> TaskState] /\ pc' = pc
        /\ rq' \in [Priority -> Seq(Pid)] /\ current' \in Pid
        /\ OneRunning' /\ QueuedOnce'
        /\ \A p \in Pid : Live(p) <=> Live(p)'
        /\ \A p \in Pid : state[p] \in {"FREE", "ZOMBIE"} =>
                            state'[p] = state[p]
        /\ MaskInv'
    <3>1. state \in [Pid -> TaskState] /\ priority \in [Pid -> Priority]
          /\ pc \in [Pid -> Location] /\ state[current] = "RUNNING"
      BY CurrentFacts DEF IInv, TypeOK
    <3>2. \A p \in Pid \ {current} : ~Live(p) => state[p] \in {"FREE", "ZOMBIE"}
      BY <3>1 DEF Live, TaskState
    <3> QED
      BY <1>1, <2>1, <3>1, <3>2, ScheduleKeeps DEF QueuedOnce, Live
  <2>3. TypeOK'
    BY <1>1, <2>2 DEF IInv, TypeOK
  <2>4. SlotContext'
    BY <1>1, <2>2 DEF IInv, TypeOK, TaskState, SlotContext, Live
  <2>5. Boot'
    BY <1>1, <2>2, CurrentFacts DEF IInv, Boot, KernelThread
  <2>6. UserTestFirst'
    BY <1>1, <2>2 DEF IInv, UserTestFirst
  <2>7. KillInv'
    BY <1>1, <2>2, CurrentFacts DEF IInv, KillInv
  <2> QED
    BY <2>2, <2>3, <2>4, <2>5, <2>6, <2>7 DEF IInv
<1> QED
  BY <1>2, <1>3

(* A turn of the loop of zombie_reaper() keeps it: the cleared slots were   *)
(* in no queue, and main/idle is there to run.                              *)
LEMMA ReapKeeps == IInv /\ Reap => IInv'
<1> SUFFICES ASSUME IInv, Reap PROVE IInv'
  OBVIOUS
<1> DEFINE st == Cleared(state, "FREE")
           pcs == Cleared(pc, "none")
<1>1. /\ pc[current] = "reaper" /\ pc[current] \in KernelThread
      /\ id' = Cleared(id, 0) /\ priority' = Cleared(priority, HIGH)
      /\ resched' = Cleared(resched, FALSE)
      /\ sigpending' = Cleared(sigpending, FALSE)
      /\ signal' = Cleared(signal, {}) /\ masked' = masked
      /\ Schedule(st, pcs)
  BY DEF Reap, At, KernelThread
<1>2. /\ st \in [Pid -> TaskState] /\ pcs \in [Pid -> Location]
      /\ id' \in [Pid -> Pid] /\ priority' \in [Pid -> Priority]
      /\ resched' \in [Pid -> BOOLEAN] /\ sigpending' \in [Pid -> BOOLEAN]
      /\ signal' \in [Pid -> SUBSET (0..63)]
  <2>1. "FREE" \in TaskState /\ "none" \in Location /\ HIGH \in Priority
    BY DEF TaskState, Location, Priority
  <2> QED
    BY <1>1, <2>1, CurrentFacts DEF IInv, TypeOK, Cleared
<1>3. \A p \in Pid :
        /\ state[p] = "ZOMBIE" =>
             /\ st[p] = "FREE" /\ pcs[p] = "none" /\ id'[p] = 0
             /\ resched'[p] = FALSE /\ sigpending'[p] = FALSE /\ signal'[p] = {}
        /\ state[p] # "ZOMBIE" =>
             /\ st[p] = state[p] /\ pcs[p] = pc[p] /\ id'[p] = id[p]
             /\ priority'[p] = priority[p] /\ resched'[p] = resched[p]
             /\ sigpending'[p] = sigpending[p] /\ signal'[p] = signal[p]
  BY <1>1 DEF Cleared
<1> HIDE DEF st, pcs
<1>4. /\ state' \in [Pid -> TaskState] /\ pc' = pcs
      /\ rq' \in [Priority -> Seq(Pid)] /\ current' \in Pid
      /\ OneRunning' /\ QueuedOnce'
      /\ st[current'] \in {"RUNNABLE", "RUNNING"}
      /\ \A p \in Pid : st[p] \in {"RUNNABLE", "RUNNING"} <=> Live(p)'
      /\ \A p \in Pid : st[p] \in {"FREE", "ZOMBIE"} => state'[p] = st[p]
      /\ MaskInv'
  <2>1. state[current] = "RUNNING" /\ current \in Pid
    BY CurrentFacts
  <2>2. \A p \in Pid \ {current} :
             /\ Live(p) => st[p] = state[p] /\ pcs[p] = pc[p]
             /\ ~Live(p) => st[p] \in {"FREE", "ZOMBIE"}
             /\ pcs[p] \in {pc[p], "none"}
    BY <1>2, <1>3 DEF Live, TaskState
  <2>3. /\ \A p \in Pid : Live(p) => priority'[p] = priority[p]
        /\ st[current] = "RUNNING" /\ pcs[current] = "reaper"
    BY <1>1, <1>3, <2>1 DEF Live
  <2>4. /\ st[current] \in {"RUNNING", "ZOMBIE"}
        /\ st[current] = "ZOMBIE" => pc[current] \notin KernelThread
        /\ pcs[current] \notin {"none", "el0", "user_test"}
        /\ pc[current] \in KernelThread =>
              pcs[current] = pc[current] /\ pc[current] # "create_user_test"
        /\ pc[current] \notin KernelThread => pcs[current] \in KernelExit
        /\ ~masked' => ~masked
        /\ pc[current] \notin KernelThread => masked'
    BY <1>1, <2>3
  <2>5. /\ Schedule(st, pcs)
        /\ st \in [Pid -> TaskState] /\ pcs \in [Pid -> Location]
        /\ priority' \in [Pid -> Priority]
        /\ \A p \in Pid : Live(p) => priority'[p] = priority[p]
    BY <1>1, <1>2, <2>3
  <2>6. /\ state' \in [Pid -> TaskState] /\ pc' = pcs
        /\ rq' \in [Priority -> Seq(Pid)] /\ current' \in Pid
        /\ OneRunning' /\ Queued(rq', state', priority')
        /\ st[current'] \in {"RUNNABLE", "RUNNING"}
        /\ \A p \in Pid : st[p] \in {"RUNNABLE", "RUNNING"} <=> Live(p)'
        /\ \A p \in Pid : st[p] \in {"FREE", "ZOMBIE"} => state'[p] = st[p]
        /\ MaskInv'
    BY <2>2, <2>4, <2>5, ScheduleKeeps, Zenon
  <2> QED
    BY <2>6 DEF QueuedOnce
<1>5. TypeOK'
  BY <1>1, <1>2, <1>4 DEF IInv, TypeOK
<1>6. SlotContext'
  <2> SUFFICES ASSUME NEW p \in Pid
               PROVE  /\ Live(p)' => id'[p] = p /\ pc'[p] # "none"
                      /\ state'[p] = "FREE" => pc'[p] = "none" /\ ~resched'[p]
    BY DEF SlotContext, Live
  <2>1. CASE state[p] = "ZOMBIE"
    BY <1>3, <1>4, <2>1
  <2>2. CASE state[p] # "ZOMBIE"
    <3>1. state[p] \in {"FREE", "RUNNABLE", "RUNNING"}
      BY <2>2 DEF IInv, TypeOK, TaskState
    <3> QED
      BY <1>3, <1>4, <2>2, <3>1 DEF IInv, SlotContext, Live
  <2> QED
    BY <2>1, <2>2
<1>7. Boot'
  BY <1>1, <1>3, <1>4, CurrentFacts DEF IInv, Boot, Live, KernelThread
<1>8. UserTestFirst'
  <2>1. pc'[0] = pc[0]
    BY <1>3, <1>4, CurrentFacts DEF IInv, Boot, Live
  <2>2. \A p \in Pid : /\ pc'[p] \in {pc[p], "none"}
                      /\ signal'[p] \in {signal[p], {}}
    BY <1>3, <1>4
  <2> QED
    BY <2>1, <2>2, CurrentFacts DEF IInv, UserTestFirst, UserSide, KernelExit
<1>9. KillInv'
  <2>1. \A p \in Pid : signal'[p] # {} => sigpending'[p]
    BY <1>3 DEF IInv, KillInv
  <2>2. \A p \in Pid : ~(pc[p] = "eret" /\ Live(p))
    BY <1>1, CurrentFacts DEF IInv, KillInv
  <2>3. \A p \in Pid : ~(pc'[p] = "eret" /\ Live(p)')
    BY <1>3, <1>4, <2>2 DEF Live
  <2> QED
    BY <2>1, <2>3 DEF KillInv
<1> QED
  BY <1>4, <1>5, <1>6, <1>7, <1>8, <1>9 DEF IInv

(* The actions of the current task that do not switch. *)

(* do_exec() takes the first task to user mode, no other being on its way   *)
(* there.                                                                   *)
LEMMA DoExecKeeps == IInv /\ DoExec => IInv'
<1> SUFFICES ASSUME IInv, DoExec PROVE IInv'
  OBVIOUS
<1>1. /\ pc[current] = "user_test" /\ pc' = GoTo("el0")
      /\ UNCHANGED <<state, id, priority, rq, current>>
      /\ UNCHANGED <<resched, sigpending, signal>> /\ masked' = FALSE
  BY DEF DoExec, At, sigvars
<1>2. /\ TypeOK' /\ OneRunning' /\ QueuedOnce' /\ SlotContext'
      /\ pc'[current] = "el0"
      /\ \A p \in Pid : p # current => pc'[p] = pc[p]
  <2>1. "el0" \in Location \ {"none"}
    BY DEF Location
  <2> QED
    BY <1>1, <2>1, MoveKeeps, CurrentFacts DEF IInv, TypeOK
<1>3. Boot'
  BY <1>1, <1>2, CurrentFacts DEF IInv, Boot, Live
<1>4. UserTestFirst'
  <2>1. current = 1 /\ pc'[1] = "el0"
    BY <1>1, <1>2, CurrentFacts DEF IInv, UserTestFirst
  <2>2. pc'[0] # "create_user_test"
    BY <1>2, <2>1, CurrentFacts DEF IInv, Boot
  <2> QED
    BY <1>2, <2>1, <2>2, CurrentFacts DEF IInv, UserTestFirst
<1>5. MaskInv'
  BY <1>1, <1>2, CurrentFacts DEF IInv, MaskInv, KernelThread, KernelExit
<1>6. KillInv'
  BY <1>1, <1>2, CurrentFacts DEF IInv, KillInv, Live
<1> QED
  BY <1>2, <1>3, <1>4, <1>5, <1>6 DEF IInv

(* A system call that touches no task field only enters ret_to_user.        *)
LEMMA SysOtherKeeps == IInv /\ SysOther => IInv'
<1> SUFFICES ASSUME IInv, SysOther PROVE IInv'
  OBVIOUS
<1>1. /\ pc[current] = "el0" /\ pc' = GoTo("ret_to_user")
      /\ UNCHANGED <<state, id, priority, rq, current>>
      /\ UNCHANGED <<resched, sigpending, signal>> /\ masked' = TRUE
  BY DEF SysOther, At, sigvars
<1>2. /\ TypeOK' /\ OneRunning' /\ QueuedOnce' /\ SlotContext'
      /\ pc'[current] = "ret_to_user"
      /\ \A p \in Pid : p # current => pc'[p] = pc[p]
  <2>1. "ret_to_user" \in Location \ {"none"}
    BY DEF Location, KernelExit
  <2> QED
    BY <1>1, <2>1, MoveKeeps, CurrentFacts DEF IInv, TypeOK
<1>3. Boot'
  BY <1>1, <1>2, CurrentFacts DEF IInv, Boot, Live
<1>4. UserTestFirst'
  BY <1>1, <1>2, CurrentFacts DEF IInv, UserTestFirst, UserSide, KernelExit
<1>5. MaskInv'
  BY <1>1, <1>2, CurrentFacts DEF IInv, MaskInv, KernelThread, KernelExit
<1>6. KillInv'
  BY <1>1, <1>2, CurrentFacts DEF IInv, KillInv, Live
<1> QED
  BY <1>2, <1>3, <1>4, <1>5, <1>6 DEF IInv

(* eret takes a task with no SIGKILL posted to user mode.                   *)
LEMMA EretKeeps == IInv /\ Eret => IInv'
<1> SUFFICES ASSUME IInv, Eret PROVE IInv'
  OBVIOUS
<1>1. /\ pc[current] = "eret" /\ pc' = GoTo("el0")
      /\ UNCHANGED <<state, id, priority, rq, current>>
      /\ UNCHANGED <<resched, sigpending, signal>> /\ masked' = FALSE
  BY DEF Eret, At, sigvars
<1>2. /\ TypeOK' /\ OneRunning' /\ QueuedOnce' /\ SlotContext'
      /\ pc'[current] = "el0"
      /\ \A p \in Pid : p # current => pc'[p] = pc[p]
  <2>1. "el0" \in Location \ {"none"}
    BY DEF Location
  <2> QED
    BY <1>1, <2>1, MoveKeeps, CurrentFacts DEF IInv, TypeOK
<1>3. Boot'
  BY <1>1, <1>2, CurrentFacts DEF IInv, Boot, Live
<1>4. UserTestFirst'
  BY <1>1, <1>2, CurrentFacts DEF IInv, UserTestFirst, UserSide, KernelExit
<1>5. MaskInv'
  BY <1>1, <1>2, CurrentFacts DEF IInv, MaskInv, KernelThread, KernelExit
<1>6. KillInv'
  BY <1>1, <1>2, CurrentFacts DEF IInv, KillInv, Live
<1> QED
  BY <1>2, <1>3, <1>4, <1>5, <1>6 DEF IInv

(* kill() may signal any slot: the only task that may be past its          *)
(* check_signal() is the caller, and it is back at ret_to_user.            *)
LEMMA SysKillKeeps ==
  ASSUME IInv, NEW pid \in Pid, NEW sig \in Signals, SysKill(pid, sig)
  PROVE  IInv'
<1>1. /\ pc[current] = "el0" /\ pc' = GoTo("ret_to_user")
      /\ UNCHANGED <<state, id, priority, resched, rq, current>>
      /\ masked' = TRUE
      /\ sigpending' = [sigpending EXCEPT ![pid] = TRUE]
      /\ signal' = [signal EXCEPT ![pid] = @ \cup {sig % 64}]
  BY DEF SysKill, At
<1>2. sigpending' \in [Pid -> BOOLEAN] /\ signal' \in [Pid -> SUBSET (0..63)]
  <2>1. sig \in Nat /\ sig % 64 \in 0..63
    BY KernelAssumption
  <2> QED
    BY <1>1, <2>1 DEF IInv, TypeOK
<1>3. /\ TypeOK' /\ OneRunning' /\ QueuedOnce' /\ SlotContext'
      /\ pc'[current] = "ret_to_user"
      /\ \A p \in Pid : p # current => pc'[p] = pc[p]
  <2>1. "ret_to_user" \in Location \ {"none"}
    BY DEF Location, KernelExit
  <2> QED
    BY <1>1, <1>2, <2>1, MoveKeeps DEF IInv, TypeOK
<1>4. Boot'
  BY <1>1, <1>3, CurrentFacts DEF IInv, Boot, Live, KernelThread
<1>5. UserTestFirst'
  BY <1>1, <1>3, CurrentFacts DEF IInv, UserTestFirst, UserSide
<1>6. MaskInv'
  BY <1>1, <1>3, CurrentFacts DEF IInv, MaskInv, KernelThread
<1>7. KillInv'
  <2>1. \A p \in Pid : signal'[p] # {} => sigpending'[p]
    BY <1>1 DEF IInv, TypeOK, KillInv
  <2>2. \A p \in Pid : ~(pc'[p] = "eret" /\ Live(p)')
    BY <1>1, <1>3 DEF IInv, KillInv, Live
  <2> QED
    BY <2>1, <2>2 DEF KillInv
<1> QED
  BY <1>3, <1>4, <1>5, <1>6, <1>7 DEF IInv

(* An interrupt of user code enters ret_to_user masked.                    *)
LEMMA IrqFromUserKeeps ==
  ASSUME IInv, NEW timer \in BOOLEAN, IrqFromUser(timer)
  PROVE  IInv'
<1>1. /\ pc[current] = "el0" /\ pc' = GoTo("ret_to_user")
      /\ UNCHANGED <<state, id, priority, sigpending, signal, rq, current>>
      /\ masked' = TRUE
      /\ resched' = [resched EXCEPT ![current] = TRUE] \/ resched' = resched
  BY DEF IrqFromUser, At, sigvars, core_timer_handler
<1>2. resched' \in [Pid -> BOOLEAN]
      /\ \A p \in Pid : p # current => resched'[p] = resched[p]
  BY <1>1 DEF IInv, TypeOK
<1>3. /\ TypeOK' /\ OneRunning' /\ QueuedOnce' /\ SlotContext'
      /\ pc'[current] = "ret_to_user"
      /\ \A p \in Pid : p # current => pc'[p] = pc[p]
  <2>1. "ret_to_user" \in Location \ {"none"}
    BY DEF Location, KernelExit
  <2> QED
    BY <1>1, <1>2, <2>1, MoveKeeps DEF IInv, TypeOK
<1>4. Boot' /\ UserTestFirst'
  BY <1>1, <1>3, CurrentFacts
     DEF IInv, Boot, Live, KernelThread, UserTestFirst, UserSide
<1>5. MaskInv' /\ KillInv'
  BY <1>1, <1>3, CurrentFacts DEF IInv, MaskInv, KernelThread, KillInv, Live
<1> QED
  BY <1>3, <1>4, <1>5 DEF IInv

(* A tick in a kernel thread only sets the resched flag of the running task. *)
LEMMA TimerIrqFromKernelKeeps == IInv /\ TimerIrqFromKernel => IInv'
<1> SUFFICES ASSUME IInv, TimerIrqFromKernel PROVE IInv'
  OBVIOUS
<1>1. /\ resched' = [resched EXCEPT ![current] = TRUE]
      /\ UNCHANGED <<state, id, priority, sigpending, signal, pc, rq, current,
                     masked>>
  BY DEF TimerIrqFromKernel, sigvars, core_timer_handler
<1>2. /\ resched' \in [Pid -> BOOLEAN]
      /\ \A p \in Pid : p # current => resched'[p] = resched[p]
  BY <1>1 DEF IInv, TypeOK
<1>3. TypeOK' /\ OneRunning' /\ QueuedOnce' /\ SlotContext'
  <2>1. pc[current] \in Location \ {"none"} /\ pc' = GoTo(pc[current])
    BY <1>1, CurrentFacts DEF IInv, TypeOK, GoTo
  <2> QED
    BY <1>1, <1>2, <2>1, MoveKeeps DEF IInv, TypeOK
<1>4. Boot' /\ UserTestFirst' /\ MaskInv' /\ KillInv'
  BY <1>1 DEF IInv, Boot, Live, UserTestFirst, MaskInv, KillInv
<1> QED
  BY <1>3, <1>4 DEF IInv

(* The actions that create a task. *)

(* main() creates user_test in slot 1, which is FREE.                      *)
LEMMA CreateUserTestKeeps == IInv /\ CreateUserTest => IInv'
<1> SUFFICES ASSUME IInv, CreateUserTest PROVE IInv'
  OBVIOUS
<1>1. /\ pc[current] = "create_user_test"
      /\ PrivilegeTaskCreate("user_test", HIGH, "create_reaper")
      /\ UNCHANGED <<resched, sigpending, signal, current, masked>>
  BY DEF CreateUserTest, At, sigvars
<1>2. /\ current = 0 /\ pc[0] = "create_user_test"
      /\ \A p \in Pid \ {0} : state[p] = "FREE" /\ pc[p] = "none"
      /\ \A p \in Pid : signal[p] = {}
  BY <1>1, CurrentFacts DEF IInv, Boot, UserTestFirst, SlotContext
<1>3. /\ state' \in [Pid -> TaskState] /\ id' \in [Pid -> Pid]
      /\ priority' \in [Pid -> Priority] /\ pc' \in [Pid -> Location]
      /\ rq' \in [Priority -> Seq(Pid)]
      /\ OneRunning' /\ QueuedOnce' /\ SlotContext'
      /\ \/ NoSlot("create_reaper")
         \/ \E pid \in Pid : NewTask(pid, "user_test", "create_reaper")
  <2>1. /\ "user_test" \in Location \ {"none"}
        /\ "create_reaper" \in Location \ {"none"} /\ HIGH \in Priority
    BY DEF Location, KernelThread, Priority
  <2> QED
    BY <1>1, <2>1, CreateMakesOne
<1>4. NewTask(1, "user_test", "create_reaper")
  <2>1. ~NoSlot("create_reaper")
    BY <1>2, CurrentFacts DEF NoSlot
  <2>2. PICK pid \in Pid : NewTask(pid, "user_test", "create_reaper")
    BY <1>3, <2>1
  <2>3. pid <= 1 /\ pid # 0
    BY <1>2, <2>2, CurrentFacts DEF NewTask
  <2>4. pid = 1
    BY <2>3, KernelAssumption DEF Pid
  <2> QED
    BY <2>2, <2>4
<1>5. /\ pc'[0] = "create_reaper" /\ pc'[1] = "user_test"
      /\ state'[0] = "RUNNING" /\ state'[1] = "RUNNABLE"
      /\ \A p \in Pid \ {0, 1} : pc'[p] = "none" /\ state'[p] = "FREE"
  BY <1>2, <1>4, CurrentFacts DEF NewTask
<1>6. TypeOK'
  BY <1>1, <1>3 DEF IInv, TypeOK
<1>7. Boot'
  BY <1>1, <1>2, <1>5 DEF Boot, Live
<1>8. UserTestFirst'
  BY <1>1, <1>2, <1>5 DEF UserTestFirst, UserSide, KernelExit
<1>9. MaskInv'
  BY <1>1, <1>2, <1>5 DEF MaskInv, KernelExit
<1>10. KillInv'
  BY <1>1, <1>2, <1>5 DEF KillInv
<1> QED
  BY <1>3, <1>6, <1>7, <1>8, <1>9, <1>10 DEF IInv

(* main() creates the reaper in slot 2, which is FREE.                     *)
LEMMA CreateReaperKeeps == IInv /\ CreateReaper => IInv'
<1> SUFFICES ASSUME IInv, CreateReaper PROVE IInv'
  OBVIOUS
<1>1. /\ pc[current] = "create_reaper"
      /\ PrivilegeTaskCreate("reaper", HIGH, "idle")
      /\ UNCHANGED <<resched, sigpending, signal, current, masked>>
  BY DEF CreateReaper, At, sigvars
<1>2. /\ current = 0 /\ pc[0] = "create_reaper" /\ state[1] = "RUNNABLE"
      /\ \A p \in Pid \ {0, 1} : state[p] = "FREE" /\ pc[p] = "none"
      /\ pc[1] \notin {"create_user_test", "create_reaper"}
  BY <1>1, CurrentFacts DEF IInv, Boot, SlotContext
<1>3. /\ state' \in [Pid -> TaskState] /\ id' \in [Pid -> Pid]
      /\ priority' \in [Pid -> Priority] /\ pc' \in [Pid -> Location]
      /\ rq' \in [Priority -> Seq(Pid)]
      /\ OneRunning' /\ QueuedOnce' /\ SlotContext'
      /\ \/ NoSlot("idle")
         \/ \E pid \in Pid : NewTask(pid, "reaper", "idle")
  <2>1. /\ "reaper" \in Location \ {"none"}
        /\ "idle" \in Location \ {"none"} /\ HIGH \in Priority
    BY DEF Location, KernelThread, Priority
  <2> QED
    BY <1>1, <2>1, CreateMakesOne
<1>4. NewTask(2, "reaper", "idle")
  <2>1. state[2] = "FREE" /\ ~NoSlot("idle")
    BY <1>2, CurrentFacts DEF NoSlot
  <2>2. PICK pid \in Pid : NewTask(pid, "reaper", "idle")
    BY <1>3, <2>1
  <2>3. pid <= 2 /\ pid # 0 /\ pid # 1
    BY <1>2, <2>1, <2>2, CurrentFacts DEF NewTask
  <2>4. pid = 2
    BY <2>3, KernelAssumption DEF Pid
  <2> QED
    BY <2>2, <2>4
<1>5. /\ pc'[0] = "idle" /\ pc'[1] = pc[1] /\ pc'[2] = "reaper"
      /\ state'[0] = "RUNNING" /\ state'[1] = "RUNNABLE"
      /\ state'[2] = "RUNNABLE"
      /\ \A p \in Pid \ {0, 1, 2} : pc'[p] = "none" /\ state'[p] = "FREE"
  BY <1>2, <1>4, CurrentFacts DEF NewTask
<1>6. TypeOK'
  BY <1>1, <1>3 DEF IInv, TypeOK
<1>7. Boot'
  BY <1>1, <1>2, <1>5 DEF IInv, Boot, Live
<1>8. UserTestFirst'
  BY <1>1, <1>2, <1>5, CurrentFacts
     DEF IInv, UserTestFirst, UserSide, KernelExit
<1>9. MaskInv'
  BY <1>1, <1>2, <1>5, CurrentFacts DEF IInv, MaskInv, KernelThread, KernelExit
<1>10. KillInv'
  BY <1>1, <1>2, <1>5, CurrentFacts DEF IInv, KillInv, Live
<1> QED
  BY <1>3, <1>6, <1>7, <1>8, <1>9, <1>10 DEF IInv

(* fork() fills a FREE slot, or none.                                      *)
LEMMA SysForkKeeps == IInv /\ SysFork => IInv'
<1> SUFFICES ASSUME IInv, SysFork PROVE IInv'
  OBVIOUS
<1>1. /\ pc[current] = "el0"
      /\ PrivilegeTaskCreate("ret_to_user", HIGH, "ret_to_user")
      /\ UNCHANGED <<resched, sigpending, signal, current>> /\ masked' = TRUE
  BY DEF SysFork, At, sigvars
<1>2. /\ state' \in [Pid -> TaskState] /\ id' \in [Pid -> Pid]
      /\ priority' \in [Pid -> Priority] /\ pc' \in [Pid -> Location]
      /\ rq' \in [Priority -> Seq(Pid)]
      /\ OneRunning' /\ QueuedOnce' /\ SlotContext'
      /\ \/ NoSlot("ret_to_user")
         \/ \E pid \in Pid : NewTask(pid, "ret_to_user", "ret_to_user")
  <2>1. "ret_to_user" \in Location \ {"none"} /\ HIGH \in Priority
    BY DEF Location, KernelExit, Priority
  <2> QED
    BY <1>1, <2>1, CreateMakesOne
<1>3. \A p \in Pid :
        \/ pc'[p] = pc[p] /\ state'[p] = state[p] /\ p # current
        \/ pc'[p] = "ret_to_user" /\ p = current /\ state'[p] = state[p]
        \/ /\ pc'[p] = "ret_to_user" /\ state[p] = "FREE" /\ p # current
           /\ state'[p] = "RUNNABLE"
  BY <1>2, CurrentFacts DEF NoSlot, NewTask
<1>4. pc'[current] = "ret_to_user"
  BY <1>3, CurrentFacts
<1>5. TypeOK'
  BY <1>1, <1>2 DEF IInv, TypeOK
<1>6. pc'[0] = pc[0] /\ pc[0] \in {"idle", "finished"}
  BY <1>1, <1>3, CurrentFacts DEF IInv, Boot, Live, KernelThread
<1>7. Boot'
  BY <1>1, <1>3, <1>6, CurrentFacts DEF IInv, Boot, Live
<1>8. UserTestFirst'
  BY <1>1, <1>3, <1>6, CurrentFacts DEF IInv, UserTestFirst, UserSide
<1>9. MaskInv'
  BY <1>1, <1>3, <1>4 DEF IInv, MaskInv, KernelThread
<1>10. KillInv'
  BY <1>1, <1>3 DEF IInv, KillInv, Live
<1> QED
  BY <1>2, <1>5, <1>7, <1>8, <1>9, <1>10 DEF IInv

(* The system call and the two halves of kernel_exit that may switch. *)

(* The caller goes on at loc of kernel_exit, or has become a ZOMBIE.       *)
LEMMA UserSwitchKeeps ==
  ASSUME IInv, pc[current] \in UserSide, NEW loc \in KernelExit,
         NEW end \in {"RUNNING", "ZOMBIE"},
         Schedule([state EXCEPT ![current] = end], GoTo(loc)),
         UNCHANGED <<id, priority, sigpending, signal>>,
         resched' \in [Pid -> BOOLEAN], masked' \in BOOLEAN, masked',
         \A p \in Pid : p # current => resched'[p] = resched[p],
         loc = "eret" => end = "ZOMBIE"
  PROVE  IInv'
<1> DEFINE st == [state EXCEPT ![current] = end]
           pcs == GoTo(loc)
<1>1. /\ st \in [Pid -> TaskState] /\ pcs \in [Pid -> Location]
      /\ st[current] = end /\ pcs[current] = loc
      /\ \A p \in Pid \ {current} : st[p] = state[p] /\ pcs[p] = pc[p]
  BY CurrentFacts DEF IInv, TypeOK, TaskState, Location, GoTo
<1> HIDE DEF st, pcs
<1>2. /\ pc[current] \notin KernelThread /\ current # 0
      /\ loc \notin {"none", "el0", "user_test"}
  BY CurrentFacts DEF UserSide, KernelExit, KernelThread
<1>3. /\ state' \in [Pid -> TaskState] /\ pc' = pcs
      /\ rq' \in [Priority -> Seq(Pid)] /\ current' \in Pid
      /\ OneRunning' /\ QueuedOnce'
      /\ st[current'] \in {"RUNNABLE", "RUNNING"}
      /\ \A p \in Pid : st[p] \in {"RUNNABLE", "RUNNING"} <=> Live(p)'
      /\ \A p \in Pid : st[p] \in {"FREE", "ZOMBIE"} => state'[p] = st[p]
      /\ MaskInv'
  <2>1. \A p \in Pid \ {current} :
             /\ Live(p) => st[p] = state[p] /\ pcs[p] = pc[p]
             /\ ~Live(p) => st[p] \in {"FREE", "ZOMBIE"}
             /\ pcs[p] \in {pc[p], "none"}
    BY <1>1 DEF Live, TaskState
  <2>2. priority' \in [Pid -> Priority] /\ Schedule(st, pcs)
        /\ \A p \in Pid : priority'[p] = priority[p]
    BY DEF IInv, TypeOK, st, pcs
  <2> QED
    BY <1>1, <1>2, <2>1, <2>2, ScheduleKeeps DEF QueuedOnce
<1>4. TypeOK'
  BY <1>3, <1>1 DEF IInv, TypeOK
<1>5. SlotContext'
  <2> SUFFICES ASSUME NEW p \in Pid
               PROVE  /\ Live(p)' => id'[p] = p /\ pc'[p] # "none"
                      /\ state'[p] = "FREE" => pc'[p] = "none" /\ ~resched'[p]
    BY DEF SlotContext, Live
  <2>1. CASE p = current
    BY <1>1, <1>2, <1>3, <2>1, CurrentFacts DEF IInv, SlotContext, Live
  <2>2. CASE p # current
    <3>1. state[p] \in {"FREE", "RUNNABLE", "RUNNING", "ZOMBIE"}
      BY DEF IInv, TypeOK, TaskState
    <3> QED
      BY <1>1, <1>3, <2>2, <3>1 DEF IInv, SlotContext, Live
  <2> QED
    BY <2>1, <2>2
<1>6. pc[0] \in {"idle", "finished"} /\ pc'[0] = pc[0] /\ Live(0)'
      /\ pc'[2] = "reaper" /\ Live(2)'
  <2>1. pc[0] \in {"idle", "finished"} /\ pc[2] = "reaper" /\ Live(2) /\ Live(0)
    BY <1>2 DEF IInv, Boot
  <2>2. current # 2
    BY <1>2, <2>1 DEF KernelThread
  <2> QED
    BY <1>1, <1>2, <1>3, <2>1, <2>2, CurrentFacts DEF Live
<1>7. Boot'
  BY <1>1, <1>2, <1>3, <1>6 DEF IInv, Boot, KernelExit
<1>8. UserTestFirst'
  <2>1. pc[0] # "create_user_test" /\ pc[1] # "user_test"
    BY <1>6, CurrentFacts DEF IInv, UserTestFirst
  <2> QED
    BY <1>1, <1>2, <1>3, <1>6, <2>1, CurrentFacts DEF IInv, UserTestFirst
<1>9. KillInv'
  <2>1. ASSUME NEW p \in Pid, pc'[p] = "eret", Live(p)' PROVE FALSE
    <3>1. CASE p = current
      BY <1>1, <1>3, <2>1, <3>1
    <3>2. CASE p # current
      BY <1>1, <1>3, <2>1, <3>2 DEF IInv, KillInv, Live
    <3> QED
      BY <3>1, <3>2
  <2> QED
    BY <2>1 DEF IInv, KillInv
<1> QED
  BY <1>3, <1>4, <1>5, <1>7, <1>8, <1>9 DEF IInv

(* exit() ends the running task and finds another to run.                  *)
LEMMA SysExitKeeps == IInv /\ SysExit => IInv'
<1> SUFFICES ASSUME IInv, SysExit PROVE IInv'
  OBVIOUS
<1>1. /\ pc[current] = "el0" /\ masked' = TRUE
      /\ Schedule([state EXCEPT ![current] = "ZOMBIE"], GoTo("ret_to_user"))
      /\ UNCHANGED <<id, priority, resched, sigpending, signal>>
  BY DEF SysExit, do_exit, At, sigvars
<1>2. "ret_to_user" \in KernelExit /\ pc[current] \in UserSide
  BY <1>1 DEF KernelExit, UserSide
<1> QED
  BY <1>1, <1>2, UserSwitchKeeps DEF IInv, TypeOK

(* check_resched() may switch to another task, in masked state.            *)
LEMMA CheckReschedKeeps == IInv /\ CheckResched => IInv'
<1> SUFFICES ASSUME IInv, CheckResched PROVE IInv'
  OBVIOUS
<1>1. /\ pc[current] = "ret_to_user" /\ masked /\ masked' = masked
      /\ UNCHANGED <<id, priority, sigpending, signal>>
  BY DEF CheckResched, At, sigvars, IInv, MaskInv, KernelExit
<1>2. "check_signal" \in KernelExit /\ pc[current] \in UserSide
  BY <1>1 DEF KernelExit, UserSide
<1>3. CASE resched[current]
  <2>1. /\ resched' = [resched EXCEPT ![current] = FALSE]
        /\ Schedule(state, GoTo("check_signal"))
    BY <1>3 DEF CheckResched
  <2>2. [state EXCEPT ![current] = "RUNNING"] = state
    BY CurrentFacts DEF IInv, TypeOK
  <2>3. resched' \in [Pid -> BOOLEAN]
        /\ \A p \in Pid : p # current => resched'[p] = resched[p]
    BY <2>1 DEF IInv, TypeOK
  <2>4. Schedule([state EXCEPT ![current] = "RUNNING"], GoTo("check_signal"))
    BY <2>1, <2>2, Zenon
  <2> QED
    BY <1>1, <1>2, <2>3, <2>4, UserSwitchKeeps DEF IInv, TypeOK
<1>4. CASE ~resched[current]
  <2>1. pc' = GoTo("check_signal") /\ UNCHANGED <<state, resched, rq, current>>
    BY <1>4 DEF CheckResched
  <2>2. /\ TypeOK' /\ OneRunning' /\ QueuedOnce' /\ SlotContext'
        /\ pc'[current] = "check_signal"
        /\ \A p \in Pid : p # current => pc'[p] = pc[p]
    <3>1. "check_signal" \in Location \ {"none"}
      BY DEF Location, KernelExit
    <3> QED
      BY <1>1, <2>1, <3>1, MoveKeeps DEF IInv, TypeOK
  <2>3. Boot' /\ UserTestFirst'
    BY <1>1, <2>1, <2>2, CurrentFacts
       DEF IInv, Boot, Live, KernelThread, UserTestFirst, UserSide, KernelExit
  <2>4. MaskInv' /\ KillInv'
    BY <1>1, <2>1, <2>2, CurrentFacts
       DEF IInv, MaskInv, KernelThread, KillInv, Live
  <2> QED
    BY <2>2, <2>3, <2>4 DEF IInv
<1> QED
  BY <1>3, <1>4

(* check_signal() ends a task with SIGKILL posted and lets any other pass. *)
LEMMA CheckSignalKeeps == IInv /\ CheckSignal => IInv'
<1> SUFFICES ASSUME IInv, CheckSignal PROVE IInv'
  OBVIOUS
<1>1. /\ pc[current] = "check_signal" /\ masked /\ masked' = masked
      /\ UNCHANGED <<id, priority, resched, signal>>
  BY DEF CheckSignal, At, IInv, MaskInv, KernelExit
<1>2. "eret" \in KernelExit /\ pc[current] \in UserSide
  BY <1>1 DEF KernelExit, UserSide
<1>3. CASE sigpending[current] /\ SIGKILL \in signal[current]
  <2>1. /\ Schedule([state EXCEPT ![current] = "ZOMBIE"], GoTo("eret"))
        /\ UNCHANGED sigpending
    BY <1>3 DEF CheckSignal, do_exit
  <2> QED
    BY <1>1, <1>2, <2>1, UserSwitchKeeps DEF IInv, TypeOK
<1>4. CASE ~(sigpending[current] /\ SIGKILL \in signal[current])
  <2>1. /\ pc' = GoTo("eret") /\ UNCHANGED <<state, rq, current>>
        /\ sigpending' = [sigpending EXCEPT ![current] =
                              @ /\ signal[current] # {}]
    BY <1>4 DEF CheckSignal
  <2>2. /\ sigpending' \in [Pid -> BOOLEAN]
        /\ \A p \in Pid : signal[p] # {} => sigpending'[p]
    <3>1. sigpending[current] \in BOOLEAN
      BY CurrentFacts DEF IInv, TypeOK
    <3> QED
      BY <2>1, <3>1 DEF IInv, TypeOK, KillInv
  <2>3. /\ TypeOK' /\ OneRunning' /\ QueuedOnce' /\ SlotContext'
        /\ pc'[current] = "eret"
        /\ \A p \in Pid : p # current => pc'[p] = pc[p]
    <3>1. "eret" \in Location \ {"none"}
      BY DEF Location, KernelExit
    <3> QED
      BY <1>1, <2>1, <2>2, <3>1, MoveKeeps DEF IInv, TypeOK
  <2>4. Boot' /\ UserTestFirst'
    BY <1>1, <2>1, <2>3, CurrentFacts
       DEF IInv, Boot, Live, KernelThread, UserTestFirst, UserSide, KernelExit
  <2>5. MaskInv'
    BY <1>1, <2>1, <2>3, CurrentFacts DEF IInv, MaskInv, KernelThread
  <2>6. KillInv'
    <3>1. SIGKILL \notin signal[current]
      BY <1>4, CurrentFacts DEF IInv, KillInv
    <3> QED
      BY <1>1, <2>1, <2>2, <2>3, <3>1 DEF IInv, KillInv, Live
  <2> QED
    BY <2>3, <2>4, <2>5, <2>6 DEF IInv
<1> QED
  BY <1>3, <1>4

-----------------------------------------------------------------------------
(* The invariant. *)

(* Every step keeps the invariant, one lemma per action.                   *)
LEMMA NextIInv == IInv /\ [Next]_vars => IInv'
<1> SUFFICES ASSUME IInv, [Next]_vars PROVE IInv'
  OBVIOUS
<1>1. CASE KernelStep
  BY <1>1, CreateUserTestKeeps, CreateReaperKeeps, IdleKeeps, DoExecKeeps,
     ReapKeeps, CheckReschedKeeps, CheckSignalKeeps, EretKeeps DEF KernelStep
<1>2. CASE UserStep
  BY <1>2, SysForkKeeps, SysExitKeeps, SysOtherKeeps, SysKillKeeps DEF UserStep
<1>3. CASE Irq
  BY <1>3, IrqFromUserKeeps, TimerIrqFromKernelKeeps DEF Irq
<1>4. CASE UNCHANGED vars
  <2>1. TypeOK' /\ OneRunning' /\ SlotContext'
    BY <1>4 DEF vars, IInv, TypeOK, OneRunning, SlotContext
  <2>2. QueuedOnce'
    BY <1>4 DEF vars, IInv, QueuedOnce, Queued
  <2>3. Boot' /\ UserTestFirst'
    BY <1>4 DEF vars, IInv, Boot, Live, UserTestFirst
  <2>4. MaskInv' /\ KillInv'
    BY <1>4 DEF vars, IInv, MaskInv, KillInv, Live
  <2> QED
    BY <2>1, <2>2, <2>3, <2>4 DEF IInv
<1> QED
  BY <1>1, <1>2, <1>3, <1>4 DEF Next

(* The inductive invariant holds in every reachable state.                 *)
THEOREM SpecIInv == Spec => []IInv
<1>1. Init => IInv
  BY InitIInv
<1>2. IInv /\ [Next]_vars => IInv'
  BY NextIInv
<1> QED
  BY <1>1, <1>2, PTL DEF Spec

(* Every field keeps a value of its type, for any number of tasks.         *)
THEOREM SpecTypeOK == Spec => []TypeOK
<1>1. IInv => TypeOK
  BY DEF IInv
<1> QED
  BY <1>1, SpecIInv, PTL

(* schedule() always finds a task and leaves it alone RUNNING: exit() and  *)
(* a kill never come back to their caller.                                 *)
THEOREM SpecOneRunning == Spec => []OneRunning
<1>1. IInv => OneRunning
  BY DEF IInv
<1> QED
  BY <1>1, SpecIInv, PTL

(* The run queues hold exactly the RUNNABLE tasks, once each.              *)
THEOREM SpecQueuedOnce == Spec => []QueuedOnce
<1>1. IInv => QueuedOnce
  BY DEF IInv
<1> QED
  BY <1>1, SpecIInv, PTL

(* No push is ever dropped: the running task is in no queue, so NR_TASKS-1 *)
(* distinct tasks at most are.                                             *)
THEOREM SpecQueueHasRoom == Spec => []QueueHasRoom
<1>1. IInv => QueueHasRoom
  <2> SUFFICES ASSUME IInv, NEW l \in Priority PROVE Len(rq[l]) < NR_TASKS
    BY DEF QueueHasRoom
  <2>1. rq[l] \in Seq(Pid) /\ current \in Pid /\ state[current] = "RUNNING"
    BY CurrentFacts DEF IInv, TypeOK
  <2>2. /\ \A i, j \in 1..Len(rq[l]) : rq[l][i] = rq[l][j] => i = j
        /\ \A i \in 1..Len(rq[l]) : rq[l][i] # current
    BY <2>1 DEF IInv, QueuedOnce, Queued
  <2> QED
    BY <2>1, <2>2, QueueRoom
<1> QED
  BY <1>1, SpecIInv, PTL

(* No interrupt hits the restore of ELR_EL1 and SPSR_EL1 in kernel_exit.   *)
THEOREM SpecKernelExitMasked == Spec => []KernelExitMasked
<1>1. IInv => KernelExitMasked
  BY DEF IInv, MaskInv, KernelExitMasked
<1> QED
  BY <1>1, SpecIInv, PTL

(* main/idle and the reaper never end.                                     *)
THEOREM SpecKernelThreadsLive == Spec => []KernelThreadsLive
<1>1. IInv => KernelThreadsLive
  BY CurrentFacts DEF IInv, Boot, Live, KernelThreadsLive
<1> QED
  BY <1>1, SpecIInv, PTL

(* A live task has its own stacks and a context; a FREE slot has none.     *)
THEOREM SpecSlotContext == Spec => []SlotContext
<1>1. IInv => SlotContext
  BY DEF IInv
<1> QED
  BY <1>1, SpecIInv, PTL

(* The steps of one action as seen by the pc of one task.                  *)
LEMMA OnlyEretOrExec ==
  ASSUME IInv, [Next]_vars, NEW p \in Pid, pc[p] # "el0", pc'[p] = "el0"
  PROVE  p = current /\ (DoExec \/ Eret)
<1>1. ~UNCHANGED pc /\ pc \in [Pid -> Location] /\ current \in Pid
  BY CurrentFacts DEF IInv, TypeOK
<1>2. \A loc : pc' = GoTo(loc) => p = current /\ loc = "el0"
  BY <1>1 DEF GoTo
<1>3. ASSUME NEW func, NEW l, NEW next, func # "el0", next # "el0",
             PrivilegeTaskCreate(func, l, next)
      PROVE  FALSE
  <2>1. PICK pid : \/ pc' = GoTo(next)
                   \/ pc' = [GoTo(next) EXCEPT ![pid] = func]
    BY <1>3, Zenon DEF PrivilegeTaskCreate
  <2> QED
    BY <1>1, <1>3, <2>1 DEF GoTo
<1>4. ASSUME NEW st, NEW pcs, Schedule(st, pcs) PROVE pc' = pcs
  BY <1>4, Zenon DEF Schedule
<1>5. CASE KernelStep
  <2>1. ~CreateUserTest /\ ~CreateReaper
    BY <1>3 DEF CreateUserTest, CreateReaper
  <2>2. ~Idle
    BY <1>1, <1>2, <1>4 DEF Idle
  <2>3. ~Reap
    <3>1. Reap => pc' = Cleared(pc, "none")
      BY <1>4 DEF Reap
    <3> QED
      BY <1>1, <3>1 DEF Cleared
  <2>4. ~CheckResched
    BY <1>2, <1>4 DEF CheckResched
  <2>5. ~CheckSignal
    BY <1>2, <1>4 DEF CheckSignal, do_exit
  <2>6. DoExec \/ Eret => p = current
    BY <1>2 DEF DoExec, Eret
  <2> QED
    BY <1>5, <2>1, <2>2, <2>3, <2>4, <2>5, <2>6 DEF KernelStep
<1>6. CASE UserStep
  <2>1. ~SysFork
    BY <1>3 DEF SysFork
  <2>2. ~SysExit
    BY <1>2, <1>4 DEF SysExit, do_exit
  <2>3. ~SysOther /\ \A pid \in Pid, sig \in Signals : ~SysKill(pid, sig)
    BY <1>2 DEF SysOther, SysKill
  <2> QED
    BY <1>6, <2>1, <2>2, <2>3 DEF UserStep
<1>7. CASE Irq
  BY <1>1, <1>2, <1>7 DEF Irq, IrqFromUser, TimerIrqFromKernel
<1>8. CASE UNCHANGED vars
  BY <1>1, <1>8 DEF vars
<1> QED
  BY <1>5, <1>6, <1>7, <1>8 DEF Next

(* No task with SIGKILL posted gets back to user mode.                     *)
THEOREM SpecKilledStaysOut == Spec => KilledStaysOut
<1>1. IInv /\ [Next]_vars =>
        [\A p \in Pid :
            pc[p] # "el0" /\ pc'[p] = "el0" => SIGKILL \notin signal[p]]_vars
  <2> SUFFICES ASSUME IInv, [Next]_vars,
                      NEW p \in Pid, pc[p] # "el0", pc'[p] = "el0"
               PROVE  SIGKILL \notin signal[p]
    OBVIOUS
  <2>1. p = current /\ (DoExec \/ Eret)
    BY OnlyEretOrExec
  <2>2. CASE DoExec
    BY <2>1, <2>2, CurrentFacts DEF DoExec, At, IInv, UserTestFirst
  <2>3. CASE Eret
    BY <2>1, <2>3, CurrentFacts DEF Eret, At, IInv, KillInv
  <2> QED
    BY <2>1, <2>2, <2>3
<1> QED
  BY <1>1, SpecIInv, PTL DEF Spec, KilledStaysOut

(* The states after schedule(): a live task is still live, the others are  *)
(* as they were before the call.                                           *)
LEMMA ScheduleStates ==
  ASSUME IInv, NEW st \in [Pid -> TaskState], NEW pcs,
         \A p \in Pid : st[p] = "RUNNABLE" <=> state[p] = "RUNNABLE",
         \A p \in Pid : st[p] = "RUNNING" => state[p] = "RUNNING",
         \E p \in Pid : st[p] \in {"RUNNABLE", "RUNNING"},
         Schedule(st, pcs)
  PROVE  \A p \in Pid :
           /\ st[p] \in {"RUNNABLE", "RUNNING"} =>
                 state'[p] \in {"RUNNABLE", "RUNNING"}
           /\ st[p] \in {"FREE", "ZOMBIE"} => state'[p] = st[p]
<1>1. SchedPre(st)
  BY SchedPreOfOther, Zenon
<1>2. priority \in [Pid -> Priority]
  BY DEF IInv, TypeOK
<1>3. \A p \in Pid : st[p] \in {"RUNNABLE", "RUNNING"} =>
                        priority[p] = priority[p]
  OBVIOUS
<1> QED
  BY <1>1, <1>2, <1>3, ScheduleRunsOne, Zenon

(* What SlotLifecycle allows a step to do to the state of slot p.          *)
LegalMove(p) ==
  /\ state[p] # "FREE" /\ state'[p] = "FREE" =>
        state[p] = "ZOMBIE" /\ current # p
  /\ state[p] # "ZOMBIE" /\ state'[p] = "ZOMBIE" => p = current
  /\ state[p] = "FREE" => state'[p] \in {"FREE", "RUNNABLE"}

(* A system call or kernel_exit that ends the task, or lets another run.   *)
LEMMA SwitchIsLegal ==
  ASSUME IInv, NEW pcs, NEW end \in {"RUNNING", "ZOMBIE"},
         end = "ZOMBIE" => pc[current] \in UserSide,
         Schedule([state EXCEPT ![current] = end], pcs),
         NEW p \in Pid
  PROVE  LegalMove(p)
<1> DEFINE st == [state EXCEPT ![current] = end]
<1>1. /\ st \in [Pid -> TaskState] /\ st[current] = end
      /\ \A r \in Pid : r # current => st[r] = state[r]
      /\ state \in [Pid -> TaskState] /\ state[current] = "RUNNING"
      /\ current \in Pid
  BY CurrentFacts DEF IInv, TypeOK, TaskState
<1>2. \E r \in Pid : st[r] \in {"RUNNABLE", "RUNNING"}
  <2>1. CASE end = "RUNNING"
    BY <1>1, <2>1
  <2>2. CASE end = "ZOMBIE"
    <3>1. pc[current] \notin KernelThread /\ current # 0 /\ 0 \in Pid
      BY <2>2, CurrentFacts DEF UserSide, KernelExit, KernelThread
    <3>2. Live(0)
      BY <3>1 DEF IInv, Boot
    <3> QED
      BY <1>1, <3>1, <3>2 DEF Live
  <2> QED
    BY <2>1, <2>2
<1>3. Schedule(st, pcs)
  OBVIOUS
<1> HIDE DEF st
<1>4. /\ st[p] \in {"RUNNABLE", "RUNNING"} =>
            state'[p] \in {"RUNNABLE", "RUNNING"}
      /\ st[p] \in {"FREE", "ZOMBIE"} => state'[p] = st[p]
  <2>1. \A r \in Pid : st[r] = "RUNNABLE" <=> state[r] = "RUNNABLE"
    BY <1>1
  <2>2. \A r \in Pid : st[r] = "RUNNING" => state[r] = "RUNNING"
    BY <1>1
  <2> QED
    BY <1>1, <1>2, <1>3, <2>1, <2>2, ScheduleStates, Zenon
<1> QED
  BY <1>1, <1>4 DEF LegalMove, TaskState

(* The reaper frees zombies, none of which is on the CPU.                  *)
LEMMA ReapIsLegal ==
  ASSUME IInv, Reap, NEW p \in Pid
  PROVE  LegalMove(p)
<1> DEFINE st == Cleared(state, "FREE")
<1>1. /\ st \in [Pid -> TaskState] /\ state \in [Pid -> TaskState]
      /\ \A r \in Pid : st[r] = IF state[r] = "ZOMBIE" THEN "FREE" ELSE state[r]
      /\ state[current] = "RUNNING" /\ current \in Pid
  BY CurrentFacts DEF IInv, TypeOK, TaskState, Cleared
<1>2. Schedule(st, Cleared(pc, "none"))
  BY DEF Reap
<1> HIDE DEF st
<1>3. /\ \A r \in Pid : st[r] = "RUNNABLE" <=> state[r] = "RUNNABLE"
      /\ \A r \in Pid : st[r] = "RUNNING" => state[r] = "RUNNING"
      /\ \E r \in Pid : st[r] \in {"RUNNABLE", "RUNNING"}
  BY <1>1
<1>4. /\ st[p] \in {"RUNNABLE", "RUNNING"} =>
            state'[p] \in {"RUNNABLE", "RUNNING"}
      /\ st[p] \in {"FREE", "ZOMBIE"} => state'[p] = st[p]
  BY <1>1, <1>2, <1>3, ScheduleStates, Zenon
<1> QED
  BY <1>1, <1>4 DEF LegalMove, TaskState

(* privilege_task_create() takes a FREE slot and makes it RUNNABLE.         *)
LEMMA CreateIsLegal ==
  ASSUME IInv, NEW func, NEW l, NEW next, PrivilegeTaskCreate(func, l, next),
         NEW p \in Pid
  PROVE  LegalMove(p)
<1> DEFINE free == {q \in Pid : state[q] = "FREE"}
           pid == Min(free)
<1>1. state \in [Pid -> TaskState]
  BY DEF IInv, TypeOK
<1>2. CASE free = {}
  <2>1. UNCHANGED state
    BY <1>2, Zenon DEF PrivilegeTaskCreate
  <2> QED
    BY <1>1, <2>1 DEF LegalMove
<1>3. CASE free # {}
  <2>1. pid \in free
    BY <1>3, MinOfNat, KernelAssumption DEF Pid
  <2>2. state' = [state EXCEPT ![pid] = "RUNNABLE"]
    BY <1>3, Zenon DEF PrivilegeTaskCreate
  <2> HIDE DEF pid
  <2> QED
    BY <1>1, <2>1, <2>2 DEF LegalMove
<1> QED
  BY <1>2, <1>3

(* A slot is freed only after its task ended and left the CPU, and a task  *)
(* ends only while it is on the CPU.                                       *)
THEOREM SpecSlotLifecycle == Spec => SlotLifecycle
<1>1. IInv /\ [Next]_vars => [\A p \in Pid : LegalMove(p)]_vars
  <2> SUFFICES ASSUME IInv, [Next]_vars, NEW p \in Pid
               PROVE  LegalMove(p)
    OBVIOUS
  <2> DEFINE Running == [state EXCEPT ![current] = "RUNNING"]
  <2>1. Running = state /\ current \in Pid
    BY CurrentFacts DEF IInv, TypeOK
  <2>2. UNCHANGED state => LegalMove(p)
    BY DEF LegalMove
  <2>3. ASSUME NEW pcs, Schedule(state, pcs) PROVE LegalMove(p)
    <3>1. Schedule([state EXCEPT ![current] = "RUNNING"], pcs)
      BY <2>1, <2>3, Zenon
    <3> QED
      BY <3>1, SwitchIsLegal
  <2>4. CASE KernelStep
    <3>1. CreateUserTest \/ CreateReaper => LegalMove(p)
      BY CreateIsLegal DEF CreateUserTest, CreateReaper
    <3>2. Idle => LegalMove(p)
      BY <2>2, <2>3 DEF Idle
    <3>3. Reap => LegalMove(p)
      BY ReapIsLegal
    <3>4. CheckResched => LegalMove(p)
      BY <2>2, <2>3 DEF CheckResched
    <3>5. ASSUME CheckSignal PROVE LegalMove(p)
      <4>1. pc[current] \in UserSide
        BY <3>5 DEF CheckSignal, At, UserSide, KernelExit
      <4>2. \/ Schedule([state EXCEPT ![current] = "ZOMBIE"], GoTo("eret"))
            \/ UNCHANGED state
        BY <3>5 DEF CheckSignal, do_exit
      <4> QED
        BY <2>2, <4>1, <4>2, SwitchIsLegal
    <3>6. DoExec \/ Eret => LegalMove(p)
      BY <2>2 DEF DoExec, Eret
    <3> QED
      BY <2>4, <3>1, <3>2, <3>3, <3>4, <3>5, <3>6 DEF KernelStep
  <2>5. CASE UserStep
    <3>1. SysFork => LegalMove(p)
      BY CreateIsLegal DEF SysFork
    <3>2. ASSUME SysExit PROVE LegalMove(p)
      <4>1. pc[current] \in UserSide
        BY <3>2 DEF SysExit, At, UserSide
      <4>2. Schedule([state EXCEPT ![current] = "ZOMBIE"], GoTo("ret_to_user"))
        BY <3>2 DEF SysExit, do_exit
      <4> QED
        BY <4>1, <4>2, SwitchIsLegal
    <3>3. /\ SysOther => LegalMove(p)
          /\ \A pid \in Pid, sig \in Signals : SysKill(pid, sig) => LegalMove(p)
      BY <2>2 DEF SysOther, SysKill
    <3> QED
      BY <2>5, <3>1, <3>2, <3>3 DEF UserStep
  <2>6. CASE Irq
    BY <2>2, <2>6 DEF Irq, IrqFromUser, TimerIrqFromKernel
  <2>7. CASE UNCHANGED vars
    BY <2>2, <2>7 DEF vars
  <2> QED
    BY <2>4, <2>5, <2>6, <2>7 DEF Next
<1> QED
  BY <1>1, SpecIInv, PTL DEF Spec, SlotLifecycle, LegalMove
-----------------------------------------------------------------------------
(***************************************************************************)
(* The reaper runs masked.  switch_to() does not move PSTATE.I: a kernel   *)
(* thread runs unmasked only until user_test, which the first switch from  *)
(* main() goes to, enters user mode.  From then on kernel code is entered  *)
(* through an exception and stays masked.                                  *)
(***************************************************************************)
UserTestNext ==
  pc[1] = "user_test" /\ current # 1 =>
    current = 0 /\ Len(rq[HIGH]) > 0 /\ rq[HIGH][1] = 1

UnmaskedAtBoot ==
  ~masked /\ pc[current] \in KernelThread =>
    pc[0] = "create_user_test" \/ pc[1] = "user_test"

BootInv == IInv /\ UserTestNext /\ UnmaskedAtBoot

(* main() switches to the task at the head of the highest queue.           *)
LEMMA HeadRuns ==
  ASSUME IInv, current # 1, Len(rq[HIGH]) > 0, rq[HIGH][1] = 1,
         Schedule(state, pc)
  PROVE  current' = 1
<1> DEFINE st1 == Yielded(state)
           rq1 == Requeued(state)
           nonempty == {l \in Priority : rq1[l] # <<>>}
           first == Min(nonempty)
           q == rq1[first]
           runnable == {i \in 1..Len(q) : st1[q[i]] = "RUNNABLE"}
           k == Min(runnable)
<1>1. /\ st1 \in [Pid -> TaskState] /\ rq1 \in [Priority -> Seq(Pid)]
      /\ \A p \in Pid : st1[p] = IF state[p] = "RUNNING" THEN "RUNNABLE" ELSE state[p]
  BY CurrentFacts, YieldKeepsQueued
<1>2. /\ rq \in [Priority -> Seq(Pid)] /\ priority \in [Pid -> Priority]
      /\ HIGH \in Priority /\ current \in Pid /\ 1 \in Pid
  BY CurrentFacts DEF IInv, TypeOK, Priority
<1>3. rq1[HIGH] = rq[HIGH] \/ rq1[HIGH] = Push(rq[HIGH], current)
  BY <1>2 DEF Requeued
<1>4. Len(rq1[HIGH]) > 0 /\ rq1[HIGH][1] = 1
  <2>1. rq[HIGH] \in Seq(Pid)
    BY <1>2
  <2>2. \A q0 \in Seq(Pid) : Len(q0) > 0 =>
          Len(Append(q0, current)) > 0 /\ Append(q0, current)[1] = q0[1]
    BY <1>2
  <2> QED
    BY <1>3, <2>1, <2>2 DEF Push
<1>5. state[1] = "RUNNABLE"
  <2>1. 1 \in 1..Len(rq[HIGH])
    BY <1>2
  <2> QED
    BY <1>2, <2>1 DEF IInv, QueuedOnce, Queued
<1>6. first = HIGH
  <2>1. HIGH \in nonempty
    BY <1>2, <1>4
  <2>2. nonempty \in SUBSET Nat /\ \A l \in nonempty : HIGH <= l
    BY DEF Priority, HIGH, MEDIUM, LOW
  <2> HIDE DEF nonempty
  <2>3. first \in nonempty /\ first <= HIGH /\ HIGH <= first
    BY <2>1, <2>2, MinOfNat
  <2> HIDE DEF first
  <2>4. first \in Nat /\ HIGH \in Nat
    <3>1. \A l \in nonempty : l \in Nat
      BY <2>2
    <3> QED
      BY <2>3, <3>1 DEF HIGH
  <2> QED
    BY <2>3, <2>4
<1>7. q \in Seq(Pid) /\ Len(q) > 0 /\ q[1] = 1
  BY <1>1, <1>2, <1>4, <1>6
<1>8. nonempty # {}
  BY <1>2, <1>4
<1>9. runnable # {} /\ k = 1
  <2>1. 1 \in runnable
    <3>1. 1 \in 1..Len(q)
      BY <1>7
    <3>2. st1[1] = "RUNNABLE"
      BY <1>1, <1>2, <1>5
    <3> HIDE DEF st1, q
    <3> QED
      BY <1>7, <3>1, <3>2
  <2>2. runnable \in SUBSET Nat /\ \A i \in runnable : 1 <= i
    BY <1>7
  <2> HIDE DEF runnable
  <2>3. k \in runnable /\ k <= 1 /\ 1 <= k
    BY <2>1, <2>2, MinOfNat
  <2> HIDE DEF k
  <2>4. k \in Nat
    <3>1. \A i \in runnable : i \in Nat
      BY <2>2
    <3> QED
      BY <2>3, <3>1
  <2> QED
    BY <2>1, <2>3, <2>4
<1>10. current' = q[k]
  BY <1>8, <1>9 DEF Schedule
<1> QED
  BY <1>7, <1>9, <1>10

(* privilege_task_create() leaves the head of a queue where it is.         *)
LEMMA CreateKeepsHead ==
  ASSUME IInv, NEW func, NEW next, PrivilegeTaskCreate(func, HIGH, next)
  PROVE  \/ rq' = rq /\ state' = state
         \/ \E p \in Pid : state'[p] = "RUNNABLE" /\ rq'[HIGH] = Push(rq[HIGH], p)
<1> DEFINE free == {p \in Pid : state[p] = "FREE"}
           pid == Min(free)
<1>1. CASE free = {}
  BY <1>1 DEF PrivilegeTaskCreate
<1>2. CASE free # {}
  <2>1. pid \in Pid
    BY <1>2, MinOfNat DEF Pid
  <2>2. /\ state' = [state EXCEPT ![pid] = "RUNNABLE"]
        /\ rq' = [rq EXCEPT ![HIGH] = Push(@, pid)]
    BY <1>2 DEF PrivilegeTaskCreate
  <2> HIDE DEF pid
  <2>3. state \in [Pid -> TaskState] /\ rq \in [Priority -> Seq(Pid)] /\ HIGH \in Priority
    BY DEF IInv, TypeOK, Priority
  <2> QED
    BY <2>1, <2>2, <2>3
<1> QED
  BY <1>1, <1>2

(* main() creates user_test, which is the first in its queue.              *)
LEMMA BootCreateUserTest == BootInv /\ CreateUserTest => UserTestNext' /\ UnmaskedAtBoot'
<1> SUFFICES ASSUME BootInv, CreateUserTest PROVE UserTestNext' /\ UnmaskedAtBoot'
  OBVIOUS
<1>0. IInv /\ IInv'
  BY CreateUserTestKeeps DEF BootInv
<1>1. /\ pc[current] = "create_user_test"
      /\ PrivilegeTaskCreate("user_test", HIGH, "create_reaper")
      /\ UNCHANGED <<resched, sigpending, signal, current, masked>>
  BY DEF CreateUserTest, At, sigvars
<1>2. /\ current = 0 /\ 0 \in Pid /\ 1 \in Pid /\ state[0] = "RUNNING"
      /\ \A p \in Pid \ {0} : state[p] = "FREE"
  BY <1>0, <1>1, CurrentFacts DEF IInv, Boot
<1>3. NoSlot("create_reaper") \/ \E pid \in Pid : NewTask(pid, "user_test", "create_reaper")
  <2>1. /\ "user_test" \in Location \ {"none"}
        /\ "create_reaper" \in Location \ {"none"} /\ HIGH \in Priority
    BY DEF Location, KernelThread, Priority
  <2> QED
    BY <1>0, <1>1, <2>1, CreateMakesOne
<1>4. NewTask(1, "user_test", "create_reaper")
  <2>1. PICK pid \in Pid : NewTask(pid, "user_test", "create_reaper")
    BY <1>2, <1>3 DEF NoSlot
  <2>2. pid <= 1 /\ pid # 0
    BY <1>2, <2>1 DEF NewTask
  <2>3. pid = 1
    BY <2>2, KernelAssumption DEF Pid
  <2> QED
    BY <2>1, <2>3
<1>5. /\ pc'[1] = "user_test" /\ state'[0] = "RUNNING" /\ state'[1] = "RUNNABLE"
      /\ \A p \in Pid \ {0, 1} : state'[p] = "FREE"
  BY <1>2, <1>4 DEF NewTask
<1>6. Len(rq[HIGH]) = 0 /\ rq[HIGH] \in Seq(Pid)
  <2>1. rq[HIGH] \in Seq(Pid) /\ HIGH \in Priority
    BY <1>0 DEF IInv, TypeOK, Priority
  <2>2. ASSUME NEW i \in 1..Len(rq[HIGH]) PROVE FALSE
    <3>1. rq[HIGH][i] \in Pid /\ state[rq[HIGH][i]] = "RUNNABLE"
      BY <1>0, <2>1 DEF IInv, QueuedOnce, Queued
    <3> QED
      BY <1>2, <3>1
  <2>3. Len(rq[HIGH]) \in Nat
    BY <2>1
  <2>4. Len(rq[HIGH]) > 0 => 1 \in 1..Len(rq[HIGH])
    BY <2>3
  <2> QED
    BY <2>1, <2>2, <2>3, <2>4
<1>7. Len(rq'[HIGH]) > 0 /\ rq'[HIGH][1] = 1
  <2>1. PICK p \in Pid : state'[p] = "RUNNABLE" /\ rq'[HIGH] = Push(rq[HIGH], p)
    BY <1>0, <1>1, <1>2, <1>5, CreateKeepsHead
  <2>2. p = 1
    BY <1>5, <2>1
  <2>3. rq'[HIGH] = Append(rq[HIGH], 1)
    BY <1>6, <2>1, <2>2, KernelAssumption DEF Push
  <2> QED
    BY <1>2, <1>6, <2>3
<1> QED
  BY <1>1, <1>2, <1>5, <1>7 DEF UserTestNext, UnmaskedAtBoot

(* It then creates the reaper, behind it.                                  *)
LEMMA BootCreateReaper == BootInv /\ CreateReaper => UserTestNext' /\ UnmaskedAtBoot'
<1> SUFFICES ASSUME BootInv, CreateReaper PROVE UserTestNext' /\ UnmaskedAtBoot'
  OBVIOUS
<1>0. IInv
  BY DEF BootInv
<1>1. /\ pc[current] = "create_reaper"
      /\ PrivilegeTaskCreate("reaper", HIGH, "idle")
      /\ UNCHANGED <<resched, sigpending, signal, current, masked>>
  BY DEF CreateReaper, At, sigvars
<1>2. /\ current = 0 /\ 0 \in Pid /\ 1 \in Pid /\ state[1] = "RUNNABLE"
  BY <1>0, <1>1, CurrentFacts DEF IInv, Boot
<1>3. NoSlot("idle") \/ \E pid \in Pid : NewTask(pid, "reaper", "idle")
  <2>1. /\ "reaper" \in Location \ {"none"}
        /\ "idle" \in Location \ {"none"} /\ HIGH \in Priority
    BY DEF Location, KernelThread, Priority
  <2> QED
    BY <1>0, <1>1, <2>1, CreateMakesOne
<1>4. pc'[1] = pc[1]
  BY <1>2, <1>3 DEF NoSlot, NewTask
<1>5. Len(rq[HIGH]) > 0 /\ rq[HIGH][1] = 1 => Len(rq'[HIGH]) > 0 /\ rq'[HIGH][1] = 1
  <2>1. rq[HIGH] \in Seq(Pid)
    BY <1>0 DEF IInv, TypeOK, Priority
  <2>2. \A q0 \in Seq(Pid), p \in Pid : Len(q0) > 0 =>
          Len(Append(q0, p)) > 0 /\ Append(q0, p)[1] = q0[1]
    OBVIOUS
  <2> QED
    BY <1>0, <1>1, <2>1, <2>2, CreateKeepsHead DEF Push
<1> QED
  BY <1>1, <1>2, <1>4, <1>5 DEF BootInv, UserTestNext, UnmaskedAtBoot, KernelThread

(* Unmasked, idle() can only switch to user_test.                          *)
LEMMA BootIdle == BootInv /\ Idle => UserTestNext' /\ UnmaskedAtBoot'
<1> SUFFICES ASSUME BootInv, Idle PROVE UserTestNext' /\ UnmaskedAtBoot'
  OBVIOUS
<1>0. IInv
  BY DEF BootInv
<1>1. pc[current] = "idle" /\ pc[current] \in KernelThread /\ UNCHANGED masked
  BY DEF Idle, At, KernelThread
<1>2. /\ current \in Pid /\ pc \in [Pid -> Location] /\ 0 \in Pid /\ 1 \in Pid
      /\ pc[0] = "create_user_test" => current = 0
  BY <1>0, CurrentFacts DEF IInv, TypeOK, Boot
<1>3. pc[1] = "user_test" => current # 1
  BY <1>1
<1>4. ~masked => pc[1] = "user_test"
  BY <1>1, <1>2 DEF BootInv, UnmaskedAtBoot
<1>5. CASE num_runnable_tasks = 1
  <2>1. pc' = GoTo("finished") /\ UNCHANGED <<state, rq, current>>
    BY <1>5 DEF Idle
  <2>2. pc[1] = "user_test" => pc'[1] = "user_test"
    BY <1>2, <1>3, <2>1 DEF GoTo
  <2>3. pc'[1] = "user_test" => pc[1] = "user_test"
    BY <1>2, <2>1 DEF GoTo
  <2> QED
    BY <1>1, <1>4, <2>1, <2>2, <2>3 DEF BootInv, UserTestNext, UnmaskedAtBoot
<1>6. CASE num_runnable_tasks # 1
  <2>1. Schedule(state, pc)
    BY <1>6 DEF Idle
  <2>2. pc' = pc
    BY <2>1 DEF Schedule
  <2>3. pc[1] = "user_test" => current' = 1
    BY <1>0, <1>3, <2>1, HeadRuns DEF BootInv, UserTestNext
  <2> QED
    BY <1>1, <1>4, <2>2, <2>3 DEF UserTestNext, UnmaskedAtBoot
<1> QED
  BY <1>5, <1>6

(* The reaper's first turn comes after user_test has gone to user mode.    *)
LEMMA ReaperAfterUserTest ==
  ASSUME BootInv, pc[current] = "reaper"
  PROVE  masked /\ pc[1] # "user_test"
<1>1. /\ pc[0] \in {"create_user_test", "create_reaper", "idle", "finished"}
      /\ pc[0] = "create_user_test" => current = 0
  BY DEF BootInv, IInv, Boot
<1>2. pc[1] # "user_test"
  BY <1>1 DEF BootInv, UserTestNext
<1> QED
  BY <1>1, <1>2 DEF BootInv, UnmaskedAtBoot, KernelThread

(* The reaper finds interrupts masked.                                     *)
LEMMA BootReap == BootInv /\ Reap => UserTestNext' /\ UnmaskedAtBoot'
<1> SUFFICES ASSUME BootInv, Reap PROVE UserTestNext' /\ UnmaskedAtBoot'
  OBVIOUS
<1>1. pc[current] = "reaper" /\ UNCHANGED masked /\ pc' = Cleared(pc, "none")
  BY DEF Reap, At, Schedule
<1>2. masked /\ pc[1] # "user_test"
  BY <1>1, ReaperAfterUserTest
<1>3. pc'[1] # "user_test"
  <2>1. 1 \in Pid
    BY CurrentFacts DEF BootInv
  <2> QED
    BY <1>1, <1>2, <2>1 DEF Cleared
<1> QED
  BY <1>1, <1>2, <1>3 DEF UserTestNext, UnmaskedAtBoot

(* What a task does on the user side of the kernel does not bring          *)
(* user_test back, and leaves interrupts masked or goes to user mode.      *)
LEMMA BootUserSide ==
  ASSUME BootInv, pc[current] \in UserSide, NEW loc \in Location \ {"user_test"},
         \/ pc' = GoTo(loc)
         \/ \E pid \in Pid : pc' = [GoTo(loc) EXCEPT ![pid] = "ret_to_user"],
         masked' \/ pc'[current'] = "el0"
  PROVE  UserTestNext' /\ UnmaskedAtBoot'
<1>1. pc[1] # "user_test"
  BY CurrentFacts DEF BootInv, IInv, UserTestFirst
<1>2. pc \in [Pid -> Location] /\ current \in Pid /\ 1 \in Pid
  BY CurrentFacts DEF BootInv, IInv, TypeOK
<1>3. pc'[1] # "user_test"
  BY <1>1, <1>2 DEF GoTo
<1> QED
  BY <1>3 DEF UserTestNext, UnmaskedAtBoot, KernelThread

(* Every step keeps the invariant.                                         *)
LEMMA BootNext == BootInv /\ [Next]_vars => BootInv'
<1> SUFFICES ASSUME BootInv, [Next]_vars PROVE UserTestNext' /\ UnmaskedAtBoot'
  BY NextIInv DEF BootInv
<1>0. /\ IInv /\ pc \in [Pid -> Location] /\ current \in Pid
      /\ \A loc \in {"ret_to_user", "check_signal", "eret", "el0"} :
           loc \in Location \ {"user_test"}
  BY DEF BootInv, IInv, TypeOK, Location, KernelExit
<1>1. CASE CreateUserTest \/ CreateReaper \/ Idle \/ Reap
  BY <1>1, BootCreateUserTest, BootCreateReaper, BootIdle, BootReap
<1>2. CASE DoExec
  <2>1. current = 1
    BY <1>0, <1>2 DEF DoExec, At, IInv, UserTestFirst
  <2>2. pc'[1] = "el0" /\ current' = 1
    BY <1>0, <1>2, <2>1 DEF DoExec, GoTo
  <2> QED
    BY <2>2 DEF UserTestNext, UnmaskedAtBoot, KernelThread
<1>3. CASE SysFork
  <2>1. pc[current] \in UserSide /\ masked'
    BY <1>3 DEF SysFork, At, UserSide
  <2>2. \/ pc' = GoTo("ret_to_user")
        \/ \E pid \in Pid : pc' = [GoTo("ret_to_user") EXCEPT ![pid] = "ret_to_user"]
    <3> DEFINE free == {p \in Pid : state[p] = "FREE"}
    <3>1. free # {} => Min(free) \in Pid
      BY MinOfNat DEF Pid
    <3>2. PrivilegeTaskCreate("ret_to_user", HIGH, "ret_to_user")
      BY <1>3 DEF SysFork
    <3>3. CASE free = {}
      BY <3>2, <3>3 DEF PrivilegeTaskCreate
    <3>4. CASE free # {}
      BY <3>1, <3>2, <3>4 DEF PrivilegeTaskCreate
    <3> QED
      BY <3>3, <3>4
  <2> QED
    BY <1>0, <2>1, <2>2, BootUserSide
<1>4. CASE SysExit \/ SysOther \/ \E pid \in Pid, sig \in Signals : SysKill(pid, sig)
  <2>1. pc[current] \in UserSide /\ masked' /\ pc' = GoTo("ret_to_user")
    BY <1>4 DEF SysExit, SysOther, SysKill, do_exit, Schedule, At, UserSide
  <2> QED
    BY <1>0, <2>1, BootUserSide
<1>5. CASE \E timer \in BOOLEAN : IrqFromUser(timer)
  <2>1. pc[current] \in UserSide /\ masked' /\ pc' = GoTo("ret_to_user")
    BY <1>5 DEF IrqFromUser, At, UserSide
  <2> QED
    BY <1>0, <2>1, BootUserSide
<1>6. CASE TimerIrqFromKernel
  BY <1>6 DEF TimerIrqFromKernel, BootInv, UserTestNext, UnmaskedAtBoot
<1>7. CASE CheckResched
  <2>1. pc[current] \in UserSide /\ masked' /\ pc' = GoTo("check_signal")
    BY <1>0, <1>7 DEF CheckResched, Schedule, At, UserSide, KernelExit, IInv, MaskInv
  <2> QED
    BY <1>0, <2>1, BootUserSide
<1>8. CASE CheckSignal
  <2>1. pc[current] \in UserSide /\ masked' /\ pc' = GoTo("eret")
    BY <1>0, <1>8
       DEF CheckSignal, do_exit, Schedule, At, UserSide, KernelExit, IInv, MaskInv
  <2> QED
    BY <1>0, <2>1, BootUserSide
<1>9. CASE Eret
  <2>1. pc[current] \in UserSide /\ pc' = GoTo("el0") /\ UNCHANGED current
    BY <1>9 DEF Eret, At, UserSide, KernelExit
  <2>2. pc'[current'] = "el0"
    BY <1>0, <2>1 DEF GoTo
  <2> QED
    BY <1>0, <2>1, <2>2, BootUserSide
<1>10. CASE UNCHANGED vars
  BY <1>10 DEF vars, BootInv, UserTestNext, UnmaskedAtBoot
<1> QED
  BY <1>1, <1>2, <1>3, <1>4, <1>5, <1>6, <1>7, <1>8, <1>9, <1>10
     DEF Next, KernelStep, UserStep, Irq

(* At boot.                                                                *)
LEMMA BootInit == Init => BootInv
<1> SUFFICES ASSUME Init PROVE UserTestNext /\ UnmaskedAtBoot
  BY InitIInv DEF BootInv
<1>1. 0 \in Pid /\ 1 \in Pid
  BY KernelAssumption DEF Pid
<1> QED
  BY <1>1 DEF Init, UserTestNext, UnmaskedAtBoot

(* The reaper is never interrupted, from its first turn on: what it prints *)
(* and clears it does with interrupts masked.                              *)
THEOREM SpecReaperMasked == Spec => [](At("reaper") => masked)
<1>1. BootInv => (At("reaper") => masked)
  BY ReaperAfterUserTest DEF At
<1> QED
  BY <1>1, BootInit, BootNext, PTL DEF Spec
=============================================================================
