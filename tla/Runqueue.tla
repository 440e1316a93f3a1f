------------------------------ MODULE Runqueue ------------------------------
(***************************************************************************)
(* The ring buffer behind one run queue: runqueue_push(), runqueue_pop()   *)
(* and the predicates on it in kernel/task.c.  One slot of the array stays *)
(* unused, so that a full ring differs from an empty one.                  *)
(***************************************************************************)
EXTENDS Naturals, Sequences

CONSTANTS
  NR_TASKS,  \* the ring has NR_TASKS + 1 slots
  Task,      \* the task structures
  NULL

ASSUME RunqueueAssumption == NR_TASKS \in Nat \ {0} /\ NULL \notin Task

Slot == 0 .. NR_TASKS

VARIABLES
  tasks,   \* the array; a popped slot keeps its old value
  head,    \* the slot of the oldest task
  tail,    \* the slot after the newest task
  popped   \* what the last runqueue_pop() returned

vars == <<tasks, head, tail, popped>>

SuccRunsOff(i) == i + 1
SuccShort(i) == (i + 1) % NR_TASKS
Succ(i) == (i + 1) % (NR_TASKS + 1)

runqueue_empty == tail = head

FullAtEndOnly == tail = NR_TASKS /\ head = 0
runqueue_full == Succ(tail) = head

runqueue_size == IF tail >= head THEN tail - head
                                 ELSE tail + (NR_TASKS + 1) - head

Init ==
  /\ tasks = [i \in Slot |-> NULL]
  /\ head = 0 /\ tail = 0
  /\ popped = NULL

runqueue_push(ts) ==
  /\ IF runqueue_full
     THEN UNCHANGED <<tasks, tail>>
     ELSE /\ tasks' = [tasks EXCEPT ![tail] = ts]
          /\ tail' = Succ(tail)
  /\ UNCHANGED <<head, popped>>

runqueue_pop ==
  /\ IF runqueue_empty
     THEN popped' = NULL /\ UNCHANGED head
     ELSE /\ popped' = tasks[head]
          /\ head' = Succ(head)
  /\ UNCHANGED <<tasks, tail>>

Next == runqueue_pop \/ \E ts \in Task : runqueue_push(ts)

Spec == Init /\ [][Next]_vars
-----------------------------------------------------------------------------
(* The tasks in the ring, oldest first. *)
Contents ==
  [i \in 1..runqueue_size |-> tasks[(head + i - 1) % (NR_TASKS + 1)]]

(* head and tail stay inside the array and the ring holds tasks. *)
TypeOK ==
  /\ tasks \in [Slot -> Task \cup {NULL}]
  /\ head \in Slot /\ tail \in Slot
  /\ popped \in Task \cup {NULL}

(* "circular queue actual size = array size - 1" (task.h): the size the    *)
(* positions give is 0 exactly when the ring is empty and NR_TASKS exactly *)
(* when it is full, whichever way they have wrapped.                       *)
SizeTellsState ==
  /\ runqueue_size \in 0..NR_TASKS
  /\ runqueue_size = 0 <=> runqueue_empty
  /\ runqueue_size = NR_TASKS <=> runqueue_full

(* The ring is the FIFO of NR_TASKS tasks that Kernel.tla schedules from:  *)
(* nothing is lost, duplicated or reordered across a wrap-around, and a    *)
(* pop never returns the stale value of an unused slot.                    *)
Queue == INSTANCE TaskQueue
           WITH queue <- Contents, Capacity <- NR_TASKS
IsFifo == Queue!Spec
=============================================================================
