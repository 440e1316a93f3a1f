------------------------------ MODULE TaskQueue ------------------------------
(***************************************************************************)
(* What a run queue promises: a FIFO of at most Capacity tasks that drops  *)
(* what is pushed when it is full and returns NULL when it is empty.       *)
(***************************************************************************)
EXTENDS Naturals, Sequences

CONSTANTS Task, Capacity, NULL

VARIABLES
  queue,   \* the tasks, oldest first
  popped   \* what the last pop returned

Init == queue = <<>> /\ popped = NULL

Push(ts) ==
  /\ queue' = IF Len(queue) = Capacity THEN queue ELSE Append(queue, ts)
  /\ UNCHANGED popped

Pop ==
  \/ /\ queue = <<>>
     /\ popped' = NULL
     /\ UNCHANGED queue
  \/ /\ queue # <<>>
     /\ popped' = Head(queue)
     /\ queue' = Tail(queue)

Next == Pop \/ \E ts \in Task : Push(ts)

Spec == Init /\ [][Next]_<<queue, popped>>
=============================================================================
