----------------------------- MODULE UserMachine -----------------------------
(***************************************************************************)
(* What the kernel promises a user task: a machine of its own.  A task's   *)
(* registers and stack change only by its own instructions and system      *)
(* calls; being interrupted, switched out and resumed changes nothing.     *)
(***************************************************************************)
CONSTANTS
  Task, UserPC, Offset, Data, Result,
  Entry,       \* where a task created by the kernel starts
  Top,         \* the offset of an empty stack
  NoContext,   \* the task has no user context
  Nobody       \* no task is in user mode

Context ==
  [pc : UserPC, offset : Offset, x0 : Result, stack : Data]

VARIABLES
  ctx,         \* the user context of every task
  running      \* the task in user mode

Init ==
  /\ ctx = [p \in Task |-> NoContext]
  /\ running = Nobody

(* Only the task in user mode executes instructions. *)
Execute ==
  /\ running # Nobody
  /\ \E c \in Context :
       /\ c.x0 = ctx[running].x0
       /\ ctx' = [ctx EXCEPT ![running] = c]
  /\ UNCHANGED running

Interrupt ==
  /\ running # Nobody /\ running' = Nobody
  /\ UNCHANGED ctx

(* A system call gives the caller a result and changes nothing else. *)
Call(r) ==
  /\ running # Nobody /\ running' = Nobody
  /\ ctx' = [ctx EXCEPT ![running].x0 = r]

(* The caller starts over in another function, on an empty stack. *)
Exec(f) ==
  /\ running # Nobody /\ running' = Nobody
  /\ ctx' = [ctx EXCEPT ![running].pc = f, ![running].offset = Top,
                        ![running].x0 = 0]

(* The child is a copy of the caller, but for the result. *)
Fork(child) ==
  /\ running # Nobody /\ running' = Nobody
  /\ ctx[child] = NoContext
  /\ ctx' = [ctx EXCEPT ![running].x0 = child,
                        ![child] = [ctx[running] EXCEPT !.x0 = 0]]

Resume(p) ==
  /\ running = Nobody /\ ctx[p] # NoContext
  /\ running' = p
  /\ UNCHANGED ctx

Start(p) ==
  /\ running = Nobody /\ ctx[p] = NoContext
  /\ running' = p
  /\ \E c \in Context :
       /\ c.pc = Entry /\ c.offset = Top
       /\ ctx' = [ctx EXCEPT ![p] = c]

End(p) ==
  /\ ctx[p] # NoContext
  /\ running \in {p, Nobody} /\ running' = Nobody
  /\ ctx' = [ctx EXCEPT ![p] = NoContext]

Next ==
  \/ Execute \/ Interrupt
  \/ \E r \in Result : Call(r)
  \/ \E f \in UserPC : Exec(f)
  \/ \E p \in Task : Fork(p) \/ Resume(p) \/ Start(p) \/ End(p)

Spec == Init /\ [][Next]_<<ctx, running>>
=============================================================================
