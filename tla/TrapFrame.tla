------------------------------ MODULE TrapFrame ------------------------------
(***************************************************************************)
(* How user contexts travel between the CPU registers and the trap frames  *)
(* on the kernel stacks: entry.S, do_exec(), do_fork(), sys_exec() and     *)
(* switch_to.S, with interrupts between any two steps that run unmasked.   *)
(*                                                                         *)
(* Task 0 is main() in idle(), task 1 user_test(), task 2 zombie_reaper(). *)
(* Kernel.tla has the scheduler; here schedule() picks any RUNNABLE task,  *)
(* and any task in user mode may be due for a reschedule or a kill.        *)
(***************************************************************************)
EXTENDS Integers, Sequences, SequencesExt, FiniteSetsExt

CONSTANTS
  NR_TASKS,
  UserPC,    \* addresses of user code, as values to tell apart
  Test,      \* signal_test(), which user_test() executes
  Offset,    \* distances of a stack pointer from the top of its stack
  Data       \* contents of a user stack

Pid    == 0 .. NR_TASKS-1
Result == -1 .. NR_TASKS-1

(* do_exec's instructions, kernel_exit's parts, and where threads loop.    *)
(* "user_at_el1" is user code running at EL1.                              *)
ExecStep   == {"exec", "exec_spsr_set", "exec_elr_set", "exec_eret"}
KernelExit == {"ret_to_user", "check_signal", "restore", "restored"}
Location   == {"idle", "reaper", "el0", "user_at_el1"}
                \cup ExecStep \cup KernelExit

ASSUME TrapFrameAssumption ==
  /\ NR_TASKS \in Nat /\ NR_TASKS >= 3
  /\ Test \in UserPC /\ Offset \subseteq Nat /\ 0 \in Offset
  /\ UserPC \cap Location = {}

StackPointer == [stack : Pid, offset : Offset]
Frame == [elr : UserPC \cup Location, spsr : {"EL0t", "EL1h"},
          sp_el0 : StackPointer, x0 : Result]

VARIABLES
  state,    \* "free", "live" or "zombie", for each slot
  current,  \* tpidr_el1
  at,       \* where the CPU executes
  masked,   \* PSTATE.I
  pc,       \* the CPU's pc in user code
  x0, sp_el0, elr, spsr,   \* the registers of the same name
  kstack,   \* the trap frames on each kernel stack, the top one last
  saved,    \* cpu_context.pc of each switched-out task
  ustack    \* the contents of each user stack

cpu  == <<pc, x0, sp_el0, elr, spsr>>
vars == <<state, current, at, masked, cpu, kstack, saved, ustack>>

(* main() has created its two threads and entered idle().                  *)
Init ==
  /\ state   = [p \in Pid |-> IF p \in 0..2 THEN "live" ELSE "free"]
  /\ current = 0 /\ at = "idle" /\ masked = FALSE
  /\ pc = Test /\ x0 = 0 /\ elr = Test /\ spsr = "EL1h"
  /\ sp_el0 = [stack |-> 0, offset |-> 0]
  /\ kstack  = [p \in Pid |-> <<>>]
  /\ saved   = [p \in Pid |-> CASE p = 1 -> "exec" [] p = 2 -> "reaper"
                                [] OTHER -> "idle"]
  /\ ustack \in [Pid -> Data]
-----------------------------------------------------------------------------
(* kernel_entry: a frame with the interrupted state goes onto the stack.   *)
Pushed(f) == [kstack EXCEPT ![current] = Append(@, f)]

UserFrame ==
  [elr |-> pc, spsr |-> "EL0t", sp_el0 |-> sp_el0, x0 |-> x0]

(* The exception itself sets ELR_EL1 and SPSR_EL1 and masks interrupts.    *)
Taken(return, mode) == elr' = return /\ spsr' = mode /\ masked' = TRUE

(* switch_to(): the old task will resume at `resume', the new one resumes  *)
(* where it was saved.  No system register moves, nor does DAIF.           *)
SwitchTo(st, resume) ==
  \E next \in {p \in Pid : st[p] = "live"} :
    LET places == [saved EXCEPT ![current] = resume]
    IN  /\ state' = st
        /\ saved' = places
        /\ current' = next
        /\ at' = places[next]
-----------------------------------------------------------------------------
(* User code at EL0 moves on, moves its stack pointer, writes its stack.   *)
Execute ==
  /\ at = "el0"
  /\ pc' \in UserPC
  /\ \E off \in Offset : sp_el0' = [sp_el0 EXCEPT !.offset = off]
  /\ \E d \in Data : ustack' = [ustack EXCEPT ![sp_el0.stack] = d]
  /\ UNCHANGED <<state, current, at, masked, x0, elr, spsr, kstack, saved>>

(* A system call: handler makes the frame from the one at entry.           *)
Svc(tf) ==
  /\ at = "el0"
  /\ Taken(pc, "EL0t")
  /\ kstack' = Pushed(tf)
  /\ at' = "ret_to_user"
  /\ UNCHANGED <<state, current, pc, x0, sp_el0, saved, ustack>>

(* The calls that only return a result: tf->x[0] = ret. *)
SysOther(ret) == Svc([UserFrame EXCEPT !.x0 = ret])

(* sys_exec(): the same task goes on in func, from the top of its stack.   *)
SysExecKeepsStack(func) == Svc([UserFrame EXCEPT !.elr = func, !.x0 = 0])
SysExec(func) ==
  Svc([UserFrame EXCEPT !.elr = func, !.x0 = 0,
                        !.sp_el0 = [stack |-> current, offset |-> 0]])

(* do_fork(): the child gets a copy of the user stack and of the frame, at *)
(* the top of its kernel stack, and starts in ret_to_user.                 *)
ForkSharesStack(child, tf) == [tf EXCEPT !.x0 = 0]
ForkFrame(child, tf) == [tf EXCEPT !.x0 = 0, !.sp_el0.stack = child]

SysFork ==
  /\ at = "el0"
  /\ Taken(pc, "EL0t")
  /\ at' = "ret_to_user"
  /\ LET free  == {p \in Pid : state[p] = "free"}
         child == Min(free)
     IN  IF free = {}
         THEN /\ kstack' = Pushed([UserFrame EXCEPT !.x0 = -1])
              /\ UNCHANGED <<state, saved, ustack>>
         ELSE /\ state'  = [state EXCEPT ![child] = "live"]
              /\ saved'  = [saved EXCEPT ![child] = "ret_to_user"]
              /\ ustack' = [ustack EXCEPT ![child] = ustack[current]]
              /\ kstack' = [Pushed([UserFrame EXCEPT !.x0 = child])
                             EXCEPT ![child] = <<ForkFrame(child, UserFrame)>>]
  /\ UNCHANGED <<current, pc, x0, sp_el0>>

(* sys_exit(): the frame stays on the stack of a task that is not resumed. *)
SysExit ==
  /\ at = "el0"
  /\ Taken(pc, "EL0t")
  /\ kstack' = Pushed(UserFrame)
  /\ SwitchTo([state EXCEPT ![current] = "zombie"], "ret_to_user")
  /\ UNCHANGED <<pc, x0, sp_el0, ustack>>

(* An interrupt, or an exception that is only printed, in user mode.       *)
TrapFromUser ==
  /\ at = "el0"
  /\ Taken(pc, "EL0t")
  /\ kstack' = Pushed(UserFrame)
  /\ at' = "ret_to_user"
  /\ UNCHANGED <<state, current, pc, x0, sp_el0, saved, ustack>>

(* kernel_exit 1 has none of the checks of kernel_exit 0.                  *)
ThroughRetToUser == "ret_to_user"
WayBack == "restore"

(***************************************************************************)
(* An interrupt of the kernel: irq_handler() runs on the interrupt stack,  *)
(* masked, and kernel_exit 1 returns to the interrupted instruction.  User *)
(* code at EL1 also ends here with its svc, which is printed as an         *)
(* unexpected exception.                                                   *)
(***************************************************************************)
IrqFromKernel ==
  /\ ~masked /\ at # "el0"
  /\ LET return == IF at = "user_at_el1" THEN pc ELSE at
     IN  /\ Taken(return, "EL1h")
         /\ kstack' = Pushed([elr |-> return, spsr |-> "EL1h",
                              sp_el0 |-> sp_el0, x0 |-> x0])
  /\ at' = WayBack
  /\ UNCHANGED <<state, current, pc, x0, sp_el0, saved, ustack>>
-----------------------------------------------------------------------------
(* idle() and zombie_reaper(), which frees the ended tasks, schedule.      *)
Idle ==
  /\ at = "idle"
  /\ SwitchTo(state, "idle")
  /\ UNCHANGED <<masked, cpu, kstack, ustack>>

Reap ==
  /\ at = "reaper"
  /\ SwitchTo([p \in Pid |-> IF state[p] = "zombie" THEN "free" ELSE state[p]],
              "reaper")
  /\ UNCHANGED <<masked, cpu, kstack, ustack>>

(* do_exec() of user_test(), an instruction at a time. *)
ExecSetSpsr ==
  /\ at = "exec" /\ at' = "exec_spsr_set"
  /\ spsr' = "EL0t"
  /\ UNCHANGED <<state, current, masked, pc, x0, sp_el0, elr, kstack, saved,
                 ustack>>

ExecSetElr ==
  /\ at = "exec_spsr_set" /\ at' = "exec_elr_set"
  /\ elr' = Test
  /\ UNCHANGED <<state, current, masked, pc, x0, sp_el0, spsr, kstack, saved,
                 ustack>>

ExecSetSp ==
  /\ at = "exec_elr_set" /\ at' = "exec_eret"
  /\ sp_el0' = [stack |-> current, offset |-> 0]
  /\ UNCHANGED <<state, current, masked, pc, x0, elr, spsr, kstack, saved,
                 ustack>>

(* kernel_exit 0 first gives the CPU away if the task is due for it ...    *)
CheckResched ==
  /\ at = "ret_to_user"
  /\ \/ /\ at' = "check_signal"
        /\ UNCHANGED <<state, current, saved>>
     \/ SwitchTo(state, "check_signal")
  /\ UNCHANGED <<masked, cpu, kstack, ustack>>

(* ... and ends it if it was killed.                                       *)
CheckSignal ==
  /\ at = "check_signal"
  /\ \/ /\ at' = "restore"
        /\ UNCHANGED <<state, current, saved>>
     \/ SwitchTo([state EXCEPT ![current] = "zombie"], "restore")
  /\ UNCHANGED <<masked, cpu, kstack, ustack>>

(* Where kernel_exit takes SP_EL0 from, and `add sp, sp, #size'.           *)
StackPointerKept(f) == sp_el0
StackPointerOf(f) == f.sp_el0

FrameLeft(s) == s
FramePopped(s) == Front(s)

(* The rest of kernel_exit, the same for both levels.                      *)
Restore ==
  /\ at = "restore" /\ at' = "restored"
  /\ LET f == Last(kstack[current])
     IN  elr' = f.elr /\ spsr' = f.spsr /\ x0' = f.x0 /\ sp_el0' = StackPointerOf(f)
  /\ kstack' = [kstack EXCEPT ![current] = FramePopped(@)]
  /\ UNCHANGED <<state, current, masked, pc, saved, ustack>>

(* Where ELR_EL1 and SPSR_EL1 lead.                                        *)
AlwaysToKernel == elr
Target == IF elr \notin UserPC THEN elr
          ELSE IF spsr = "EL0t" THEN "el0" ELSE "user_at_el1"

(* eret: both modes it returns to are unmasked.                            *)
Eret ==
  /\ at \in {"restored", "exec_eret"}
  /\ masked' = FALSE
  /\ at' = Target
  /\ pc' = IF elr \in UserPC THEN elr ELSE pc
  /\ UNCHANGED <<state, current, x0, sp_el0, elr, spsr, kstack, saved, ustack>>
-----------------------------------------------------------------------------
Next ==
  \/ Execute \/ SysFork \/ SysExit \/ TrapFromUser
  \/ \E ret \in {-1, 0} : SysOther(ret)
  \/ \E func \in UserPC : SysExec(func)
  \/ IrqFromKernel
  \/ Idle \/ Reap
  \/ ExecSetSpsr \/ ExecSetElr \/ ExecSetSp
  \/ CheckResched \/ CheckSignal \/ Restore \/ Eret

Spec == Init /\ [][Next]_vars
-----------------------------------------------------------------------------
TypeOK ==
  /\ state \in [Pid -> {"free", "live", "zombie"}]
  /\ current \in Pid /\ at \in Location /\ masked \in BOOLEAN
  /\ pc \in UserPC /\ x0 \in Result /\ sp_el0 \in StackPointer
  /\ elr \in UserPC \cup Location /\ spsr \in {"EL0t", "EL1h"}
  /\ kstack \in [Pid -> Seq(Frame)]
  /\ saved \in [Pid -> Location]
  /\ ustack \in [Pid -> Data]

(* The kernel stack of a task neither grows nor shrinks over a trap: it    *)
(* holds one user frame while the task is inside the kernel on behalf of   *)
(* user code, and none in user mode, however often it was interrupted.     *)
KernelStackBalanced ==
  /\ at = "el0" => kstack[current] = <<>>
  /\ \A p \in Pid \ {current} :
       state[p] = "live" =>
         Len(kstack[p]) = IF saved[p] \in KernelExit THEN 1 ELSE 0

(* A context switch never moves an interrupted kernel path: only whole     *)
(* user contexts wait on the kernel stacks of tasks that are switched out. *)
OnlyUserFramesWait ==
  \A p \in Pid \ {current} : \A i \in 1..Len(kstack[p]) :
    kstack[p][i].spsr = "EL0t"

(***************************************************************************)
(* The user context of a task: in the registers in user mode and after     *)
(* they were restored, otherwise in the frame on its kernel stack.  Offset *)
(* -1 stands for a stack pointer into another task's stack.                *)
(***************************************************************************)
NoContext == [pc |-> "none"]
Nobody    == -1

Context(p, upc, sp, r) ==
  [pc     |-> upc,
   offset |-> IF sp.stack = p THEN sp.offset ELSE -1,
   x0     |-> r,
   stack  |-> ustack[p]]

UserContext(p) ==
  IF state[p] # "live" THEN NoContext
  ELSE IF p = current /\ at = "el0" THEN Context(p, pc, sp_el0, x0)
  ELSE IF kstack[p] # <<>> /\ kstack[p][1].spsr = "EL0t"
  THEN LET f == kstack[p][1] IN Context(p, f.elr, f.sp_el0, f.x0)
  ELSE IF p = current /\ at = "restored" /\ spsr = "EL0t"
  THEN Context(p, elr, sp_el0, x0)
  ELSE NoContext

(* Every user task sees a machine of its own: registers, stack pointer and *)
(* stack survive interrupts, context switches and other tasks' calls, and  *)
(* a forked child is an exact copy on its own stack.                       *)
User == INSTANCE UserMachine
          WITH Task      <- Pid,
               Entry     <- Test,
               Top       <- 0,
               ctx       <- [p \in Pid |-> UserContext(p)],
               running   <- IF at = "el0" THEN current ELSE Nobody
IsUserMachine == User!Spec

(* "EL0t" (task.c): do_exec() ends in user mode, at the function it was    *)
(* given.                                                                  *)
ExecEntersUser == [][at = "exec_eret" /\ at' # at /\ at' # "restore"
                      => at' = "el0" /\ pc' = Test]_vars
=============================================================================
