------------------------------- MODULE Kernel -------------------------------
(***************************************************************************)
(* The task core of the kernel: the task pool, the three run queues, the   *)
(* scheduler, the system calls that create, kill and end tasks, the timer  *)
(* interrupt, the return path to user mode, and the three kernel threads   *)
(* (main/idle, user_test before its do_exec, zombie_reaper).               *)
(*                                                                         *)
(* There is one CPU.  `current' is tpidr_el1, `masked' is PSTATE.I and     *)
(* pc[p] is where task p executes (or will resume).  A kernel path that    *)
(* runs to its end without a context switch is one action; the only things *)
(* that can happen between two actions of the current task are interrupts, *)
(* and those only while ~masked.  switch_to saves and restores no DAIF, so *)
(* `masked' belongs to the CPU and not to a task.                          *)
(***************************************************************************)
EXTENDS Integers, Sequences, FiniteSets, FiniteSetsExt

CONSTANTS
  NR_TASKS,  \* size of task_pool
  Signals    \* the signal numbers user tasks pass to kill()

HIGH     == 0
MEDIUM   == 1
LOW      == 2
Priority == {HIGH, MEDIUM, LOW}
SIGKILL  == 9

ASSUME KernelAssumption ==
  /\ NR_TASKS \in Nat /\ NR_TASKS >= 3      \* main creates two tasks
  /\ Signals \subseteq 0..255               \* a uint8_t

Pid       == 0 .. NR_TASKS-1
TaskState == {"FREE", "RUNNABLE", "RUNNING", "ZOMBIE"}

(***************************************************************************)
(* Where a task is.  "none" is a context never filled in (pc = 0); the     *)
(* next six are kernel threads at EL1; "ret_to_user", "check_signal" and   *)
(* "eret" are the three parts of kernel_exit 0; "el0" is user code.        *)
(***************************************************************************)
KernelThread == {"create_user_test", "create_reaper", "idle", "finished",
                 "user_test", "reaper"}
KernelExit   == {"ret_to_user", "check_signal", "eret"}
Location     == {"none", "el0"} \cup KernelThread \cup KernelExit

VARIABLES
  state,       \* task_pool[p].state
  id,          \* task_pool[p].id
  priority,    \* task_pool[p].priority
  resched,     \* task_pool[p].resched
  sigpending,  \* task_pool[p].sigpending
  signal,      \* task_pool[p].signal, as the set of its bits
  pc,          \* where task p executes or resumes
  rq,          \* the run queues, oldest entry first
  current,     \* the task tpidr_el1 points to
  masked       \* IRQs are masked on the CPU

sigvars == <<sigpending, signal>>
vars    == <<state, id, priority, resched, sigpending, signal, pc, rq,
             current, masked>>
-----------------------------------------------------------------------------
(***************************************************************************)
(* Run queues.  Runqueue.tla shows that the ring buffer of task.c is this  *)
(* sequence; Push drops the task when the ring is full.                    *)
(***************************************************************************)
PushFront(q, p) == <<p>> \o q
Push(q, p) == IF Len(q) = NR_TASKS THEN q ELSE Append(q, p)

num_runnable_tasks == Len(rq[HIGH]) + Len(rq[MEDIUM]) + Len(rq[LOW])

(***************************************************************************)
(* schedule(), called by the current task when the task states are st; the *)
(* caller resumes at pcs[current].  A RUNNING caller goes to the tail of   *)
(* its queue; then the first non-empty queue is popped until a RUNNABLE    *)
(* task comes out, and the CPU is switched to that task.                   *)
(***************************************************************************)
StillRunning(st) == st
Yielded(st) == IF st[current] = "RUNNING"
               THEN [st EXCEPT ![current] = "RUNNABLE"]
               ELSE st

RequeuedAnyway(st) == [rq EXCEPT ![priority[current]] = Push(@, current)]
Requeued(st) == IF st[current] = "RUNNING"
                THEN [rq EXCEPT ![priority[current]] = Push(@, current)]
                ELSE rq

Schedule(st, pcs) ==
  LET st1      == Yielded(st)
      rq1      == Requeued(st)
      nonempty == {pri \in Priority : rq1[pri] # <<>>}
      first    == Min(nonempty)
      q        == rq1[first]
      runnable == {i \in 1..Len(q) : st1[q[i]] = "RUNNABLE"}
      k        == Min(runnable)
  IN  /\ pc' = pcs
      /\ IF nonempty = {}
         THEN state' = st1 /\ rq' = rq1 /\ UNCHANGED current
         ELSE IF runnable = {}
         THEN /\ state' = st1
              /\ rq' = [rq1 EXCEPT ![first] = <<>>]
              /\ UNCHANGED current
         ELSE /\ state' = [st1 EXCEPT ![q[k]] = "RUNNING"]
              /\ rq' = [rq1 EXCEPT ![first] = SubSeq(q, k+1, Len(q))]
              /\ current' = q[k]

GoTo(loc) == [pc EXCEPT ![current] = loc]

do_exitAndFree(resume) ==
  Schedule([state EXCEPT ![current] = "FREE"], GoTo(resume))

do_exit(resume) ==
  Schedule([state EXCEPT ![current] = "ZOMBIE"], GoTo(resume))

(***************************************************************************)
(* privilege_task_create_priority(): the lowest FREE slot becomes RUNNABLE *)
(* and will start at func.  Nothing resets the slot's resched, sigpending  *)
(* and signal.  The caller goes on at `next', whether or not there was a   *)
(* FREE slot.                                                              *)
(***************************************************************************)
PrivilegeTaskCreate(func, pri, next) ==
  LET free == {p \in Pid : state[p] = "FREE"}
      pid  == Min(free)
  IN  IF free = {}
      THEN pc' = GoTo(next) /\ UNCHANGED <<state, id, priority, rq>>
      ELSE /\ state' = [state EXCEPT ![pid] = "RUNNABLE"]
           /\ id' = [id EXCEPT ![pid] = pid]
           /\ priority' = [priority EXCEPT ![pid] = pri]
           /\ pc' = [GoTo(next) EXCEPT ![pid] = func]
           /\ rq' = [rq EXCEPT ![pri] = Push(@, pid)]
-----------------------------------------------------------------------------
(* main() right after task_init(), core_timer_init() and irq_enable().     *)
Init ==
  /\ state      = [p \in Pid |-> IF p = 0 THEN "RUNNING" ELSE "FREE"]
  /\ id         = [p \in Pid |-> 0]
  /\ priority   = [p \in Pid |-> IF p = 0 THEN LOW ELSE HIGH]
  /\ resched    = [p \in Pid |-> FALSE]
  /\ sigpending = [p \in Pid |-> FALSE]
  /\ signal     = [p \in Pid |-> {}]
  /\ pc         = [p \in Pid |-> IF p = 0 THEN "create_user_test" ELSE "none"]
  /\ rq         = [pri \in Priority |-> <<>>]
  /\ current    = 0
  /\ masked     = FALSE

At(loc) == pc[current] = loc

(* privilege_task_create(&user_test) in main() *)
CreateUserTest ==
  /\ At("create_user_test")
  /\ PrivilegeTaskCreate("user_test", HIGH, "create_reaper")
  /\ UNCHANGED <<resched, sigvars, current, masked>>

(* privilege_task_create_priority(&zombie_reaper, HIGH) in main() *)
CreateReaper ==
  /\ At("create_reaper")
  /\ PrivilegeTaskCreate("reaper", HIGH, "idle")
  /\ UNCHANGED <<resched, sigvars, current, masked>>

(* One turn of the loop of idle(). *)
Idle ==
  /\ At("idle")
  /\ IF num_runnable_tasks = 1
     THEN pc' = GoTo("finished") /\ UNCHANGED <<state, rq, current>>
     ELSE Schedule(state, pc)
  /\ UNCHANGED <<id, priority, resched, sigvars, masked>>

(* do_exec() of user_test: SPSR_EL1 = 0, so EL0 starts with IRQs unmasked. *)
DoExec ==
  /\ At("user_test")
  /\ pc' = GoTo("el0")
  /\ masked' = FALSE
  /\ UNCHANGED <<state, id, priority, resched, sigvars, rq, current>>

(***************************************************************************)
(* One turn of the loop of zombie_reaper(): memset(0) every ZOMBIE slot,   *)
(* then schedule().                                                        *)
(***************************************************************************)
ClearedButLast(f, zero) ==
  [p \in Pid |-> IF p < NR_TASKS-1 /\ state[p] = "ZOMBIE" THEN zero ELSE f[p]]
Cleared(f, zero) ==
  [p \in Pid |-> IF state[p] = "ZOMBIE" THEN zero ELSE f[p]]

ReapStateOnly ==
  /\ At("reaper")
  /\ Schedule(Cleared(state, "FREE"), pc)
  /\ UNCHANGED <<id, priority, resched, sigvars, masked>>
Reap ==
  /\ At("reaper")
  /\ id'         = Cleared(id, 0)
  /\ priority'   = Cleared(priority, HIGH)
  /\ resched'    = Cleared(resched, FALSE)
  /\ sigpending' = Cleared(sigpending, FALSE)
  /\ signal'     = Cleared(signal, {})
  /\ Schedule(Cleared(state, "FREE"), Cleared(pc, "none"))
  /\ UNCHANGED masked

(***************************************************************************)
(* System calls: svc from EL0 masks IRQs, the handler runs on the caller's *)
(* kernel stack and falls into ret_to_user.                                *)
(***************************************************************************)
SysFork ==
  /\ At("el0")
  /\ PrivilegeTaskCreate("ret_to_user", HIGH, "ret_to_user")
  /\ masked' = TRUE
  /\ UNCHANGED <<resched, sigvars, current>>

SysExit ==
  /\ At("el0")
  /\ do_exit("ret_to_user")
  /\ masked' = TRUE
  /\ UNCHANGED <<id, priority, resched, sigvars>>

(* 1 << sig on 64 bits: the shift instruction takes sig modulo 64. *)
SysKillUnwrapped(pid, sig) ==
  /\ At("el0")
  /\ sigpending' = [sigpending EXCEPT ![pid] = TRUE]
  /\ signal' = [signal EXCEPT ![pid] = @ \cup {sig}]
  /\ pc' = GoTo("ret_to_user")
  /\ masked' = TRUE
  /\ UNCHANGED <<state, id, priority, resched, rq, current>>
SysKillNotPending(pid, sig) ==
  /\ At("el0")
  /\ signal' = [signal EXCEPT ![pid] = @ \cup {sig % 64}]
  /\ pc' = GoTo("ret_to_user")
  /\ masked' = TRUE
  /\ UNCHANGED <<state, id, priority, resched, sigpending, rq, current>>
SysKill(pid, sig) ==
  /\ At("el0")
  /\ sigpending' = [sigpending EXCEPT ![pid] = TRUE]
  /\ signal' = [signal EXCEPT ![pid] = @ \cup {sig % 64}]
  /\ pc' = GoTo("ret_to_user")
  /\ masked' = TRUE
  /\ UNCHANGED <<state, id, priority, resched, rq, current>>

(* The calls that touch no task field: uart_read, uart_write, exec,        *)
(* get_timestamp, init_timers, get_taskid and an unknown number.           *)
SysOtherUnmasks ==
  /\ At("el0")
  /\ pc' = GoTo("ret_to_user")
  /\ UNCHANGED <<state, id, priority, resched, sigvars, rq, current, masked>>
SysOther ==
  /\ At("el0")
  /\ pc' = GoTo("ret_to_user")
  /\ masked' = TRUE
  /\ UNCHANGED <<state, id, priority, resched, sigvars, rq, current>>

(***************************************************************************)
(* Interrupts.  irq_handler() serves every pending source; what matters to *)
(* the tasks is whether the core timer is one of them.  From EL0 the       *)
(* handler returns through ret_to_user, from EL1 straight to where it was. *)
(***************************************************************************)
core_timer_handler == resched' = [resched EXCEPT ![current] = TRUE]

IrqFromUser(timer) ==
  /\ ~masked /\ At("el0")
  /\ IF timer THEN core_timer_handler ELSE UNCHANGED resched
  /\ pc' = GoTo("ret_to_user")
  /\ masked' = TRUE
  /\ UNCHANGED <<state, id, priority, sigvars, rq, current>>

TimerIrqFromKernel ==
  /\ ~masked /\ ~At("el0")
  /\ core_timer_handler
  /\ UNCHANGED <<state, id, priority, sigvars, pc, rq, current, masked>>

(* kernel_exit 0: check_resched(), check_signal(), restore and eret. *)
CheckResched ==
  /\ At("ret_to_user")
  /\ IF resched[current]
     THEN /\ resched' = [resched EXCEPT ![current] = FALSE]
          /\ Schedule(state, GoTo("check_signal"))
     ELSE /\ pc' = GoTo("check_signal")
          /\ UNCHANGED <<state, resched, rq, current>>
  /\ UNCHANGED <<id, priority, sigvars, masked>>

CheckSignalNoKill ==
  /\ At("check_signal")
  /\ sigpending' = [sigpending EXCEPT ![current] = @ /\ signal[current] # {}]
  /\ pc' = GoTo("eret")
  /\ UNCHANGED <<state, id, priority, resched, signal, rq, current, masked>>
CheckSignal ==
  /\ At("check_signal")
  /\ IF sigpending[current] /\ SIGKILL \in signal[current]
     THEN do_exit("eret") /\ UNCHANGED sigpending
     ELSE /\ sigpending' = [sigpending EXCEPT ![current] =
                                @ /\ signal[current] # {}]
          /\ pc' = GoTo("eret")
          /\ UNCHANGED <<state, rq, current>>
  /\ UNCHANGED <<id, priority, resched, signal, masked>>

(* SPSR_EL1 is the one saved on entry from EL0, where IRQs are unmasked. *)
Eret ==
  /\ At("eret")
  /\ pc' = GoTo("el0")
  /\ masked' = FALSE
  /\ UNCHANGED <<state, id, priority, resched, sigvars, rq, current>>
-----------------------------------------------------------------------------
KernelStep ==
  \/ CreateUserTest \/ CreateReaper \/ Idle \/ DoExec \/ Reap
  \/ CheckResched \/ CheckSignal \/ Eret

UserStep ==
  \/ SysFork \/ SysExit \/ SysOther
  \/ \E pid \in Pid, sig \in Signals : SysKill(pid, sig)

Irq ==
  \/ \E timer \in BOOLEAN : IrqFromUser(timer)
  \/ TimerIrqFromKernel

Next == KernelStep \/ UserStep \/ Irq

Spec == Init /\ [][Next]_vars

(***************************************************************************)
(* Kernel code always goes on, and the core timer, which its handler       *)
(* re-arms and which stays asserted until it is served, always interrupts  *)
(* user code again: it is enabled whenever EL0 is reached, so strongly     *)
(* fair.  User code owes nothing: it may loop forever.                     *)
(***************************************************************************)
FairSpec == Spec /\ WF_vars(KernelStep) /\ SF_vars(IrqFromUser(TRUE))
-----------------------------------------------------------------------------
(* Properties. *)

(* Every field holds a value of its C type, and every queue only pids. *)
TypeOK ==
  /\ state      \in [Pid -> TaskState]
  /\ id         \in [Pid -> Pid]
  /\ priority   \in [Pid -> Priority]
  /\ resched    \in [Pid -> BOOLEAN]
  /\ sigpending \in [Pid -> BOOLEAN]
  /\ signal     \in [Pid -> SUBSET (0..63)]
  /\ pc         \in [Pid -> Location]
  /\ rq         \in [Priority -> Seq(Pid)]
  /\ current    \in Pid
  /\ masked     \in BOOLEAN

(* Exactly the task on the CPU is RUNNING: schedule() never comes back to  *)
(* a task that called exit() or was killed ("Should not be printed" in     *)
(* test_case.c), and never returns without having found a task to run.     *)
OneRunning == \A p \in Pid : state[p] = "RUNNING" <=> p = current

(* The tasks in the queues are the RUNNABLE tasks, each of them once and   *)
(* in the queue of its priority: no task is lost and none runs twice.      *)
Queued(qs, st, pri) ==
  /\ \A l \in Priority : \A i \in 1..Len(qs[l]) :
        /\ st[qs[l][i]] = "RUNNABLE"
        /\ pri[qs[l][i]] = l
        /\ \A j \in 1..Len(qs[l]) : qs[l][i] = qs[l][j] => i = j
  /\ \A p \in Pid : st[p] = "RUNNABLE" =>
        \E i \in 1..Len(qs[pri[p]]) : qs[pri[p]][i] = p

QueuedOnce == Queued(rq, state, priority)

(* runqueue_push() silently drops the task when the queue is full; that    *)
(* never happens: a queue always has room for the task being pushed.       *)
QueueHasRoom == \A pri \in Priority : Len(rq[pri]) < NR_TASKS

(* The return path to user mode runs with IRQs masked in every task, even  *)
(* though switch_to does not carry DAIF along and idle() and user_test()   *)
(* call into the kernel with IRQs unmasked: no interrupt can overwrite     *)
(* ELR_EL1 and SPSR_EL1 between their restore and the eret.                *)
KernelExitMasked == pc[current] \in KernelExit => masked

(* main/idle and the reaper never end, even when SIGKILL is posted to      *)
(* them: they never pass through check_signal().                           *)
KernelThreadsLive ==
  /\ state[0] \in {"RUNNABLE", "RUNNING"}
  /\ pc[0] \in {"idle", "finished"} =>
        \E p \in Pid : pc[p] = "reaper" /\ state[p] \in {"RUNNABLE", "RUNNING"}

(* Every live task runs on its own kernel and user stack (the stacks are   *)
(* found through the id field) from a context that has been filled in; a   *)
(* FREE slot carries no context and no leftover resched flag.              *)
SlotContext ==
  \A p \in Pid :
    /\ state[p] \in {"RUNNABLE", "RUNNING"} => id[p] = p /\ pc[p] # "none"
    /\ state[p] = "FREE" => pc[p] = "none" /\ ~resched[p]

(* A task with SIGKILL posted never gets back to user mode: whatever was   *)
(* interrupted or switched out, check_signal() stands before the eret.     *)
KilledStaysOut ==
  [][\A p \in Pid :
        pc[p] # "el0" /\ pc'[p] = "el0" => SIGKILL \notin signal[p]]_vars

(* A slot is freed only after its task ended, by a task other than its     *)
(* own; a task ends only while it is on the CPU.                           *)
SlotLifecycle ==
  [][\A p \in Pid :
        /\ state[p] # "FREE" /\ state'[p] = "FREE" =>
              state[p] = "ZOMBIE" /\ current # p
        /\ state[p] # "ZOMBIE" /\ state'[p] = "ZOMBIE" => p = current
        /\ state[p] = "FREE" => state'[p] \in {"FREE", "RUNNABLE"}]_vars

(* Round robin: a RUNNABLE task of the highest priority gets the CPU.      *)
HighRuns ==
  \A p \in Pid :
    state[p] = "RUNNABLE" /\ priority[p] = HIGH ~> current = p

(* Every task that ended is reaped. *)
ZombieReaped == \A p \in Pid : state[p] = "ZOMBIE" ~> state[p] = "FREE"

(* A kill(pid, 9) of a task in user code takes effect, even if the task    *)
(* never makes another system call.                                        *)
KillDelivered ==
  \A p \in Pid :
    pc[p] \in {"el0"} \cup KernelExit /\ SIGKILL \in signal[p]
      ~> state[p] \in {"ZOMBIE", "FREE"}

(* test_case.c: once only idle and the reaper are left, idle() prints      *)
(* "Test finished".                                                        *)
OnlyKernelThreads ==
  /\ pc[0] = "idle"
  /\ \A p \in Pid \ {0} : state[p] = "FREE" \/ pc[p] = "reaper"

TestFinishes == OnlyKernelThreads ~> pc[0] = "finished"
=============================================================================
