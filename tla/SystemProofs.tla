---------------------------- MODULE SystemProofs ----------------------------
(***************************************************************************)
(* Proofs about System.tla, for every number of tasks, set of signals,     *)
(* size of a FIFO or buffer and length of a message.  KP is the proof of   *)
(* Kernel.tla read with what the tasks see of an interrupt: every step of  *)
(* System is shown to be a step of that kernel, so that its invariant      *)
(* holds here; with it, the properties of System follow.                   *)
(***************************************************************************)
EXTENDS System, Sequences, FiniteSetTheorems, TLAPS

KP == INSTANCE KernelProofs WITH pc <- TaskPc, masked <- TaskMasked

(* Handlers run masked, and so does the polling driver; in a handler it    *)
(* finds the mask set.                                                     *)
HandlerInv ==
  /\ irq # "none" => masked
  /\ flags # <<>> => masked /\ left > 0
  /\ irq # "none" /\ flags # <<>> => flags = <<TRUE>>

(* What K!TypeOK says of the two variables that KP reads differently.      *)
OwnTypes == pc \in [KP!Pid -> KP!Location] /\ masked \in BOOLEAN

DeviceTypes ==
  /\ tick \in {"armed", "asserted", "served"}
  /\ local \in {"off", "armed", "asserted", "served"}
  /\ irq \in {"none", "source", "peripheral"}
  /\ left \in 0 .. MsgLen * NR_TASKS /\ told \in BOOLEAN
  /\ flags \in {<<>>} \cup {<<m>> : m \in BOOLEAN}

SysInv == KP!BootInv /\ OwnTypes /\ TypeOK /\ DeviceTypes /\ HandlerInv
-----------------------------------------------------------------------------
(* The constants of System are constants of Kernel.                        *)
LEMMA KernelConstants == KP!KernelAssumption
BY SystemAssumption DEF KP!KernelAssumption

(* What the step lemmas need of the invariant.                             *)
LEMMA Facts ==
  ASSUME SysInv
  PROVE  /\ current \in KP!Pid /\ resched \in [KP!Pid -> BOOLEAN]
         /\ pc \in [KP!Pid -> KP!Location] /\ masked \in BOOLEAN
         /\ TaskPc \in [KP!Pid -> KP!Location] /\ TaskMasked \in BOOLEAN
         /\ "ret_to_user" \in KP!Location /\ "ret_to_user" # "el0"
BY DEF SysInv, OwnTypes, KP!BootInv, KP!IInv, KP!TypeOK, KP!Location, KP!KernelExit

(* One-element sequences of the saved mask.                                *)
LEMMA Flags ==
  ASSUME SysInv
  PROVE  /\ flags = <<>> \/ flags = <<TRUE>> \/ flags = <<FALSE>>
         /\ \A m : <<m>> # <<>> /\ <<m>>[1] = m
<1>1. \A m : Len(<<m>>) = 1 /\ <<m>>[1] = m
  OBVIOUS
<1>2. Len(<<>>) = 0
  OBVIOUS
<1>3. flags = <<>> \/ \E m \in BOOLEAN : flags = <<m>>
  BY DEF SysInv, DeviceTypes
<1>4. flags = <<>> \/ flags = <<TRUE>> \/ flags = <<FALSE>>
  BY <1>3
<1>5. \A m : <<m>> # <<>>
  BY <1>1, <1>2
<1> QED
  BY <1>1, <1>4, <1>5
-----------------------------------------------------------------------------
(* Steps that leave the tasks alone and keep what they see of the mask.    *)

(* The tasks see no change.                                                *)
Unseen == UNCHANGED KP!vars

(* While neither handler nor message has the CPU, the tasks see the        *)
(* variables as they are.                                                  *)
LEMMA SeenAsIs ==
  ASSUME SysInv
  PROVE  /\ irq = "none" => TaskPc = pc
         /\ irq = "none" /\ flags = <<>> => TaskMasked = masked
         /\ left = 0 => flags = <<>>
<1>1. irq = "none" => TaskPc = pc
  BY Facts DEF TaskPc
<1> QED
  BY <1>1 DEF TaskMasked, SysInv, HandlerInv

(* The same of the state after a step.                                     *)
LEMMA SeenAsIsNext ==
  ASSUME pc' \in [KP!Pid -> KP!Location]
  PROVE  /\ irq' = "none" => TaskPc' = pc'
         /\ irq' = "none" /\ flags' = <<>> => TaskMasked' = masked'
BY DEF TaskPc, TaskMasked

(* Steps that touch neither the tasks nor the mask.                        *)
LEMMA DeviceSteps ==
  ASSUME SysInv, TimerExpires \/ LocalTimerExpires \/ Line \/ ReaperMessage
                 \/ peripheral_handler \/ ServeUart \/ PeripheralsServed
                 \/ local_timer_handler \/ UNCHANGED vars
  PROVE  Unseen
<1>1. UNCHANGED <<tasks, masked, flags>>
  BY DEF TimerExpires, LocalTimerExpires, Line, ReaperMessage, peripheral_handler,
         ServeUart, PeripheralsServed, local_timer_handler, vars, message
<1>2. irq' = "none" <=> irq = "none"
  BY DEF TimerExpires, LocalTimerExpires, Line, ReaperMessage, peripheral_handler,
         ServeUart, PeripheralsServed, local_timer_handler, vars, Source
<1>3. UNCHANGED <<TaskPc, TaskMasked>>
  BY <1>1, <1>2 DEF TaskPc, TaskMasked, tasks, K!At
<1> QED
  BY <1>1, <1>3 DEF Unseen, KP!vars, tasks

(* The polling driver masks interrupts for itself and restores what it     *)
(* found.                                                                  *)
LEMMA PollSteps ==
  ASSUME SysInv, Poll
  PROVE  Unseen
<1>1. UNCHANGED <<tasks, irq>>
  BY DEF Poll, IrqSave, WritePolling
<1>2. UNCHANGED TaskPc
  BY <1>1 DEF TaskPc, tasks
<1>3. UNCHANGED TaskMasked
  <2>1. CASE IrqSave
    <3>1. flags' # <<>> /\ flags'[1] = masked /\ flags = <<>>
      BY <2>1, Flags DEF IrqSave
    <3> QED
      BY <1>1, <3>1 DEF TaskMasked, tasks, K!At
  <2>2. CASE WritePolling
    <3>1. flags' = <<>> /\ masked' = flags[1] /\ flags # <<>>
      BY <2>2 DEF WritePolling, irq_restore
    <3> QED
      BY <1>1, <3>1 DEF TaskMasked, tasks, K!At
  <2> QED
    BY <2>1, <2>2 DEF Poll
<1> QED
  BY <1>1, <1>2, <1>3 DEF Unseen, KP!vars, tasks

(* The handler is entered: the tasks see it now if the running one was in  *)
(* user code and is to be rescheduled anyway.                              *)
LEMMA EnterStep ==
  ASSUME SysInv, EnterIrq
  PROVE  Unseen \/ KP!IrqFromUser(FALSE)
<1>1. /\ irq = "none" /\ irq' = "source" /\ ~masked /\ flags = <<>>
      /\ UNCHANGED tasks
  BY DEF EnterIrq, SysInv, HandlerInv, DeviceTypes
<1>2. TaskPc = pc /\ TaskMasked = FALSE
  BY <1>1, SeenAsIs
<1>3. TaskMasked' = (K!At("el0") /\ resched[current])
  BY <1>1 DEF TaskMasked, tasks, K!At
<1>4. CASE pc[current] = "el0" /\ resched[current]
  <2>1. TaskPc' = [pc EXCEPT ![current] = "ret_to_user"]
    BY <1>1, <1>4, Facts DEF TaskPc, tasks
  <2>2. TaskMasked' = TRUE
    BY <1>3, <1>4 DEF K!At
  <2> QED
    BY <1>1, <1>2, <1>4, <2>1, <2>2
       DEF KP!IrqFromUser, KP!At, KP!GoTo, KP!sigvars, tasks
<1>5. CASE ~(pc[current] = "el0" /\ resched[current])
  <2>1. TaskPc' = pc
    BY <1>1, <1>5, Facts DEF TaskPc, tasks
  <2>2. TaskMasked' = FALSE
    BY <1>3, <1>5 DEF K!At
  <2> QED
    BY <1>1, <1>2, <2>1, <2>2 DEF Unseen, KP!vars, tasks
<1> QED
  BY <1>4, <1>5

(* The core timer is served: the running task is marked, and if it was in  *)
(* user code and not marked before, this is what the tasks see.            *)
LEMMA TimerStep ==
  ASSUME SysInv, core_timer_handler
  PROVE  Unseen \/ KP!IrqFromUser(TRUE) \/ KP!TimerIrqFromKernel
<1>1. /\ irq = "source" /\ UNCHANGED <<irq, pc, current>>
      /\ resched' = [resched EXCEPT ![current] = TRUE]
      /\ UNCHANGED <<state, id, priority, sigpending, signal, rq>>
  BY DEF core_timer_handler, Source, K!core_timer_handler
<1>2. CASE pc[current] # "el0"
  <2>1. TaskPc = pc /\ TaskPc' = pc
    BY <1>1, <1>2, Facts DEF TaskPc
  <2>2. TaskMasked = FALSE /\ TaskMasked' = FALSE
    BY <1>1, <1>2 DEF TaskMasked, K!At
  <2> QED
    BY <1>1, <1>2, <2>1, <2>2
       DEF KP!TimerIrqFromKernel, KP!At, KP!core_timer_handler, KP!sigvars
<1>3. CASE pc[current] = "el0" /\ ~resched[current]
  <2>1. TaskPc = pc /\ TaskPc' = [pc EXCEPT ![current] = "ret_to_user"]
    BY <1>1, <1>3, Facts DEF TaskPc
  <2>2. TaskMasked = FALSE /\ TaskMasked' = TRUE
    BY <1>1, <1>3, Facts DEF TaskMasked, K!At
  <2> QED
    BY <1>1, <1>3, <2>1, <2>2
       DEF KP!IrqFromUser, KP!At, KP!core_timer_handler, KP!GoTo, KP!sigvars
<1>4. CASE pc[current] = "el0" /\ resched[current]
  <2>1. resched' = resched
    BY <1>1, <1>4, Facts
  <2>2. UNCHANGED <<TaskPc, TaskMasked>>
    BY <1>1, <2>1 DEF TaskPc, TaskMasked, K!At
  <2> QED
    BY <1>1, <2>1, <2>2 DEF Unseen, KP!vars
<1> QED
  BY <1>2, <1>3, <1>4, Facts

(* The handler returns: the tasks see it now if they have not before.      *)
LEMMA ReturnStep ==
  ASSUME SysInv, IrqReturn
  PROVE  Unseen \/ KP!IrqFromUser(FALSE)
<1>1. /\ irq = "source" /\ irq' = "none" /\ masked /\ flags = <<>> /\ flags' = <<>>
      /\ UNCHANGED <<state, id, priority, resched, sigpending, signal, rq, current>>
  BY SeenAsIs DEF IrqReturn, SysInv, HandlerInv, message
<1>2. TaskMasked' = masked'
  BY <1>1 DEF TaskMasked
<1>3. CASE pc[current] # "el0"
  <2>1. pc' = pc /\ masked' = FALSE
    BY <1>3 DEF IrqReturn, K!At
  <2>2. TaskPc' = pc /\ TaskPc = pc
    BY <1>1, <1>3, <2>1, Facts DEF TaskPc
  <2>3. TaskMasked = FALSE
    BY <1>1, <1>3 DEF TaskMasked, K!At
  <2> QED
    BY <1>1, <1>2, <2>1, <2>2, <2>3 DEF Unseen, KP!vars
<1>4. CASE pc[current] = "el0"
  <2>1. pc' = [pc EXCEPT ![current] = "ret_to_user"] /\ masked' = masked
    BY <1>4 DEF IrqReturn, K!At, K!GoTo, ThroughRetToUser
  <2>2. TaskPc' = pc'
    <3>1. pc' \in [KP!Pid -> KP!Location]
      BY <2>1, Facts
    <3> QED
      BY <1>1, <3>1, Facts DEF TaskPc
  <2>3. CASE resched[current]
    <3>1. TaskPc = pc'
      BY <1>1, <1>4, <2>1, <2>3, Facts DEF TaskPc
    <3>2. TaskMasked = TRUE
      BY <1>1, <1>4, <2>3 DEF TaskMasked, K!At
    <3> QED
      BY <1>1, <1>2, <2>1, <2>2, <3>1, <3>2, Facts DEF Unseen, KP!vars
  <2>4. CASE ~resched[current]
    <3>1. TaskPc = pc
      BY <1>1, <2>4, Facts DEF TaskPc
    <3>2. TaskMasked = FALSE
      BY <1>1, <2>4 DEF TaskMasked
    <3> QED
      BY <1>1, <1>2, <1>4, <2>1, <2>2, <3>1, <3>2, Facts
         DEF KP!IrqFromUser, KP!At, KP!GoTo, KP!sigvars
  <2> QED
    BY <2>3, <2>4
<1> QED
  BY <1>3, <1>4
-----------------------------------------------------------------------------
(* Steps of the tasks themselves: what K does KP does, when the tasks see  *)
(* pc and masked as they are before and after the step.                    *)

(* The least of a set of priorities.                                       *)
LEMMA SameMin == \A S : K!Min(S) = KP!Min(S)
BY DEF K!Min, KP!Min

(* Kernel's operators are the same in both instances: K reads pc and       *)
(* masked as they are, KP through the mapping.                             *)
LEMMA SamePush == \A q, p : K!Push(q, p) = KP!Push(q, p)
BY DEF K!Push, KP!Push

(* So is schedule(), when no interrupt is under way afterwards.            *)
LEMMA SameSchedule ==
  ASSUME TaskPc' = pc', NEW st, NEW pcs, K!Schedule(st, pcs)
  PROVE  KP!Schedule(st, pcs)
BY Zenon DEF K!Schedule, KP!Schedule, K!Yielded, KP!Yielded, K!Requeued, KP!Requeued,
   K!Push, KP!Push, K!Min, KP!Min, K!Priority, KP!Priority,
   K!HIGH, KP!HIGH, K!MEDIUM, KP!MEDIUM, K!LOW, KP!LOW

(* Where a task goes on.                                                   *)
LEMMA SameGoTo == ASSUME TaskPc = pc PROVE \A loc : K!GoTo(loc) = KP!GoTo(loc)
BY DEF K!GoTo, KP!GoTo

(* And the creation of a task.                                             *)
LEMMA SameCreate ==
  ASSUME TaskPc = pc, TaskPc' = pc', NEW func, NEW pri, NEW next,
         K!PrivilegeTaskCreate(func, pri, next)
  PROVE  KP!PrivilegeTaskCreate(func, pri, next)
BY SameMin, SamePush, SameGoTo DEF K!PrivilegeTaskCreate, KP!PrivilegeTaskCreate, K!Pid, KP!Pid

(* A step of kernel code outside the handler is the same step of Kernel.   *)
LEMMA SameKernelStep ==
  ASSUME TaskPc = pc, TaskPc' = pc', TaskMasked = masked, TaskMasked' = masked',
         K!KernelStep
  PROVE  KP!KernelStep
<1>1. CASE K!CreateUserTest
  BY <1>1, SameCreate DEF K!CreateUserTest, KP!CreateUserTest, K!At, KP!At,
     K!HIGH, KP!HIGH, K!sigvars, KP!sigvars, KP!KernelStep
<1>2. CASE K!CreateReaper
  BY <1>2, SameCreate DEF K!CreateReaper, KP!CreateReaper, K!At, KP!At,
     K!HIGH, KP!HIGH, K!sigvars, KP!sigvars, KP!KernelStep
<1>3. CASE K!Idle
  BY <1>3, SameSchedule, SameGoTo DEF K!Idle, KP!Idle, K!At, KP!At,
     K!num_runnable_tasks, KP!num_runnable_tasks, K!HIGH, KP!HIGH, K!MEDIUM, KP!MEDIUM,
     K!LOW, KP!LOW, K!sigvars, KP!sigvars, KP!KernelStep
<1>4. CASE K!DoExec
  BY <1>4, SameGoTo
     DEF K!DoExec, KP!DoExec, K!At, KP!At, K!sigvars, KP!sigvars, KP!KernelStep
<1>5. CASE K!Reap
  <2>1. \A f, zero : K!Cleared(f, zero) = KP!Cleared(f, zero)
    BY DEF K!Cleared, KP!Cleared, K!Pid, KP!Pid
  <2> QED
    BY <1>5, <2>1, SameSchedule DEF K!Reap, KP!Reap, K!At, KP!At,
       K!HIGH, KP!HIGH, KP!KernelStep
<1>6. CASE K!CheckResched
  BY <1>6, SameSchedule, SameGoTo DEF K!CheckResched, KP!CheckResched, K!At, KP!At,
     K!sigvars, KP!sigvars, KP!KernelStep
<1>7. CASE K!CheckSignal
  BY <1>7, SameSchedule, SameGoTo DEF K!CheckSignal, KP!CheckSignal, K!At, KP!At,
     K!do_exit, KP!do_exit, K!SIGKILL, KP!SIGKILL, KP!KernelStep
<1>8. CASE K!Eret
  BY <1>8, SameGoTo
     DEF K!Eret, KP!Eret, K!At, KP!At, K!sigvars, KP!sigvars, KP!KernelStep
<1> QED
  BY <1>1, <1>2, <1>3, <1>4, <1>5, <1>6, <1>7, <1>8 DEF K!KernelStep

(* So is a system call that changes a task.                                *)
LEMMA SameUserStep ==
  ASSUME TaskPc = pc, TaskPc' = pc', TaskMasked = masked, TaskMasked' = masked',
         \/ K!SysFork \/ K!SysExit \/ K!SysOther
         \/ \E pid \in K!Pid, sig \in Signals : K!SysKill(pid, sig)
  PROVE  KP!UserStep
<1>1. CASE K!SysFork
  BY <1>1, SameCreate DEF K!SysFork, KP!SysFork, K!At, KP!At, K!HIGH, KP!HIGH,
     K!sigvars, KP!sigvars, KP!UserStep
<1>2. CASE K!SysExit
  BY <1>2, SameSchedule, SameGoTo DEF K!SysExit, KP!SysExit, K!do_exit, KP!do_exit,
     K!At, KP!At, K!sigvars, KP!sigvars, KP!UserStep
<1>3. CASE K!SysOther
  BY <1>3, SameGoTo DEF K!SysOther, KP!SysOther, K!At, KP!At,
     K!sigvars, KP!sigvars, KP!UserStep
<1>4. CASE \E pid \in K!Pid, sig \in Signals : K!SysKill(pid, sig)
  <2>1. PICK pid \in K!Pid, sig \in Signals : K!SysKill(pid, sig)
    BY <1>4
  <2>2. KP!SysKill(pid, sig)
    BY <2>1, SameGoTo DEF K!SysKill, KP!SysKill, K!At, KP!At
  <2>3. pid \in KP!Pid
    BY DEF K!Pid, KP!Pid
  <2> QED
    BY <2>2, <2>3 DEF KP!UserStep
<1> QED
  BY <1>1, <1>2, <1>3, <1>4

(* No such step takes a task to a place of the handler.                    *)
LEMMA PcStaysTyped ==
  ASSUME SysInv, \/ K!KernelStep \/ K!SysFork \/ K!SysExit \/ K!SysOther
                 \/ \E pid \in K!Pid, sig \in Signals : K!SysKill(pid, sig)
  PROVE  pc' \in [KP!Pid -> KP!Location]
<1>0. /\ pc \in [KP!Pid -> KP!Location] /\ K!Pid = KP!Pid
      /\ \A loc \in KP!Location : K!GoTo(loc) \in [KP!Pid -> KP!Location]
      /\ {"user_test", "reaper", "create_reaper", "idle", "finished", "none", "el0",
          "ret_to_user", "check_signal", "eret"} \subseteq KP!Location
  BY Facts DEF K!GoTo, K!Pid, KP!Pid, KP!Location, KP!KernelThread, KP!KernelExit
<1>1. \A pri : \A func, next \in KP!Location : K!PrivilegeTaskCreate(func, pri, next) =>
        pc' \in [KP!Pid -> KP!Location]
  <2> TAKE pri
  <2> TAKE func, next \in KP!Location
  <2> SUFFICES ASSUME K!PrivilegeTaskCreate(func, pri, next)
               PROVE  pc' \in [KP!Pid -> KP!Location]
    OBVIOUS
  <2>1. pc' = K!GoTo(next) \/ \E pid : pc' = [K!GoTo(next) EXCEPT ![pid] = func]
    BY DEF K!PrivilegeTaskCreate
  <2> QED
    BY <1>0, <2>1
<1>2. \A st, pcs : K!Schedule(st, pcs) => pc' = pcs
  BY DEF K!Schedule
<1>3. CASE K!CreateUserTest \/ K!CreateReaper \/ K!SysFork
  BY <1>0, <1>1, <1>3 DEF K!CreateUserTest, K!CreateReaper, K!SysFork
<1>4. CASE K!Idle
  BY <1>0, <1>2, <1>4 DEF K!Idle
<1>5. CASE K!Reap
  <2>1. pc' = K!Cleared(pc, "none")
    BY <1>2, <1>5 DEF K!Reap
  <2> QED
    BY <1>0, <2>1 DEF K!Cleared
<1>6. CASE K!CheckResched \/ K!CheckSignal \/ K!SysExit
  BY <1>0, <1>2, <1>6 DEF K!CheckResched, K!CheckSignal, K!SysExit, K!do_exit
<1>7. CASE K!DoExec \/ K!Eret \/ K!SysOther
  BY <1>0, <1>7 DEF K!DoExec, K!Eret, K!SysOther
<1>8. CASE \E pid \in K!Pid, sig \in Signals : K!SysKill(pid, sig)
  BY <1>0, <1>8 DEF K!SysKill
<1> QED
  BY <1>3, <1>4, <1>5, <1>6, <1>7, <1>8 DEF K!KernelStep

(* Task code runs while neither handler nor message has the CPU.           *)
LEMMA TaskSteps ==
  ASSUME SysInv, RunKernel \/ UserCode \/ UartCall \/ do_init_timers
  PROVE  KP!Next
<1>1. /\ irq = "none" /\ irq' = "none" /\ left = 0 /\ UNCHANGED flags
      /\ \/ K!KernelStep \/ K!SysFork \/ K!SysExit \/ K!SysOther
         \/ \E pid \in K!Pid, sig \in Signals : K!SysKill(pid, sig)
  BY DEF RunKernel, UserCode, UartCall, do_init_timers, Running, message
<1>2. TaskPc = pc /\ TaskMasked = masked
  BY <1>1, SeenAsIs
<1>3. TaskPc' = pc' /\ TaskMasked' = masked'
  BY <1>1, SeenAsIs, PcStaysTyped, SeenAsIsNext
<1> QED
  BY <1>1, <1>2, <1>3, SameKernelStep, SameUserStep DEF KP!Next

(* Every step of the system is a step of Kernel.tla or none.               *)
LEMMA SystemStep ==
  ASSUME SysInv, [SystemNext]_vars
  PROVE  [KP!Next]_(KP!vars)
<1>1. Unseen => [KP!Next]_(KP!vars)
  BY DEF Unseen
<1>2. (\E timer \in BOOLEAN : KP!IrqFromUser(timer)) \/ KP!TimerIrqFromKernel => KP!Next
  BY DEF KP!Next, KP!Irq
<1>3. CASE TimerExpires \/ LocalTimerExpires \/ Line \/ ReaperMessage
           \/ peripheral_handler \/ ServeUart \/ PeripheralsServed
           \/ local_timer_handler \/ UNCHANGED vars
  BY <1>1, <1>3, DeviceSteps
<1>4. CASE Poll
  BY <1>1, <1>4, PollSteps
<1>5. CASE EnterIrq \/ core_timer_handler \/ IrqReturn
  BY <1>1, <1>2, <1>5, EnterStep, TimerStep, ReturnStep
<1>6. CASE RunKernel \/ UserCode \/ UartCall \/ do_init_timers
  BY <1>6, TaskSteps
<1> QED
  BY <1>3, <1>4, <1>5, <1>6 DEF SystemNext, Dispatch
-----------------------------------------------------------------------------
(* The invariant. *)

(* The kernel's own invariant is kept, by the kernel's proof.              *)
LEMMA BootHolds ==
  ASSUME SysInv, [SystemNext]_vars
  PROVE  KP!BootInv'
BY KernelConstants, KP!BootNext, SystemStep DEF SysInv

(* pc and masked keep to their types.                                      *)
LEMMA OwnTypesHold ==
  ASSUME SysInv, [SystemNext]_vars
  PROVE  OwnTypes'
<1> DEFINE TaskStep ==
             \/ K!KernelStep \/ K!SysFork \/ K!SysExit \/ K!SysOther
             \/ \E pid \in K!Pid, sig \in Signals : K!SysKill(pid, sig)
<1>1. CASE UNCHANGED <<pc, masked>>
  BY <1>1 DEF SysInv, OwnTypes
<1>2. CASE TaskStep
  <2>1. masked' \in {masked, TRUE, FALSE}
    BY <1>2 DEF K!KernelStep, K!CreateUserTest, K!CreateReaper, K!Idle, K!DoExec,
       K!Reap, K!CheckResched, K!CheckSignal, K!Eret, K!SysFork, K!SysExit,
       K!SysOther, K!SysKill
  <2> QED
    BY <1>2, <2>1, PcStaysTyped, Facts DEF OwnTypes
<1>3. CASE EnterIrq
  BY <1>3, Facts DEF EnterIrq, tasks, OwnTypes
<1>4. CASE IrqReturn
  BY <1>4, Facts DEF IrqReturn, K!GoTo, ThroughRetToUser, OwnTypes
<1>5. CASE IrqSave
  BY <1>5, Facts DEF IrqSave, tasks, OwnTypes
<1>6. CASE WritePolling
  <2>1. flags[1] \in BOOLEAN
    BY <1>6, Flags DEF WritePolling
  <2> QED
    BY <1>6, <2>1, Facts DEF WritePolling, irq_restore, tasks, OwnTypes
<1> QED
  BY <1>1, <1>2, <1>3, <1>4, <1>5, <1>6
     DEF SystemNext, Dispatch, Poll, TimerExpires, LocalTimerExpires, Line,
         ReaperMessage, peripheral_handler, ServeUart, PeripheralsServed,
         local_timer_handler, core_timer_handler, RunKernel, UserCode, UartCall,
         do_init_timers, vars, tasks

(* Interrupts are masked inside the handler and between two characters.    *)
LEMMA HandlerHolds ==
  ASSUME SysInv, [SystemNext]_vars
  PROVE  HandlerInv'
<1>0. /\ HandlerInv /\ masked \in BOOLEAN /\ left \in Int
      /\ left = 0 => flags = <<>>
  BY SeenAsIs, SystemAssumption DEF SysInv, OwnTypes, DeviceTypes
<1>1. CASE UNCHANGED <<irq, masked, flags, left>>
  BY <1>0, <1>1 DEF HandlerInv
<1>2. CASE irq' = "none" /\ flags' = <<>>
  BY <1>2 DEF HandlerInv
<1>3. CASE EnterIrq
  BY <1>0, <1>3 DEF EnterIrq, message, HandlerInv
<1>4. CASE IrqSave
  BY <1>0, <1>4, Flags DEF IrqSave, HandlerInv
<1>5. CASE WritePolling
  BY <1>0, <1>5, Flags DEF WritePolling, irq_restore, HandlerInv
<1>6. CASE IrqReturn \/ RunKernel \/ UserCode \/ UartCall \/ do_init_timers \/ ReaperMessage
  BY <1>0, <1>2, <1>6 DEF IrqReturn, RunKernel, UserCode, UartCall, do_init_timers,
     ReaperMessage, Running, message
<1>7. CASE peripheral_handler \/ PeripheralsServed \/ local_timer_handler
  <2>1. irq # "none" /\ UNCHANGED <<masked, flags>> /\ (left' = left \/ left = 0)
    BY <1>7 DEF peripheral_handler, PeripheralsServed, local_timer_handler, Source, message
  <2> QED
    BY <1>0, <2>1 DEF HandlerInv
<1> QED
  BY <1>1, <1>3, <1>4, <1>5, <1>6, <1>7
     DEF SystemNext, Dispatch, Poll, TimerExpires, LocalTimerExpires, Line,
         ServeUart, core_timer_handler, vars, tasks, message

(* No step of the driver or the UART takes a count out of its range.       *)
LEMMA UartCounts ==
  ASSUME TypeOK, \/ Arrive \/ Leave \/ pl011_uart_intr \/ (TXFFClear /\ WriteDR)
                 \/ \E count \in 1..MaxCount : pl011_uart_read(count) \/ pl011_uart_write(count)
                 \/ UNCHANGED uart
  PROVE  TypeOK'
<1>1. /\ Full \in Nat /\ FifoSize \in Nat /\ \A m, n \in Nat : Least(m, n) \in 0..m /\ Least(m, n) \in 0..n
      /\ MaxCount \in Nat
  BY UartLevelsAssumption DEF Full, Least
<1>2. CASE Arrive
  BY <1>1, <1>2 DEF TypeOK, Arrive
<1>3. CASE Leave
  BY <1>1, <1>3 DEF TypeOK, Leave
<1>4. CASE pl011_uart_intr
  <2> DEFINE nrx == IF RXMIS THEN Least(Full - received, rx) ELSE 0
             ntx == IF TXMIS THEN Least(unsent, FifoSize - tx) ELSE 0
  <2>1. Full - received \in Nat /\ rx \in Nat /\ unsent \in Nat /\ FifoSize - tx \in Nat
    BY <1>1 DEF TypeOK
  <2>2. /\ nrx \in 0..Full - received /\ nrx \in 0..rx
        /\ ntx \in 0..unsent /\ ntx \in 0..FifoSize - tx
    <3>1. \A b : \A m, n \in Nat : LET k == IF b THEN Least(m, n) ELSE 0
                              IN  k \in 0..m /\ k \in 0..n
      BY <1>1
    <3> QED
      BY <2>1, <3>1
  <2>3. /\ received' = received + nrx /\ rx' = rx - nrx
        /\ unsent' = unsent - ntx     /\ tx' = tx + ntx
        /\ imsc' \in [tx : BOOLEAN, rx : BOOLEAN]
    BY <1>4 DEF pl011_uart_intr, DisableIf, TypeOK
  <2> HIDE DEF nrx, ntx
  <2> QED
    BY <1>1, <2>2, <2>3 DEF TypeOK
<1>5. CASE TXFFClear /\ WriteDR
  BY <1>1, <1>5 DEF TypeOK, TXFFClear, Ready, WriteDR
<1>6. CASE \E count \in 1..MaxCount : pl011_uart_read(count) \/ pl011_uart_write(count)
  <2>1. PICK count \in 1..MaxCount : pl011_uart_read(count) \/ pl011_uart_write(count)
    BY <1>6
  <2>2. count \in Nat /\ received \in Nat /\ unsent \in Nat /\ Full - unsent \in Nat
    BY <1>1 DEF TypeOK
  <2>3. Least(count, received) \in 0..received /\ Least(count, Full - unsent) \in 0..Full - unsent
    BY <1>1, <2>2
  <2>4. CASE pl011_uart_read(count)
    <3>1. \A k \in 0..received : received - k \in 0..Full
      BY <1>1 DEF TypeOK
    <3>2. [imsc EXCEPT !.rx = TRUE] \in [tx : BOOLEAN, rx : BOOLEAN]
      BY DEF TypeOK
    <3> QED
      BY <2>3, <2>4, <3>1, <3>2 DEF TypeOK, pl011_uart_read
  <2>5. CASE pl011_uart_write(count)
    <3>1. \A k \in 0..Full - unsent : unsent + k \in 0..Full
      BY <1>1 DEF TypeOK
    <3>2. [imsc EXCEPT !.tx = TRUE] \in [tx : BOOLEAN, rx : BOOLEAN]
      BY DEF TypeOK
    <3> QED
      BY <2>3, <2>5, <3>1, <3>2 DEF TypeOK, pl011_uart_write
  <2> QED
    BY <2>1, <2>4, <2>5
<1>7. CASE UNCHANGED uart
  BY <1>7 DEF TypeOK, uart
<1> QED
  BY <1>2, <1>3, <1>4, <1>5, <1>6, <1>7

(* The same of every step of the system.                                   *)
LEMMA UartHolds ==
  ASSUME SysInv, [SystemNext]_vars
  PROVE  TypeOK'
<1>1. \/ Arrive \/ Leave \/ pl011_uart_intr \/ (TXFFClear /\ WriteDR)
      \/ \E count \in 1..MaxCount : pl011_uart_read(count) \/ pl011_uart_write(count)
      \/ UNCHANGED uart
  BY DEF SystemNext, Dispatch, Poll, TimerExpires, LocalTimerExpires, Line,
     ReaperMessage, RunKernel, UserCode, UartCall, do_init_timers, EnterIrq,
     core_timer_handler, peripheral_handler, ServeUart, PeripheralsServed,
     local_timer_handler, IrqReturn, IrqSave, WritePolling, vars
<1> QED
  BY <1>1, UartCounts DEF SysInv

(* A message for every zombie, or the two of init_timers.                  *)
LEMMA MessageLengths ==
  ASSUME SysInv
  PROVE  /\ MsgLen * Cardinality(Zombies) \in 0 .. MsgLen * NR_TASKS
         /\ 2 * MsgLen \in 0 .. MsgLen * NR_TASKS
         /\ MsgLen \in 0 .. MsgLen * NR_TASKS
<1>1. IsFiniteSet(K!Pid) /\ Cardinality(K!Pid) = NR_TASKS
  BY FS_Interval, SystemAssumption DEF K!Pid
<1>2. Cardinality(Zombies) \in Nat /\ Cardinality(Zombies) <= NR_TASKS
  BY <1>1, FS_Subset, FS_CardinalityType DEF Zombies
<1>3. \A a, b, c \in Nat : b <= c => a * b \in 0 .. a * c
  OBVIOUS
<1> QED
  BY <1>2, <1>3, SystemAssumption

(* Timers and messages keep to their types.                                *)
LEMMA DevicesHold ==
  ASSUME SysInv, [SystemNext]_vars
  PROVE  DeviceTypes'
<1>0. DeviceTypes /\ (flags # <<>> => left > 0) /\ MsgLen * NR_TASKS \in Int
  BY SystemAssumption DEF SysInv, HandlerInv
<1>1. /\ tick' \in {"armed", "asserted", "served"}
      /\ local' \in {"off", "armed", "asserted", "served"}
      /\ irq' \in {"none", "source", "peripheral"}
      /\ told' \in BOOLEAN
  BY <1>0 DEF DeviceTypes, SystemNext, Dispatch, Poll, TimerExpires, LocalTimerExpires,
     Line, ReaperMessage, RunKernel, UserCode, UartCall, do_init_timers, EnterIrq,
     core_timer_handler, peripheral_handler, ServeUart, PeripheralsServed,
     local_timer_handler, IrqReturn, IrqSave, WritePolling, vars, timers, message,
     local_timer_init, core_timer_init, Rearmed, Again
<1>2. flags' \in {<<>>} \cup {<<m>> : m \in BOOLEAN}
  BY <1>0, Facts DEF DeviceTypes, SystemNext, Dispatch, Poll, TimerExpires, LocalTimerExpires,
     Line, ReaperMessage, RunKernel, UserCode, UartCall, do_init_timers, EnterIrq,
     core_timer_handler, peripheral_handler, ServeUart, PeripheralsServed,
     local_timer_handler, IrqReturn, IrqSave, WritePolling, vars, message
<1>3. \/ left' = left \/ (flags # <<>> /\ left' = left - 1)
      \/ left' = MsgLen * Cardinality(Zombies) \/ left' = 2 * MsgLen \/ left' = MsgLen
  BY DEF SystemNext, Dispatch, Poll, TimerExpires, LocalTimerExpires,
     Line, ReaperMessage, RunKernel, UserCode, UartCall, do_init_timers, EnterIrq,
     core_timer_handler, peripheral_handler, ServeUart, PeripheralsServed,
     local_timer_handler, IrqReturn, IrqSave, WritePolling, vars, message
<1>4. left' \in 0 .. MsgLen * NR_TASKS
  <2>1. left \in 0 .. MsgLen * NR_TASKS
    BY <1>0 DEF DeviceTypes
  <2>2. flags # <<>> => left - 1 \in 0 .. MsgLen * NR_TASKS
    <3>1. \A n \in Int : left > 0 /\ left \in 0..n => left - 1 \in 0..n
      BY <2>1
    <3> QED
      BY <1>0, <2>1, <3>1
  <2> QED
    BY <1>3, <2>1, <2>2, MessageLengths
<1> QED
  BY <1>1, <1>2, <1>4 DEF DeviceTypes

(* Every step keeps the invariant.                                         *)
LEMMA NextSysInv == SysInv /\ [SystemNext]_vars => SysInv'
BY BootHolds, OwnTypesHold, UartHolds, DevicesHold, HandlerHolds DEF SysInv

(* At boot the invariant holds and the tasks are in Kernel's initial       *)
(* state.                                                                  *)
LEMMA InitSysInv == SystemInit => SysInv /\ KP!Init
<1> SUFFICES ASSUME SystemInit PROVE SysInv /\ KP!Init
  OBVIOUS
<1>1. pc \in [KP!Pid -> KP!Location] /\ pc[0] # "el0" /\ masked = FALSE
  BY SystemAssumption DEF SystemInit, K!Init, K!Pid, KP!Pid, KP!Location, KP!KernelThread
<1>2. TaskPc = pc /\ TaskMasked = masked
  BY <1>1 DEF TaskPc, TaskMasked, SystemInit
<1>3. KP!Init
  BY <1>2 DEF SystemInit, K!Init, KP!Init, K!Pid, KP!Pid, K!Priority, KP!Priority,
     K!HIGH, KP!HIGH, K!MEDIUM, KP!MEDIUM, K!LOW, KP!LOW
<1>4. KP!BootInv
  BY <1>3, KernelConstants, KP!BootInit
<1>5. TypeOK
  BY UartLevelsAssumption DEF SystemInit, Init, TypeOK, Full
<1>6. DeviceTypes /\ HandlerInv
  <2>1. 0 \in 0 .. MsgLen * NR_TASKS
    BY SystemAssumption
  <2> QED
    BY <2>1 DEF SystemInit, DeviceTypes, HandlerInv
<1> QED
  BY <1>1, <1>3, <1>4, <1>5, <1>6 DEF SysInv, OwnTypes

(* The invariant of System.                                                *)
THEOREM SpecSysInv == SystemSpec => []SysInv
BY InitSysInv, NextSysInv, PTL DEF SystemSpec

(* Every variable keeps its type: messages, which go past the UART driver, *)
(* overrun no FIFO, and are never longer than what was asked.              *)
THEOREM SpecSystemTypeOK == SystemSpec => []SystemTypeOK
<1>1. SysInv => SystemTypeOK
  <2> SUFFICES ASSUME SysInv PROVE SystemTypeOK
    OBVIOUS
  <2>1. KP!TypeOK
    BY DEF SysInv, KP!BootInv, KP!IInv
  <2>2. K!TypeOK
    BY <2>1 DEF KP!TypeOK, K!TypeOK, SysInv, OwnTypes, K!Pid, KP!Pid,
       K!TaskState, KP!TaskState, K!Priority, KP!Priority, K!HIGH, KP!HIGH,
       K!MEDIUM, KP!MEDIUM, K!LOW, KP!LOW, K!Location, KP!Location,
       K!KernelThread, KP!KernelThread, K!KernelExit, KP!KernelExit
  <2> QED
    BY <2>2 DEF SysInv, SystemTypeOK, DeviceTypes
<1> QED
  BY <1>1, SpecSysInv, PTL

(* irq_handler() never interrupts itself, nor is the reaper interrupted,   *)
(* although both print messages that lift and restore the mask.            *)
THEOREM SpecNoNestedIrq == SystemSpec => []NoNestedIrq
<1>1. SysInv => NoNestedIrq
  <2> SUFFICES ASSUME SysInv PROVE NoNestedIrq
    OBVIOUS
  <2>1. CASE irq # "none"
    BY <2>1 DEF SysInv, HandlerInv, NoNestedIrq
  <2>2. CASE irq = "none" /\ pc[current] = "reaper"
    <3>1. TaskPc[current] = "reaper" /\ KP!BootInv
      BY <2>2, SeenAsIs DEF SysInv
    <3>2. TaskMasked
      BY <3>1, KernelConstants, KP!ReaperAfterUserTest
    <3>3. masked
      BY <2>2, <3>2 DEF TaskMasked, SysInv, HandlerInv
    <3> QED
      BY <3>3 DEF NoNestedIrq
  <2> QED
    BY <2>1, <2>2 DEF NoNestedIrq, K!At
<1> QED
  BY <1>1, SpecSysInv, PTL
-----------------------------------------------------------------------------
(* Tasks, the instance System.tla names, is the kernel of KP.              *)

(* The tasks begin as in Kernel.                                           *)
LEMMA TasksInit == KP!Init => Tasks!Init
BY Zenon DEF KP!Init, Tasks!Init, KP!Pid, Tasks!Pid, KP!Priority, Tasks!Priority,
   KP!HIGH, Tasks!HIGH, KP!MEDIUM, Tasks!MEDIUM, KP!LOW, Tasks!LOW

(* KP and Tasks are the same instance of Kernel; only their names differ.  *)
LEMMA TasksNext == KP!Next => Tasks!Next
BY Zenon DEF KP!Next, Tasks!Next, KP!Irq, Tasks!Irq, KP!UserStep, Tasks!UserStep,
  KP!KernelStep, Tasks!KernelStep,
  KP!CreateUserTest, Tasks!CreateUserTest, KP!CreateReaper, Tasks!CreateReaper,
  KP!Idle, Tasks!Idle, KP!DoExec, Tasks!DoExec, KP!Reap, Tasks!Reap,
  KP!CheckResched, Tasks!CheckResched, KP!CheckSignal, Tasks!CheckSignal,
  KP!Eret, Tasks!Eret, KP!SysFork, Tasks!SysFork, KP!SysExit, Tasks!SysExit,
  KP!SysOther, Tasks!SysOther, KP!SysKill, Tasks!SysKill,
  KP!IrqFromUser, Tasks!IrqFromUser, KP!TimerIrqFromKernel, Tasks!TimerIrqFromKernel,
  KP!core_timer_handler, Tasks!core_timer_handler, KP!At, Tasks!At, KP!GoTo, Tasks!GoTo,
  KP!do_exit, Tasks!do_exit, KP!Cleared, Tasks!Cleared,
  KP!PrivilegeTaskCreate, Tasks!PrivilegeTaskCreate, KP!Schedule, Tasks!Schedule,
  KP!Yielded, Tasks!Yielded, KP!Requeued, Tasks!Requeued, KP!Push, Tasks!Push,
  KP!Min, Tasks!Min, KP!num_runnable_tasks, Tasks!num_runnable_tasks,
  KP!Pid, Tasks!Pid, KP!Priority, Tasks!Priority, KP!HIGH, Tasks!HIGH,
  KP!MEDIUM, Tasks!MEDIUM, KP!LOW, Tasks!LOW, KP!SIGKILL, Tasks!SIGKILL,
  KP!sigvars, Tasks!sigvars

(* The dispatch of irq.c refines the one-step interrupts of Kernel.tla:    *)
(* whatever the devices do and however often the handler goes round, the   *)
(* tasks see an interrupt of user code as a single entry to ret_to_user.   *)
THEOREM SpecIsKernel == SystemSpec => IsKernel
<1>1. KP!vars = Tasks!vars /\ KP!vars' = Tasks!vars'
  BY DEF KP!vars, Tasks!vars
<1>2. SystemInit => Tasks!Init
  BY InitSysInv, TasksInit
<1>3. SysInv /\ [SystemNext]_vars => [Tasks!Next]_(Tasks!vars)
  BY <1>1, SystemStep, TasksNext
<1> QED
  BY <1>2, <1>3, SpecSysInv, PTL DEF SystemSpec, IsKernel, Tasks!Spec
-----------------------------------------------------------------------------
(* What was proved of Kernel.tla alone holds in the system.                *)

(* The scheduler and the task pool keep their invariants although the      *)
(* handler, the devices and the messages go between any two steps of the   *)
(* tasks; the return path to user mode is masked also on the CPU.          *)
KernelInvariants ==
  /\ K!OneRunning /\ K!QueuedOnce /\ K!QueueHasRoom
  /\ K!KernelExitMasked /\ K!KernelThreadsLive

(* A run queue of the system holds fewer tasks than there are slots.       *)
LEMMA RoomInSystem ==
  ASSUME KP!IInv, NEW l \in KP!Priority
  PROVE  Len(rq[l]) < NR_TASKS
<1>1. rq[l] \in Seq(KP!Pid) /\ current \in KP!Pid /\ state[current] = "RUNNING"
  BY DEF KP!IInv, KP!TypeOK, KP!OneRunning
<1>2. /\ \A i, j \in 1..Len(rq[l]) : rq[l][i] = rq[l][j] => i = j
      /\ \A i \in 1..Len(rq[l]) : rq[l][i] # current
  BY <1>1 DEF KP!IInv, KP!QueuedOnce, KP!Queued
<1> QED
  BY <1>1, <1>2, KernelConstants, KP!QueueRoom

(* The five invariants hold in every state of the system.                  *)
THEOREM SpecKernelInvariants == SystemSpec => []KernelInvariants
<1>1. SysInv => KernelInvariants
  <2> SUFFICES ASSUME SysInv PROVE KernelInvariants
    OBVIOUS
  <2>0. KP!IInv /\ K!Pid = KP!Pid /\ K!Priority = KP!Priority /\ K!KernelExit = KP!KernelExit
    BY DEF SysInv, KP!BootInv, K!Pid, KP!Pid, K!Priority, KP!Priority, K!HIGH, KP!HIGH,
       K!MEDIUM, KP!MEDIUM, K!LOW, KP!LOW, K!KernelExit, KP!KernelExit
  <2>1. K!OneRunning
    BY <2>0 DEF K!OneRunning, KP!OneRunning, KP!IInv
  <2>2. K!QueuedOnce
    BY <2>0 DEF K!QueuedOnce, KP!QueuedOnce, K!Queued, KP!Queued, KP!IInv
  <2>3. K!QueueHasRoom
    BY <2>0, RoomInSystem DEF K!QueueHasRoom
  <2>4. K!KernelExitMasked
    <3>1. SUFFICES ASSUME pc[current] \in KP!KernelExit, irq = "none" PROVE masked
      BY <2>0 DEF K!KernelExitMasked, SysInv, HandlerInv
    <3>2. TaskMasked
      BY <3>1, <2>0, SeenAsIs DEF KP!IInv, KP!MaskInv
    <3> QED
      BY <3>1, <3>2 DEF TaskMasked, SysInv, HandlerInv
  <2>5. K!KernelThreadsLive
    <3>1. \A p \in KP!Pid, loc \in {"idle", "finished", "reaper"} :
            TaskPc[p] = loc <=> pc[p] = loc
      BY Facts DEF TaskPc
    <3>2. KP!KernelThreadsLive
      BY <2>0, KernelConstants, KP!CurrentFacts
         DEF KP!IInv, KP!Boot, KP!Live, KP!KernelThreadsLive
    <3>3. 0 \in KP!Pid
      BY SystemAssumption DEF KP!Pid
    <3> QED
      BY <2>0, <3>1, <3>2, <3>3 DEF K!KernelThreadsLive, KP!KernelThreadsLive
  <2> QED
    BY <2>1, <2>2, <2>3, <2>4, <2>5 DEF KernelInvariants
<1> QED
  BY <1>1, SpecSysInv, PTL

(* A task with SIGKILL posted stays out of user mode, and a slot is freed  *)
(* only by another task after its own ended, also here.                    *)
THEOREM SpecTasksSafe == SystemSpec => KP!KilledStaysOut /\ KP!SlotLifecycle
<1>1. SystemSpec => KP!Spec
  BY InitSysInv, SystemStep, SpecSysInv, PTL DEF SystemSpec, KP!Spec
<1>2. KP!Spec => KP!KilledStaysOut /\ KP!SlotLifecycle
  BY KernelConstants, KP!SpecKilledStaysOut, KP!SpecSlotLifecycle, PTL
<1> QED
  BY <1>1, <1>2, PTL
=============================================================================
