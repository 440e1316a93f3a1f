-------------------------- MODULE TrapFrameProofs --------------------------
(***************************************************************************)
(* Proofs about TrapFrame.tla, for every number of tasks, every user code  *)
(* and every user stack: the frames on the kernel stacks are balanced, and *)
(* a user task has a machine of its own.                                   *)
(***************************************************************************)
EXTENDS TrapFrame, SequenceTheorems, WellFoundedInduction, TLAPS

(* Where a kernel thread is, and where one can be switched out.            *)
Thread == {"idle", "reaper"} \cup ExecStep
Parked == {"idle", "reaper", "exec"}

(* The frames of user mode that belong on the stack of p, and those of an  *)
(* interrupted kernel thread.                                              *)
UserFrames(p) ==
  {f \in Frame : f.spsr = "EL0t" /\ f.elr \in UserPC /\ f.sp_el0.stack = p}
ThreadFrames ==
  {f \in Frame : f.spsr = "EL1h" /\ f.elr \in {Test} \cup Thread}

(* do_exec() has set the stack pointer when it comes to its eret.          *)
OnOwnStack(place, sp) ==
  place = "exec_eret" => sp = [stack |-> current, offset |-> 0]

(* As long as kernel code runs unmasked, no task has a user context.       *)
NoUserYet ==
  /\ pc = Test /\ elr \in {Test} \cup Thread
  /\ \A p \in Pid : saved[p] \in Parked

(* What the registers and the stack of the running task hold, for each     *)
(* place the CPU can be at.                                                *)
RunningInv ==
  /\ state[current] = "live"
  /\ at \in Thread \cup {"el0", "user_at_el1", "restored"} => kstack[current] = <<>>
  /\ at \in KernelExit => masked
  /\ at \in {"ret_to_user", "check_signal", "restore"} => Len(kstack[current]) = 1
  /\ at \in {"ret_to_user", "check_signal"} =>
       kstack[current][1] \in UserFrames(current)
  /\ at = "restore" /\ kstack[current][1] \notin UserFrames(current) =>
       /\ kstack[current][1] \in ThreadFrames /\ NoUserYet
       /\ OnOwnStack(kstack[current][1].elr, kstack[current][1].sp_el0)
  /\ at = "restored" /\ spsr = "EL0t" => elr \in UserPC /\ sp_el0.stack = current
  /\ at = "restored" /\ spsr = "EL1h" => NoUserYet /\ OnOwnStack(elr, sp_el0)
  /\ at = "el0" => ~masked /\ sp_el0.stack = current
  /\ at \in Thread /\ ~masked => NoUserYet
  /\ at = "user_at_el1" => ~masked /\ NoUserYet
  /\ at \in Thread => OnOwnStack(at, sp_el0)
  /\ at \in ExecStep \ {"exec"} /\ masked => spsr = "EL0t"
  /\ at \in {"exec_elr_set", "exec_eret"} /\ masked => elr = Test

(* A task that waits holds its user frame, or is a thread without frames.  *)
WaitingInv ==
  \A p \in Pid \ {current} : state[p] = "live" =>
    \/ /\ saved[p] \in {"ret_to_user", "check_signal"}
       /\ Len(kstack[p]) = 1 /\ kstack[p][1] \in UserFrames(p)
    \/ saved[p] \in Parked /\ kstack[p] = <<>>

IInv == TypeOK /\ RunningInv /\ WaitingInv /\ OnlyUserFramesWait
-----------------------------------------------------------------------------
(* The places are distinct from each other and from user code.             *)
LEMMA Places ==
  /\ Thread \subseteq Location /\ Parked \subseteq Thread
  /\ Thread \cap KernelExit = {} /\ Thread \cap UserPC = {}
  /\ \A u \in UserPC : u \notin Location
BY TrapFrameAssumption DEF Thread, Parked, Location, ExecStep, KernelExit

(* Slots are numbers and may be results.                                   *)
LEMMA PidFacts == Pid \subseteq Nat /\ Pid \subseteq Result /\ {-1, 0, 1, 2} \subseteq Result
BY TrapFrameAssumption DEF Pid, Result

(* schedule() leaves the invariant, provided the task that gives up the    *)
(* CPU can wait where it is, and interrupts are masked if it is on its way *)
(* back to user mode.                                                      *)
LEMMA Switching ==
  ASSUME IInv, NEW st \in [Pid -> {"free", "live", "zombie"}],
         NEW resume \in Location, SwitchTo(st, resume),
         masked' \in BOOLEAN, ustack' \in [Pid -> Data],
         UNCHANGED <<pc, x0, sp_el0>>,
         elr' \in UserPC \cup Location, spsr' \in {"EL0t", "EL1h"},
         kstack' \in [Pid -> Seq(Frame)],
         \A p \in Pid \ {current} : kstack'[p] = kstack[p],
         \A p \in Pid : st[p] = "live" => state[p] = "live",
         \A i \in 1..Len(kstack'[current]) : kstack'[current][i].spsr = "EL0t",
         st[current] = "live" =>
           \/ /\ resume \in {"ret_to_user", "check_signal"}
              /\ Len(kstack'[current]) = 1
              /\ kstack'[current][1] \in UserFrames(current)
           \/ resume \in Parked /\ kstack'[current] = <<>>,
         masked' \/ (NoUserYet /\ resume \in Parked /\ elr' = elr)
  PROVE  IInv'
<1>1. PICK next \in Pid :
        /\ st[next] = "live" /\ state' = st
        /\ saved' = [saved EXCEPT ![current] = resume]
        /\ current' = next /\ at' = saved'[next]
  BY DEF SwitchTo
<1>2. current \in Pid /\ saved \in [Pid -> Location]
  BY DEF IInv, TypeOK
<1>3. /\ saved' \in [Pid -> Location] /\ saved'[current] = resume
      /\ \A p \in Pid \ {current} : saved'[p] = saved[p]
  BY <1>1, <1>2
<1>4. TypeOK'
  BY <1>1, <1>3 DEF IInv, TypeOK
<1>5. \A p \in Pid : st[p] = "live" =>
        \/ /\ saved'[p] \in {"ret_to_user", "check_signal"}
           /\ Len(kstack'[p]) = 1 /\ kstack'[p][1] \in UserFrames(p)
        \/ saved'[p] \in Parked /\ kstack'[p] = <<>>
  <2> TAKE p \in Pid
  <2>1. CASE p = current
    BY <2>1, <1>3
  <2>2. CASE p # current
    BY <2>2, <1>3 DEF IInv, WaitingInv
  <2> QED
    BY <2>1, <2>2
<1>6. WaitingInv'
  BY <1>1, <1>5 DEF WaitingInv, UserFrames
<1>7. OnlyUserFramesWait'
  <2> SUFFICES ASSUME NEW p \in Pid, p # current', NEW i \in 1..Len(kstack'[p])
               PROVE  kstack'[p][i].spsr = "EL0t"
    BY DEF OnlyUserFramesWait
  <2>1. CASE p = current
    BY <2>1
  <2>2. CASE p # current
    BY <2>2 DEF IInv, OnlyUserFramesWait
  <2> QED
    BY <2>1, <2>2
<1>8. masked' \/ NoUserYet'
  BY <1>2, <1>3 DEF NoUserYet
<1>9. \/ /\ at' \in {"ret_to_user", "check_signal"}
         /\ Len(kstack'[current']) = 1 /\ kstack'[current'][1] \in UserFrames(current')
      \/ at' \in Parked /\ kstack'[current'] = <<>>
  BY <1>1, <1>5
<1>10. at' \in {"ret_to_user", "check_signal"} => masked'
  BY <1>1, <1>3, <1>8 DEF NoUserYet, Parked
<1>11. RunningInv'
  <2>1. state'[current'] = "live"
    BY <1>1
  <2>2. CASE at' \in {"ret_to_user", "check_signal"}
    BY <2>1, <2>2, <1>9, <1>10
       DEF RunningInv, Thread, ExecStep, KernelExit, Parked, UserFrames
  <2>3. CASE at' \in Parked
    BY <2>1, <2>3, <1>9, <1>8
       DEF RunningInv, Thread, ExecStep, KernelExit, Parked, OnOwnStack
  <2> QED
    BY <2>2, <2>3, <1>9
<1> QED
  BY <1>4, <1>6, <1>7, <1>11 DEF IInv

(* A step that stays with the running task and its registers' use: what    *)
(* waits on the other stacks is not touched.                               *)
LEMMA Staying ==
  ASSUME IInv, UNCHANGED <<state, current, saved>>,
         kstack' \in [Pid -> Seq(Frame)],
         \A p \in Pid \ {current} : kstack'[p] = kstack[p]
  PROVE  WaitingInv' /\ OnlyUserFramesWait'
<1>1. WaitingInv'
  BY DEF IInv, WaitingInv
<1>2. OnlyUserFramesWait'
  BY DEF IInv, OnlyUserFramesWait
<1> QED
  BY <1>1, <1>2

(* kernel_entry makes a stack of one frame out of an empty one.            *)
LEMMA Pushing ==
  ASSUME IInv, kstack[current] = <<>>, NEW f \in Frame
  PROVE  /\ Pushed(f) \in [Pid -> Seq(Frame)]
         /\ Pushed(f)[current] = <<f>>
         /\ \A p \in Pid \ {current} : Pushed(f)[p] = kstack[p]
BY DEF IInv, TypeOK, Pushed

(* What a task in user mode leaves behind when it enters the kernel.       *)
LEMMA EntryFrame ==
  ASSUME IInv, at = "el0"
  PROVE  /\ UserFrame \in UserFrames(current) /\ UserFrame \in Frame
         /\ kstack[current] = <<>> /\ ~masked
         /\ sp_el0 \in StackPointer /\ sp_el0.stack = current
<1>1. /\ pc \in UserPC /\ x0 \in Result /\ sp_el0 \in StackPointer
      /\ kstack[current] = <<>> /\ ~masked /\ sp_el0.stack = current
  BY DEF IInv, TypeOK, RunningInv
<1> QED
  BY <1>1 DEF UserFrame, UserFrames, Frame

(* Entries from user mode: a system call, an interrupt.                    *)
LEMMA SvcStep ==
  ASSUME IInv, NEW tf \in UserFrames(current), Svc(tf)
  PROVE  IInv'
<1>1. at = "el0" /\ tf \in Frame /\ kstack[current] = <<>>
  BY EntryFrame DEF Svc, UserFrames
<1>2. /\ kstack' \in [Pid -> Seq(Frame)] /\ kstack'[current] = <<tf>>
      /\ \A p \in Pid \ {current} : kstack'[p] = kstack[p]
  BY <1>1, Pushing DEF Svc
<1>3. WaitingInv' /\ OnlyUserFramesWait'
  BY <1>2, Staying DEF Svc
<1>4. TypeOK'
  BY <1>2 DEF IInv, TypeOK, Svc, Taken, Location, KernelExit
<1>5. RunningInv'
  <2>1. /\ at' = "ret_to_user" /\ masked' = TRUE
        /\ current' = current /\ state'[current] = "live"
    BY DEF IInv, RunningInv, Svc, Taken
  <2>2. Len(kstack'[current]) = 1 /\ kstack'[current][1] \in UserFrames(current)
    BY <1>2
  <2> QED
    BY <2>1, <2>2 DEF RunningInv, Thread, ExecStep, KernelExit, UserFrames
<1> QED
  BY <1>3, <1>4, <1>5 DEF IInv

(* A call with a result in x0 goes on to ret_to_user with its frame.       *)
LEMMA SysOtherStep ==
  ASSUME IInv, NEW ret \in {-1, 0}, SysOther(ret)
  PROVE  IInv'
<1>1. UserFrame \in UserFrames(current)
  BY EntryFrame DEF SysOther, Svc
<1>2. [UserFrame EXCEPT !.x0 = ret] \in UserFrames(current)
  BY <1>1, PidFacts DEF UserFrames, Frame
<1> QED
  BY <1>2, SvcStep DEF SysOther

(* So does exec, with a fresh stack and a new pc in the frame.             *)
LEMMA SysExecStep ==
  ASSUME IInv, NEW func \in UserPC, SysExec(func)
  PROVE  IInv'
<1> DEFINE tf == [UserFrame EXCEPT !.elr = func, !.x0 = 0,
                    !.sp_el0 = [stack |-> current, offset |-> 0]]
<1>1. UserFrame \in UserFrames(current)
  BY EntryFrame DEF SysExec, Svc
<1>2. [stack |-> current, offset |-> 0] \in StackPointer
  BY TrapFrameAssumption DEF IInv, TypeOK, StackPointer
<1>3. tf \in UserFrames(current)
  BY <1>1, <1>2, PidFacts DEF UserFrames, Frame
<1> QED
  BY <1>3, SvcStep DEF SysExec

(* So does an interrupt of user code, with the frame as it was pushed.     *)
LEMMA TrapFromUserStep ==
  ASSUME IInv, TrapFromUser
  PROVE  IInv'
BY SvcStep, EntryFrame DEF TrapFromUser, Svc

(* Min of a set of slots is one of them.                                   *)
LEMMA MinOfPids ==
  ASSUME NEW S \in SUBSET Pid, S # {}
  PROVE  Min(S) \in S
<1> DEFINE R == OpToRel(<, Nat)
<1>1. PICK x \in S : \A y \in S : <<y, x>> \notin R
  <2>1. S \subseteq Nat
    BY PidFacts
  <2> QED
    BY <2>1, NatLessThanWellFounded, WFMin, Zenon
<1>2. \A m, n \in Nat : n < m => <<n, m>> \in R
  BY Zenon DEF OpToRel
<1> HIDE DEF R
<1>3. ASSUME NEW y \in S PROVE x <= y
  <2>1. x \in Nat /\ y \in Nat
    BY PidFacts
  <2>2. ~(y < x)
    BY <1>1, <1>2, <2>1
  <2> QED
    BY <2>1, <2>2
<1> QED
  BY <1>3 DEF Min

(* fork leaves a frame on the child's stack and waits for nothing.         *)
LEMMA SysForkStep ==
  ASSUME IInv, SysFork
  PROVE  IInv'
<1> DEFINE free  == {p \in Pid : state[p] = "free"}
           child == Min(free)
           mine  == [UserFrame EXCEPT !.x0 = child]
           its   == ForkFrame(child, UserFrame)
<1>0. /\ at = "el0" /\ UserFrame \in UserFrames(current) /\ UserFrame \in Frame
      /\ kstack[current] = <<>> /\ state[current] = "live" /\ current \in Pid
  BY EntryFrame DEF SysFork, IInv, TypeOK, RunningInv
<1>1. CASE free = {}
  <2>1. Svc([UserFrame EXCEPT !.x0 = -1])
    BY <1>1 DEF SysFork, Svc
  <2>2. [UserFrame EXCEPT !.x0 = -1] \in UserFrames(current)
    BY <1>0, PidFacts DEF UserFrames, Frame
  <2> QED
    BY <2>1, <2>2, SvcStep
<1>2. CASE free # {}
  <2>1. child \in Pid /\ state[child] = "free"
    BY <1>2, MinOfPids
  <2>2. child # current
    BY <2>1, <1>0
  <2> HIDE DEF child
  <2>3. mine \in UserFrames(current) /\ mine \in Frame
    BY <1>0, <2>1, PidFacts DEF UserFrames, Frame
  <2>4. its \in UserFrames(child) /\ its \in Frame
    BY <1>0, <2>1, PidFacts DEF UserFrames, Frame, StackPointer, ForkFrame
  <2>5. /\ kstack' = [Pushed(mine) EXCEPT ![child] = <<its>>]
        /\ state' = [state EXCEPT ![child] = "live"]
        /\ saved' = [saved EXCEPT ![child] = "ret_to_user"]
        /\ ustack' = [ustack EXCEPT ![child] = ustack[current]]
        /\ Taken(pc, "EL0t") /\ at' = "ret_to_user"
        /\ UNCHANGED <<current, pc, x0, sp_el0>>
    BY <1>2 DEF SysFork, child
  <2> HIDE DEF mine, its, free
  <2>6. /\ kstack' \in [Pid -> Seq(Frame)]
        /\ kstack'[current] = <<mine>> /\ kstack'[child] = <<its>>
        /\ \A p \in Pid \ {current, child} : kstack'[p] = kstack[p]
    BY <2>1, <2>2, <2>3, <2>4, <2>5, <1>0, Pushing
  <2>7. state \in [Pid -> {"free", "live", "zombie"}] /\ saved \in [Pid -> Location]
    BY DEF IInv, TypeOK
  <2>8. /\ saved'[child] = "ret_to_user"
        /\ \A p \in Pid \ {child} : state'[p] = state[p] /\ saved'[p] = saved[p]
    BY <2>1, <2>5, <2>7
  <2>9. TypeOK'
    BY <2>1, <2>5, <2>6 DEF IInv, TypeOK, Taken, Location, KernelExit
  <2>10. RunningInv'
    <3>1. /\ masked' = TRUE /\ current' = current /\ state'[current] = "live"
      BY <1>0, <2>2, <2>5, <2>8 DEF Taken
    <3>2. Len(kstack'[current]) = 1 /\ kstack'[current][1] \in UserFrames(current)
      BY <2>3, <2>6
    <3> QED
      BY <2>5, <3>1, <3>2 DEF RunningInv, Thread, ExecStep, KernelExit, UserFrames
  <2>11. WaitingInv'
    <3> SUFFICES ASSUME NEW p \in Pid, p # current, state'[p] = "live"
                 PROVE  \/ /\ saved'[p] \in {"ret_to_user", "check_signal"}
                           /\ Len(kstack'[p]) = 1 /\ kstack'[p][1] \in UserFrames(p)
                        \/ saved'[p] \in Parked /\ kstack'[p] = <<>>
      BY <2>5 DEF WaitingInv, UserFrames
    <3>1. CASE p = child
      BY <3>1, <2>4, <2>6, <2>8
    <3>2. CASE p # child
      BY <3>2, <2>6, <2>8 DEF IInv, WaitingInv
    <3> QED
      BY <3>1, <3>2
  <2>12. OnlyUserFramesWait'
    <3> SUFFICES ASSUME NEW p \in Pid, p # current, NEW i \in 1..Len(kstack'[p])
                 PROVE  kstack'[p][i].spsr = "EL0t"
      BY <2>5 DEF OnlyUserFramesWait
    <3>1. CASE p = child
      BY <3>1, <2>4, <2>6 DEF UserFrames
    <3>2. CASE p # child
      BY <3>2, <2>6 DEF IInv, OnlyUserFramesWait
    <3> QED
      BY <3>1, <3>2
  <2> QED
    BY <2>9, <2>10, <2>11, <2>12 DEF IInv
<1> QED
  BY <1>1, <1>2

(* exit switches away for good; the slot keeps no frame that could return. *)
LEMMA SysExitStep ==
  ASSUME IInv, SysExit
  PROVE  IInv'
<1> DEFINE st == [state EXCEPT ![current] = "zombie"]
<1>1. /\ UserFrame \in UserFrames(current) /\ UserFrame \in Frame
      /\ kstack[current] = <<>> /\ current \in Pid
  BY EntryFrame DEF SysExit, IInv, TypeOK
<1>2. /\ kstack' \in [Pid -> Seq(Frame)] /\ kstack'[current] = <<UserFrame>>
      /\ \A p \in Pid \ {current} : kstack'[p] = kstack[p]
  BY <1>1, Pushing DEF SysExit
<1>3. /\ st \in [Pid -> {"free", "live", "zombie"}] /\ st[current] = "zombie"
      /\ \A p \in Pid : st[p] = "live" => state[p] = "live"
  BY <1>1 DEF IInv, TypeOK
<1> HIDE DEF st
<1>4. /\ SwitchTo(st, "ret_to_user") /\ masked' = TRUE
      /\ elr' = pc /\ spsr' = "EL0t" /\ UNCHANGED <<pc, x0, sp_el0, ustack>>
  BY DEF SysExit, Taken, st
<1>5. /\ elr' \in UserPC \cup Location /\ spsr' \in {"EL0t", "EL1h"}
      /\ ustack' \in [Pid -> Data] /\ "ret_to_user" \in Location
  BY <1>4 DEF IInv, TypeOK, Location, KernelExit
<1>6. \A i \in 1..Len(kstack'[current]) : kstack'[current][i].spsr = "EL0t"
  BY <1>1, <1>2 DEF UserFrames
<1> QED
  BY <1>2, <1>3, <1>4, <1>5, <1>6, Switching

(* An interrupted kernel thread has no frame of its own yet, and no task   *)
(* has a user context: the only frame is the thread's.                     *)
LEMMA IrqFromKernelStep ==
  ASSUME IInv, IrqFromKernel
  PROVE  IInv'
<1> DEFINE return == IF at = "user_at_el1" THEN pc ELSE at
           f == [elr |-> return, spsr |-> "EL1h", sp_el0 |-> sp_el0, x0 |-> x0]
<1>1. /\ at \in Location /\ ~masked /\ at # "el0" /\ at \notin KernelExit
      /\ at \in Thread \/ at = "user_at_el1"
  BY DEF IInv, TypeOK, RunningInv, IrqFromKernel, Location, Thread
<1>2. NoUserYet /\ kstack[current] = <<>> /\ state[current] = "live"
  BY <1>1 DEF IInv, RunningInv
<1>3. return \in {Test} \cup Thread
  BY <1>1, <1>2 DEF NoUserYet
<1>4. OnOwnStack(return, sp_el0)
  <2>1. CASE at = "user_at_el1"
    <3>1. return = Test /\ "exec_eret" \in Location
      BY <2>1, <1>2 DEF NoUserYet, Location, ExecStep
    <3> QED
      BY <3>1, Places, TrapFrameAssumption DEF OnOwnStack
  <2>2. CASE at \in Thread
    <3>1. return = at
      BY <2>2 DEF Thread, ExecStep
    <3> QED
      BY <2>2, <3>1 DEF IInv, RunningInv
  <2> QED
    BY <1>1, <2>1, <2>2
<1>5. return \in UserPC \cup Location
  BY <1>3, Places, TrapFrameAssumption
<1>6. x0 \in Result /\ sp_el0 \in StackPointer /\ current \in Pid
  BY DEF IInv, TypeOK
<1>7. f \in Frame
  BY <1>5, <1>6 DEF Frame
<1>8. f \in ThreadFrames /\ f \notin UserFrames(current)
  BY <1>3, <1>7 DEF ThreadFrames, UserFrames
<1>9. /\ elr' = return /\ spsr' = "EL1h" /\ masked' = TRUE
      /\ kstack' = Pushed(f) /\ at' = "restore"
      /\ UNCHANGED <<state, current, pc, x0, sp_el0, saved, ustack>>
  BY DEF IrqFromKernel, Taken, WayBack
<1>10. OnOwnStack(f.elr, f.sp_el0)
  BY <1>4
<1> HIDE DEF f, return
<1>11. /\ kstack' \in [Pid -> Seq(Frame)] /\ kstack'[current] = <<f>>
       /\ \A p \in Pid \ {current} : kstack'[p] = kstack[p]
  BY <1>2, <1>7, <1>9, Pushing
<1>12. TypeOK'
  BY <1>5, <1>9, <1>11 DEF IInv, TypeOK, Location, KernelExit
<1>13. NoUserYet'
  BY <1>2, <1>3, <1>9 DEF NoUserYet
<1>14. RunningInv'
  <2>1. kstack'[current'] = <<f>> /\ state'[current'] = "live"
    BY <1>2, <1>9, <1>11
  <2>2. Len(kstack'[current']) = 1 /\ kstack'[current'][1] = f
    BY <2>1
  <2>3. f.elr = "exec_eret" => f.sp_el0 = [stack |-> current', offset |-> 0]
    BY <1>9, <1>10 DEF OnOwnStack
  <2> QED
    BY <1>8, <1>9, <1>13, <2>1, <2>2, <2>3
       DEF RunningInv, Thread, ExecStep, KernelExit, ThreadFrames, OnOwnStack
<1> QED
  BY <1>9, <1>11, <1>12, <1>14, Staying DEF IInv

(* idle() switches away; it will resume where it was.                      *)
LEMMA IdleStep ==
  ASSUME IInv, Idle
  PROVE  IInv'
<1>1. /\ at = "idle" /\ at \in Thread /\ "idle" \in Parked
  BY DEF Idle, Thread, Parked
<1>2. kstack[current] = <<>> /\ (masked \/ NoUserYet)
  BY <1>1 DEF IInv, RunningInv
<1>3. /\ SwitchTo(state, "idle") /\ UNCHANGED <<masked, kstack, ustack>>
      /\ UNCHANGED <<pc, x0, sp_el0, elr, spsr>>
  BY DEF Idle, cpu
<1>4. /\ state \in [Pid -> {"free", "live", "zombie"}] /\ masked \in BOOLEAN
      /\ kstack \in [Pid -> Seq(Frame)] /\ ustack \in [Pid -> Data] /\ "idle" \in Location
      /\ elr \in UserPC \cup Location /\ spsr \in {"EL0t", "EL1h"}
  BY DEF IInv, TypeOK, Location
<1>5. /\ \A i \in 1..Len(kstack'[current]) : kstack'[current][i].spsr = "EL0t"
      /\ kstack'[current] = <<>>
      /\ masked' \/ (NoUserYet /\ "idle" \in Parked /\ elr' = elr)
  BY <1>1, <1>2, <1>3
<1> QED
  BY <1>1, <1>3, <1>4, <1>5, Switching

(* zombie_reaper() frees the ended tasks, and changes no live one.         *)
LEMMA ReapStep ==
  ASSUME IInv, Reap
  PROVE  IInv'
<1> DEFINE st == [p \in Pid |-> IF state[p] = "zombie" THEN "free" ELSE state[p]]
<1>1. /\ at = "reaper" /\ at \in Thread /\ "reaper" \in Parked
  BY DEF Reap, Thread, Parked
<1>2. kstack[current] = <<>> /\ (masked \/ NoUserYet)
  BY <1>1 DEF IInv, RunningInv
<1>3. /\ SwitchTo(st, "reaper") /\ UNCHANGED <<masked, kstack, ustack>>
      /\ UNCHANGED <<pc, x0, sp_el0, elr, spsr>>
  BY DEF Reap, cpu
<1>4. /\ st \in [Pid -> {"free", "live", "zombie"}] /\ masked \in BOOLEAN
      /\ kstack \in [Pid -> Seq(Frame)] /\ ustack \in [Pid -> Data] /\ "reaper" \in Location
      /\ elr \in UserPC \cup Location /\ spsr \in {"EL0t", "EL1h"}
  BY DEF IInv, TypeOK, Location
<1>5. \A p \in Pid : st[p] = "live" => state[p] = "live"
  OBVIOUS
<1>6. /\ \A i \in 1..Len(kstack'[current]) : kstack'[current][i].spsr = "EL0t"
      /\ kstack'[current] = <<>>
      /\ masked' \/ (NoUserYet /\ "reaper" \in Parked /\ elr' = elr)
  BY <1>1, <1>2, <1>3
<1> HIDE DEF st
<1> QED
  BY <1>1, <1>3, <1>4, <1>5, <1>6, Switching

(* check_resched() switches away with one user frame on the stack, or goes *)
(* on.                                                                     *)
LEMMA CheckReschedStep ==
  ASSUME IInv, CheckResched
  PROVE  IInv'
<1>1. /\ at = "ret_to_user" /\ masked = TRUE /\ Len(kstack[current]) = 1
      /\ kstack[current][1] \in UserFrames(current) /\ state[current] = "live"
  BY DEF CheckResched, IInv, RunningInv, KernelExit, TypeOK
<1>2. /\ UNCHANGED <<masked, kstack, ustack, pc, x0, sp_el0, elr, spsr>>
  BY DEF CheckResched, cpu
<1>3. /\ state \in [Pid -> {"free", "live", "zombie"}] /\ masked \in BOOLEAN
      /\ kstack \in [Pid -> Seq(Frame)] /\ ustack \in [Pid -> Data]
      /\ elr \in UserPC \cup Location /\ spsr \in {"EL0t", "EL1h"}
      /\ "check_signal" \in Location
  BY DEF IInv, TypeOK, Location, KernelExit
<1>4. CASE at' = "check_signal" /\ UNCHANGED <<state, current, saved>>
  <2>1. WaitingInv' /\ OnlyUserFramesWait'
    BY <1>2, <1>3, <1>4, Staying
  <2>2. TypeOK'
    BY <1>2, <1>3, <1>4 DEF IInv, TypeOK
  <2>3. RunningInv'
    BY <1>1, <1>2, <1>4 DEF RunningInv, Thread, ExecStep, KernelExit, UserFrames
  <2> QED
    BY <2>1, <2>2, <2>3 DEF IInv
<1>5. CASE SwitchTo(state, "check_signal")
  <2>1. \A i \in 1..Len(kstack'[current]) : kstack'[current][i].spsr = "EL0t"
    BY <1>1, <1>2 DEF UserFrames
  <2> QED
    BY <1>1, <1>2, <1>3, <1>5, <2>1, Switching
<1> QED
  BY <1>4, <1>5 DEF CheckResched

(* check_signal() ends the task or goes on to the restore.                 *)
LEMMA CheckSignalStep ==
  ASSUME IInv, CheckSignal
  PROVE  IInv'
<1> DEFINE st == [state EXCEPT ![current] = "zombie"]
<1>1. /\ at = "check_signal" /\ masked = TRUE /\ Len(kstack[current]) = 1
      /\ kstack[current][1] \in UserFrames(current) /\ state[current] = "live"
  BY DEF CheckSignal, IInv, RunningInv, KernelExit, TypeOK
<1>2. /\ UNCHANGED <<masked, kstack, ustack, pc, x0, sp_el0, elr, spsr>>
  BY DEF CheckSignal, cpu
<1>3. /\ state \in [Pid -> {"free", "live", "zombie"}] /\ masked \in BOOLEAN
      /\ kstack \in [Pid -> Seq(Frame)] /\ ustack \in [Pid -> Data]
      /\ elr \in UserPC \cup Location /\ spsr \in {"EL0t", "EL1h"}
      /\ "restore" \in Location /\ current \in Pid
  BY DEF IInv, TypeOK, Location, KernelExit
<1>4. CASE at' = "restore" /\ UNCHANGED <<state, current, saved>>
  <2>1. WaitingInv' /\ OnlyUserFramesWait'
    BY <1>2, <1>3, <1>4, Staying
  <2>2. TypeOK'
    BY <1>2, <1>3, <1>4 DEF IInv, TypeOK
  <2>3. RunningInv'
    BY <1>1, <1>2, <1>4 DEF RunningInv, Thread, ExecStep, KernelExit, UserFrames
  <2> QED
    BY <2>1, <2>2, <2>3 DEF IInv
<1>5. CASE SwitchTo(st, "restore")
  <2>1. \A i \in 1..Len(kstack'[current]) : kstack'[current][i].spsr = "EL0t"
    BY <1>1, <1>2 DEF UserFrames
  <2>2. /\ st \in [Pid -> {"free", "live", "zombie"}] /\ st[current] = "zombie"
        /\ \A p \in Pid : st[p] = "live" => state[p] = "live"
    BY <1>3
  <2> HIDE DEF st
  <2> QED
    BY <1>1, <1>2, <1>3, <1>5, <2>1, <2>2, Switching
<1> QED
  BY <1>4, <1>5 DEF CheckSignal

(* kernel_exit takes the only frame off the stack.                         *)
LEMMA Popping ==
  ASSUME NEW s \in Seq(Frame), Len(s) = 1
  PROVE  Last(s) = s[1] /\ s[1] \in Frame /\ s # <<>> /\ FramePopped(s) = <<>>
BY DEF Last, FramePopped, Front

(* kernel_exit pops the frame into the system registers, masked.           *)
LEMMA RestoreStep ==
  ASSUME IInv, Restore
  PROVE  IInv'
<1> DEFINE f == kstack[current][1]
<1>1. /\ at = "restore" /\ masked = TRUE /\ Len(kstack[current]) = 1
      /\ state[current] = "live" /\ current \in Pid /\ kstack \in [Pid -> Seq(Frame)]
  BY DEF Restore, IInv, RunningInv, KernelExit, TypeOK
<1>2. /\ Last(kstack[current]) = f /\ f \in Frame
      /\ FramePopped(kstack[current]) = <<>>
  BY <1>1, Popping
<1>3. \/ f \in UserFrames(current)
      \/ f \in ThreadFrames /\ NoUserYet /\ OnOwnStack(f.elr, f.sp_el0)
  BY <1>1 DEF IInv, RunningInv
<1> HIDE DEF f
<1>4. /\ at' = "restored" /\ elr' = f.elr /\ spsr' = f.spsr /\ x0' = f.x0
      /\ sp_el0' = f.sp_el0
      /\ UNCHANGED <<state, current, masked, pc, saved, ustack>>
  BY <1>2 DEF Restore, StackPointerOf
<1>5. /\ kstack' \in [Pid -> Seq(Frame)] /\ kstack'[current] = <<>>
      /\ \A p \in Pid \ {current} : kstack'[p] = kstack[p]
  BY <1>1, <1>2 DEF Restore
<1>6. TypeOK'
  BY <1>2, <1>4, <1>5 DEF IInv, TypeOK, Frame, Location, KernelExit
<1>7. RunningInv'
  <2>1. CASE f \in UserFrames(current)
    BY <2>1, <1>1, <1>4, <1>5
       DEF RunningInv, UserFrames, Thread, ExecStep, KernelExit
  <2>2. CASE f \in ThreadFrames /\ NoUserYet /\ OnOwnStack(f.elr, f.sp_el0)
    <3>1. NoUserYet'
      BY <2>2, <1>4 DEF NoUserYet, ThreadFrames
    <3>2. OnOwnStack(elr, sp_el0)'
      BY <2>2, <1>4 DEF OnOwnStack
    <3> QED
      BY <2>2, <3>1, <3>2, <1>1, <1>4, <1>5
         DEF RunningInv, ThreadFrames, Thread, ExecStep, KernelExit
  <2> QED
    BY <1>3, <2>1, <2>2
<1> QED
  BY <1>4, <1>5, <1>6, <1>7, Staying DEF IInv

(* An eret of interrupted or unmasked kernel code stays in the kernel, any *)
(* other one enters user mode, on the stack of the task that is running.   *)
LEMMA EretStep ==
  ASSUME IInv, Eret
  PROVE  IInv'
<1>1. /\ at \in {"restored", "exec_eret"} /\ at' = Target /\ masked' = FALSE
      /\ pc' = IF elr \in UserPC THEN elr ELSE pc
      /\ UNCHANGED <<state, current, x0, sp_el0, elr, spsr, kstack, saved, ustack>>
  BY DEF Eret
<1>2. kstack[current] = <<>> /\ state[current] = "live"
  BY <1>1 DEF IInv, RunningInv, Thread, ExecStep
<1>3. /\ elr \in UserPC \cup Location /\ spsr \in {"EL0t", "EL1h"}
      /\ kstack \in [Pid -> Seq(Frame)] /\ masked \in BOOLEAN
  BY DEF IInv, TypeOK
<1>4. TypeOK'
  BY <1>1 DEF IInv, TypeOK, Target, Location
<1>5. \/ at = "restored" /\ spsr = "EL0t" /\ elr \in UserPC /\ sp_el0.stack = current
      \/ at = "exec_eret" /\ spsr = "EL0t" /\ elr \in UserPC /\ sp_el0.stack = current
      \/ NoUserYet /\ OnOwnStack(elr, sp_el0)
         /\ \/ elr \in Thread
            \/ elr = Test /\ spsr = "EL1h"
  <2>1. CASE at = "restored" /\ spsr = "EL0t"
    BY <2>1 DEF IInv, RunningInv
  <2>2. CASE at = "restored" /\ spsr = "EL1h"
    BY <2>2 DEF IInv, RunningInv, NoUserYet
  <2>3. CASE at = "exec_eret"
    <3>1. sp_el0 = [stack |-> current, offset |-> 0]
      BY <2>3 DEF IInv, RunningInv, Thread, ExecStep, OnOwnStack
    <3>2. CASE masked
      BY <2>3, <3>1, <3>2, TrapFrameAssumption DEF IInv, RunningInv, ExecStep
    <3>3. CASE ~masked
      <4>1. NoUserYet
        BY <2>3, <3>3 DEF IInv, RunningInv, Thread, ExecStep
      <4>2. OnOwnStack(elr, sp_el0)
        BY <3>1 DEF OnOwnStack
      <4> QED
        BY <2>3, <3>1, <4>1, <4>2, <1>3, TrapFrameAssumption DEF NoUserYet
    <3> QED
      BY <3>2, <3>3
  <2> QED
    BY <1>1, <1>3, <2>1, <2>2, <2>3
<1>6. RunningInv'
  <2>1. CASE spsr = "EL0t" /\ elr \in UserPC /\ sp_el0.stack = current
    <3>1. at' = "el0"
      BY <2>1, <1>1 DEF Target
    <3> QED
      BY <2>1, <3>1, <1>1, <1>2 DEF RunningInv, Thread, ExecStep, KernelExit
  <2>2. CASE NoUserYet /\ elr \in Thread /\ OnOwnStack(elr, sp_el0)
    <3>1. elr \notin UserPC
      BY <2>2, Places
    <3>2. at' = elr /\ pc' = pc
      BY <3>1, <1>1 DEF Target
    <3>3. NoUserYet' /\ OnOwnStack(at, sp_el0)'
      BY <2>2, <3>2, <1>1 DEF NoUserYet, OnOwnStack
    <3> QED
      BY <2>2, <3>2, <3>3, <1>1, <1>2 DEF RunningInv, Thread, ExecStep, KernelExit
  <2>3. CASE NoUserYet /\ elr = Test /\ spsr = "EL1h"
    <3>1. at' = "user_at_el1" /\ pc' = Test
      BY <2>3, <1>1, TrapFrameAssumption DEF Target
    <3>2. NoUserYet'
      BY <2>3, <3>1, <1>1 DEF NoUserYet
    <3> QED
      BY <3>1, <3>2, <1>1, <1>2 DEF RunningInv, Thread, ExecStep, KernelExit
  <2> QED
    BY <1>5, <2>1, <2>2, <2>3
<1> QED
  BY <1>1, <1>3, <1>4, <1>6, Staying DEF IInv

(* A user instruction changes registers and stack of its own task only.    *)
LEMMA ExecuteStep ==
  ASSUME IInv, Execute
  PROVE  IInv'
<1>1. /\ at = "el0" /\ ~masked /\ sp_el0 \in StackPointer /\ sp_el0.stack = current
      /\ kstack[current] = <<>> /\ state[current] = "live"
  BY EntryFrame DEF Execute, IInv, RunningInv
<1>2. PICK off \in Offset : sp_el0' = [sp_el0 EXCEPT !.offset = off]
  BY DEF Execute
<1>3. sp_el0' \in StackPointer /\ sp_el0'.stack = current
  BY <1>1, <1>2 DEF StackPointer
<1>4. /\ pc' \in UserPC
      /\ UNCHANGED <<state, current, at, masked, x0, elr, spsr, kstack, saved>>
  BY DEF Execute
<1>5. ustack' \in [Pid -> Data]
  BY DEF Execute, IInv, TypeOK
<1>6. TypeOK'
  BY <1>3, <1>4, <1>5 DEF IInv, TypeOK
<1>7. RunningInv'
  BY <1>1, <1>3, <1>4 DEF RunningInv, Thread, ExecStep, KernelExit
<1> QED
  BY <1>4, <1>6, <1>7, Staying DEF IInv, TypeOK

(* The instructions of do_exec(): one system register each.                *)
LEMMA ExecSteps ==
  ASSUME IInv, ExecSetSpsr \/ ExecSetElr \/ ExecSetSp
  PROVE  IInv'
<1>1. /\ at \in ExecStep \ {"exec_eret"} /\ at' \in ExecStep \ {"exec"}
      /\ UNCHANGED <<state, current, masked, pc, x0, kstack, saved, ustack>>
  BY DEF ExecSetSpsr, ExecSetElr, ExecSetSp, ExecStep
<1>2. kstack[current] = <<>> /\ state[current] = "live" /\ (masked \/ NoUserYet)
  BY <1>1 DEF IInv, RunningInv, Thread, ExecStep
<1>3. [stack |-> current, offset |-> 0] \in StackPointer
  BY TrapFrameAssumption DEF IInv, TypeOK, StackPointer
<1>4. TypeOK'
  BY <1>1, <1>3, TrapFrameAssumption
     DEF IInv, TypeOK, ExecSetSpsr, ExecSetElr, ExecSetSp, Location, ExecStep
<1>5. NoUserYet => NoUserYet'
  BY <1>1 DEF NoUserYet, ExecSetSpsr, ExecSetElr, ExecSetSp
<1>6. OnOwnStack(at, sp_el0)'
  BY DEF OnOwnStack, ExecSetSpsr, ExecSetElr, ExecSetSp
<1>7. masked => spsr' = "EL0t" /\ (at' \in {"exec_elr_set", "exec_eret"} => elr' = Test)
  BY DEF IInv, RunningInv, ExecStep, ExecSetSpsr, ExecSetElr, ExecSetSp
<1>8. RunningInv'
  BY <1>1, <1>2, <1>5, <1>6, <1>7 DEF RunningInv, Thread, ExecStep, KernelExit
<1> QED
  BY <1>1, <1>4, <1>8, Staying DEF IInv, TypeOK

(* main() starts masked, with empty kernel stacks and no user task.        *)
LEMMA IInvInit == Init => IInv
<1> SUFFICES ASSUME Init PROVE IInv
  OBVIOUS
<1>1. TypeOK
  <2>1. 0 \in Pid /\ 0 \in Result /\ sp_el0 \in StackPointer
    BY TrapFrameAssumption DEF Init, Pid, Result, StackPointer
  <2>2. saved \in [Pid -> Location]
    BY DEF Init, Location, ExecStep
  <2>3. kstack \in [Pid -> Seq(Frame)]
    BY DEF Init
  <2>4. state \in [Pid -> {"free", "live", "zombie"}]
    BY DEF Init
  <2> QED
    BY <2>1, <2>2, <2>3, <2>4, TrapFrameAssumption DEF Init, TypeOK, Location
<1>2. RunningInv
  <2>1. 0 \in Pid
    BY TrapFrameAssumption DEF Pid
  <2>2. NoUserYet
    BY DEF Init, NoUserYet, Thread, Parked
  <2> QED
    BY <2>1, <2>2
       DEF Init, RunningInv, Thread, ExecStep, KernelExit, OnOwnStack
<1>3. WaitingInv
  BY DEF Init, WaitingInv, Parked
<1>4. OnlyUserFramesWait
  BY DEF Init, OnlyUserFramesWait
<1> QED
  BY <1>1, <1>2, <1>3, <1>4 DEF IInv

(* Every step keeps the invariant.                                         *)
LEMMA IInvStep == IInv /\ [Next]_vars => IInv'
<1> SUFFICES ASSUME IInv, [Next]_vars PROVE IInv'
  OBVIOUS
<1>1. CASE Next
  BY <1>1, ExecuteStep, SysForkStep, SysExitStep, TrapFromUserStep, SysOtherStep,
     SysExecStep, IrqFromKernelStep, IdleStep, ReapStep, ExecSteps,
     CheckReschedStep, CheckSignalStep, RestoreStep, EretStep
     DEF Next
<1>2. CASE UNCHANGED vars
  BY <1>2 DEF vars, cpu, IInv, TypeOK, RunningInv, WaitingInv, OnlyUserFramesWait,
     NoUserYet, OnOwnStack
<1> QED
  BY <1>1, <1>2

(* The inductive invariant holds throughout, for every number of slots.    *)
THEOREM Invariance == Spec => []IInv
BY IInvInit, IInvStep, PTL DEF Spec

(* Every register, frame and slot holds what it may.                       *)
THEOREM TypeCorrect == Spec => []TypeOK
<1>1. IInv => TypeOK
  BY DEF IInv
<1> QED
  BY <1>1, Invariance, PTL

(* A trap leaves the kernel stack as it found it: one user frame while the *)
(* task waits on its way back, none in user mode or in a kernel thread.    *)
THEOREM StackBalance == Spec => []KernelStackBalanced
<1>1. IInv => KernelStackBalanced
  <2> SUFFICES ASSUME IInv PROVE KernelStackBalanced
    OBVIOUS
  <2>1. at = "el0" => kstack[current] = <<>>
    BY DEF IInv, RunningInv
  <2>2. ASSUME NEW p \in Pid \ {current}, state[p] = "live"
        PROVE  Len(kstack[p]) = IF saved[p] \in KernelExit THEN 1 ELSE 0
    <3>1. \/ saved[p] \in {"ret_to_user", "check_signal"} /\ Len(kstack[p]) = 1
          \/ saved[p] \in Parked /\ kstack[p] = <<>>
      BY <2>2 DEF IInv, WaitingInv
    <3>2. Len(<<>>) = 0
      OBVIOUS
    <3> QED
      BY <3>1, <3>2 DEF KernelExit, Parked
  <2> QED
    BY <2>1, <2>2 DEF KernelStackBalanced
<1> QED
  BY <1>1, Invariance, PTL

(* No interrupted kernel thread is ever switched out in mid-interrupt.     *)
THEOREM WaitingFrames == Spec => []OnlyUserFramesWait
<1>1. IInv => OnlyUserFramesWait
  BY DEF IInv
<1> QED
  BY <1>1, Invariance, PTL
-----------------------------------------------------------------------------
(***************************************************************************)
(* The user machine.  UserCtx and RunningTask are the abstract state the   *)
(* instance User gives to a state of the kernel.                           *)
(***************************************************************************)
UserCtx     == [p \in Pid |-> UserContext(p)]
RunningTask == IF at = "el0" THEN current ELSE Nobody

(* The context that waits on the kernel stack of p.                        *)
Stored(p) ==
  IF state[p] = "live" /\ kstack[p] # <<>> /\ kstack[p][1].spsr = "EL0t"
  THEN Context(p, kstack[p][1].elr, kstack[p][1].sp_el0, kstack[p][1].x0)
  ELSE NoContext

(* The context of a task that is not in user mode is in its frame.         *)
LEMMA Elsewhere ==
  /\ \A p \in Pid : p # current \/ at \notin {"el0", "restored"} =>
       UserContext(p) = Stored(p)
  /\ \A p \in Pid : p # current' \/ at' \notin {"el0", "restored"} =>
       UserContext(p)' = Stored(p)'
BY DEF UserContext, Stored

(* A step that leaves p alone does not change what waits on its stack.     *)
LEMMA SameStored ==
  ASSUME NEW p, UNCHANGED <<kstack[p], ustack[p]>>,
         (state[p] = "live") = (state'[p] = "live")
  PROVE  Stored(p)' = Stored(p)
BY DEF Stored, Context

(* A user context, taken from the registers or from a frame.               *)
LEMMA OwnContext ==
  ASSUME NEW p \in Pid, NEW upc \in UserPC, NEW sp \in StackPointer, sp.stack = p,
         NEW r \in Result, IInv
  PROVE  /\ Context(p, upc, sp, r) =
              [pc |-> upc, offset |-> sp.offset, x0 |-> r, stack |-> ustack[p]]
         /\ Context(p, upc, sp, r) \in User!Context
         /\ Context(p, upc, sp, r) # NoContext
<1>1. Context(p, upc, sp, r) =
        [pc |-> upc, offset |-> sp.offset, x0 |-> r, stack |-> ustack[p]]
  BY DEF Context
<1>2. sp.offset \in Offset /\ ustack[p] \in Data
  BY DEF StackPointer, IInv, TypeOK
<1>3. Context(p, upc, sp, r) \in User!Context
  BY <1>1, <1>2 DEF User!Context
<1>4. DOMAIN Context(p, upc, sp, r) # DOMAIN NoContext
  <2>1. "x0" \in DOMAIN Context(p, upc, sp, r)
    BY <1>1
  <2>2. "x0" \notin DOMAIN NoContext
    BY DEF NoContext
  <2> QED
    BY <2>1, <2>2
<1> QED
  BY <1>1, <1>3, <1>4

(* What the user machine shows of a task in user mode.                     *)
LEMMA InUserMode ==
  ASSUME IInv, at = "el0"
  PROVE  /\ current \in Pid /\ RunningTask = current /\ RunningTask # Nobody
         /\ UserCtx[current] = [pc |-> pc, offset |-> sp_el0.offset, x0 |-> x0,
                                stack |-> ustack[current]]
         /\ UserCtx[current] # NoContext
<1>1. /\ current \in Pid /\ state[current] = "live" /\ pc \in UserPC /\ x0 \in Result
      /\ sp_el0 \in StackPointer /\ sp_el0.stack = current
  BY DEF IInv, TypeOK, RunningInv
<1>2. UserCtx[current] = Context(current, pc, sp_el0, x0)
  BY <1>1 DEF UserCtx, UserContext
<1>3. RunningTask = current /\ current # Nobody
  BY <1>1, PidFacts DEF RunningTask, Nobody
<1> QED
  BY <1>1, <1>2, <1>3, OwnContext

(* An entry from user mode moves the context into the frame.               *)
LEMMA Entering ==
  ASSUME IInv, NEW tf \in UserFrames(current), Svc(tf)
  PROVE  /\ RunningTask' = Nobody
         /\ UserCtx' = [UserCtx EXCEPT ![current] =
                          [pc |-> tf.elr, offset |-> tf.sp_el0.offset,
                           x0 |-> tf.x0, stack |-> ustack[current]]]
<1>1. /\ at = "el0" /\ tf \in Frame /\ kstack[current] = <<>> /\ current \in Pid
      /\ state[current] = "live"
  BY EntryFrame DEF Svc, UserFrames, IInv, TypeOK, RunningInv
<1>2. /\ kstack' \in [Pid -> Seq(Frame)] /\ kstack'[current] = <<tf>>
      /\ \A p \in Pid \ {current} : kstack'[p] = kstack[p]
  BY <1>1, Pushing DEF Svc
<1>3. at' = "ret_to_user" /\ UNCHANGED <<state, current, ustack>>
  BY DEF Svc
<1>4. \A p \in Pid \ {current} : UserContext(p)' = UserContext(p)
  BY <1>2, <1>3, Elsewhere, SameStored
<1>5. UserContext(current)' =
        [pc |-> tf.elr, offset |-> tf.sp_el0.offset, x0 |-> tf.x0,
         stack |-> ustack[current]]
  <2>1. UserContext(current)' = Stored(current)'
    BY <1>1, <1>3, Elsewhere
  <2>2. kstack'[current] # <<>> /\ kstack'[current][1] = tf /\ tf.spsr = "EL0t"
        /\ tf.sp_el0.stack = current
    BY <1>2 DEF UserFrames
  <2>3. Stored(current)' = Context(current, tf.elr, tf.sp_el0, tf.x0)'
    BY <1>1, <1>3, <2>2 DEF Stored
  <2> QED
    BY <1>3, <2>1, <2>2, <2>3 DEF Context
<1> QED
  BY <1>1, <1>3, <1>4, <1>5 DEF UserCtx, RunningTask

(* A call changes x0 of its caller and nothing else of any context.        *)
LEMMA CallStep ==
  ASSUME IInv, NEW ret \in Result, Svc([UserFrame EXCEPT !.x0 = ret])
  PROVE  User!Call(ret)
<1> DEFINE tf == [UserFrame EXCEPT !.x0 = ret]
<1>1. UserFrame \in UserFrames(current) /\ at = "el0"
  BY EntryFrame DEF Svc
<1>2. tf \in UserFrames(current)
  BY <1>1 DEF UserFrames, Frame
<1>3. tf.elr = pc /\ tf.sp_el0 = sp_el0 /\ tf.x0 = ret
  BY DEF UserFrame
<1> HIDE DEF tf
<1>4. /\ RunningTask' = Nobody
      /\ UserCtx' = [UserCtx EXCEPT ![current] =
                       [pc |-> pc, offset |-> sp_el0.offset, x0 |-> ret,
                        stack |-> ustack[current]]]
  BY <1>2, <1>3, Entering DEF tf
<1>5. [UserCtx[current] EXCEPT !.x0 = ret] =
        [pc |-> pc, offset |-> sp_el0.offset, x0 |-> ret, stack |-> ustack[current]]
  <2>1. UserCtx[current] = [pc |-> pc, offset |-> sp_el0.offset, x0 |-> x0,
                            stack |-> ustack[current]]
    BY <1>1, InUserMode
  <2> QED
    BY <2>1
<1>6. UserCtx' = [UserCtx EXCEPT ![current].x0 = ret]
  BY <1>4, <1>5
<1> QED
  BY <1>1, <1>4, <1>6, InUserMode DEF User!Call, UserCtx, RunningTask

(* exec gives its caller a fresh context.                                  *)
LEMMA ExecRefines ==
  ASSUME IInv, NEW func \in UserPC, SysExec(func)
  PROVE  User!Exec(func)
<1> DEFINE tf == [UserFrame EXCEPT !.elr = func, !.x0 = 0,
                    !.sp_el0 = [stack |-> current, offset |-> 0]]
<1>1. UserFrame \in UserFrames(current) /\ at = "el0"
  BY EntryFrame DEF SysExec, Svc
<1>2. [stack |-> current, offset |-> 0] \in StackPointer
  BY TrapFrameAssumption DEF IInv, TypeOK, StackPointer
<1>3. tf \in UserFrames(current)
  BY <1>1, <1>2, PidFacts DEF UserFrames, Frame
<1>4. tf.elr = func /\ tf.sp_el0.offset = 0 /\ tf.x0 = 0
  BY DEF UserFrame
<1>5. Svc(tf)
  BY DEF SysExec
<1> HIDE DEF tf
<1>6. /\ RunningTask' = Nobody
      /\ UserCtx' = [UserCtx EXCEPT ![current] =
                       [pc |-> func, offset |-> 0, x0 |-> 0, stack |-> ustack[current]]]
  BY <1>3, <1>4, <1>5, Entering
<1>7. [UserCtx[current] EXCEPT !.pc = func, !.offset = 0, !.x0 = 0] =
        [pc |-> func, offset |-> 0, x0 |-> 0, stack |-> ustack[current]]
  <2> DEFINE c  == UserCtx[current]
             c1 == [c EXCEPT !.pc = func]
             c2 == [c1 EXCEPT !.offset = 0]
             c3 == [c2 EXCEPT !.x0 = 0]
  <2>1. c = [pc |-> pc, offset |-> sp_el0.offset, x0 |-> x0,
             stack |-> ustack[current]]
    BY <1>1, InUserMode
  <2> HIDE DEF c
  <2>2. c1 = [pc |-> func, offset |-> sp_el0.offset, x0 |-> x0,
              stack |-> ustack[current]]
    BY <2>1
  <2> HIDE DEF c1
  <2>3. c2 = [pc |-> func, offset |-> 0, x0 |-> x0, stack |-> ustack[current]]
    BY <2>2
  <2> HIDE DEF c2
  <2>4. c3 = [pc |-> func, offset |-> 0, x0 |-> 0, stack |-> ustack[current]]
    BY <2>3
  <2> QED
    BY <2>4 DEF c, c1, c2
<1>8. UserCtx' = [UserCtx EXCEPT ![current].pc = func, ![current].offset = 0,
                                 ![current].x0 = 0]
  <2> DEFINE c == UserCtx[current]
             u1 == [UserCtx EXCEPT ![current].pc = func]
             u2 == [u1 EXCEPT ![current].offset = 0]
             u3 == [u2 EXCEPT ![current].x0 = 0]
  <2>1. current \in Pid /\ DOMAIN UserCtx = Pid
    BY <1>1, InUserMode DEF UserCtx
  <2>2. u1 = [UserCtx EXCEPT ![current] = [c EXCEPT !.pc = func]]
    OBVIOUS
  <2>3. u1[current] = [c EXCEPT !.pc = func] /\ DOMAIN u1 = Pid
    BY <2>1, <2>2
  <2>4. u2 = [UserCtx EXCEPT ![current] = [c EXCEPT !.pc = func, !.offset = 0]]
    BY <2>1, <2>2, <2>3
  <2>5. u2[current] = [c EXCEPT !.pc = func, !.offset = 0] /\ DOMAIN u2 = Pid
    BY <2>1, <2>4
  <2>6. u3 = [UserCtx EXCEPT ![current] = [c EXCEPT !.pc = func, !.offset = 0, !.x0 = 0]]
    BY <2>1, <2>4, <2>5
  <2> QED
    BY <1>6, <1>7, <2>6
<1> QED
  BY <1>1, <1>6, <1>8, InUserMode DEF User!Exec, UserCtx, RunningTask

(* An interrupt of user code changes no context.                           *)
LEMMA InterruptRefines ==
  ASSUME IInv, TrapFromUser
  PROVE  User!Interrupt
<1>1. UserFrame \in UserFrames(current) /\ at = "el0" /\ Svc(UserFrame)
  BY EntryFrame DEF TrapFromUser, Svc
<1>2. UserFrame.elr = pc /\ UserFrame.sp_el0 = sp_el0 /\ UserFrame.x0 = x0
  BY DEF UserFrame
<1>3. /\ RunningTask' = Nobody
      /\ UserCtx' = [UserCtx EXCEPT ![current] =
                       [pc |-> pc, offset |-> sp_el0.offset, x0 |-> x0,
                        stack |-> ustack[current]]]
  BY <1>1, <1>2, Entering
<1>4. UserCtx' = UserCtx
  BY <1>1, <1>3, InUserMode DEF UserCtx
<1> QED
  BY <1>1, <1>3, <1>4, InUserMode DEF User!Interrupt, UserCtx, RunningTask

(* A user instruction is one of the user machine.                          *)
LEMMA ExecuteRefines ==
  ASSUME IInv, Execute
  PROVE  User!Execute
<1> DEFINE c == Context(current, pc, sp_el0, x0)'
<1>1. /\ at = "el0" /\ current \in Pid /\ sp_el0 \in StackPointer /\ sp_el0.stack = current
      /\ state[current] = "live" /\ x0 \in Result /\ ustack \in [Pid -> Data]
  BY EntryFrame DEF Execute, IInv, TypeOK, RunningInv
<1>2. PICK off \in Offset : sp_el0' = [sp_el0 EXCEPT !.offset = off]
  BY DEF Execute
<1>3. PICK d \in Data : ustack' = [ustack EXCEPT ![current] = d]
  BY <1>1 DEF Execute
<1>4. sp_el0'.offset = off /\ sp_el0'.stack = current
  BY <1>1, <1>2 DEF StackPointer
<1>5. /\ pc' \in UserPC
      /\ UNCHANGED <<state, current, at, x0, kstack>>
  BY DEF Execute
<1>6. ustack'[current] = d /\ \A p \in Pid \ {current} : ustack'[p] = ustack[p]
  BY <1>1, <1>3
<1>7. c = [pc |-> pc', offset |-> off, x0 |-> x0, stack |-> d]
  BY <1>4, <1>5, <1>6 DEF Context
<1>8. c \in User!Context /\ c.x0 = x0
  BY <1>1, <1>5, <1>7 DEF User!Context
<1>9. UserContext(current)' = c
  BY <1>1, <1>5 DEF UserContext
<1>10. \A p \in Pid \ {current} : UserContext(p)' = UserContext(p)
  BY <1>5, <1>6, Elsewhere, SameStored
<1> HIDE DEF c
<1>11. UserCtx' = [UserCtx EXCEPT ![current] = c]
  BY <1>1, <1>5, <1>9, <1>10 DEF UserCtx
<1>12. RunningTask' = RunningTask
  BY <1>5 DEF RunningTask
<1>13. UserCtx[current].x0 = x0
  BY <1>1, InUserMode
<1> QED
  BY <1>1, <1>8, <1>11, <1>12, <1>13, InUserMode DEF User!Execute, UserCtx, RunningTask

(* fork copies the context, but for x0, or returns -1.                     *)
LEMMA ForkRefines ==
  ASSUME IInv, SysFork
  PROVE  \E child \in Pid : User!Fork(child) \/ User!Call(-1)
<1> DEFINE free  == {p \in Pid : state[p] = "free"}
<1>0. /\ at = "el0" /\ UserFrame \in UserFrames(current) /\ UserFrame \in Frame
      /\ kstack[current] = <<>> /\ state[current] = "live" /\ current \in Pid
      /\ state \in [Pid -> {"free", "live", "zombie"}] /\ ustack \in [Pid -> Data]
  BY EntryFrame DEF SysFork, IInv, TypeOK, RunningInv
<1>1. CASE free = {}
  <2>1. Svc([UserFrame EXCEPT !.x0 = -1])
    BY <1>1 DEF SysFork, Svc
  <2> QED
    BY <1>0, <2>1, CallStep, PidFacts
<1>2. CASE free # {}
  <2>1. PICK child \in Pid : child = Min(free) /\ state[child] = "free"
    BY <1>2, MinOfPids
  <2>2. child # current
    BY <2>1, <1>0
  <2> DEFINE mine  == [UserFrame EXCEPT !.x0 = child]
             its   == ForkFrame(child, UserFrame)
             ctx1  == [pc |-> pc, offset |-> sp_el0.offset, x0 |-> child,
                       stack |-> ustack[current]]
             ctx2  == [pc |-> pc, offset |-> sp_el0.offset, x0 |-> 0,
                       stack |-> ustack[current]]
  <2>3. /\ mine \in Frame /\ mine.elr = pc /\ mine.sp_el0 = sp_el0 /\ mine.x0 = child
        /\ mine.spsr = "EL0t" /\ sp_el0.stack = current /\ sp_el0 \in StackPointer
    BY <1>0, <2>1, EntryFrame, PidFacts DEF UserFrames, UserFrame, Frame
  <2>4. /\ its \in Frame /\ its.elr = pc /\ its.sp_el0.stack = child
        /\ its.sp_el0.offset = sp_el0.offset /\ its.x0 = 0 /\ its.spsr = "EL0t"
    BY <1>0, <2>1, <2>3, PidFacts DEF UserFrame, Frame, StackPointer, ForkFrame
  <2>5. /\ kstack' = [Pushed(mine) EXCEPT ![child] = <<its>>]
        /\ state' = [state EXCEPT ![child] = "live"]
        /\ ustack' = [ustack EXCEPT ![child] = ustack[current]]
        /\ at' = "ret_to_user" /\ UNCHANGED current
    BY <1>2, <2>1 DEF SysFork
  <2> HIDE DEF mine, its, free
  <2>6. /\ kstack'[current] = <<mine>> /\ kstack'[child] = <<its>>
        /\ \A p \in Pid \ {current, child} : kstack'[p] = kstack[p]
    BY <2>1, <2>2, <2>3, <2>5, <1>0, Pushing
  <2>7. /\ state'[child] = "live" /\ ustack'[child] = ustack[current]
        /\ \A p \in Pid \ {child} : state'[p] = state[p] /\ ustack'[p] = ustack[p]
    BY <2>1, <2>5, <1>0
  <2>8. UserContext(current)' = ctx1
    <3>1. UserContext(current)' = Stored(current)'
      BY <1>0, <2>5, Elsewhere
    <3>2. kstack'[current] # <<>> /\ kstack'[current][1] = mine
      BY <2>6
    <3>3. Stored(current)' = ctx1
      BY <1>0, <2>2, <2>3, <2>5, <2>7, <3>2 DEF Stored, Context
    <3> QED
      BY <3>1, <3>3
  <2>9. UserContext(child)' = ctx2
    <3>1. UserContext(child)' = Stored(child)'
      BY <2>1, <2>5, Elsewhere
    <3>2. kstack'[child] # <<>> /\ kstack'[child][1] = its
      BY <2>6
    <3>3. Stored(child)' = ctx2
      BY <2>4, <2>7, <3>2 DEF Stored, Context
    <3> QED
      BY <3>1, <3>3
  <2>10. \A p \in Pid \ {current, child} : UserContext(p)' = UserContext(p)
    BY <2>5, <2>6, <2>7, Elsewhere, SameStored
  <2>11. UserCtx' = [UserCtx EXCEPT ![current] = ctx1, ![child] = ctx2]
    <3> DEFINE u == [UserCtx EXCEPT ![current] = ctx1, ![child] = ctx2]
    <3> HIDE DEF ctx1, ctx2
    <3>1. UserCtx' = [p \in Pid |-> UserContext(p)']
      BY DEF UserCtx
    <3>2. UserCtx = [p \in Pid |-> UserContext(p)]
      BY DEF UserCtx
    <3>3. u = [p \in Pid |-> IF p = child THEN ctx2 ELSE IF p = current THEN ctx1
                             ELSE UserContext(p)]
      <4>1. [UserCtx EXCEPT ![current] = ctx1] =
              [p \in Pid |-> IF p = current THEN ctx1 ELSE UserContext(p)]
        BY <3>2
      <4>2. [[UserCtx EXCEPT ![current] = ctx1] EXCEPT ![child] = ctx2] =
              [p \in Pid |-> IF p = child THEN ctx2
                             ELSE IF p = current THEN ctx1 ELSE UserContext(p)]
        BY <4>1
      <4> QED
        BY <4>2
    <3>4. \A p \in Pid : u[p] = UserContext(p)'
      <4>1. ASSUME NEW p \in Pid, p = current PROVE UserContext(p)' = ctx1
        BY <4>1, <2>5, <2>8
      <4> HIDE DEF u
      <4> QED
        BY <3>3, <4>1, <2>2, <2>9, <2>10
    <3> QED
      BY <3>1, <3>3, <3>4
  <2>12. /\ [UserCtx[current] EXCEPT !.x0 = child] = ctx1
         /\ [UserCtx[current] EXCEPT !.x0 = 0] = ctx2
    <3>1. UserCtx[current] = [pc |-> pc, offset |-> sp_el0.offset, x0 |-> x0,
                              stack |-> ustack[current]]
      BY <1>0, InUserMode
    <3> QED
      BY <3>1
  <2>13. UserCtx' = [UserCtx EXCEPT ![current].x0 = child,
                                    ![child] = [UserCtx[current] EXCEPT !.x0 = 0]]
    BY <2>11, <2>12
  <2>14. UserCtx[child] = NoContext
    BY <2>1 DEF UserCtx, UserContext
  <2>15. RunningTask' = Nobody
    BY <2>5 DEF RunningTask
  <2>16. User!Fork(child)
    BY <1>0, <2>13, <2>14, <2>15, InUserMode DEF User!Fork, UserCtx, RunningTask
  <2> QED
    BY <2>1, <2>16
<1> QED
  BY <1>1, <1>2

(* Where schedule() can lead: never to user mode, nor to its threshold.    *)
LEMMA SwitchesInKernel ==
  ASSUME IInv, NEW st, NEW resume, SwitchTo(st, resume),
         st[current] = "live" => resume \notin {"el0", "restored"},
         \A p \in Pid : st[p] = "live" => state[p] = "live"
  PROVE  at' \notin {"el0", "restored"} /\ state' = st
<1>1. PICK next \in Pid :
        /\ st[next] = "live" /\ state' = st
        /\ at' = [saved EXCEPT ![current] = resume][next]
  BY DEF SwitchTo
<1>2. saved \in [Pid -> Location]
  BY DEF IInv, TypeOK
<1>3. CASE next = current
  BY <1>1, <1>2, <1>3
<1>4. CASE next # current
  BY <1>1, <1>2, <1>4 DEF IInv, WaitingInv, Parked
<1> QED
  BY <1>1, <1>3, <1>4

(* A step inside the kernel that keeps frames, user stacks and tasks.      *)
LEMMA Silent ==
  ASSUME at \notin {"el0", "restored"}, at' \notin {"el0", "restored"},
         UNCHANGED <<kstack, ustack>>,
         \A p \in Pid : (state[p] = "live") = (state'[p] = "live")
  PROVE  UNCHANGED <<UserCtx, RunningTask>>
<1>1. \A p \in Pid : UserContext(p)' = UserContext(p)
  BY Elsewhere, SameStored
<1> QED
  BY <1>1 DEF UserCtx, RunningTask

(* Scheduling and do_exec before its eret change no context.               *)
LEMMA SilentSteps ==
  ASSUME IInv, \/ Idle \/ Reap \/ CheckResched
               \/ ExecSetSpsr \/ ExecSetElr \/ ExecSetSp
  PROVE  UNCHANGED <<UserCtx, RunningTask>>
<1>0. state \in [Pid -> {"free", "live", "zombie"}]
  BY DEF IInv, TypeOK
<1>1. CASE Idle
  BY <1>1, Silent, SwitchesInKernel DEF Idle
<1>2. CASE Reap
  <2> DEFINE st == [p \in Pid |-> IF state[p] = "zombie" THEN "free" ELSE state[p]]
  <2>1. \A p \in Pid : (state[p] = "live") = (st[p] = "live")
    BY <1>0
  <2>2. SwitchTo(st, "reaper") /\ UNCHANGED <<kstack, ustack>> /\ at = "reaper"
    BY <1>2 DEF Reap
  <2> HIDE DEF st
  <2>3. at' \notin {"el0", "restored"} /\ state' = st
    BY <2>1, <2>2, SwitchesInKernel
  <2> QED
    BY <2>1, <2>2, <2>3, Silent
<1>3. CASE CheckResched
  <2>1. CASE SwitchTo(state, "check_signal")
    BY <1>3, <2>1, Silent, SwitchesInKernel DEF CheckResched
  <2>2. CASE at' = "check_signal" /\ UNCHANGED <<state, current, saved>>
    BY <1>3, <2>2, Silent DEF CheckResched
  <2> QED
    BY <1>3, <2>1, <2>2 DEF CheckResched
<1>4. CASE ExecSetSpsr \/ ExecSetElr \/ ExecSetSp
  BY <1>4, Silent DEF ExecSetSpsr, ExecSetElr, ExecSetSp
<1> QED
  BY <1>1, <1>2, <1>3, <1>4

(* exit ends the caller's machine.                                         *)
LEMMA ExitRefines ==
  ASSUME IInv, SysExit
  PROVE  User!End(current)
<1> DEFINE st == [state EXCEPT ![current] = "zombie"]
<1>1. /\ UserFrame \in Frame /\ kstack[current] = <<>> /\ current \in Pid /\ at = "el0"
      /\ state \in [Pid -> {"free", "live", "zombie"}]
  BY EntryFrame DEF SysExit, IInv, TypeOK
<1>2. \A p \in Pid \ {current} : kstack'[p] = kstack[p] /\ ustack'[p] = ustack[p]
  BY <1>1, Pushing DEF SysExit
<1>3. /\ st[current] = "zombie"
      /\ \A p \in Pid \ {current} : st[p] = state[p]
  BY <1>1
<1>4. SwitchTo(st, "ret_to_user")
  BY DEF SysExit
<1> HIDE DEF st
<1>5. at' \notin {"el0", "restored"} /\ state' = st
  BY <1>3, <1>4, SwitchesInKernel
<1>6. \A p \in Pid \ {current} : UserContext(p)' = UserContext(p)
  BY <1>1, <1>2, <1>3, <1>5, Elsewhere, SameStored
<1>7. ASSUME NEW p \in Pid, p = current PROVE UserContext(p)' = NoContext
  BY <1>7, <1>3, <1>5 DEF UserContext
<1>8. UserCtx' = [UserCtx EXCEPT ![current] = NoContext]
  BY <1>1, <1>6, <1>7 DEF UserCtx
<1>9. RunningTask' = Nobody
  BY <1>5 DEF RunningTask
<1> QED
  BY <1>1, <1>8, <1>9, InUserMode DEF User!End, UserCtx, RunningTask

(* The end of a killed task, on its way back to user mode.                 *)
LEMMA CheckSignalRefines ==
  ASSUME IInv, CheckSignal
  PROVE  User!End(current) \/ UNCHANGED <<UserCtx, RunningTask>>
<1> DEFINE st == [state EXCEPT ![current] = "zombie"]
           f  == kstack[current][1]
<1>1. /\ at = "check_signal" /\ Len(kstack[current]) = 1
      /\ f \in UserFrames(current) /\ state[current] = "live" /\ current \in Pid
      /\ state \in [Pid -> {"free", "live", "zombie"}] /\ UNCHANGED <<kstack, ustack>>
  BY DEF CheckSignal, IInv, RunningInv, TypeOK
<1>2. CASE at' = "restore" /\ UNCHANGED <<state, current, saved>>
  BY <1>1, <1>2, Silent
<1>3. CASE SwitchTo(st, "restore")
  <2>1. /\ st[current] = "zombie"
        /\ \A p \in Pid \ {current} : st[p] = state[p]
    BY <1>1
  <2> HIDE DEF st
  <2>2. at' \notin {"el0", "restored"} /\ state' = st
    BY <1>1, <1>3, <2>1, SwitchesInKernel
  <2>3. \A p \in Pid \ {current} : UserContext(p)' = UserContext(p)
    BY <1>1, <2>1, <2>2, Elsewhere, SameStored
  <2>4. ASSUME NEW p \in Pid, p = current PROVE UserContext(p)' = NoContext
    BY <2>4, <2>1, <2>2 DEF UserContext
  <2>5. UserCtx' = [UserCtx EXCEPT ![current] = NoContext]
    BY <1>1, <2>3, <2>4 DEF UserCtx
  <2>6. UserCtx[current] # NoContext
    <3>1. UserContext(current) = Stored(current) /\ kstack[current] # <<>>
      BY <1>1, Elsewhere
    <3>2. /\ f \in Frame /\ f.spsr = "EL0t" /\ f.elr \in UserPC
          /\ f.sp_el0.stack = current /\ f.sp_el0 \in StackPointer /\ f.x0 \in Result
      BY <1>1 DEF UserFrames, Frame
    <3>3. Stored(current) = Context(current, f.elr, f.sp_el0, f.x0)
      BY <1>1, <3>1, <3>2 DEF Stored
    <3> HIDE DEF f
    <3>4. Context(current, f.elr, f.sp_el0, f.x0) # NoContext
      BY <1>1, <3>2, OwnContext
    <3> QED
      BY <1>1, <3>1, <3>3, <3>4 DEF UserCtx
  <2>7. RunningTask' = Nobody /\ RunningTask = Nobody
    BY <1>1, <2>2 DEF RunningTask
  <2> QED
    BY <1>1, <2>5, <2>6, <2>7 DEF User!End, UserCtx, RunningTask
<1> QED
  BY <1>2, <1>3 DEF CheckSignal

(* An interrupt of kernel code changes no context.                         *)
LEMMA IrqFromKernelSilent ==
  ASSUME IInv, IrqFromKernel
  PROVE  UNCHANGED <<UserCtx, RunningTask>>
<1>1. /\ at \in Location /\ ~masked /\ at # "el0" /\ at \notin KernelExit
      /\ at \in Thread \/ at = "user_at_el1"
  BY DEF IInv, TypeOK, RunningInv, IrqFromKernel, Location, Thread
<1>2. kstack[current] = <<>> /\ kstack \in [Pid -> Seq(Frame)] /\ current \in Pid
  BY <1>1 DEF IInv, RunningInv, TypeOK
<1>3. PICK f : kstack' = Pushed(f) /\ f.spsr = "EL1h"
  <2> DEFINE g == [elr |-> IF at = "user_at_el1" THEN pc ELSE at, spsr |-> "EL1h",
                   sp_el0 |-> sp_el0, x0 |-> x0]
  <2>1. kstack' = Pushed(g)
    BY DEF IrqFromKernel
  <2>2. g.spsr = "EL1h"
    OBVIOUS
  <2> HIDE DEF g
  <2> QED
    BY <2>1, <2>2
<1>4. /\ kstack'[current] = <<f>>
      /\ \A p \in Pid \ {current} : kstack'[p] = kstack[p]
  BY <1>2, <1>3 DEF Pushed
<1>5. at' = "restore" /\ UNCHANGED <<state, current, ustack>>
  BY DEF IrqFromKernel, WayBack
<1>6. ASSUME NEW p \in Pid PROVE UserContext(p)' = UserContext(p)
  <2>1. UserContext(p) = Stored(p) /\ UserContext(p)' = Stored(p)'
    BY <1>1, <1>5, Elsewhere DEF KernelExit
  <2>2. CASE p = current
    <3>1. Stored(p) = NoContext
      BY <2>2, <1>2 DEF Stored
    <3>2. kstack'[p][1] = f
      BY <2>2, <1>4
    <3>3. Stored(p)' = NoContext
      BY <3>2, <1>3 DEF Stored
    <3> QED
      BY <2>1, <3>1, <3>3
  <2>3. CASE p # current
    BY <2>1, <2>3, <1>4, <1>5, SameStored
  <2> QED
    BY <2>2, <2>3
<1>7. RunningTask' = RunningTask
  BY <1>1, <1>5 DEF RunningTask
<1> QED
  BY <1>6, <1>7 DEF UserCtx

(* The context goes from the frame to the registers.                       *)
LEMMA RestoreSilent ==
  ASSUME IInv, Restore
  PROVE  UNCHANGED <<UserCtx, RunningTask>>
<1>1. /\ at = "restore" /\ Len(kstack[current]) = 1
      /\ state[current] = "live" /\ current \in Pid /\ kstack \in [Pid -> Seq(Frame)]
  BY DEF Restore, IInv, RunningInv, TypeOK
<1>2. PICK f \in Frame : f = kstack[current][1]
  <2>1. kstack[current] \in Seq(Frame)
    BY <1>1
  <2> QED
    BY <1>1, <2>1, Popping
<1>3. Last(kstack[current]) = f /\ FramePopped(kstack[current]) = <<>>
  BY <1>1, <1>2, Popping
<1>4. /\ at' = "restored" /\ elr' = f.elr /\ spsr' = f.spsr /\ x0' = f.x0
      /\ sp_el0' = f.sp_el0 /\ UNCHANGED <<state, current, ustack>>
  BY <1>3 DEF Restore, StackPointerOf
<1>5. /\ kstack'[current] = <<>>
      /\ \A p \in Pid \ {current} : kstack'[p] = kstack[p]
  BY <1>1, <1>3 DEF Restore
<1>6. ASSUME NEW p \in Pid PROVE UserContext(p)' = UserContext(p)
  <2>1. CASE p # current
    BY <2>1, <1>4, <1>5, Elsewhere, SameStored
  <2>2. CASE p = current
    <3>1. UserContext(p) = Stored(p) /\ kstack[p] # <<>> /\ kstack[p][1] = f
      <4>1. kstack[p] # <<>>
        BY <1>1, <2>2, Popping
      <4>2. UserContext(p) = Stored(p)
        BY <1>1, Elsewhere
      <4> QED
        BY <1>2, <2>2, <4>1, <4>2
    <3>2. CASE f.spsr = "EL0t"
      <4>1. Stored(p) = Context(p, f.elr, f.sp_el0, f.x0)
        BY <3>1, <3>2, <1>1, <2>2 DEF Stored
      <4>2. UserContext(p)' = Context(p, elr, sp_el0, x0)'
        BY <3>2, <1>1, <1>4, <1>5, <2>2 DEF UserContext
      <4>3. Context(p, elr, sp_el0, x0)' = Context(p, f.elr, f.sp_el0, f.x0)
        BY <1>4 DEF Context
      <4> QED
        BY <3>1, <4>1, <4>2, <4>3
    <3>3. CASE f.spsr # "EL0t"
      <4>1. Stored(p) = NoContext
        BY <3>1, <3>3 DEF Stored
      <4>2. UserContext(p)' = NoContext
        BY <3>3, <1>4, <1>5, <2>2 DEF UserContext
      <4> QED
        BY <3>1, <4>1, <4>2
    <3> QED
      BY <3>2, <3>3
  <2> QED
    BY <2>1, <2>2
<1>7. RunningTask' = RunningTask
  BY <1>1, <1>4 DEF RunningTask
<1> QED
  BY <1>6, <1>7 DEF UserCtx

(* An eret into user mode resumes a context, or starts do_exec()'s.        *)
LEMMA EretRefines ==
  ASSUME IInv, Eret
  PROVE  \/ User!Resume(current) \/ User!Start(current)
         \/ UNCHANGED <<UserCtx, RunningTask>>
<1>1. /\ at \in {"restored", "exec_eret"} /\ at' = Target
      /\ pc' = IF elr \in UserPC THEN elr ELSE pc
      /\ UNCHANGED <<state, current, x0, sp_el0, elr, spsr, kstack, ustack>>
  BY DEF Eret
<1>2. /\ kstack[current] = <<>> /\ state[current] = "live" /\ current \in Pid
      /\ elr \in UserPC \cup Location /\ spsr \in {"EL0t", "EL1h"}
      /\ x0 \in Result /\ sp_el0 \in StackPointer
  BY <1>1 DEF IInv, RunningInv, TypeOK, Thread, ExecStep
<1>3. \A p \in Pid \ {current} : UserContext(p)' = UserContext(p)
  BY <1>1, Elsewhere, SameStored
<1>4. RunningTask = Nobody
  BY <1>1 DEF RunningTask
<1>5. CASE at = "restored" /\ spsr = "EL0t"
  <2>1. elr \in UserPC /\ sp_el0.stack = current
    BY <1>5 DEF IInv, RunningInv
  <2>2. at' = "el0" /\ pc' = elr
    BY <2>1, <1>1, <1>5 DEF Target
  <2>3. UserContext(current) = Context(current, elr, sp_el0, x0)
    BY <1>2, <1>5 DEF UserContext
  <2>4. ASSUME NEW p \in Pid, p = current PROVE UserContext(p)' = UserContext(p)
    <3>1. UserContext(p)' = Context(p, pc, sp_el0, x0)'
      BY <2>4, <2>2, <1>1, <1>2 DEF UserContext
    <3> QED
      BY <3>1, <2>2, <2>3, <2>4, <1>1 DEF Context
  <2>5. UserCtx' = UserCtx
    BY <1>3, <2>4 DEF UserCtx
  <2>6. UserCtx[current] # NoContext
    BY <1>2, <2>1, <2>3, OwnContext DEF UserCtx
  <2>7. RunningTask' = current
    BY <2>2, <1>1 DEF RunningTask
  <2> QED
    BY <1>4, <2>5, <2>6, <2>7 DEF User!Resume, UserCtx, RunningTask
<1>6. CASE at = "exec_eret" /\ spsr = "EL0t" /\ elr \in UserPC
  <2>1. sp_el0 = [stack |-> current, offset |-> 0]
    BY <1>6 DEF IInv, RunningInv, Thread, ExecStep, OnOwnStack
  <2>2. elr = Test
    <3>1. CASE masked
      BY <1>6, <3>1 DEF IInv, RunningInv
    <3>2. CASE ~masked
      <4>1. NoUserYet
        BY <1>6, <3>2 DEF IInv, RunningInv, Thread, ExecStep
      <4> QED
        BY <1>6, <4>1, Places DEF NoUserYet
    <3> QED
      BY <3>1, <3>2
  <2>3. at' = "el0" /\ pc' = Test
    BY <1>1, <1>6, <2>2 DEF Target
  <2>4. PICK c : c = Context(current, Test, sp_el0, x0)
    OBVIOUS
  <2>5. c \in User!Context /\ c.pc = Test /\ c.offset = 0
    BY <2>1, <2>4, <1>2, TrapFrameAssumption, OwnContext
  <2>6. ASSUME NEW p \in Pid, p = current PROVE UserContext(p)' = c
    <3>1. UserContext(p)' = Context(p, pc, sp_el0, x0)'
      BY <2>6, <2>3, <1>1, <1>2 DEF UserContext
    <3> QED
      BY <3>1, <2>3, <2>4, <2>6, <1>1 DEF Context
  <2>7. UserCtx' = [UserCtx EXCEPT ![current] = c]
    BY <1>2, <1>3, <2>6 DEF UserCtx
  <2>8. UserCtx[current] = NoContext
    BY <1>2, <1>6 DEF UserCtx, UserContext
  <2>9. RunningTask' = current
    BY <2>3, <1>1 DEF RunningTask
  <2> QED
    BY <1>4, <2>5, <2>7, <2>8, <2>9 DEF User!Start, UserCtx, RunningTask
<1>7. CASE spsr = "EL1h" \/ elr \notin UserPC
  <2>1. at = "restored" => spsr = "EL1h" /\ NoUserYet
    BY <1>2, <1>7 DEF IInv, RunningInv
  <2>2. at = "exec_eret" /\ elr \notin UserPC => ~masked /\ NoUserYet
    BY TrapFrameAssumption DEF IInv, RunningInv, Thread, ExecStep
  <2>3. at' \notin {"el0", "restored"}
    BY <1>1, <1>7, <2>1, <2>2, TrapFrameAssumption
       DEF Target, NoUserYet, Thread, ExecStep
  <2>4. ASSUME NEW p \in Pid, p = current PROVE UserContext(p)' = UserContext(p)
    <3>1. UserContext(p) = NoContext
      BY <2>4, <2>1, <1>1, <1>2 DEF UserContext
    <3>2. UserContext(p)' = NoContext
      BY <2>4, <2>3, <1>1, <1>2 DEF UserContext
    <3> QED
      BY <3>1, <3>2
  <2>5. RunningTask' = RunningTask
    BY <1>1, <2>3 DEF RunningTask
  <2> QED
    BY <1>3, <2>4, <2>5 DEF UserCtx
<1> QED
  BY <1>1, <1>2, <1>5, <1>6, <1>7

(* No task has a context at boot.                                          *)
LEMMA UserInit == Init => User!Init
<1> SUFFICES ASSUME Init PROVE User!Init
  OBVIOUS
<1>1. ASSUME NEW p \in Pid PROVE UserContext(p) = NoContext
  BY DEF Init, UserContext
<1> QED
  BY <1>1 DEF Init, User!Init

(* Every step is a step of the user machine or none of it sees it.         *)
LEMMA UserStep ==
  ASSUME IInv, [Next]_vars
  PROVE  [User!Next]_<<UserCtx, RunningTask>>
<1>1. current \in Pid
  BY DEF IInv, TypeOK
<1>2. CASE \E ret \in {-1, 0} : SysOther(ret)
  BY <1>2, CallStep, PidFacts DEF SysOther, User!Next
<1>3. CASE \E func \in UserPC : SysExec(func)
  BY <1>3, ExecRefines DEF User!Next
<1>4. CASE SysFork
  BY <1>4, ForkRefines, PidFacts DEF User!Next
<1>5. CASE Execute \/ TrapFromUser
  BY <1>5, ExecuteRefines, InterruptRefines DEF User!Next
<1>6. CASE SysExit \/ CheckSignal
  BY <1>1, <1>6, ExitRefines, CheckSignalRefines DEF User!Next
<1>7. CASE \/ IrqFromKernel \/ Idle \/ Reap \/ CheckResched \/ Restore
           \/ ExecSetSpsr \/ ExecSetElr \/ ExecSetSp
  BY <1>7, IrqFromKernelSilent, SilentSteps, RestoreSilent
<1>8. CASE Eret
  BY <1>1, <1>8, EretRefines DEF User!Next
<1>9. CASE UNCHANGED vars
  BY <1>9 DEF vars, cpu, UserCtx, RunningTask, UserContext, Context
<1> QED
  BY <1>2, <1>3, <1>4, <1>5, <1>6, <1>7, <1>8, <1>9 DEF Next

(* TrapFrame implements UserMachine: whatever traps, switches and other    *)
(* tasks' calls come between two instructions of a user task, its          *)
(* registers, its stack pointer and its stack are as it left them, and a   *)
(* forked child starts as an exact copy on a stack of its own.             *)
THEOREM UserMachineImplemented == Spec => IsUserMachine
<1>1. IInv /\ [Next]_vars => [User!Next]_<<UserCtx, RunningTask>>
  BY UserStep
<1> QED
  BY <1>1, Invariance, UserInit, PTL DEF Spec, IsUserMachine, User!Spec, UserCtx, RunningTask
=============================================================================
