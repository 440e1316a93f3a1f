------------------------------- MODULE System -------------------------------
(***************************************************************************)
(* The kernel with the devices that interrupt it: the tasks of Kernel.tla, *)
(* the UART driver of UartLevels.tla, the two timers of timer.c, the       *)
(* dispatch loops of irq.c, and the messages that the reaper, the local    *)
(* timer's handler and init_timers print past the driver, by polling.      *)
(*                                                                         *)
(* Kernel.tla takes an interrupt in one action and assumes that the core   *)
(* timer keeps coming; here both are shown.                                *)
(***************************************************************************)
EXTENDS UartLevels, FiniteSets

CONSTANTS
  NR_TASKS, Signals,   \* of Kernel
  MsgLen               \* characters of a message

ASSUME SystemAssumption ==
  /\ NR_TASKS \in Nat /\ NR_TASKS >= 3 /\ Signals \subseteq 0..255
  /\ MsgLen \in Nat \ {0}

VARIABLES
  state, id, priority, resched, sigpending, signal, pc, rq, current, masked,
  tick,    \* the core timer: its interrupt is asserted until it is re-armed
  local,   \* the local timer, likewise
  irq,     \* where irq_handler() is
  left,    \* characters still to be printed by polling
  told,    \* the reaper has announced the zombies it is about to clear
  flags    \* DAIF as irq_save() of pl011_uart_write_polling() found it

tasks   == <<state, id, priority, resched, sigpending, signal, pc, rq, current>>
timers  == <<tick, local>>
message == <<left, told, flags>>
vars    == <<tasks, masked, uart, timers, irq, message>>

K == INSTANCE Kernel

SystemInit ==
  /\ K!Init /\ Init
  /\ tick = "armed" /\ local = "off"
  /\ irq = "none"
  /\ left = 0 /\ told = FALSE /\ flags = <<>>
-----------------------------------------------------------------------------
(***************************************************************************)
(* The devices.  A core timer that has been served does not expire again   *)
(* before irq_handler() returns: its period is half a second and more.     *)
(***************************************************************************)
TimerExpires ==
  /\ tick = "armed" /\ tick' = "asserted"
  /\ UNCHANGED <<tasks, masked, uart, local, irq, message>>

LocalTimerExpires ==
  /\ local = "armed" /\ local' = "asserted"
  /\ UNCHANGED <<tasks, masked, uart, tick, irq, message>>

Line ==
  /\ Arrive \/ Leave
  /\ UNCHANGED <<tasks, masked, timers, irq, message>>
-----------------------------------------------------------------------------
(***************************************************************************)
(* Messages.  pl011_uart_write_polling() masks interrupts, waits for room  *)
(* in the transmit FIFO, writes, and restores the mask it found.           *)
(***************************************************************************)
irq_enable(daif) == FALSE
irq_restore(daif) == daif

Ready == tx < FifoSize
DontWait == TRUE
TXFFClear == Ready

IrqSave ==
  /\ left > 0 /\ flags = <<>>
  /\ flags' = <<masked>> /\ masked' = TRUE
  /\ UNCHANGED <<tasks, uart, timers, irq, left, told>>

WritePolling ==
  /\ flags # <<>> /\ TXFFClear
  /\ WriteDR
  /\ masked' = irq_restore(flags[1]) /\ flags' = <<>>
  /\ left' = left - 1
  /\ UNCHANGED <<tasks, timers, irq, told>>

(* "zombie reaper: task %d" for each slot the next turn of the reaper's    *)
(* loop clears.                                                            *)
Zombies == {p \in K!Pid : state[p] = "ZOMBIE"}

ReaperMessage ==
  /\ irq = "none" /\ left = 0
  /\ K!At("reaper") /\ Zombies # {} /\ ~told
  /\ told' = TRUE /\ left' = MsgLen * Cardinality(Zombies)
  /\ UNCHANGED <<tasks, masked, uart, timers, irq, flags>>
-----------------------------------------------------------------------------
(* Task code, while neither the handler nor a message has the CPU.         *)
Running == irq = "none" /\ left = 0

RunKernel ==
  /\ Running
  /\ K!At("reaper") /\ Zombies # {} => told
  /\ K!KernelStep
  /\ told' = FALSE
  /\ UNCHANGED <<uart, timers, irq, left, flags>>

UserCode ==
  /\ Running
  /\ K!SysFork \/ K!SysExit \/ \E pid \in K!Pid, sig \in Signals : K!SysKill(pid, sig)
  /\ UNCHANGED <<uart, timers, irq, message>>

UartCall ==
  /\ Running
  /\ K!SysOther
  /\ \E count \in 1..MaxCount : pl011_uart_read(count) \/ pl011_uart_write(count)
  /\ UNCHANGED <<timers, irq, message>>

(***************************************************************************)
(* init_timers: both timers start anew and two messages are printed.  Only *)
(* once here: a task that calls it more often than the timer's period      *)
(* keeps the core timer from ever expiring.                                *)
(***************************************************************************)
local_timer_init == local' = "armed"
core_timer_init  == tick' = "armed"

do_init_timers ==
  /\ Running /\ local = "off"
  /\ K!SysOther
  /\ local_timer_init /\ core_timer_init
  /\ left' = 2 * MsgLen
  /\ UNCHANGED <<uart, irq, told, flags>>
-----------------------------------------------------------------------------
(***************************************************************************)
(* Interrupts.  irq_handler() reads the pending sources and serves the     *)
(* lowest, again and again until none is left: 1 is the core timer, 8 the  *)
(* peripherals, 11 the local timer.  peripheral_handler() does the same    *)
(* with its two registers; bit 25 of the second, the UART, is the only one *)
(* ever enabled.                                                           *)
(***************************************************************************)
Pending ==
  {n \in {1, 8, 11} : \/ n = 1 /\ tick = "asserted"
                      \/ n = 8 /\ (RXMIS \/ TXMIS)
                      \/ n = 11 /\ local = "asserted"}
Source(n) ==
  irq = "source" /\ left = 0 /\ n \in Pending /\ \A m \in Pending : n <= m

EnterIrq ==
  /\ ~masked /\ Pending # {}
  /\ masked' = TRUE
  /\ irq' = "source"
  /\ UNCHANGED <<tasks, uart, timers, message>>

(* What the timer does once its handler has written cntp_tval.             *)
Stopped == "off"
StillAsserted == "asserted"
Rearmed == "served"

core_timer_handler ==
  /\ Source(1)
  /\ tick' = Rearmed
  /\ K!core_timer_handler
  /\ UNCHANGED <<state, id, priority, sigpending, signal, pc, rq, current,
                 masked, uart, local, irq, message>>

peripheral_handler ==
  /\ Source(8)
  /\ irq' = "peripheral"
  /\ UNCHANGED <<tasks, masked, uart, timers, message>>

ServeUart ==
  /\ irq = "peripheral"
  /\ pl011_uart_intr
  /\ UNCHANGED <<tasks, masked, timers, irq, message>>

PeripheralsServed ==
  /\ irq = "peripheral" /\ 8 \notin Pending
  /\ irq' = "source"
  /\ UNCHANGED <<tasks, masked, uart, timers, message>>

local_timer_handler ==
  /\ Source(11)
  /\ local' = "served"
  /\ left' = MsgLen
  /\ UNCHANGED <<tasks, masked, uart, tick, irq, told, flags>>

(* No source is left: back to user code through ret_to_user, to kernel     *)
(* code directly.                                                          *)
Again(timer) == IF timer = "served" THEN "armed" ELSE timer

BackToUser == "el0"
ThroughRetToUser == "ret_to_user"

IrqReturn ==
  /\ irq = "source" /\ left = 0 /\ Pending = {}
  /\ irq' = "none"
  /\ tick' = Again(tick) /\ local' = Again(local)
  /\ IF K!At("el0")
     THEN pc' = K!GoTo(ThroughRetToUser) /\ UNCHANGED masked
     ELSE masked' = FALSE /\ UNCHANGED pc
  /\ UNCHANGED <<state, id, priority, resched, sigpending, signal, rq, current,
                 uart, message>>

Dispatch ==
  \/ core_timer_handler \/ peripheral_handler
  \/ ServeUart \/ PeripheralsServed
  \/ local_timer_handler \/ IrqReturn

Poll == IrqSave \/ WritePolling
-----------------------------------------------------------------------------
SystemNext ==
  \/ TimerExpires \/ LocalTimerExpires \/ Line
  \/ ReaperMessage \/ RunKernel \/ UserCode \/ UartCall \/ do_init_timers
  \/ EnterIrq \/ Dispatch \/ Poll

SystemSpec == SystemInit /\ [][SystemNext]_vars

(***************************************************************************)
(* The CPU executes what is next, in handlers and in kernel code (which    *)
(* gets its turn between interrupts); an interrupt whose source is pending *)
(* is taken as soon as the mask allows; the timer expires and the UART     *)
(* sends.  User code owes nothing.                                         *)
(***************************************************************************)
SystemFairSpec ==
  /\ SystemSpec
  /\ WF_vars(Dispatch) /\ WF_vars(Poll)
  /\ SF_vars(RunKernel \/ ReaperMessage) /\ SF_vars(EnterIrq)
  /\ WF_vars(TimerExpires) /\ WF_vars(Leave /\ Line)
-----------------------------------------------------------------------------
(* The kernel's fields have their types, and no FIFO or buffer is given    *)
(* more than it has room for, although messages go past the driver.        *)
SystemTypeOK ==
  /\ K!TypeOK /\ TypeOK
  /\ tick \in {"armed", "asserted", "served"}
  /\ local \in {"off", "armed", "asserted", "served"}
  /\ irq \in {"none", "source", "peripheral"}
  /\ left \in 0 .. MsgLen * NR_TASKS /\ told \in BOOLEAN
  /\ flags \in {<<>>} \cup {<<m>> : m \in BOOLEAN}

(* The handler is never interrupted: each interrupt starts at the top of   *)
(* the one interrupt stack (entry.S), and messages restore a mask while    *)
(* the handler or the reaper, which runs masked, prints them.              *)
NoNestedIrq == irq # "none" \/ K!At("reaper") => masked

(* The tasks see nothing of the dispatch: an interrupt of user code is the *)
(* one step Kernel.tla makes of it, when the timer is served or else when  *)
(* the handler returns.                                                    *)
TaskPc ==
  [pc EXCEPT ![current] =
     IF irq # "none" /\ @ = "el0" /\ resched[current] THEN "ret_to_user" ELSE @]
TaskMasked ==
  IF irq = "none" THEN IF flags = <<>> THEN masked ELSE flags[1]
  ELSE K!At("el0") /\ resched[current]
Tasks == INSTANCE Kernel WITH pc <- TaskPc, masked <- TaskMasked
IsKernel == Tasks!Spec

(* What Kernel.tla assumes of the core timer: user code that runs again    *)
(* and again is interrupted by it again and again.                         *)
TickComes ==
  []<>(K!At("el0") /\ irq = "none")
    => []<><<core_timer_handler /\ K!At("el0")>>_vars

(* The loops of irq_handler() and peripheral_handler() come to an end,     *)
(* whatever arrives on the line meanwhile.                                 *)
DispatchEnds == irq # "none" ~> irq = "none"

(* What is written gets out, for as long as there are user tasks; only     *)
(* user code runs unmasked, so with the last one the driver falls silent.  *)
UserTask(p) ==
  state[p] \in {"RUNNABLE", "RUNNING"} /\ pc[p] \in {"user_test", "el0"} \cup K!KernelExit
OutputMoves ==
  \/ []<>(unsent = 0)
  \/ []<><<Leave>>_vars
  \/ <>[](\A p \in K!Pid : ~UserTask(p))
=============================================================================
