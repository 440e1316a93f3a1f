------------------------------- MODULE Mailbox -------------------------------
(***************************************************************************)
(* mailbox_call() of kernel/mbox.c against the GPU: a request names a      *)
(* buffer and goes into one queue (MAILBOX_WRITE); the GPU overwrites the  *)
(* buffer with its response and puts the same message into another queue   *)
(* (MAILBOX_READ).  There is one caller at a time: pl011_uart_init(), then *)
(* fb_init() twice, later a shell.                                         *)
(*                                                                         *)
(* MAILBOX_STATUS is the state of the second queue only; the code also     *)
(* takes it for that of the first.                                         *)
(***************************************************************************)
EXTENDS Naturals, Sequences

CONSTANTS
  Buffer,   \* the addresses calls are made with, with the channel in them
  Foreign,  \* a message that answers no request of the kernel
  Depth,    \* entries of each queue
  Unread    \* messages that may be there before the first call

MailboxAssumption ==
  /\ Foreign \notin Buffer
  /\ Depth \in Nat /\ Unread \in 0 .. Depth-1

VARIABLES
  requests, answers,   \* the two queues
  content,             \* what is in each buffer
  at,                  \* where mailbox_call() is
  msg,                 \* the message of the present or last call
  reused               \* a request for its buffer was under way when it began

vars == <<requests, answers, content, at, msg, reused>>

Sent == {requests[i] : i \in 1..Len(requests)} \cup {answers[i] : i \in 1..Len(answers)}

Init ==
  /\ requests = <<>>
  /\ \E k \in 0..Unread : answers = [i \in 1..k |-> Foreign]
  /\ content = [b \in Buffer |-> "none"]
  /\ at = "idle" /\ msg = Foreign /\ reused = FALSE
-----------------------------------------------------------------------------
(* A function fills in the array and calls. *)
Call(b) ==
  /\ at = "idle" /\ at' = "awaitroom"
  /\ content' = [content EXCEPT ![b] = "request"]
  /\ msg' = b /\ reused' = (b \in Sent)
  /\ UNCHANGED <<requests, answers>>

(* while (mmio_read(MAILBOX_STATUS) == MAILBOX_FULL) *)
StatusEmpty == answers = <<>>
StatusNotFull == Len(answers) < Depth

AwaitRoom ==
  /\ at = "awaitroom" /\ StatusNotFull
  /\ at' = "write"
  /\ UNCHANGED <<requests, answers, content, msg, reused>>

Write ==
  /\ at = "write" /\ at' = "awaitanswer"
  /\ requests' = Append(requests, msg)
  /\ UNCHANGED <<answers, content, msg, reused>>

(* while (mmio_read(MAILBOX_STATUS) == MAILBOX_EMPTY) *)
AnyStatus == TRUE
StatusNotEmpty == answers # <<>>

AwaitAnswer ==
  /\ at = "awaitanswer" /\ StatusNotEmpty
  /\ at' = "read"
  /\ UNCHANGED <<requests, answers, content, msg, reused>>

(* An answer that is not its own makes mailbox_call() start again, with    *)
(* the write.                                                              *)
AnyAnswer(res) == TRUE
OwnAnswer(res) == res = msg

Read ==
  /\ at = "read"
  /\ LET res == IF answers = <<>> THEN Foreign ELSE Head(answers)
     IN  at' = IF OwnAnswer(res) THEN "idle" ELSE "awaitroom"
  /\ answers' = IF answers = <<>> THEN <<>> ELSE Tail(answers)
  /\ UNCHANGED <<requests, content, msg, reused>>

mailbox_call == AwaitRoom \/ Write \/ AwaitAnswer \/ Read

(* The GPU answers the requests in their order. *)
GPU ==
  /\ requests # <<>> /\ Len(answers) < Depth
  /\ content' = [content EXCEPT ![Head(requests)] = "response"]
  /\ answers' = Append(answers, Head(requests))
  /\ requests' = Tail(requests)
  /\ UNCHANGED <<at, msg, reused>>

Next == mailbox_call \/ GPU \/ \E b \in Buffer : Call(b)

Fairness == WF_vars(mailbox_call) /\ WF_vars(GPU)
Spec == Init /\ [][Next]_vars
FairSpec == Spec /\ Fairness
-----------------------------------------------------------------------------
(* Neither queue is given more than it holds, though the code never tests  *)
(* the one it writes: with k unread messages at the start there are k      *)
(* messages in both together between calls, and one more during a call.    *)
TypeOK ==
  /\ requests \in Seq(Buffer)
  /\ answers \in Seq(Buffer \cup {Foreign})
  /\ Len(requests) + Len(answers) <= Unread + 1
  /\ content \in [Buffer -> {"none", "request", "response"}]
  /\ at \in {"idle", "awaitroom", "write", "awaitanswer", "read"}
  /\ msg \in Buffer \cup {Foreign} /\ reused \in BOOLEAN

(* A call returns only when the response is in its buffer.  The exception: *)
(* a retry leaves a second answer behind, and a later call with the same   *)
(* address takes that for its own.                                         *)
ResponseThere ==
  at = "idle" /\ msg \in Buffer /\ ~reused => content[msg] = "response"

(* Every call returns, whatever messages it finds in the queue.            *)
Calling == at # "idle"
CallReturns == Calling ~> ~Calling
=============================================================================
