------------------------------- MODULE Console -------------------------------
(***************************************************************************)
(* Tasks that print with printf(), puts() and putchar() of lib/.  vprintf  *)
(* collects characters in a buffer of its own and hands it to uart_write() *)
(* when it is full and at the end; each of the three repeats its           *)
(* uart_write() until everything was taken.  Between any two steps of one  *)
(* task the others may run.  uart_write() is what ByteStream promises and  *)
(* Uart implements.                                                        *)
(*                                                                         *)
(* A character says who prints it, its place in the text of its call, and  *)
(* whether it is the last of that call.                                    *)
(***************************************************************************)
EXTENDS Integers, Sequences

CONSTANTS
  Task,
  BufSize,     \* of struct printbuf: 256
  Capacity,    \* of the UART driver, see ByteStream
  MaxWaiting,  \* bound on the characters the driver and the UART hold
  MaxText,     \* bound on the text of one call
  Calls        \* the calls the tasks make, of "vprintf" and "puts"

ASSUME ConsoleAssumption ==
  /\ BufSize \in Nat /\ BufSize > 1
  /\ Capacity \in Nat \ {0} /\ MaxWaiting \in Nat /\ MaxWaiting >= Capacity
  /\ MaxText \in Nat \ {0}
  /\ Calls \subseteq {"vprintf", "puts"}

VARIABLES
  at,         \* where each task is
  left,       \* the characters of its call that are not in a buffer yet
  buf,        \* its buffer, as far as it is filled
  nwritten,   \* how much of the buffer uart_write() has taken
  made,       \* the last character it put into its buffer
  stream,     \* what the driver has taken and not yet sent
  shown       \* the last character of each task that was sent

vars == <<at, left, buf, nwritten, made, stream, shown>>

Char   == [by : Task, n : 0..MaxText, ends : BOOLEAN]
None(t) == [by |-> t, n |-> 0, ends |-> TRUE]
Follows(c, d) == d.n = IF c.ends THEN 1 ELSE c.n + 1

UART == INSTANCE ByteStream
          WITH MaxCount <- MaxText, Values <- 1, accepted <- 0, sent <- 0

Init ==
  /\ at = [t \in Task |-> "user"]
  /\ left = [t \in Task |-> 0]
  /\ buf = [t \in Task |-> <<>>]
  /\ nwritten = [t \in Task |-> 0]
  /\ made = [t \in Task |-> None(t)]
  /\ stream = <<>>
  /\ shown = [t \in Task |-> None(t)]

NextChar(t) ==
  [by |-> t, n |-> IF made[t].ends THEN 1 ELSE made[t].n + 1,
   ends |-> left[t] = 1]

(* vprintf() begins with an empty buffer; putchar() has one of one char.   *)
vprintf(t) ==
  /\ "vprintf" \in Calls /\ at[t] = "user"
  /\ at' = [at EXCEPT ![t] = "format"]
  /\ \E k \in 1..MaxText : left' = [left EXCEPT ![t] = k]
  /\ UNCHANGED <<buf, nwritten, made, stream, shown>>

FullAtSize(b) == Len(b) = BufSize
Full(b) == Len(b) = BufSize - 1

putch(t) ==
  /\ at[t] = "format" /\ left[t] > 0
  /\ buf' = [buf EXCEPT ![t] = Append(@, NextChar(t))]
  /\ made' = [made EXCEPT ![t] = NextChar(t)]
  /\ left' = [left EXCEPT ![t] = @ - 1]
  /\ at' = [at EXCEPT ![t] = IF Full(buf'[t]) \/ left'[t] = 0
                             THEN "write" ELSE "format"]
  /\ UNCHANGED <<nwritten, stream, shown>>

(* puts() writes the caller's string as it is and then calls putchar().    *)
puts(t) ==
  /\ "puts" \in Calls /\ at[t] = "user"
  /\ at' = [at EXCEPT ![t] = "write"]
  /\ \E k \in 1..MaxText-1 :
       /\ buf' = [buf EXCEPT ![t] = [i \in 1..k |->
                    [by |-> t, n |-> i, ends |-> FALSE]]]
       /\ made' = [made EXCEPT ![t] = [by |-> t, n |-> k, ends |-> FALSE]]
  /\ left' = [left EXCEPT ![t] = 1]
  /\ UNCHANGED <<nwritten, stream, shown>>

(* The retry loop: uart_write() until all was taken. *)
OneRound(t) == nwritten[t] > 0
OneMore(t)  == nwritten[t] > Len(buf[t])
AllTaken(t) == nwritten[t] >= Len(buf[t])

uart_write(t, n) ==
  /\ at[t] = "write" /\ ~AllTaken(t)
  /\ n \in UART!Taken(Len(stream), Len(buf[t]) - nwritten[t])
  /\ Len(stream) + n <= MaxWaiting
  /\ stream' = stream \o SubSeq(buf[t], nwritten[t] + 1, nwritten[t] + n)
  /\ nwritten' = [nwritten EXCEPT ![t] = @ + n]
  /\ UNCHANGED <<at, left, buf, made, shown>>

Flushed(t) ==
  /\ at[t] = "write" /\ AllTaken(t)
  /\ buf' = [buf EXCEPT ![t] = <<>>]
  /\ nwritten' = [nwritten EXCEPT ![t] = 0]
  /\ at' = [at EXCEPT ![t] = IF left[t] = 0 THEN "user" ELSE "format"]
  /\ UNCHANGED <<left, made, stream, shown>>

(* The driver and the UART send what they have taken. *)
Send ==
  /\ stream # <<>>
  /\ shown' = [shown EXCEPT ![Head(stream).by] = Head(stream)]
  /\ stream' = Tail(stream)
  /\ UNCHANGED <<at, left, buf, nwritten, made>>

Next ==
  \/ \E t \in Task :
       \/ vprintf(t) \/ puts(t) \/ putch(t) \/ Flushed(t)
       \/ \E n \in 0..MaxText : uart_write(t, n)
  \/ Send

Spec == Init /\ [][Next]_vars

(***************************************************************************)
(* The UART sends, a task in user mode goes on, and its write succeeds if  *)
(* there is room again and again: it retries through a time slice in which *)
(* nobody else writes and which is far longer than sending a character.    *)
(***************************************************************************)
WriteSome(t) == \E n \in 1..MaxText : uart_write(t, n)

FairSpec ==
  /\ Spec
  /\ WF_vars(Send)
  /\ \A t \in Task : /\ WF_vars(putch(t)) /\ WF_vars(Flushed(t))
                     /\ SF_vars(WriteSome(t))
-----------------------------------------------------------------------------
(* idx stays inside buf, whose last element is never used ("current buffer *)
(* index", struct printbuf); only the string of puts() may be longer.      *)
TypeOK ==
  /\ at \in [Task -> {"user", "format", "write"}]
  /\ left \in [Task -> 0..MaxText]
  /\ \A t \in Task : /\ buf[t] \in Seq(Char) /\ nwritten[t] \in 0..Len(buf[t])
                     /\ at[t] = "format" => Len(buf[t]) < BufSize - 1
  /\ made \in [Task -> Char] /\ shown \in [Task -> Char]
  /\ stream \in Seq(Char) /\ Len(stream) <= MaxWaiting

(* The characters of t in s follow each other, and the last of them is c. *)
InOrder(s, t, c) ==
  LET own == {i \in 1..Len(s) : s[i].by = t}
  IN  /\ \A i, j \in own :
           i < j /\ (\A k \in own : k <= i \/ j <= k) => Follows(s[i], s[j])
      /\ \E i \in own : s[i] = c /\ \A k \in own : k <= i

(* Whatever part of each write was taken, the characters of every task     *)
(* appear in order, each once and none left out.                           *)
Rest(t) == SubSeq(buf[t], nwritten[t] + 1, Len(buf[t]))
PrintedInOrder ==
  \A t \in Task : InOrder(<<shown[t]>> \o stream \o Rest(t), t, made[t])

(* Every call returns, although other tasks keep printing.                 *)
CallReturns == \A t \in Task : at[t] # "user" ~> at[t] = "user"

(* "Collect up to 256 characters into a buffer and perform ONE system call *)
(* to print all of them, in order to make the lines output to the console  *)
(* atomic" (lib/printf.c): between two characters of a call's text no      *)
(* other task's character is sent.                                         *)
LineAtomic ==
  [][\A t, u \in Task : t # u /\ ~shown[t].ends => shown'[u] = shown[u]]_vars
=============================================================================
