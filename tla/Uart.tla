-------------------------------- MODULE Uart --------------------------------
(***************************************************************************)
(* The interrupt-driven PL011 driver of kernel/uart.c: two ring buffers    *)
(* between the UART's FIFOs and uart_read/uart_write, and the interrupt    *)
(* mask that both sides switch.                                            *)
(*                                                                         *)
(* A system call runs masked, so it is one action; so is the interrupt     *)
(* handler.  loadimg() of the shell calls pl011_uart_read() from user mode *)
(* instead: there every access to shared memory is a step of its own, and  *)
(* the handler, or another task, may come between any two.                 *)
(*                                                                         *)
(* The n-th byte of each direction has the value n % Values, with Values   *)
(* above what the buffers hold together, so that a lost, repeated or       *)
(* misplaced byte cannot look right.                                       *)
(***************************************************************************)
EXTENDS Integers, Sequences

CONSTANTS
  UART_IOBUFSIZE,
  FifoSize,    \* of the receive and of the transmit FIFO of the UART
  RxTrigger,   \* the receive level from which RXRIS is asserted
  TxTrigger,   \* the transmit level up to which TXRIS is asserted
  MaxCount,    \* bound on the count of one read or write
  Values,
  Printer      \* another task prints while the shell is preempted

ASSUME UartAssumption ==
  /\ UART_IOBUFSIZE \in Nat /\ UART_IOBUFSIZE > 1   \* "should > 1"
  /\ FifoSize \in Nat \ {0} /\ MaxCount \in Nat \ {0}
  /\ RxTrigger \in 1..FifoSize /\ TxTrigger \in 0..FifoSize-1
  /\ Values \in Nat /\ Values > UART_IOBUFSIZE + FifoSize
  /\ Printer \in BOOLEAN

Byte == 0 .. Values-1
Pos  == 0 .. UART_IOBUFSIZE-1
After(b) == (b + 1) % Values

VARIABLES
  inbuf, outbuf,     \* pl011_inbuf and pl011_outbuf: buf, rpos and wpos
  rxfifo, txfifo,    \* the FIFOs of the UART
  imsc,              \* the TXIM and RXIM bits of IMSC
  arrived,           \* the last byte that arrived on the line
  delivered,         \* the last byte pl011_uart_read() has given a caller
  accepted,          \* the last byte pl011_uart_write() has taken
  sent,              \* the last byte that left on the line
  at,                \* where the shell is in its own pl011_uart_read()
  num_read, elem, mask   \* its local variables

line  == <<arrived, delivered, accepted, sent>>
shell == <<at, num_read, elem, mask>>
vars  == <<inbuf, outbuf, rxfifo, txfifo, imsc, line, shell>>
-----------------------------------------------------------------------------
(* Ring buffers; one slot stays unused. *)
ringbuf_empty(r) == r.wpos = r.rpos

PopUnwrapped(r) == [r EXCEPT !.rpos = @ + 1]
ringbuf_pop(r) == [r EXCEPT !.rpos = (@ + 1) % UART_IOBUFSIZE]

Size(r) == (r.wpos - r.rpos) % UART_IOBUFSIZE
Contents(r) == [i \in 1..Size(r) |-> r.buf[(r.rpos + i - 1) % UART_IOBUFSIZE]]

(* How many pushes the test !ringbuf_full() lets through.                  *)
RoomToTheBrim(r) == UART_IOBUFSIZE - Size(r)
Room(r) == UART_IOBUFSIZE - 1 - Size(r)

(* ringbuf_push() of every byte of s in turn: cell i gets the k-th of them *)
(* if it lies k places after wpos.  And the loops around ringbuf_pop().    *)
PushAll(r, s) ==
  [r EXCEPT !.buf = [i \in Pos |-> LET k == (i - r.wpos) % UART_IOBUFSIZE
                                   IN  IF k < Len(s) THEN s[k+1] ELSE r.buf[i]],
            !.wpos = (@ + Len(s)) % UART_IOBUFSIZE]
PopMany(r, n) == [r EXCEPT !.rpos = (@ + n) % UART_IOBUFSIZE]
Least(m, n)   == IF m < n THEN m ELSE n
-----------------------------------------------------------------------------
(* pl011_uart_init(): receive interrupts on, transmit interrupts off.      *)
NoMask == [tx |-> FALSE, rx |-> FALSE]
EmptyRing == [buf |-> [i \in Pos |-> 0], rpos |-> 0, wpos |-> 0]

Init ==
  /\ inbuf = EmptyRing /\ outbuf = EmptyRing
  /\ rxfifo = <<>> /\ txfifo = <<>>
  /\ imsc = [tx |-> FALSE, rx |-> TRUE]
  /\ arrived = 0 /\ delivered = 0 /\ accepted = 0 /\ sent = 0
  /\ at = "idle" /\ num_read = 0 /\ elem = 0
  /\ mask = NoMask

(* The line: a byte arrives, a byte leaves. *)
Arrive ==
  /\ Len(rxfifo) < FifoSize
  /\ arrived' = After(arrived)
  /\ rxfifo' = Append(rxfifo, arrived')
  /\ UNCHANGED <<inbuf, outbuf, txfifo, imsc, delivered, accepted, sent, shell>>

Leave ==
  /\ txfifo # <<>>
  /\ sent' = Head(txfifo)
  /\ txfifo' = Tail(txfifo)
  /\ UNCHANGED <<inbuf, outbuf, rxfifo, imsc, arrived, delivered, accepted,
                 shell>>

(* Between two instructions of the shell another task may be scheduled.    *)
MayCall == at = "idle" \/ Printer

(* Both interrupts are enabled without asking whether that is needed.      *)
ArmedForRest(n, count) == [imsc EXCEPT !.tx = @ \/ n < count]
TxEnabled(n, count) == [imsc EXCEPT !.tx = TRUE]

NotEnabled(m) == m
RxEnabled(m) == [m EXCEPT !.rx = TRUE]

(* uart_write: as many of the count bytes as there is room for. *)
pl011_uart_write(count) ==
  /\ MayCall
  /\ LET n == Least(count, Room(outbuf))
         s == [i \in 1..n |-> (accepted + i) % Values]
     IN  /\ outbuf' = PushAll(outbuf, s)
         /\ accepted' = (accepted + n) % Values
         /\ imsc' = TxEnabled(n, count)
  /\ UNCHANGED <<inbuf, rxfifo, txfifo, arrived, delivered, sent, shell>>

(* uart_read: as many of the count bytes as there are. *)
pl011_uart_read(count) ==
  /\ at = "idle"
  /\ LET n == Least(count, Size(inbuf))
     IN  /\ inbuf' = PopMany(inbuf, n)
         /\ delivered' = IF n = 0 THEN delivered ELSE Contents(inbuf)[n]
  /\ imsc' = RxEnabled(imsc)
  /\ UNCHANGED <<outbuf, rxfifo, txfifo, arrived, accepted, sent, shell>>

(***************************************************************************)
(* pl011_uart_read() in user mode: test, read buf[rpos], advance rpos, and *)
(* at last load IMSC and store it with RXIM set.  A local variable that    *)
(* is no longer used gets its initial value back.                          *)
(***************************************************************************)
outside == <<outbuf, rxfifo, txfifo, arrived, accepted, sent>>

ShellCall ==
  /\ at = "idle" /\ at' = "test"
  /\ UNCHANGED <<inbuf, outside, imsc, delivered, num_read, elem, mask>>

ShellTest ==
  /\ at = "test"
  /\ \/ /\ num_read < MaxCount /\ ~ringbuf_empty(inbuf)
        /\ at' = "pop" /\ UNCHANGED num_read
     \/ /\ ~(num_read < MaxCount /\ ~ringbuf_empty(inbuf))
        /\ at' = "load" /\ num_read' = 0
  /\ UNCHANGED <<inbuf, outside, imsc, delivered, elem, mask>>

ShellPop ==
  /\ at = "pop" /\ at' = "advance"
  /\ elem' = inbuf.buf[inbuf.rpos]
  /\ UNCHANGED <<inbuf, outside, imsc, delivered, num_read, mask>>

ShellAdvance ==
  /\ at = "advance" /\ at' = "test"
  /\ inbuf' = ringbuf_pop(inbuf)
  /\ delivered' = elem /\ elem' = 0
  /\ num_read' = num_read + 1
  /\ UNCHANGED <<outside, imsc, mask>>

ShellLoad ==
  /\ at = "load" /\ at' = "store"
  /\ mask' = imsc
  /\ UNCHANGED <<inbuf, outside, imsc, delivered, num_read, elem>>

ShellStore ==
  /\ at = "store" /\ at' = "idle"
  /\ imsc' = RxEnabled(mask) /\ mask' = NoMask
  /\ UNCHANGED <<inbuf, outside, delivered, num_read, elem>>

ShellStep ==
  ShellCall \/ ShellTest \/ ShellPop \/ ShellAdvance \/ ShellLoad \/ ShellStore
-----------------------------------------------------------------------------
(***************************************************************************)
(* pl011_uart_intr().  MIS is read once, before both halves.  A source     *)
(* that has moved all it can and met a full inbuf or an empty outbuf masks *)
(* itself.                                                                 *)
(***************************************************************************)
RXMIS == imsc.rx /\ Len(rxfifo) >= RxTrigger
TXMIS == imsc.tx /\ Len(txfifo) <= TxTrigger

RestIsLost(n) == IF n = 0 THEN rxfifo ELSE <<>>
LeftInFifo(n) == SubSeq(rxfifo, n + 1, Len(rxfifo))

AfterEveryInterrupt(r) == TRUE
NothingToSend(r) == ringbuf_empty(r)

pl011_uart_intr ==
  /\ RXMIS \/ TXMIS
  /\ LET nrx == IF RXMIS THEN Least(Room(inbuf), Len(rxfifo)) ELSE 0
         ntx == IF TXMIS THEN Least(Size(outbuf), FifoSize - Len(txfifo)) ELSE 0
     IN  /\ inbuf'  = PushAll(inbuf, SubSeq(rxfifo, 1, nrx))
         /\ rxfifo' = LeftInFifo(nrx)
         /\ txfifo' = txfifo \o SubSeq(Contents(outbuf), 1, ntx)
         /\ outbuf' = PopMany(outbuf, ntx)
  /\ imsc' = [tx |-> imsc.tx /\ ~(TXMIS /\ NothingToSend(outbuf')),
              rx |-> imsc.rx /\ ~(RXMIS /\ Room(inbuf') = 0)]
  /\ UNCHANGED <<line, shell>>

Next ==
  \/ Arrive \/ Leave
  \/ \E count \in 1..MaxCount : pl011_uart_write(count) \/ pl011_uart_read(count)
  \/ ShellStep
  \/ pl011_uart_intr

Spec == Init /\ [][Next]_vars

(***************************************************************************)
(* An asserted interrupt is taken, the UART sends what is in its FIFO, and *)
(* the shell, whose loops call pl011_uart_read() until they have all they  *)
(* want, keeps reading.  Nobody is obliged to print.                       *)
(***************************************************************************)
FairSpec ==
  /\ Spec
  /\ WF_vars(pl011_uart_intr)
  /\ WF_vars(Leave)
  /\ WF_vars(ShellStep)
-----------------------------------------------------------------------------
TypeOK ==
  /\ inbuf  \in [buf : [Pos -> Byte], rpos : Pos, wpos : Pos]
  /\ outbuf \in [buf : [Pos -> Byte], rpos : Pos, wpos : Pos]
  /\ rxfifo \in Seq(Byte) /\ Len(rxfifo) <= FifoSize
  /\ txfifo \in Seq(Byte) /\ Len(txfifo) <= FifoSize
  /\ imsc \in [tx : BOOLEAN, rx : BOOLEAN]
  /\ {arrived, delivered, accepted, sent, elem} \subseteq Byte
  /\ at \in {"idle", "test", "pop", "advance", "load", "store"}
  /\ num_read \in 0..MaxCount
  /\ mask \in [tx : BOOLEAN, rx : BOOLEAN]

(* s holds the bytes after `from', up to and including `to', in order.     *)
Between(from, s, to) ==
  LET all == <<from>> \o s
  IN  /\ \A i \in 1..Len(s) : all[i+1] = After(all[i])
      /\ all[Len(all)] = to

(* No byte is lost, repeated or reordered between the line and a reader,   *)
(* although the handler pushes between any two steps of the shell's pop.   *)
InputInOrder ==
  Between(delivered, Contents(inbuf) \o rxfifo, arrived)

(* Every write obeys the contract of ByteStream: what it takes is sent     *)
(* once and in order, and it is cut short only by a full outbuf.           *)
Stream == INSTANCE ByteStream
            WITH stream <- txfifo \o Contents(outbuf),
                 Capacity <- UART_IOBUFSIZE - 1
IsByteStream == Stream!Spec

(* To the rest of the kernel the driver is no more than UartLevels says:   *)
(* how much moves depends on how full the buffers are, also while the      *)
(* shell reads inbuf between interrupts.                                   *)
Levels == INSTANCE UartLevels
            WITH received <- Size(inbuf), unsent <- Size(outbuf),
                 rx <- Len(rxfifo), tx <- Len(txfifo)
IsUartLevels == Levels!Spec

(* The transmit interrupt is disabled only while outbuf is empty, so that  *)
(* nothing in outbuf waits for the next write ("disable interrupt until    *)
(* outbuf is not empty", pl011_uart_intr()).                               *)
TxArmed == ~ringbuf_empty(outbuf) => imsc.tx

(* The receive interrupt is disabled only while inbuf is full, or while a  *)
(* reader that has made room is about to enable it.                        *)
RxArmed == imsc.rx \/ Room(inbuf) = 0 \/ at # "idle"

(* While a written byte waits, the next one is sent in the end; while an   *)
(* arrived one waits, the shell gets the next.  With the order above, every  *)
(* byte gets through.                                                      *)
OutputSent     == \A b \in Byte : sent = b /\ accepted # b ~> sent # b
InputDelivered == \A b \in Byte : delivered = b /\ arrived # b ~> delivered # b
=============================================================================
