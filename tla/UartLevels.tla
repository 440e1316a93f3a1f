------------------------------ MODULE UartLevels ------------------------------
(***************************************************************************)
(* The UART driver of kernel/uart.c seen from the rest of the kernel: how  *)
(* full its four buffers are and which interrupts it has enabled.  Bytes   *)
(* have no values here; Uart.tla has them, and implements this module.     *)
(***************************************************************************)
EXTENDS Integers

CONSTANTS
  UART_IOBUFSIZE,
  FifoSize,    \* of the receive and of the transmit FIFO of the UART
  RxTrigger,   \* the receive level from which RXRIS is asserted
  TxTrigger,   \* the transmit level up to which TXRIS is asserted
  MaxCount     \* bound on the count of one read or write

ASSUME UartLevelsAssumption ==
  /\ UART_IOBUFSIZE \in Nat /\ UART_IOBUFSIZE > 1
  /\ FifoSize \in Nat \ {0} /\ MaxCount \in Nat \ {0}
  /\ RxTrigger \in 1..FifoSize /\ TxTrigger \in 0..FifoSize-1

Full == UART_IOBUFSIZE - 1

VARIABLES
  received, unsent,   \* bytes in pl011_inbuf and in pl011_outbuf
  rx, tx,             \* bytes in the FIFOs
  imsc                \* the TXIM and RXIM bits of IMSC

uart == <<received, unsent, rx, tx, imsc>>

Init ==
  /\ received = 0 /\ unsent = 0 /\ rx = 0 /\ tx = 0
  /\ imsc = [tx |-> FALSE, rx |-> TRUE]

Least(m, n) == IF m < n THEN m ELSE n
-----------------------------------------------------------------------------
(* The line. *)
Arrive ==
  /\ rx < FifoSize
  /\ rx' = rx + 1
  /\ UNCHANGED <<received, unsent, tx, imsc>>

Leave ==
  /\ tx > 0
  /\ tx' = tx - 1
  /\ UNCHANGED <<received, unsent, rx, imsc>>

(* Reads and writes take what there is and what there is room for, and     *)
(* enable their interrupt in any case.                                     *)
pl011_uart_read(count) ==
  /\ received' = received - Least(count, received)
  /\ imsc' = [imsc EXCEPT !.rx = TRUE]
  /\ UNCHANGED <<unsent, rx, tx>>

WriteUnarmed(count) ==
  /\ unsent' = unsent + Least(count, Full - unsent)
  /\ UNCHANGED <<received, rx, tx, imsc>>
pl011_uart_write(count) ==
  /\ unsent' = unsent + Least(count, Full - unsent)
  /\ imsc' = [imsc EXCEPT !.tx = TRUE]
  /\ UNCHANGED <<received, rx, tx>>

(* pl011_uart_read() called in user mode: a byte at a time, and then a     *)
(* store of IMSC as it was at an earlier load.  Once outbuf is empty the   *)
(* handler may have disabled the transmit interrupt since.                 *)
UserPop ==
  /\ received > 0
  /\ received' = received - 1
  /\ UNCHANGED <<unsent, rx, tx, imsc>>

UserStore ==
  /\ imsc' \in [tx : {imsc.tx, TRUE}, rx : {TRUE}]
  /\ UNCHANGED <<received, unsent, rx, tx>>

(* pl011_uart_write_polling() puts a byte into the FIFO, past outbuf.      *)
WriteDR ==
  /\ tx' = tx + 1
  /\ UNCHANGED <<received, unsent, rx, imsc>>
-----------------------------------------------------------------------------
(* The interrupt: both sources move what they can; a full inbuf disables   *)
(* the receive interrupt, an empty outbuf the transmit interrupt.          *)
RXMIS == imsc.rx /\ rx >= RxTrigger
TXMIS == imsc.tx /\ tx <= TxTrigger

(* The two ways to answer a source that cannot move any further.           *)
KeepEnabled(enabled, stuck) == enabled
DisableIf(enabled, stuck) == enabled /\ ~stuck

pl011_uart_intr ==
  LET nrx == IF RXMIS THEN Least(Full - received, rx) ELSE 0
      ntx == IF TXMIS THEN Least(unsent, FifoSize - tx) ELSE 0
  IN  /\ RXMIS \/ TXMIS
      /\ received' = received + nrx /\ rx' = rx - nrx
      /\ unsent' = unsent - ntx     /\ tx' = tx + ntx
      /\ imsc' = [tx |-> DisableIf(imsc.tx, TXMIS /\ unsent' = 0),
                  rx |-> DisableIf(imsc.rx, RXMIS /\ received' = Full)]

Next ==
  \/ Arrive \/ Leave
  \/ \E count \in 1..MaxCount : pl011_uart_read(count) \/ pl011_uart_write(count)
  \/ UserPop \/ UserStore
  \/ tx < FifoSize /\ WriteDR
  \/ pl011_uart_intr

Spec == Init /\ [][Next]_uart

(* No buffer holds more than it has room for. *)
TypeOK ==
  /\ received \in 0..Full /\ unsent \in 0..Full
  /\ rx \in 0..FifoSize   /\ tx \in 0..FifoSize
  /\ imsc \in [tx : BOOLEAN, rx : BOOLEAN]
=============================================================================
