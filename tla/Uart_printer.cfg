CONSTANTS
  UART_IOBUFSIZE = 2
  FifoSize = 1
  RxTrigger = 1
  TxTrigger = 0
  MaxCount = 1
  Values = 4
  Printer = TRUE
SPECIFICATION Spec
INVARIANT TxArmed
