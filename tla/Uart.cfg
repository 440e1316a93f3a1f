CONSTANTS
  UART_IOBUFSIZE = 3
  FifoSize = 2
  RxTrigger = 1
  TxTrigger = 1
  MaxCount = 2
  Values = 6
  Printer = FALSE
SPECIFICATION FairSpec
INVARIANTS
  TypeOK
  InputInOrder
  TxArmed
  RxArmed
PROPERTIES
  IsByteStream
  IsUartLevels
  OutputSent
  
