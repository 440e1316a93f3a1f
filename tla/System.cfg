\* idle (0), user_test (1), zombie_reaper (2) and one forked task at a time
CONSTANTS
  NR_TASKS = 4
  Signals = {9}
  UART_IOBUFSIZE = 2
  FifoSize = 1
  RxTrigger = 1
  TxTrigger = 0
  MaxCount = 1
  MsgLen = 1
SPECIFICATION SystemFairSpec
INVARIANTS
  SystemTypeOK
  NoNestedIrq
PROPERTIES
  IsKernel
  
  DispatchEnds
  OutputMoves
