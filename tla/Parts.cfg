CONSTANTS
  NR_TASKS = 3
  Task = {t1, t2, t3}
  NULL = NULL
  IntBits = 4
  LongBits = 6
  IntArgs = {5, 24, 32, 63}
  Widths = {12}
  NumFlags = {"", "0"}
  Sizes = {0, 14}
  MaxDirectives = 2
  MAXERROR = 3
  StringCells = 5
  Char = {0, 1, 2}
  StringIntBits = 3
  NumChar = {0, 32, 43, 45, 48, 55, 97, 120}
  Bases = {0, 8, 10, 16}
  Buffer = {b1, b2}
  Foreign = Foreign
  Depth = 3
  Unread = 2
  KernelEnd = 8
  BootStart = 3
  BootSize = 3
  Word = 4
  CMD_SIZE = 3
  Base = 4
  Width = 2
  ImageSizes = {4, 5, 9}
  Addrs = {0, 1, 4, 9}
  Typed = 10
  RamCells = 56
SPECIFICATION PartsSpec
INVARIANTS
  SizeTellsState
  PartsTypeOK
  PrintsWhatWasAsked
  
  ResponseThere
  RamIntact
  StartsSentImage
PROPERTIES
  IsFifo
  
CHECK_DEADLOCK FALSE
