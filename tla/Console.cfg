CONSTANTS
  Task = {t1, t2}
  BufSize = 3
  Capacity = 2
  MaxWaiting = 3
  MaxText = 3
  Calls = {"vprintf", "puts"}
SPECIFICATION FairSpec
INVARIANTS
  TypeOK
  PrintedInOrder
PROPERTY CallReturns
