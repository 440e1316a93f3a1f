CONSTANTS
  Task = {t1, t2}
  BufSize = 4
  Capacity = 3
  MaxWaiting = 4
  MaxText = 3
  Calls = {"vprintf"}
SPECIFICATION Spec
PROPERTY LineAtomic
