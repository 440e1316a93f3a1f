CONSTANTS
  IntBits = 4
  LongBits = 6
  IntArgs = {5, 24, 32, 63}
  Widths = {3, 12}
  NumFlags = {"", "0", "-"}
  Sizes = {30}
  MaxDirectives = 1
  MAXERROR = 3
  NULL = NULL
SPECIFICATION Spec
INVARIANT PadsOnRight
CHECK_DEADLOCK FALSE
