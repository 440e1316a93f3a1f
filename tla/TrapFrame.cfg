\* idle (0), user_test (1), zombie_reaper (2) and one forked task at a time
CONSTANTS
  NR_TASKS = 4
  UserPC = {"test", "func"}
  Test = "test"
  Offset = {0, 1}
  Data = {"a", "b"}
SPECIFICATION Spec
INVARIANTS
  TypeOK
  KernelStackBalanced
  OnlyUserFramesWait
PROPERTY IsUserMachine
