CONSTANTS
  NR_TASKS = 3
  UserPC = {"test", "func"}
  Test = "test"
  Offset = {0}
  Data = {"a"}
SPECIFICATION Spec
PROPERTY ExecEntersUser
