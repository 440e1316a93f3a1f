\* idle (0), user_test (1), zombie_reaper (2) and up to two forked tasks
CONSTANTS
  NR_TASKS = 5
  Signals = {9, 74}
SPECIFICATION Spec
INVARIANTS
  TypeOK
  OneRunning
  QueuedOnce
  KernelExitMasked
  SlotContext
PROPERTIES
  KilledStaysOut
  SlotLifecycle
