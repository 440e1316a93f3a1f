CONSTANTS
  NR_TASKS = 4
  Signals = {9}
SPECIFICATION FairSpec
PROPERTIES
  
  ZombieReaped
  KillDelivered
