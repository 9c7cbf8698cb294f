SPECIFICATION Spec
CONSTANTS
  MAX_CPUS = 20
  T_HIGH = 70
  T_LOW = 30
  T_CHANGE = 20
  Modes <- AppMode
  Start <- TenCores
  BlkQueues <- TwentyQueues
  NetQueues <- EightQueues
  Loads <- TenLoads
  Stray = {0}
  NONE = NONE
INVARIANTS
  BlkQueuesFollow
