SPECIFICATION FairSpec
CONSTANTS
  MAX_CPUS = 12
  T_HIGH = 70
  T_LOW = 30
  T_CHANGE = 20
  Modes <- ThreeModes
  Start <- SixCores
  BlkQueues <- FiveQueues
  NetQueues <- FourQueues
  Loads <- SixLoads
  Stray <- StrayWords
  NONE = NONE
INVARIANTS
  TypeOK
  GroupsNonEmpty
  HintsInPartition
PROPERTIES
  BusyUsesBothSockets
  BalanceSpec
