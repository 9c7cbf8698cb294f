SPECIFICATION FairSpec
CONSTANTS
  NET_START = 10
  BLK_END = 19
  T_HIGH = 70
  T_LOW = 30
  InitNetEnd = 12
  InitBlkStart = 16
  BlkQueues <- TwentyQueues
  NetQueues <- EightQueues
  Loads <- StepLoads
  MaxTicksInShow = 3
  NONE = NONE
INVARIANTS
  TypeOK
  GroupsNonEmpty
  HintsInPartition
  ShownUsable
PROPERTIES
  IdleBlkShrinks
