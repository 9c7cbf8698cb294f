SPECIFICATION PFairSpec
CONSTANTS
  NET_START = 0
  BLK_END = 4
  T_HIGH = 70
  T_LOW = 30
  InitNetEnd = 0
  InitBlkStart = 3
  BlkQueues = {}
  NetQueues = {}
  Loads <- SideLoads
  MaxTicksInShow = 0
  NONE = NONE
  w1 = w1
  w2 = w2
  Workers <- TwoWorkers
  Kinds <- TwoKinds
  MaxCalls = 1
INVARIANTS
  PTypeOK
  InterruptCoreReserved
  PlacedOnItsSide
PROPERTIES
  SetCpuReturns
CHECK_DEADLOCK FALSE
