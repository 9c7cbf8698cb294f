SPECIFICATION Spec
CONSTANTS
  MAX_CPUS = 1
  Growth <- FourGrowths
  MaxGrowths = 3
  MaxLoads = 3
INVARIANTS
  TypeOK
  SharesExact
  UnloadSafe
  OneFailureAfterLeak
  ProcClean
CHECK_DEADLOCK FALSE
