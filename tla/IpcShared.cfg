SPECIFICATION FairSpec
CONSTANTS
  Callers = {c1, c2, c3}
  worker = w
  MaxCalls = 1
  Exclusive = FALSE
INVARIANTS
  TypeOK
  LaneTokens
  NothingLeftOver
PROPERTIES
  CallsReturn
