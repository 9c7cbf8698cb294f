SPECIFICATION FFairSpec
CONSTANTS
  Callers = {c1, c2}
  worker = w
  MaxCalls = 2
  Exclusive = TRUE
INVARIANTS
  NoDataRace
  OwnResult
  ChildOwnResult
  ServesChildOnly
PROPERTIES
  ImplementsRemoteCall
  ChildCallsReturn
CHECK_DEADLOCK FALSE
