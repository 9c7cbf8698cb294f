SPECIFICATION Spec
CONSTANTS
  NULL = NULL
  t1 = t1
  Threads = {t1, t2}
  Calls <- SafetyCalls
  Fds = {3, 4}
  Entries = {e1, e2}
  Results = {1, 2}
  Errors = {5}
  CreateErrors = {13}
  INT_MAX = 7
  MaxCalls = 3
  MAXTHREAD = 1
  Exclusive = FALSE
  CreateMayFail = TRUE
CHECK_DEADLOCK FALSE
SYMMETRY EntrySymmetry
INVARIANTS
  NoUseAfterFree
  TableMatchesKernel
  ReturnsOutcome
  ErrnoDelivered
