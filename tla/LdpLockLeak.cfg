SPECIFICATION Spec
CONSTANTS
  NULL = NULL
  t1 = t1
  Threads = {t1, t2}
  Calls <- EpollClose
  Fds = {3, 4}
  Entries = {e1, e2}
  Results = {1}
  Errors = {}
  CreateErrors = {12}
  INT_MAX = 7
  MaxCalls = 2
  MAXTHREAD = 2
  Exclusive = TRUE
  CreateMayFail = FALSE
INVARIANTS
  LockReleased
