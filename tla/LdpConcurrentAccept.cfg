SPECIFICATION Spec
CONSTANTS
  NULL = NULL
  t1 = t1
  Threads = {t1, t2}
  Calls <- SocketAccept
  Fds = {3, 4, 5, 6}
  Entries = {e1, e2, e3, e4}
  Results = {1}
  Errors = {}
  CreateErrors = {}
  INT_MAX = 7
  MaxCalls = 2
  MAXTHREAD = 4
  Exclusive = TRUE
  CreateMayFail = FALSE
SYMMETRY EntrySymmetry
INVARIANTS
  TableIntact
