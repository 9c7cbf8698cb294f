SPECIFICATION FairSpec
CONSTANTS
  NULL = NULL
  t1 = t1
  Threads = {t1, t2}
  Calls <- LifecycleCalls
  Fds = {3, 4}
  Entries = {e1, e2}
  Results = {1}
  Errors = {}
  CreateErrors = {}
  INT_MAX = 7
  MaxCalls = 3
  MAXTHREAD = 2
  Exclusive = FALSE
  CreateMayFail = FALSE
INVARIANTS
  TypeOK
  TableIntact
  LookupFinds
  ServedEntries
  SearchAhead
PROPERTIES
  CallsReturn
  ReadersPass
