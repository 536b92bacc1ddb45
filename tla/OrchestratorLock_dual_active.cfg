\* A cycle of work that outlasts the lease.
SPECIFICATION Spec
CONSTANTS
  a = a
  b = b
  Workers <- TwoWorkers
  TTL = 2
  SlowReplies = TRUE
  MaxTime = 4
  MaxStarts = 1
  NULL = NULL
CHECK_DEADLOCK FALSE
INVARIANTS
  NeverTwoOwners
