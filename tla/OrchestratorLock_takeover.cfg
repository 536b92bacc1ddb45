\* Prompt replies to SET: refusals, and the end of dual activity under fairness.
SPECIFICATION FairSpec
CONSTANTS
  a = a
  b = b
  Workers <- TwoWorkers
  TTL = 2
  SlowReplies = FALSE
  MaxTime = 6
  MaxStarts = 2
  NULL = NULL
CHECK_DEADLOCK FALSE
PROPERTIES
  RefusedByLiveOwnerOnly
  DualActiveEnds
