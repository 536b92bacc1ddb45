\* Two orchestrators, two process starts each, over three lease lengths.
SPECIFICATION Spec
CONSTANTS
  a = a
  b = b
  Workers <- TwoWorkers
  TTL = 2
  SlowReplies = TRUE
  MaxTime = 6
  MaxStarts = 2
  NULL = NULL
SYMMETRY WorkerSymmetry
CHECK_DEADLOCK FALSE
INVARIANTS
  TypeOK
  LeaseHolds
  OneConfirmedOwner
PROPERTIES
  OnlyOwnerTouchesLease
