\* Fair passes with a window that covers the horizon: orders and breaches are resolved.
SPECIFICATION FairSpec
CONSTANTS
  Units <- OneUnit
  SymbolOf <- OneSymbol
  TfSeconds <- OneTf
  Bars <- FallingBars
  Brackets <- LongOnly
  Cost = 0
  StartEquity = 10
  MaxBars = 5
  SnapshotInterval = 0
  Backfill = TRUE
  MaxTime = 5
  MaxDecisions = 2
  MaxFailures = 1
  NULL = NULL
PROPERTIES
  PendingIsResolved
  BreachEndsPosition
