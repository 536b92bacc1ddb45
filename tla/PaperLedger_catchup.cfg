\* A catch-up window shorter than the time a position is held.
SPECIFICATION FairSpec
CONSTANTS
  Units <- OneUnit
  SymbolOf <- OneSymbol
  TfSeconds <- OneTf
  Bars <- FallingBars
  Brackets <- LongOnly
  Cost = 0
  StartEquity = 10
  MaxBars = 1
  SnapshotInterval = 0
  Backfill = FALSE
  MaxTime = 4
  MaxDecisions = 1
  MaxFailures = 0
  NULL = NULL
PROPERTIES
  BreachEndsPosition
