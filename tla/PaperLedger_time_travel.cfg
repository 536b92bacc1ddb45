\* One symbol on two timeframes: a bar of the other timeframe ends a position.
SPECIFICATION Spec
CONSTANTS
  Units <- TwoUnits
  SymbolOf <- OneSymbol
  TfSeconds <- TwoTfs
  Bars <- FallingBars
  Brackets <- BothBrackets
  Cost = 0
  StartEquity = 10
  MaxBars = 2
  SnapshotInterval = 0
  Backfill = FALSE
  MaxTime = 5
  MaxDecisions = 2
  MaxFailures = 0
  NULL = NULL
INVARIANTS
  ExitNotBeforeEntry
