\* One symbol on two timeframes, bars stored in any order, one failure or crash.
SPECIFICATION Spec
CONSTANTS
  Units <- TwoUnits
  SymbolOf <- OneSymbol
  TfSeconds <- TwoTfs
  Bars <- FallingBars
  Brackets <- BothBrackets
  Cost = 0
  StartEquity = 10
  MaxBars = 2
  SnapshotInterval = 0
  Backfill = TRUE
  MaxTime = 4
  MaxDecisions = 2
  MaxFailures = 1
  NULL = NULL
INVARIANTS
  OneOpenPerSymbol
  FilledAtFillBar
  CandidatesStayPending
  FlipIsAtomic
  ExitIsBackedByBar
