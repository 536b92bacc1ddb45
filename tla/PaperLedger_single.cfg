\* One market, bars in order, one failure or crash anywhere in a pass.
SPECIFICATION Spec
CONSTANTS
  Units <- OneUnit
  SymbolOf <- OneSymbol
  TfSeconds <- OneTf
  Bars <- FallingBars
  Brackets <- BothBrackets
  Cost = 0
  StartEquity = 10
  MaxBars = 2
  SnapshotInterval = 0
  Backfill = FALSE
  MaxTime = 5
  MaxDecisions = 3
  MaxFailures = 1
  NULL = NULL
INVARIANTS
  TypeOK
  NoBreachSkipped
  PositionsDoNotOverlap
PROPERTIES
  HistoryIsFinal
  ImplementsSlots
