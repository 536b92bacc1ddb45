\* One market with a cost per entry and exit: the cash of the wallet.
SPECIFICATION Spec
CONSTANTS
  Units <- OneUnit
  SymbolOf <- OneSymbol
  TfSeconds <- OneTf
  Bars <- FallingBars
  Brackets <- LongOnly
  Cost = 1
  StartEquity = 10
  MaxBars = 2
  SnapshotInterval = 0
  Backfill = FALSE
  MaxTime = 4
  MaxDecisions = 1
  MaxFailures = 0
  NULL = NULL
INVARIANTS
  CashIsNetOfTrades
