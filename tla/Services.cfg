SPECIFICATION ServicesSpec
CONSTANTS
  NULL = NULL
  Budget = 6
  Costs = {1, 2, 5}
  MaxDay = 3
  Admins = {"ann", "bob"}
  MaxCrashes = 1
  Pairs = {"EURUSD"}
  Shapes = {"good", "garbled"}
  BatchSize = 2
  AlertLen = 2
  AlertTime = 1
  MaxAlerts = 2
  MaxCommitFailures = 1
  MaxAckFailures = 1
  Instances = {"old", "new"}
  Overlap = FALSE
  Period = 2
  MinTtl = 5
  MaxCycle = 4
  RoundTrip = 0
  MaxStops = 1
  MaxHangs = 1
  MaxOutages = 1
\* fills is a reserved topic: it has no stream and is refused.
  Topics = {"alerts", "signals"}
  Permitted = {"alerts", "signals"}
  Wanted = {"alerts", "signals", "fills"}
  Count = 2
  FeedLen = 3
  MaxBreaks = 1
  Users = {"ann", "bob"}
  OneTab = {"tab1"}
  TwoTabs = {"tab1", "tab2"}
  MaxTokens = 3
  MaxLosses = 1
  TabUpdates = 2
  TabsUpdates = 1
  Keys = {"login:a", "login:b"}
  Limit = 2
  Window = 4
  Second = 2
  LimiterTime = 6
  Fields <- TheFields
  KindOf <- KindsOfFields
  Parse <- Parser
  EnvValues <- Environments
  Requests <- SomeRequests
  SharedKinds <- BothKinds
  SharedRequests = 3
  SharedRestarts = 1
  SeparateKinds <- OneKind
  SeparateRequests = 4
  SeparateRestarts = 0
  Units = {1, 2}
  SymbolOf <- Symbols
  TfSeconds <- BarLengths
  Bars <- TwoBars
  Brackets <- OneBracket
  Cost = 0
  StartEquity = 10
  MaxBars = 2
  SnapshotInterval = 0
  Backfill = FALSE
  LedgerTime = 2
  MaxDecisions = 2
  MaxFailures = 0
  PageLimit = 1
\* The clock, the budgets of faults and the requests are bounded, and at the
\* bounds some components have nothing left to do.
CHECK_DEADLOCK FALSE
INVARIANTS
  HealthyIsUp
  FeedIsExact
  SessionsAreSafe
  LimiterIsExact
  BudgetIsExact
  SummaryIsSound
PROPERTIES
  AlertsAreKept
  SettingsAreSafe
