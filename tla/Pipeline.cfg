SPECIFICATION PipelineSpec
CONSTANTS
  NULL = NULL
  Weights <- DefaultWeights
  Threshold = 15
  ContextWeight = 15
  Params <- DefaultParams
  CoverageMin = 50
  AgreementMin = 50
  Votes <- ManyVotes
  Contexts <- ManyContexts
  RiskInputs <- OneRisk
  Hysteresis = 4
  LiveSetup <- LiveValues
  BackfillSetup <- BackfillValues
  AgentsSetup <- AgentsValues
  ContentSetup <- ContentValues
  TechnicalSetup <- TechnicalValues
  ReadersSetup <- ReadersValues
  SpacingSetup <- SpacingValues
  LedgerSetup <- LedgerValues
  PricesSetup <- PricesValues
  CoverageSetup <- CoverageValues
  RiskVotes <- TwoVotes
  RiskContexts <- NoContext
  GateInputs <- Gates
\* Clocks, bars, reports and faults are bounded, and at the bounds some stages
\* have nothing left to do; a backtest ends.
CHECK_DEADLOCK FALSE
INVARIANTS
  AnnouncedIsStored
  IngestionIsSound
  NothingSlipsThrough
  AgentsAreUnbiased
PROPERTIES
  PaperIsEarned
  DecidedOnce
  SimulationIsSound
