------------------------------ MODULE Pipeline ------------------------------
(***************************************************************************)
(* The stages from market data to decisions, side by side: a behaviour is  *)
(* one of the stage named by part, while the variables of the others keep  *)
(* their initial values.  A stage whose properties need two instances is   *)
(* two parts over the same variables.                                      *)
(*                                                                         *)
(*   "live", "backfill"    Ingest: live cycles; with backfills             *)
(*   "agents"              AgentWorker                                     *)
(*   "content"             Content                                         *)
(*   "votes", "readers"    TechnicalAgent; ContentAgents                   *)
(*   "fusion", "risk"      Verdict: the votes; the risk inputs             *)
(*   "spacing", "ledger"   DecisionEngine: with a cooldown; with positions *)
(*                         and account snapshots                           *)
(*   "prices", "coverage"  Backtest: a run that trades; one with gaps      *)
(*                                                                         *)
(* The constants of an instance are the fields of its setup, a record with *)
(* a field for each constant of the component.                             *)
(***************************************************************************)
EXTENDS Verdict

CONSTANTS
  NULL,
  LiveSetup, BackfillSetup, AgentsSetup, ContentSetup, TechnicalSetup, ReadersSetup,
  SpacingSetup, LedgerSetup, PricesSetup, CoverageSetup,
  RiskVotes, RiskContexts, GateInputs   \* Votes, Contexts and RiskInputs of the part "risk"

VARIABLES
  part,
  ingestNow, candles, health, barStream, quote, jobs, universe, breaker, ingestPc, ingestPhase,
    ingestTodo, bars, streak, ingestUsed,
  agentNow, agentCandles, agentStream, announced, delivered, signalRows, emitted, selected, acks,
    window, left, agentPc, agentUsed,
  contentNow, contentPc, due, contentRows, synth, ok, first, gap, wild, contentFaults,
  reading,
  loaded, news,
  engineNow, signals, decisions, orders, position, realized, snapshots, triggers, engineTodo,
    enginePc, scanning, result, events, engineReplays, engineFaults,
  runPhase, row, results, symbolNo, barNo, step, bar, last, pos, fill, trades, points, replays,
    missed, degraded, given, runFaults

Live == INSTANCE Ingest WITH
  Series <- LiveSetup.Series, Universes <- LiveSetup.Universes, History <- LiveSetup.History,
  MaxBars <- LiveSetup.MaxBars, Threshold <- LiveSetup.Threshold,
  Cooldown <- LiveSetup.Cooldown, Second <- LiveSetup.Second, Synthetic <- LiveSetup.Synthetic,
  ProviderGaps <- LiveSetup.ProviderGaps, Jobs <- LiveSetup.Jobs,
  DrainLimit <- LiveSetup.DrainLimit, MaxTime <- LiveSetup.MaxTime,
  MaxJobs <- LiveSetup.MaxJobs, MaxFailures <- LiveSetup.MaxFailures,
  MaxErrors <- LiveSetup.MaxErrors, MaxCrashes <- LiveSetup.MaxCrashes,
  now <- ingestNow, stream <- barStream, pc <- ingestPc, phase <- ingestPhase,
  todo <- ingestTodo, used <- ingestUsed
Backfill == INSTANCE Ingest WITH
  Series <- BackfillSetup.Series, Universes <- BackfillSetup.Universes,
  History <- BackfillSetup.History, MaxBars <- BackfillSetup.MaxBars,
  Threshold <- BackfillSetup.Threshold, Cooldown <- BackfillSetup.Cooldown, Second <- BackfillSetup.Second,
  Synthetic <- BackfillSetup.Synthetic, ProviderGaps <- BackfillSetup.ProviderGaps,
  Jobs <- BackfillSetup.Jobs, DrainLimit <- BackfillSetup.DrainLimit, MaxTime <- BackfillSetup.MaxTime,
  MaxJobs <- BackfillSetup.MaxJobs, MaxFailures <- BackfillSetup.MaxFailures,
  MaxErrors <- BackfillSetup.MaxErrors, MaxCrashes <- BackfillSetup.MaxCrashes,
  now <- ingestNow, stream <- barStream, pc <- ingestPc, phase <- ingestPhase,
  todo <- ingestTodo, used <- ingestUsed

AgentsOf == INSTANCE AgentWorker WITH
  Symbols <- AgentsSetup.Symbols, Agents <- AgentsSetup.Agents,
  Lookback <- AgentsSetup.Lookback, Multiplier <- AgentsSetup.Multiplier,
  BatchSize <- AgentsSetup.BatchSize, MaxBars <- AgentsSetup.MaxBars,
  MaxBackfills <- AgentsSetup.MaxBackfills, MaxErrors <- AgentsSetup.MaxErrors,
  MaxCrashes <- AgentsSetup.MaxCrashes,
  now <- agentNow, candles <- agentCandles, stream <- agentStream, pending <- delivered,
  rows <- signalRows, pc <- agentPc, used <- agentUsed

ContentOf == INSTANCE Content WITH
  Items <- ContentSetup.Items, Source <- ContentSetup.Source, At <- ContentSetup.At,
  Released <- ContentSetup.Released, Lookback <- ContentSetup.Lookback,
  Interval <- ContentSetup.Interval, Before <- ContentSetup.Before, Slot <- ContentSetup.Slot,
  MaxTime <- ContentSetup.MaxTime, MaxFaults <- ContentSetup.MaxFaults,
  now <- contentNow, pc <- contentPc, rows <- contentRows, faults <- contentFaults

Technical == INSTANCE TechnicalAgent WITH
  Diffs <- TechnicalSetup.Diffs, DeadZones <- TechnicalSetup.DeadZones,
  Bands <- TechnicalSetup.Bands, Days <- TechnicalSetup.Days, Rsis <- TechnicalSetup.Rsis,
  Stochs <- TechnicalSetup.Stochs, Adxs <- TechnicalSetup.Adxs,
  x <- reading
Readers == INSTANCE ContentAgents WITH
  Base <- ReadersSetup.Base, Quote <- ReadersSetup.Quote, Events <- ReadersSetup.Events,
  Stories <- ReadersSetup.Stories, MaxInputs <- ReadersSetup.MaxInputs,
  events <- loaded

Risks == INSTANCE Verdict WITH
  Votes <- RiskVotes, Contexts <- RiskContexts, RiskInputs <- GateInputs

Spacing == INSTANCE DecisionEngine WITH
  PairOrder <- SpacingSetup.PairOrder, Foreign <- SpacingSetup.Foreign,
  TfOrder <- SpacingSetup.TfOrder, TfLen <- SpacingSetup.TfLen, Basket <- SpacingSetup.Basket,
  Bulletins <- SpacingSetup.Bulletins, Regime <- SpacingSetup.Regime, Atr <- SpacingSetup.Atr,
  Price <- SpacingSetup.Price, Cooldown <- SpacingSetup.Cooldown, DayLen <- SpacingSetup.DayLen,
  Outcomes <- SpacingSetup.Outcomes, EntryCost <- SpacingSetup.EntryCost,
  SnapshotInterval <- SpacingSetup.SnapshotInterval, MaxTime <- SpacingSetup.MaxTime,
  MaxReports <- SpacingSetup.MaxReports, MaxTriggers <- SpacingSetup.MaxTriggers,
  MaxReplays <- SpacingSetup.MaxReplays, MaxFaults <- SpacingSetup.MaxFaults,
  now <- engineNow, todo <- engineTodo, pc <- enginePc, replays <- engineReplays,
  faults <- engineFaults
Ledger == INSTANCE DecisionEngine WITH
  PairOrder <- LedgerSetup.PairOrder, Foreign <- LedgerSetup.Foreign,
  TfOrder <- LedgerSetup.TfOrder, TfLen <- LedgerSetup.TfLen, Basket <- LedgerSetup.Basket,
  Bulletins <- LedgerSetup.Bulletins, Regime <- LedgerSetup.Regime, Atr <- LedgerSetup.Atr,
  Price <- LedgerSetup.Price, Cooldown <- LedgerSetup.Cooldown, DayLen <- LedgerSetup.DayLen,
  Outcomes <- LedgerSetup.Outcomes, EntryCost <- LedgerSetup.EntryCost,
  SnapshotInterval <- LedgerSetup.SnapshotInterval, MaxTime <- LedgerSetup.MaxTime,
  MaxReports <- LedgerSetup.MaxReports, MaxTriggers <- LedgerSetup.MaxTriggers,
  MaxReplays <- LedgerSetup.MaxReplays, MaxFaults <- LedgerSetup.MaxFaults,
  now <- engineNow, todo <- engineTodo, pc <- enginePc, replays <- engineReplays,
  faults <- engineFaults

PricedRun == INSTANCE Backtest WITH
  Symbols <- PricesSetup.Symbols, Bars <- PricesSetup.Bars, Ratio <- PricesSetup.Ratio,
  Warmup <- PricesSetup.Warmup, Prices <- PricesSetup.Prices,
  MaxFaults <- PricesSetup.MaxFaults, MayDie <- PricesSetup.MayDie,
  phase <- runPhase, k <- symbolNo, i <- barNo, pending <- fill, used <- given,
  faults <- runFaults
GappyRun == INSTANCE Backtest WITH
  Symbols <- CoverageSetup.Symbols, Bars <- CoverageSetup.Bars, Ratio <- CoverageSetup.Ratio,
  Warmup <- CoverageSetup.Warmup, Prices <- CoverageSetup.Prices,
  MaxFaults <- CoverageSetup.MaxFaults, MayDie <- CoverageSetup.MayDie,
  phase <- runPhase, k <- symbolNo, i <- barNo, pending <- fill, used <- given,
  faults <- runFaults

----------------------------------------------------------------------------
ingestVars ==
  <<ingestNow, candles, health, barStream, quote, jobs, universe, breaker, ingestPc, ingestPhase,
    ingestTodo, bars, streak, ingestUsed>>
agentVars ==
  <<agentNow, agentCandles, agentStream, announced, delivered, signalRows, emitted, selected,
    acks, window, left, agentPc, agentUsed>>
contentVars ==
  <<contentNow, contentPc, due, contentRows, synth, ok, first, gap, wild, contentFaults>>
readerVars == <<loaded, news>>
engineVars ==
  <<engineNow, signals, decisions, orders, position, realized, snapshots, triggers, engineTodo,
    enginePc, scanning, result, events, engineReplays, engineFaults>>
runVars ==
  <<runPhase, row, results, symbolNo, barNo, step, bar, last, pos, fill, trades, points, replays,
    missed, degraded, given, runFaults>>
allVars ==
  <<part, ingestVars, agentVars, contentVars, reading, readerVars, vars, engineVars, runVars>>

Unasked == CHOOSE d \in DecisionInputs : DOMAIN d.signals = {}

PipelineInit ==
  /\ part \in {"live", "backfill", "agents", "content", "votes", "readers", "fusion", "risk",
               "spacing", "ledger", "prices", "coverage"}
  /\ (part = "live" /\ Live!Init) \/ (part # "live" /\ Backfill!Init)
  /\ AgentsOf!Init /\ ContentOf!Init /\ Readers!Init
  /\ (part = "votes" /\ Technical!Init) \/ (part # "votes" /\ reading = NULL)
  /\ \/ part = "fusion" /\ Init
     \/ part = "risk" /\ Risks!Init
     \/ part \notin {"fusion", "risk"} /\ in = Unasked
  /\ (part = "ledger" /\ Ledger!Init) \/ (part # "ledger" /\ Spacing!Init)
  /\ (part = "coverage" /\ GappyRun!Init) \/ (part # "coverage" /\ PricedRun!Init)

\* A step of the parts ps leaves the variables of the others alone.
Only(ps) ==
  /\ part \in ps /\ UNCHANGED part
  /\ "live" \notin ps => UNCHANGED ingestVars
  /\ "agents" \notin ps => UNCHANGED agentVars
  /\ "content" \notin ps => UNCHANGED contentVars
  /\ UNCHANGED reading
  /\ "readers" \notin ps => UNCHANGED readerVars
  /\ "fusion" \notin ps => UNCHANGED vars
  /\ "ledger" \notin ps => UNCHANGED engineVars
  /\ "prices" \notin ps => UNCHANGED runVars

PipelineNext ==
  \/ Only({"live", "backfill"}) /\ part = "live" /\ Live!Next
  \/ Only({"live", "backfill"}) /\ part = "backfill" /\ Backfill!Next
  \/ Only({"agents"}) /\ AgentsOf!Next
  \/ Only({"content"}) /\ ContentOf!Next
  \/ Only({"votes"})
  \/ Only({"readers"}) /\ Readers!Next
  \/ Only({"fusion", "risk"}) /\ part = "fusion" /\ Next
  \/ Only({"fusion", "risk"}) /\ part = "risk" /\ Risks!Next
  \/ Only({"spacing", "ledger"}) /\ part = "spacing" /\ Spacing!Next
  \/ Only({"spacing", "ledger"}) /\ part = "ledger" /\ Ledger!Next
  \/ Only({"prices", "coverage"}) /\ part = "prices" /\ PricedRun!Next
  \/ Only({"prices", "coverage"}) /\ part = "coverage" /\ GappyRun!Next

PipelineSpec == PipelineInit /\ [][PipelineNext]_allVars

----------------------------------------------------------------------------
(* Properties: those of the stages, each for the parts it is about. *)

\* bar.closed announces committed candles and signal.emitted stored signals,
\* although the workers may die between commit and event, and the agents were
\* shown the bar their signal is about (upsert_candles, save_signals).
AnnouncedIsStored ==
  /\ part \in {"live", "backfill"} => Live!AnnouncedIsStored
  /\ part = "agents" => AgentsOf!TypeOK /\ AgentsOf!EmittedIsStored /\ AgentsOf!WindowHasBar

\* Over failures, restarts and a changing universe live ingestion (fetch_window)
\* leaves no hole; only closed bars are stored, also by backfills into the
\* future of a provider that looks its bars up; a breaker is closed only below
\* its threshold, and a persisted OPEN one keeps a restarted worker from calling
\* until the last second of its cooldown (seconds_until_probe).
IngestionIsSound ==
  /\ part = "live" => Live!IngestionIsSound
  /\ part = "backfill" => Backfill!IngestionIsSound

\* A story or event is stored as soon as a poll succeeds after its time, unless
\* polls failed for longer than the lookback (_safe_calendar, _safe_news).
NothingSlipsThrough == part = "content" => ContentOf!NothingSlipsThrough

\* The agents have no bias: a mirrored market gets the opposite technical
\* signal, the inverted pair the opposite fundamental and sentiment signal, and
\* stories about the pair itself say nothing about it.  No score or confidence
\* exceeds 1 although weights and surprises add up to more, and without a trend
\* (ADX below 20) trend followers alone are never confident.
AgentsAreUnbiased ==
  /\ part = "votes" =>
       Technical!MirrorImage /\ Technical!ScoreIsAFraction /\ Technical!WeakTrendIsDamped
  /\ part = "readers" =>
       Readers!PairIsSymmetric /\ Readers!ConfidenceIsAFraction /\ Readers!OwnPairIsNeutral

\* A PAPER verdict is earned: enough weight voted for its direction, which the
\* context of the larger timeframe did not reverse, it passed all five gates,
\* and neither the day's closed positions nor a fall between two snapshots have
\* reached their cap (compute_decision, build_ledger_gate, restore_state).  The
\* score is a mean of the votes, and a vote never pulls away from its direction.
PaperIsEarned ==
  /\ [](/\ ScoreIsAMean /\ ContextNeverReverses /\ PaperIsBackedByVotes /\ PaperIsRiskValidated
        /\ part = "spacing" => Spacing!TypeOK
        /\ part = "ledger" => Ledger!TypeOK /\ Ledger!LossesStopPaper)
  /\ VotesPullTheirWay

\* However triggers, scans, replays and restarts repeat a bar, it is decided
\* once, the stored decision never changes and has one order, and two PAPER
\* decisions of a pair are further apart than the cooldown (save_decision).
DecidedOnce ==
  /\ [](/\ part = "ledger" => Ledger!OneOrderPerDecision
        /\ part = "spacing" => Spacing!PapersAreSpaced)
  /\ Ledger!DecisionIsFinal

\* A simulated position was decided on the bar before its entry and still fits
\* when it is entered, is inside its thresholds after a bar it survived, and
\* follows the last one of its symbol; the previous day it was decided with had
\* ended; a symbol is degraded exactly when a decided bar lacked its signals; and
\* only a run whose results were committed is COMPLETED (driver.py, service.py).
SimulationIsSound ==
  /\ [](/\ part = "prices" =>
             /\ PricedRun!PendingStillFits /\ PricedRun!EntryFollowsDecision
             /\ PricedRun!InsideThresholds /\ PricedRun!TradesDoNotOverlap
        /\ part = "coverage" => GappyRun!DailyIsPast /\ GappyRun!CompletedHasResults)
  /\ [][part = "coverage" => GappyRun!DegradedIsMissing]_runVars
=============================================================================
