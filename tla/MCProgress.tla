----------------------------- MODULE MCProgress -----------------------------
(***************************************************************************)
(* What must eventually happen, of the workers and of the live page, side  *)
(* by side: a behaviour is one of the component named by part, while the   *)
(* variables of the others keep their initial values.  A component whose   *)
(* properties need two instances is two parts over the same variables.     *)
(*                                                                         *)
(*   "cycles", "jobs"     Ingest: provider failures and a crash; backfills *)
(*   "agents"             AgentWorker                                      *)
(*   "engine"             DecisionEngine: one pair, one fault              *)
(*   "alerts"             AlertWorker                                      *)
(*   "run"                Backtest with an exception                       *)
(*   "crashes", "rolling" Heartbeat: crashes and outages; two overlapping  *)
(*                        workers that die, hang or stop                   *)
(*   "page", "denied"     LiveStream: one topic; two and a refused one     *)
(*   "week"               Staleness, over the hours of a week              *)
(***************************************************************************)
EXTENDS Integers, Sequences, FiniteSets

CONSTANTS
  NULL,
  BarHours, MinThreshold, WorkerDies, Outages   \* Staleness

VARIABLES
  part,
  ingestNow, candles, health, barStream, quote, jobs, universe, breaker, ingestPc, ingestPhase,
    ingestTodo, bars, streak, ingestUsed,
  agentNow, agentCandles, agentStream, announced, delivered, signalRows, emitted, selected, acks,
    window, left, agentPc, agentUsed,
  engineNow, signals, decisions, orders, position, realized, snapshots, triggers, engineTodo,
    enginePc, scanning, result, events, engineReplays, engineFaults,
  alertNow, born, raised, alertStream, alertPending, acked, alertRows, batch, tx, aborted,
    alertAcks, alertPc, alertUsed,
  runPhase, row, results, symbolNo, barNo, step, bar, last, pos, fill, trades, points, replays,
    missed, degraded, given, runFaults,
  beatKey, beatPc, beatSince, beatTouched, stopped, outage, workerUp, beatUsed,
  log, valid, tickets, page, held, socket, inbox, topics, cursors, out, frames, asked, base,
    breaks,
  hour, age, missing, provider, worker, picture, gauge, outages

----------------------------------------------------------------------------
Fast == <<"EURUSD", 1>>

Cycles == INSTANCE Ingest WITH
  Series <- {Fast}, Universes <- {<<Fast>>}, History <- 2, MaxBars <- 4,
  Threshold <- 2, Cooldown <- 2, Second <- 2, Synthetic <- FALSE, ProviderGaps <- FALSE, Jobs <- {},
  DrainLimit <- 1, MaxTime <- 3, MaxJobs <- 0, MaxFailures <- 3, MaxErrors <- 0, MaxCrashes <- 1,
  now <- ingestNow, stream <- barStream, pc <- ingestPc, phase <- ingestPhase,
  todo <- ingestTodo, used <- ingestUsed
Backfills == INSTANCE Ingest WITH
  Series <- {Fast}, Universes <- {<<Fast>>}, History <- 2, MaxBars <- 4,
  Threshold <- 2, Cooldown <- 2, Second <- 2, Synthetic <- TRUE, ProviderGaps <- FALSE,
  Jobs <- {[s |-> Fast, start |-> 0, end |-> 1], [s |-> Fast, start |-> 0, end |-> 4]},
  DrainLimit <- 1, MaxTime <- 3, MaxJobs <- 2, MaxFailures <- 0, MaxErrors <- 0, MaxCrashes <- 0,
  now <- ingestNow, stream <- barStream, pc <- ingestPc, phase <- ingestPhase,
  todo <- ingestTodo, used <- ingestUsed

AgentsOf == INSTANCE AgentWorker WITH
  Symbols <- {"EURUSD", "GBPUSD"}, Agents <- {"technical", "regime"}, Lookback <- 4,
  Multiplier <- 2, BatchSize <- 2, MaxBars <- 2, MaxBackfills <- 1, MaxErrors <- 0,
  MaxCrashes <- 0,
  now <- agentNow, candles <- agentCandles, stream <- agentStream, pending <- delivered,
  rows <- signalRows, pc <- agentPc, used <- agentUsed

Vote(d) == [dir |-> d, conf |-> 60]
Says(d) == [technical |-> Vote(d), fundamental |-> Vote(d), sentiment |-> Vote(d)]
Engine == INSTANCE DecisionEngine WITH
  Weights <- [unknown |-> [technical |-> 40, fundamental |-> 30, sentiment |-> 30]],
  Threshold <- 15, ContextWeight <- 15, CoverageMin <- 50, AgreementMin <- 50,
  Params <- [risk |-> 1, exposure |-> 30, dailyLoss |-> 3, drawdown |-> 10, correlation |-> 15,
             sl |-> 3, tp |-> 5, minRR |-> 150, equity |-> 10000, enabled |-> TRUE],
  PairOrder <- <<<<"EURUSD", "H1">>>>, Foreign <- {}, TfOrder <- <<"H1">>, TfLen <- [H1 |-> 1],
  Basket <- [EURUSD |-> {"EUR", "USD"}], Bulletins <- {Says(1), Says(-1)}, Regime <- "unknown",
  Atr <- 2, Price <- 100, Cooldown <- 1, DayLen <- 4, Outcomes <- {0},
  EntryCost <- 0, SnapshotInterval <- 0, MaxTime <- 2,
  MaxReports <- 2, MaxTriggers <- 1, MaxReplays <- 0, MaxFaults <- 1,
  now <- engineNow, todo <- engineTodo, pc <- enginePc, replays <- engineReplays,
  faults <- engineFaults

Alerts == INSTANCE AlertWorker WITH
  Pairs <- {"EURUSD"}, Admins <- {"ann"}, Shapes <- {"good", "garbled"}, BatchSize <- 2,
  MaxLen <- 2, MaxTime <- 1, MaxAlerts <- 2, MaxCrashes <- 0, MaxCommitFailures <- 0,
  MaxAckFailures <- 1,
  now <- alertNow, stream <- alertStream, pending <- alertPending, rows <- alertRows,
  acks <- alertAcks, pc <- alertPc, used <- alertUsed

Run == INSTANCE Backtest WITH
  Symbols <- <<"EURUSD">>, Bars <- 3, Ratio <- 2, Warmup <- 1, Prices <- {2},
  MaxFaults <- 1, MayDie <- FALSE,
  phase <- runPhase, k <- symbolNo, i <- barNo, pending <- fill, used <- given,
  faults <- runFaults

Crashes == INSTANCE Heartbeat WITH
  Instances <- {"old", "new"}, Overlap <- FALSE, Period <- 2, MinTtl <- 4, MaxCycle <- 4,
  RoundTrip <- 1, MaxStops <- 0, MaxCrashes <- 1, MaxHangs <- 0, MaxOutages <- 1,
  key <- beatKey, pc <- beatPc, since <- beatSince, touched <- beatTouched,
  gauge <- workerUp, used <- beatUsed
Rolling == INSTANCE Heartbeat WITH
  Instances <- {"old", "new"}, Overlap <- TRUE, Period <- 1, MinTtl <- 4, MaxCycle <- 1,
  RoundTrip <- 1, MaxStops <- 1, MaxCrashes <- 1, MaxHangs <- 1, MaxOutages <- 0,
  key <- beatKey, pc <- beatPc, since <- beatSince, touched <- beatTouched,
  gauge <- workerUp, used <- beatUsed

PageOf == INSTANCE LiveStream WITH
  Topics <- {"alerts"}, Permitted <- {"alerts"}, Wanted <- {"alerts"}, Count <- 1,
  MaxLen <- 3, MaxFaults <- 2,
  pc <- socket, since <- cursors, got <- frames, faults <- breaks
\* fills is a reserved topic: it has no stream and is refused.
Denied == INSTANCE LiveStream WITH
  Topics <- {"alerts", "signals"}, Permitted <- {"alerts", "signals"},
  Wanted <- {"alerts", "signals", "fills"}, Count <- 1, MaxLen <- 1, MaxFaults <- 1,
  pc <- socket, since <- cursors, got <- frames, faults <- breaks

Week == INSTANCE Staleness WITH Step <- BarHours, t <- hour

ASSUME Week!StalenessAssumption

----------------------------------------------------------------------------
ingestVars ==
  <<ingestNow, candles, health, barStream, quote, jobs, universe, breaker, ingestPc, ingestPhase,
    ingestTodo, bars, streak, ingestUsed>>
agentVars ==
  <<agentNow, agentCandles, agentStream, announced, delivered, signalRows, emitted, selected,
    acks, window, left, agentPc, agentUsed>>
engineVars ==
  <<engineNow, signals, decisions, orders, position, realized, snapshots, triggers, engineTodo,
    enginePc, scanning, result, events, engineReplays, engineFaults>>
alertVars ==
  <<alertNow, born, raised, alertStream, alertPending, acked, alertRows, batch, tx, aborted,
    alertAcks, alertPc, alertUsed>>
runVars ==
  <<runPhase, row, results, symbolNo, barNo, step, bar, last, pos, fill, trades, points, replays,
    missed, degraded, given, runFaults>>
beatVars == <<beatKey, beatPc, beatSince, beatTouched, stopped, outage, workerUp, beatUsed>>
feedVars ==
  <<log, valid, tickets, page, held, socket, inbox, topics, cursors, out, frames, asked, base,
    breaks>>
weekVars == <<hour, age, missing, provider, worker, picture, gauge, outages>>
allVars ==
  <<part, ingestVars, agentVars, engineVars, alertVars, runVars, beatVars, feedVars, weekVars>>

ProgressInit ==
  /\ part \in {"cycles", "jobs", "agents", "engine", "alerts", "run", "crashes", "rolling",
               "page", "denied", "week"}
  /\ Cycles!Init /\ AgentsOf!Init /\ Engine!Init /\ Alerts!Init /\ Run!Init
  /\ Crashes!Init /\ Week!Init
  /\ IF part = "denied" THEN Denied!Init ELSE PageOf!Init

\* A step of the parts ps leaves the variables of the others alone.
Only(ps) ==
  /\ part \in ps /\ UNCHANGED part
  /\ "jobs" \notin ps => UNCHANGED ingestVars
  /\ "agents" \notin ps => UNCHANGED agentVars
  /\ "engine" \notin ps => UNCHANGED engineVars
  /\ "alerts" \notin ps => UNCHANGED alertVars
  /\ "run" \notin ps => UNCHANGED runVars
  /\ "rolling" \notin ps => UNCHANGED beatVars
  /\ "denied" \notin ps => UNCHANGED feedVars
  /\ "week" \notin ps => UNCHANGED weekVars

ProgressNext ==
  \/ Only({"cycles", "jobs"}) /\ IF part = "cycles" THEN Cycles!Next ELSE Backfills!Next
  \/ Only({"agents"}) /\ AgentsOf!Next
  \/ Only({"engine"}) /\ Engine!Next
  \/ Only({"alerts"}) /\ Alerts!Next
  \/ Only({"run"}) /\ Run!Next
  \/ Only({"crashes", "rolling"}) /\ IF part = "crashes" THEN Crashes!Next ELSE Rolling!Next
  \/ Only({"page", "denied"}) /\ IF part = "page" THEN PageOf!Next ELSE Denied!Next
  \/ Only({"week"}) /\ Week!Next

----------------------------------------------------------------------------
(* Fairness: that of the components.  Since part does not change, one      *)
(* condition on a disjunction of steps of different parts is a condition   *)
(* on each of them.                                                        *)

\* The loop of each worker, of the page and of the backtest goes on.
MainLoop ==
  \/ Only({"jobs", "cycles"}) /\ IF part = "cycles" THEN Cycles!Work ELSE Backfills!Work
  \/ Only({"agents"}) /\ AgentsOf!Poll
  \/ Only({"engine"}) /\ Engine!Loop
  \/ Only({"alerts"}) /\ Alerts!Poll
  \/ Only({"run"}) /\ (Run!Create \/ Run!Replay \/ Run!Save \/ Run!MarkFailed)
  \/ Only({"crashes", "rolling"}) /\ IF part = "crashes" THEN Crashes!Step("old") ELSE Rolling!Step("old")
  \/ Only({"page", "denied"}) /\ IF part = "page" THEN PageOf!Page ELSE Denied!Page
  \/ Only({"week"}) /\ Week!Pass

\* Time passes, and the loop of an open socket reads and sends.
Clock ==
  \/ Only({"jobs", "cycles"}) /\ IF part = "cycles" THEN Cycles!Tick ELSE Backfills!Tick
  \/ Only({"engine"}) /\ Engine!Tick
  \/ Only({"crashes", "rolling"}) /\ IF part = "crashes" THEN Crashes!Tick ELSE Rolling!Tick
  \/ Only({"page", "denied"}) /\
       IF part = "page"
       THEN PageOf!Read \/ PageOf!Send \/ PageOf!Baseline("alerts")
       ELSE Denied!Read \/ Denied!Send \/ \E t \in {"alerts", "signals"} : Denied!Baseline(t)

\* A second worker goes on; the socket's receive times out.
Others ==
  \/ Only({"crashes", "rolling"}) /\ IF part = "crashes" THEN Crashes!Step("new") ELSE Rolling!Step("new")
  \/ Only({"page", "denied"}) /\ IF part = "page" THEN PageOf!Idle ELSE Denied!Idle

\* An outage of Redis ends.
RedisReturns == Only({"crashes", "rolling"}) /\ part = "crashes" /\ Crashes!RedisReturns

\* Prometheus scrapes.
Scrape ==
  \/ Only({"crashes", "rolling"}) /\ IF part = "crashes" THEN Crashes!Scrape ELSE Rolling!Scrape
  \/ Only({"week"}) /\ Week!Scrape

\* What is possible again and again happens: the scan between two polls, a
\* control frame of the page.
Recurring ==
  \/ Only({"engine"}) /\ Engine!ScanAll
  \/ Only({"page", "denied"}) /\ IF part = "page" THEN PageOf!Control ELSE Denied!Control

ProgressSpec ==
  /\ ProgressInit /\ [][ProgressNext]_allVars
  /\ WF_allVars(MainLoop) /\ WF_allVars(Clock) /\ WF_allVars(Others) /\ WF_allVars(RedisReturns)
  /\ WF_allVars(Scrape) /\ []<>(part = "engine" => Engine!BatchDone)
  /\ SF_allVars(Recurring)

----------------------------------------------------------------------------
(* Properties: those of the components, each for the parts it is about. *)

\* HALF_OPEN does not last, the backlog newer than the first stored bar is
\* ingested by later cycles, and an accepted backfill job is carried out
\* (before_call, fetch_window, drain_backfill_jobs).
IngestionRecovers ==
  Cycles!ProbeDecides /\ Cycles!BacklogIsDrained /\ Backfills!BackfillIsApplied

\* After every announced bar, it or a newer one of its symbol is analyzed, every
\* stored signal is announced, a published alert that can be stored is stored,
\* and a backtest run that is not killed does not stay RUNNING.
WorkIsDone ==
  /\ AgentsOf!BacklogIsOvertaken /\ AgentsOf!StoredIsEmitted
  /\ Alerts!StoredEventually
  /\ <>[](part = "run" => row \in {"COMPLETED", "FAILED"})

\* A pair whose triggers were lost is decided by a scan (scan_all), and a stored
\* decision is announced in spite of a crash or a failed publication.
DecisionsArrive == Engine!MissedTriggersRecovered /\ Engine!DecisionIsAnnounced

\* Once crashes and outages are over, the worker is reported up for good; when
\* every process of a role is dead or hung, status and gauge say so.
StatusFollows ==
  /\ <>[](part = "crashes" => Crashes!Status = "up" /\ workerUp = 1)
  /\ Rolling!DeadIsNotUp

Subscribed == IF part = "page" THEN {"alerts"} ELSE {"alerts", "signals"}

\* An event beyond the cursor of an open socket reaches the page, past any run of
\* entries that do not decode, and after its disconnects the page is subscribed
\* again to all it may read, also when a topic it wants is refused.
PageIsLive ==
  /\ PageOf!EventReachesPage
  /\ <>[](part \in {"page", "denied"} => page = "login" \/ (page = "open" /\ topics = Subscribed))

\* The sweep never misses a series that lags three bars while the market trades
\* and flags a complete one only around the Sunday opening; next_open and
\* next_close are the first such instants, at the boundaries too.
SweepIsAccurate ==
  part = "week" =>
    /\ Week!NextOpenIsFirst /\ Week!NextCloseIsFirst
    /\ Week!StallIsFlagged /\ Week!FreshIsQuiet

\* A series that gets no more bars shows on the gauge every week, and one that
\* is fed again leaves it.
GaugeFollows ==
  /\ (<>[](part = "week" /\ ~ Week!Ingests)) => []<>(gauge = 1)
  /\ (<>[](part = "week" /\ Week!Ingests)) => []<>(gauge = 0)
=============================================================================
