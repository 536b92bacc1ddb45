# Verification of the forex-ai-system

TLA+ models of the parts of the system that keep state under concurrency and failure, TLC configurations that
check them on small instances, and TLAPS proofs of the main safety properties for every value of the
parameters. Source paths below are relative to `backend/app` (in the repository, `src/backend/app`).

## The system

The backend is a set of worker processes around one Postgres database and one Redis server. It only simulates
trades ("SAFE MODE", paper trading).

| component | state | operations | interacts with |
|---|---|---|---|
| ingest worker (`data/ingest.py`, `workers/ingest_worker.py`) | candles, quote cache, provider health, breaker, backfill queue | fetch a window, upsert bars, publish `bar.closed`, drain backfills, sweep for staleness | providers, bus, API |
| content runtime (`workers/content_runtime.py`) | news, calendar events | poll both sources, substitute synthetic content | agents |
| agent worker (`workers/agent_worker.py`, `agents/`) | agent signals | read `bar.closed`, analyse the newest bar of a symbol, save a signal once per bucket, publish | bus, candles, content |
| orchestrator (`workers/orchestrator_worker.py`, `orchestrator_runtime.py`) | the lease in Redis | poll triggers, `process_pair`, `process_lifecycle`, scan | everything below |
| decision engine (`decisions/`) | decisions, risk evaluations | fuse the signals of a bucket, gate by risk and cooldown, persist first-writer-wins, announce | signals, ledger gate |
| paper ledger (`broker/`) | `orders_paper`, `positions`, `account_snapshots` | submit, fill, flip, exit, cancel, snapshot, restore | orchestrator |
| alert worker (`workers/alert_worker.py`) | alert events | read the alert stream, save, acknowledge | bus, API |
| monitoring (`monitor/`, `api/v1/system.py`) | heartbeats, gauges | touch, classify, sweep, scrape | every worker |
| live feed (`ws/`, `api/v1/realtime.py`, frontend `lib/alerts.ts`) | tickets, sockets, cursors | issue and consume tickets, subscribe, pump, reconnect | bus, browser |
| accounts (`services/auth_service.py`, `core/ratelimit.py`) | users, refresh tokens, hits | register, login, refresh, logout, update, limit | API, browser |
| runtime settings (`data/risk_config.py`, `data/market_config.py`) | `system_settings` rows | resolve, override, audit | API, workers |
| portfolio read model (`data/portfolio_reader.py`) | none | summary, pages | ledger tables |
| LLM budget (`llm/client.py`) | what today has cost | charge, refuse, roll over | LLM client |
| backtest (`backtest/`) | a run and its results | replay bars through the same broker, persist | candles |

What is hard here:

* the lifecycle pass commits bar by bar, restores its in-memory broker from the tables before each bar, and may
  fail or be killed between any two commits, while candles arrive, also late ones;
* several timeframes of one symbol share one position slot; a pending order must be resolved although its bar may
  never come; cash is carried by snapshots;
* the lease must protect against a second orchestrator although every Redis call is an await and a cycle may take
  longer than the lease;
* streams deliver at least once or, after a crash, never; events are published after the commit they announce;
  batches are acknowledged although one item failed;
* a breaker is shared by several series, lives in memory and in a row, and decides by a single probe;
* signals, triggers, replays and scans decide the same bar again, with other data;
* heartbeats are two Redis commands and one key per role, whichever process writes it;
* sockets keep cursors of their own over streams, and a page reconnects by itself;
* tabs share a refresh cookie, and admins share a settings row, without locks;
* a backtest must not use what was not known at the bar it decides.

`PROJECT.json` lists the most important of these hazards with their lines and the properties that cover them.

## Modules

| module | models |
|---|---|
| `PaperLedger` | ledger tables, lifecycle pass, their environment |
| `SymbolSlots` | what the ledger promises: one slot per symbol |
| `PaperLedgerSlots` | the refinement mapping from the ledger to the slots |
| `OrchestratorLock` | the Redis lease and `run_orchestrator` |
| `CircuitBreaker`, `Ingest` | the breaker, as functions on its state; the ingest worker around it |
| `AgentWorker` | from a closed bar to stored and announced signals |
| `TechnicalAgent`, `ContentAgents` | the votes of the technical agent; those of the fundamental and the sentiment agent |
| `Content` | polling of news and calendar |
| `Fusion`, `RiskGate`, `Verdict` | fusion of votes; sizing, gates and verdict (pure); the verdict over bounded inputs |
| `DecisionEngine` | triggers, scans, the transaction of a pair, events, cooldown, ledger gate (uses `RiskGate`) |
| `Backtest` | one run: replay, simulated broker, coverage, persistence |
| `AlertWorker` | alerts, from the process that raises one to the row an admin signs off |
| `Heartbeat`, `Staleness` | heartbeat key, status and gauge of a role; market hours, staleness sweep and gauge |
| `LiveStream` | tickets, the loop of a socket, the reconnecting page |
| `Sessions`, `RateLimiter` | accounts and refresh token families; the sliding window |
| `RuntimeSettings` | risk knobs and market universe under racing admins |
| `LlmBudget` | the daily budget |
| `Portfolio` | the portfolio summary and position pages over `PaperLedger` |
| `MCPaperLedger`, `MCOrchestratorLock` | small instances of the ledger and of the lease |
| `Pipeline`, `Services` | the stages from market data to decisions, side by side; the services around them, side by side (see "Runs") |
| `MCPipeline`, `MCServices` | the small instances of these two |
| `MCProgress` | a small instance of the components with liveness properties, side by side and fair |
| `PaperLedgerProofs` | TLAPS proofs: the ledger, its refinement and the portfolio summary over it |
| `DecisionEngineProofs` | TLAPS proofs of `Fusion`, `RiskGate` and `DecisionEngine`, and of `TechnicalAgent` and `ContentAgents` |
| `OrchestratorLockProofs`, `IngestProofs` | TLAPS proofs, one component each |
| `AccountProofs` | TLAPS proofs of `Sessions` and `RuntimeSettings` |
| `ServicesProofs` | TLAPS proofs of `LlmBudget`, `AlertWorker`, `Heartbeat`, `RateLimiter` and `LiveStream`, and of all services side by side |
| `PipelineProofs` | TLAPS proofs of `AgentWorker`, `Content`, `Verdict` and `Backtest`, and of all stages side by side |
| `ProgressProofs` | TLAPS proofs of `Staleness`, over `MCProgress` |

Definitions whose comment starts with "Mutant:" are wrong variants of the definition that follows them. They are
used by nothing; `PROJECT.json` names, for every checked property, a variant under which TLC finds the property
violated. Properties marked "Not guaranteed by the code" are listed under "Known deviations".

### PaperLedger

A decision is a pair (unit, bucket), a unit being a symbol on a timeframe; a decision sponsors at most one order
(`uq_orders_paper_decision_id`) and an order opens at most one position, so the tables are functions on decisions.
`candles[u][ts]` is the stored bar. `pc`, `queue`, `unit`, `cands` and `window` are what a pass holds between
commits; the in-memory broker is not a variable, since `restore_state` rebuilds it before each unit-bar. Inside one
transaction it appears as a "book": the rows that will be flushed, and the cash.

| action | code | atomic because |
|---|---|---|
| `StoreBar` | `_ingest_series`: a closed, aligned bar; after the newest one, or anywhere if forced | one commit |
| `Decide` | `process_pair`: a PAPER decision and its PENDING order | one commit |
| `Discover` | `process_lifecycle`, discovery session | read only |
| `StartUnit` | `_process_unit` up to the loop: load, cancel missing-bar orders, window | one commit |
| `ProcessBar` | `process_unit_bar`: restore, fills and flips at the open, exit at the close, mark, snapshot | one commit |
| `ExpirySweep` | `_cancel_expired_pending` | one commit |
| `UnitFails`, `SweepFails` | an exception: rollback, the pass goes on | |
| `Crash` | the process dies: the pass is forgotten, the tables stay | |

`Decide` is possible only between passes: one task alternates `poll_once` and `process_lifecycle`. The read of the
candles and the cancellations of `StartUnit` are one step although they are several queries; a bar stored between them
could be missed by this pass and is seen by the next one. Prices are small integers; position size is one unit and the
cost of an entry or exit one constant; a bar is its open and close (the lifecycle reads nothing else); what the
decision engine computes is any bracket in `Brackets`; a stored bar is not overwritten. The candidates of a bar are one
at most, because fill stamps are injective on the decisions of a unit, so `arbitrate_fills` is used with at most one.

`SymbolSlots` is the abstract ledger: a set of held orders with their sides and the set of past ones. One step serves
one symbol: the order in its slot leaves, or a new one takes the slot (displacing only an opposing side), or takes
and leaves it at once. `PaperLedgerSlots` maps OPEN rows to `held` and CLOSED rows to `past`; `ImplementsSlots` says
that every ledger step is one of these or a stutter.

### OrchestratorLock

`key` is the Redis key with its token and expiry; `pc[w]` is where `run_orchestrator` of process `w` is. A renewal and
a release are two steps each, WATCH/GET and MULTI/EXEC, with anything in between; `Work` lasts as long as it likes.
Redis is external: a key past its expiry is gone; EXEC runs iff the watched key was not touched, an expiry counting
as a touch (Redis 7). A token is (worker, number of its start), which is as unique as the uuid. `confirmed[w]`
records when Redis last set or extended w's lease.

### Ingest and CircuitBreaker

One worker visits the series of the universe one after the other; fetch, commit, quote and every published event are
steps of their own (`Work`), between which time passes, admins queue backfills or change the universe, and the process
may die. What survives is candles, `provider_health`, the stream, the quote cache and the queue. A provider either
computes its bars (synthetic) or looks them up (OANDA). A cycle takes at most `DrainLimit` backfill jobs from the queue. The
breaker's counter and age are saturated at the values the code compares them with. Its age is in ticks, several to a
`Second`: `SecondsUntilProbe` cuts the rest of a second off, as `int` does in `breaker.py:64`, so the probe of an open breaker is
let through up to a second before its cooldown is over, and `OpenSurvivesRestart` claims no more than that. `streak` counts provider failures in a row as the code's documentation means them.

### AgentWorker, Content and the agents

`AgentWorker` numbers the bars of one timeframe; a signal is known by its bar and by the candles its agents were
shown. `Content` has items with a time of their own and, for calendar events, a later time at which the actual
value is released; a poll inserts what the provider lists, first writer wins. `TechnicalAgent` and
`ContentAgents` are functions of the agents' last inputs (`x`, `events`, `news`), in exact fractions; TLC enumerates the
inputs, each vote in every direction, at its bounds and absent.

### Fusion, RiskGate, Verdict, DecisionEngine

Scores are exact fractions, confidences and weights percentages, money integers. `ComputeDecision` (`RiskGate`) is
`compute_decision`. `Verdict` steps from one input snapshot to another in which one agent voted differently.
`DecisionEngine` uses the same operator inside `ProcessPair`, one transaction per pair, then publishes; `Foreign` pairs
are triggers of pairs outside the universe. Fills, flips and exits are the environment's, by the rules of `PaperLedger`: any
outstanding bar may be the next one (`LifecycleBar`) and have any result in `Outcomes`. What a bar books goes to two places the gate
reads: the closed rows, by the day the bar starts (`realized`, the daily loss), and a snapshot of the account, if one is due
(`snapshots`: equity and largest drawdown). `Account` is what `restore_state` finds, the latest snapshot, which is all the engine's
`LedgerGate` knows of equity and drawdown; a bar whose stamp has a snapshot already leaves none.

### Backtest

Time is counted in bars. What a decision was given is kept as the instant its newest piece became known (`used`), so
that look-ahead is a comparison of two numbers. `Create`, `Save` and `MarkFailed` are the three transactions of
`run_backtest`; the CLI process may raise or be killed between them.

### The services

`AlertWorker`: a batch is read, saved in one transaction (aborted by a statement that fails, as PostgreSQL does),
committed and acknowledged entry by entry. `Heartbeat`: HSET and EXPIRE are two steps; processes start, touch, hang,
die, leave by an exception of a cycle, and stop; the gauge is refreshed by a scrape. `Staleness`: the hours of one week, a series, the sweep of
`StalenessMonitor.check` in each of them and the gauge. `LiveStream`: pages hold tickets, sockets hold one cursor per
topic, entries may be poison; `Control`, `Baseline`, `Read`, `Send` and `Idle` are the awaits of the socket's loop.
`Sessions`: each request is a read step and a commit step; a response may be lost. `RateLimiter`: a
second is several ticks of the clock, and a refusal advises whole seconds, rounded up. `RuntimeSettings`: each request loads, then commits its row and the audit record; a deployment changes the
environment. `LlmBudget`: calls, refusals and midnights. `Portfolio`: the queries of a summary are separate
steps over the running ledger.

## Runs

The ledger and the lease have runs of their own. The other components are independent state machines, checked side by
side in three runs (`Pipeline`, `Services` and `MCProgress`). A behaviour of such a run belongs to one *part*, named by the variable `part`, which never
changes; `Only(ps)` leaves the variables of all other parts at their initial values. Every component is a
named `INSTANCE` with its constants and variables substituted, so its definitions are used as they are. A component
whose properties need two instances (one symbol with many prices, two symbols with faults) is two parts
over the same variables.

| run | instance | shows |
|---|---|---|
| `ledger_single` | one unit, 5 instants, 3 decisions of both sides, window 2, 1 failure | types, no breach skipped, positions one after the other, history final, `SymbolSlots` implemented |
| `ledger_multi_tf` | one symbol on timeframes 1 and 2, bars in any order, 2 decisions, 1 failure | the shared slot, fills, flips, exits |
| `ledger_liveness` | one unit, window as long as the horizon, late bars, 1 failure, fair | orders resolved, breaches end positions |
| `ledger_catchup` | the same with window 1 | violation: see "Known deviations" |
| `ledger_cash` | cost 1 | violation |
| `ledger_time_travel` | two timeframes | violation |
| `lock_safety` | 2 orchestrators, lease 2, 6 instants, 2 starts each | lease sound, only the owner touches it |
| `lock_takeover` | the same with prompt replies to SET, fair | refusals justified, dual activity ends |
| `lock_dual_active` | lease 2, 4 instants | violation |
| `pipeline` | parts of `Pipeline`: ingestion, agents, content, verdicts, engine, backtest | safety from bar to decision |
| `services` | parts of `Services`: budget, alerts, heartbeat, feed, sessions, limiter, settings, portfolio | safety of the services |
| `progress` | parts of `MCProgress`, fair, with a bounded number of faults | liveness of the workers, the page, the backtest and the monitoring; the trading calendar |

What the last three check. A property of these runs is the conjunction of what its components promise; the parts are
defined, with their comments, in the components' modules.

| property | says | parts |
|---|---|---|
| `AnnouncedIsStored` | events announce committed bars and stored signals, although workers die in between; within the lookback the agents saw their bar | `AnnouncedIsStored`, `EmittedIsStored`, `WindowHasBar` |
| `IngestionIsSound` | no hole over failures, restarts and universe changes; only closed bars; the breaker is closed only below its threshold, and an OPEN one keeps a restarted worker from calling until the last second of its cooldown | `NoHoles`, `OnlyClosedBars`, `BreakerConsistent`, `OpenSurvivesRestart` |
| `NothingSlipsThrough` | content is stored by the next successful poll | |
| `AgentsAreUnbiased` | mirrored markets and inverted pairs get the opposite signal, own-pair stories are neutral, scores and confidences are fractions, a weak trend is damped | `MirrorImage`, `PairIsSymmetric`, `OwnPairIsNeutral`, `ScoreIsAFraction`, `ConfidenceIsAFraction`, `WeakTrendIsDamped` |
| `PaperIsEarned` | the score is a mean and moves with the votes, the context never reverses it, a PAPER verdict is backed by votes and passed every gate; none is stored while the rows closed today have lost the daily cap, nor ever after two snapshots a drawdown cap apart | `ScoreIsAMean`, `VotesPullTheirWay`, `ContextNeverReverses`, `PaperIsBackedByVotes`, `PaperIsRiskValidated`, `LossesStopPaper` |
| `DecidedOnce` | decisions are final, have one order, and PAPER ones are spaced by the cooldown, however triggers, scans, replays and restarts repeat a bar | `DecisionIsFinal`, `OneOrderPerDecision`, `PapersAreSpaced` |
| `SimulationIsSound` | a waiting fill still fits, entries follow their decision, positions stay inside their thresholds, trades do not overlap, the previous day had ended, degradation is exact, COMPLETED runs have results | `PendingStillFits`, `EntryFollowsDecision`, `InsideThresholds`, `TradesDoNotOverlap`, `DailyIsPast`, `DegradedIsMissing`, `CompletedHasResults` |
| `AlertsAreKept` | acknowledged alerts are stored, staleness alerts never collapse, the first acknowledgement stays | `AcknowledgedIsStored`, `StalenessIsDistinct`, `AckIsKept` |
| `HealthyIsUp` | a looping worker is up at every instant | |
| `FeedIsExact` | a socket sends in order, once, without holes | `InOrderOnce`, `NoHole` |
| `SessionsAreSafe` | families keep their owner and rotated tokens are revoked in all interleavings; with one request at a time a family has one live token, stays dead after reuse, and an admin remains | `FamilyHasOneUser`, `RotatedIsRevoked`, `OneLivePerFamily`, `CaughtIsDead`, `AdminRemains` |
| `LimiterIsExact` | no window lets through too many calls; the advised wait is enough, and a second less is not | `NeverOverLimit`, `AdviceIsEnough`, `AdviceIsNeeded` |
| `SettingsAreSafe` | knobs in use are safe; if admins send different kinds of request, omitted fields stay and the audit record tells what is in use | `KnobsAreSafe`, `OmittedStays`, `AuditIsInUse` |
| `BudgetIsExact` | days stay within the budget, refusals are due | `WithinBudget`, `RefusalIsDue` |
| `SummaryIsSound` | nothing is counted twice, open positions are listed | `NothingCountedTwice`, `OpenAreListed` |
| `IngestionRecovers` | HALF_OPEN does not last, the backlog within the cap is fetched, an accepted backfill is applied | `ProbeDecides`, `BacklogIsDrained`, `BackfillIsApplied` |
| `WorkIsDone` | announced bars are analysed or overtaken, stored signals announced, storable alerts stored, runs closed | `BacklogIsOvertaken`, `StoredIsEmitted`, `StoredEventually`, `RunIsClosed` |
| `DecisionsArrive` | lost triggers are made up for by scans; stored decisions are announced in spite of a crash or a failed publication | `MissedTriggersRecovered`, `DecisionIsAnnounced` |
| `StatusFollows` | after crashes and outages a worker is up for good; a dead or hung role is not up | `UpForGood`, `DeadIsNotUp` |
| `PageIsLive` | events reach the page past any run of poison; after disconnects it is subscribed again, also when a wanted topic is refused | `EventReachesPage`, `EventuallyLive` |
| `SweepIsAccurate` | `next_open` and `next_close` are exact; a lag of three bars is flagged while the market trades, a complete series only around the Sunday opening | `NextOpenIsFirst`, `NextCloseIsFirst`, `StallIsFlagged`, `FreshIsQuiet` |
| `GaugeFollows` | stalls and recoveries reach the gauge | `StallShows`, `RecoveryShows` |

The type invariants of the components are conjuncts of the safety properties of their parts.

Bounds. `MaxTime` 5 lets an order of bucket 0 be decided, filled at bar 1, flipped by the order of bucket 1 or 2,
exited, and expire (validity is four bars); a window of 2 is shorter than the bars outstanding, so catch-up takes several
passes; one failure or crash interrupts any commit of the pass it hits. For the lease, six instants are three
lease lengths. In the other runs each fault has a bound of its own, one or two: enough to hit every step; queues and
streams are longer than a batch (`BatchSize`, `Count`) so that a read leaves something; the breaker's threshold of 2 is reached, its
cooldown passes, and with three provider failures in `progress` a probe fails too; the engine has five bars against a
cooldown of three and a validity of four, and replays where it has one pair; its two-pair part has losses of a tenth of the equity,
which meet both caps, gains that hide a fall, two symbols whose bars share a stamp and so one snapshot, and an account that stays
solvent (`Settles`); of flips it has none, since its one bulletin has one side, but the proofs do; a clock of two ticks to a second tells a
truncated or rounded second from a whole one, for the breaker and the limiter; one backfill per cycle (`DrainLimit`) leaves a second
one in the queue; the part with backfills has no provider failures, which are in the live part; two tabs, two admins, two symbols or two processes are what races need. Deadlock
is not checked where bounded components may come to rest (the lock, the last three runs); the ledger's passes never
stop.

Fairness. Weak fairness says that what stays possible happens: time passes (`Tick`), the loop of a process that has not died
goes on (`Lifecycle`, `Step(w)`, `Work`, `Poll`, `Loop`, `Read`/`Send`), the containers restart it
(`restart: unless-stopped`), an outage ends, Prometheus scrapes (every 15 seconds in
`infra/prometheus/prometheus.yml`, far more often than the hourly steps of `Staleness`, whose `Pass` therefore has a scrape
in it). Ingestion, decisions, requests, starts and faults are never forced, and faults are finitely many. Two
actions are strongly fair, because the loops reach them again and again without staying there: the scan of the orchestrator between
two polls (`ScanAll`) and the frame handling of a socket (`Control`). `BatchDone` states for the engine that a batch of
pairs ends, which is weak fairness of `ProcessPair`, as each step removes a pair. In `MCProgress` one condition covers
the corresponding actions of all parts; since `part` is constant it amounts to one condition for each.

In the part "worker" of `services` HSET and EXPIRE fall into the same instant (`RoundTrip` 0) and a cycle takes at most twice the
period, within the time to live of three periods (`heartbeat_ttl_for_loop`); `HealthyIsUp` needs that. With a round trip between
the two commands a key that a dead process left may run out after the HSET and before the EXPIRE of the first touch of its
successor: the HSET does not renew the expiry, and EXPIRE then finds no key.

## Known deviations

What a comment or document of the repository says and the code does not do. The first four have runs that show the
violation, and findings in `PROJECT.json`. TLC refutes the others on instances like those of the runs in which the named fault or overlap is
admitted; the runs check the same or a weaker property without it.

* `BreachEndsPosition` (run `ledger_catchup`; `workers/orchestrator_worker.py:895`): The window of a pass is the oldest max_bars stamps from the earliest anchor, and for a held position the anchor is always its entry_ts (orchestrator_worker.py:895, lifecycle.py:194), so once a position is older than max_bars every pass processes the same bars again and later bars never reach the exit test. broker/lifecycle.py:188 says "Throttle window: ascending stamps, at most max_bars; never a skip" and core/config.py:179-183 that outstanding bars are processed in later cycles.
* `CashIsNetOfTrades` (run `ledger_cash`; `broker/paper.py:183`): enter_at_next_open subtracts the entry cost from cash (paper.py:139) and _close subtracts entry plus exit cost again (paper.py:164-200), so after a round trip cash is below start equity plus net PnL by one entry cost. models/paper_ledger.py:139 says "Closed positions carry full round-trip values (entry + exit costs netted)".
* `ExitNotBeforeEntry` (run `ledger_time_travel`; `workers/orchestrator_worker.py:612`): _process_unit looks up the open position by symbol only (orchestrator_worker.py:612, lifecycle.py:329), so a bar of another timeframe, stamped before the entry, is tested against it and closes it with exit_ts before entry_ts. broker/lifecycle.py:19-20 says an OPEN position resumes "at the first closed bar of its timeframe whose bucket is strictly after entry_ts".
* `NeverTwoOwners` (run `lock_dual_active`; `workers/orchestrator_runtime.py:147`): Ownership is confirmed only at the head of a cycle (orchestrator_runtime.py:147); a cycle longer than the lease leaves the orchestrator working while the key expires and another one acquires it. workers/orchestrator_worker.py:247-249 says the token "guarantees two orchestrators can never both believe they own the lock".
* `CashIsNetOfTrades` (`PaperLedger`; `broker/lifecycle.py:394`): restore_state takes cash only from the latest snapshot (ledger.py:330-335), and _snapshot_due refuses a second snapshot at the same bar stamp (lifecycle.py:394): when two symbols change state on bars with the same stamp, the second one's cash is lost at the next restore. broker/lifecycle.py:21 says "account_snapshots is never a correctness watermark".
* `StoredIsEmitted` (`AgentWorker`; `workers/agent_worker.py:203`): The events are published after the commit and the stream is read with ">" only, so a crash in between leaves stored signals that no event announces. workers/agent_worker.py:9-10 says "every processed bar publishes signal.emitted events to signals.stream for the Phase 5 orchestrator."
* `WindowHasBar` (`AgentWorker`; `workers/agent_worker.py:243`): _load_series asks load_candles for a limit without a start, and load_candles orders ascending, so a series with more than 150 bars is analyzed on its oldest 150 for every later bar. agents/base.py:41-43 says "candles is a DataFrame indexed by bucket-start timestamps (ascending) with columns open/high/low/close/volume; the last row corresponds to bucket_ts."
* `NoLookahead` (`AgentWorker`; `workers/agent_worker.py:239`): _load_series has no upper bound on the bar's time, so a bar that is analyzed late is analyzed with candles of the bars after it. agents/base.py:42-43 says "the last row corresponds to bucket_ts."
* `FreshIsGathered` (`AgentWorker`; `data/signal_repository.py:72`): load_latest_per_agent picks the row created last and filters by freshness afterwards, so a signal of a backfilled bar, which is created late and born stale, hides the fresh signal of the same agent. IMPLEMENTATION_PLAN.md:151 says "Gather fresh signals (staleness-checked) for `(pair, timeframe)`."
* `StoredEventually` (`AlertWorker`; `workers/alert_worker.py:71`): poll_once reads ">" only, so an entry that was delivered to a process that died (or whose commit failed) stays pending and is never read again. workers/alert_worker.py:5-7 says "On restart the group's pending/0 offset replays un-acked entries for catch-up".
* `AcknowledgedIsStored` (`AlertWorker`; `workers/alert_worker.py:107`): An exception of save_alert is swallowed and the loop goes on in the same transaction, which PostgreSQL has aborted: the other saves of the batch fail as well, the commit rolls back, and every entry is acknowledged. workers/alert_worker.py:4-5 says "Each entry is translated to a normalized alert and persisted idempotently (event_id unique key), then acknowledged."
* `OccurrencesAreDistinct` (`AlertWorker`; `workers/orchestrator_worker.py:759`): Risk-brake and paper alerts are stamped with the instant the worker was constructed, which digest_event_id takes for the time of the occurrence, so all risk brakes of a pair in one process lifetime are one row. alerts/translate.py:38 says "Canonical, collision-safe identity for an alert event."
* `ParentIsKnown` (`Backtest`; `backtest/driver.py:106`): run replays every larger timeframe over the whole range before the fine one, and _last keeps only the latest decision per timeframe, so the context of every fine decision is the last decision of the range. backtest/driver.py:10 says "decisions are generated from information available at the bar close".
* `GateIsKnown` (`Backtest`; `backtest/driver.py:109`): Symbols are replayed one after the other against one broker, so exposure, daily loss and drawdown in the gate of the second symbol contain positions and trades of the first one that happen later. backtest/driver.py:10 says "decisions are generated from information available at the bar close".
* `SoundRunIsCompleted` (`Backtest`; `backtest/driver.py:306`): _record_equity merges a stamp only with the point just before it, so with two symbols each stamp occurs twice and uq_backtest_equity_run_ts (models/backtest.py:98) refuses the curve: the run is FAILED. cli.py:92 offers "Comma-separated pairs, e.g. EURUSD,GBPUSD." and cli.py:98 says "Run a deterministic synthetic-data backtest and persist the results."
* `ActualIsStored` (`Content`; `data/content_repository.py:90`): save_events inserts with ON CONFLICT DO NOTHING and the key does not contain the actual value, so an event first polled before its release keeps a row without it, and its surprise stays 0. agents/fundamental.py:7 promises "a **surprise bias** from actual-vs-forecast for the pair's currencies".
* `RiskWindowIsSeen` (`Content`; `workers/content_runtime.py:116`): _safe_calendar polls with until=now, so an event is never stored before its time and the half of the window before it has no impact. llm/fallback/calendar_proximity.py:5 says "minutes before/after the event during which impact is non-zero".
* `SyntheticIsInWindow` (`Content`; `data/providers/synthetic_content.py:82`): The window bounds the slots, not the events: an event is its slot plus an offset and may lie before since or at or after until. data/providers/synthetic_content.py:69 says "Deterministic calendar events with since <= ts < until."
* `TripIsAlerted` (`LlmBudget`; `llm/opencode_zen.py:103`): _budget_alerted is set at the first refusal and never reset, although the budget rolls over each day, so only the first trip of the process is announced. llm/opencode_zen.py:100 says "Publish a durable alert.llm_budget once when the daily budget trips."
* `LowEventsAreNoRisk` (`ContentAgents`; `agents/fundamental.py:106`): _max_impact passes half_window_minutes=90 for every event, which overrides the window of each importance, so an event of low importance has full impact. llm/fallback/calendar_proximity.py:41 says "(or importance is low)" of when event_impact returns None.
* `AnyListedPairCounts` (`ContentAgents`; `agents/sentiment.py:93`): _score_items keeps only the first listed pair ([:1]). agents/sentiment.py:104 says "Symbols is a tuple of FX pairs; a currency is \"touched\" if it is" and :105 "part of any pair listed for the item."
* `AgreementIsOfDirection` (`Verdict`; `decisions/fusion.py:187`): apply_context takes the direction again and keeps the agreement computed for the direction before it; a direction the context created carries agreement 0 and is stored as low_agreement. decisions/fusion.py:16-17 says "`agreement` = weighted fraction of voting agents that align with the fused direction".
* `SmallMovesDoNotFlip` (`Verdict`; `decisions/fusion.py:81`): FusionParams.hysteresis is never read; the direction depends on the threshold alone, so a score that moves across it by less than the hysteresis flips the direction. decisions/fusion.py:14-15 says "by the fusion threshold with a small hysteresis so near-threshold scores don't flip every bar".
* `RecordedRiskWithinMax` (`Verdict`; `decisions/risk.py:110`): risk_pct_account is notional * stop distance / equity instead of units * stop distance / equity, so the recorded share is too large by the factor of the price. core/config.py:151 says "Max % of account equity risked per trade".
* `CooldownFollowsPaper` (`DecisionEngine`; `decisions/engine.py:426`): The cooldown looks for a decision of any status whose validity (4 bars from its bucket) ended less than the cooldown ago; a refused decision is stored and extends it, so a steady signal gets one PAPER decision and none after it. core/config.py:147 says "Per-pair cooldown between PAPER decisions (seconds)."
* `EventMatchesDecision` (`DecisionEngine`; `workers/orchestrator_worker.py:363`): decision.emitted (and alert.risk_brake) is published for every persisted outcome, also when save_decision found the row taken, with the status computed now: a replay or scan of a PAPER decision announces ANALYSIS/cooldown for the same bar. api/v1/admin.py:175-176 says "a replayed trigger is idempotent: a fresh decision for the same (symbol, timeframe, bucket) is a no-op".
* `ContextIsRiskValidated` (`DecisionEngine`; `decisions/engine.py:304`): The parent is the latest valid decision of any status, ANALYSIS and BLOCKED too. decisions/fusion.py:174-175 says "The context only uses a direction produced by a prior (risk-validated) decision".
* `ExposureUnderCap` (`DecisionEngine`; `decisions/risk.py:159`): The gate adds the risk share (1 percent), not the notional of the candidate, to the exposure of open positions, and pending orders are not counted, so fills take the notional above the cap. decisions/risk.py:7 says "total open paper notional must stay under the cap".
* `AccountKnowsLosses` (`DecisionEngine`; `broker/lifecycle.py:394`): The gate reads equity and drawdown of the broker, which restore_state takes from the latest snapshot (broker/ledger.py:330-335), and _snapshot_due refuses a second snapshot at the same stamp (or, with paper_snapshot_interval_seconds, within the interval), so the result that a second symbol's bar of that stamp books never reaches them: the drawdown gate passes although the losses booked have reached its cap, and shares are taken of an equity that is not there. Only the daily loss is read from the closed rows. decisions/ledger_gate.py:3 says "The live orchestrator's risk gates are computed from the actual paper ledger".
* `HealthyIsUp` (`Heartbeat`; `monitor/heartbeat.py:111`): clear deletes the key of the role, whichever process wrote it last, so when two processes overlap the one that stops makes the healthy one look down until its next touch. monitor/heartbeat.py:130-131 says "healthy slow-loop workers are never misclassified as stale/down".
* `DeadIsDown` (`Heartbeat`; `monitor/heartbeat.py:105`): The expiry is set by a second command: a process killed after the first HSET leaves a hash without one, which is reported stale for ever. monitor/heartbeat.py:25-26 says "TTL auto-expiry is what lets a killed process be detected as down without needing a cleanup step."
* `HungIsStale` (`Heartbeat`; `monitor/heartbeat.py:166`): The classification window and the expiry of the key are the same number, so the key is gone when its age would exceed it and a hung process is reported down. monitor/heartbeat.py:8-9 says "stale when the key exists but is older than the heartbeat TTL (process hung or its loop stopped touching it)".
* `ProbeDecides` (`Ingest`; `data/ingest.py:271`): The handler of exceptions other than ProviderError records neither success nor failure, so a probe that ends in one (a database error, a ValueError of Candle.validate) leaves the breaker HALF_OPEN; before_call refuses every call in HALF_OPEN, and persist_breaker_snapshot makes that survive restarts. data/breaker.py:7-8 says "HALF_OPEN: cooldown elapsed; a single probe call decides — success closes the breaker, failure reopens it."
* `BacklogIsDrained` (`Ingest`; `data/ingest.py:176`): When the backlog exceeds the cap the window is moved to its newest end, and the next window starts after the newest stored bar, so the older bars are never requested again. data/ingest.py:172-173 says "Per-cycle cap bounds catch-ups after long outages; the remaining backlog is drained over subsequent cycles."
* `BackfillIsApplied` (`Ingest`; `api/v1/admin.py:217`): Jobs are popped before they are run and a series that fails or meets an open breaker is skipped without requeueing, so an accepted backfill may never happen. api/v1/admin.py:157 answers "Backfill queued; the ingest worker will drain it."
* `RefusedUntilCooldown` (`Ingest`; `data/breaker.py:64`): seconds_until_probe truncates what is left of the cooldown to whole seconds and before_call (breaker.py:75) lets the probe through when that is zero, so it goes out up to a second early, after a restart too. data/breaker.py:5-6 says "all calls are refused until the cooldown elapses".
* `FailuresOpenBreaker` (`Ingest`; `data/ingest.py:210`): An up-to-date series calls record_success without having called the provider, which resets the shared counter (and closes a half-open breaker), so failures of the other series are never consecutive. data/breaker.py:5-6 says "OPEN: entered after failure_threshold consecutive failures".
* `OnlyClosedBars` (`Ingest`; `data/providers/synthetic.py:137`): The synthetic provider calls a bar closed when it ends by the end of the requested window, and neither the backfill endpoint nor run_backfill bounds that by now, so bars of the future are stored. data/providers/base.py:4-5 says "fetch_candles returns only *closed* bars whose bucket start lies in [start, end); forming bars are never produced."
* `QuoteNeverGoesBack` (`Ingest`; `data/ingest.py:237`): Every fetch, a backfill of an old range too, overwrites the cached quote with its own newest bar. data/ingest.py:281 says "Refresh the Redis latest-quote cache and publish prices.live" and api/v1/market.py:4 that /prices/latest serves it.
* `NothingFromBefore` (`LiveStream`; `ws/hub.py:129`): current_stream_id returns "0-0" when Redis does not answer, and the next read_once then sends the whole retained stream as live events; api/v1/realtime.py:124 says events "produced *after* subscription are delivered".
* `BaselinedWhenSubscribed` (`LiveStream`; `api/v1/realtime.py:132`): The cursor of a topic is set in the iteration after the one that handled the subscription and sent "subscribed"; an event published in between is before the baseline and never sent. api/v1/realtime.py:122 says "A topic is baselined once, at the moment it" (line 123) "is first subscribed, to the current head of its Stream".
* `EmptyMeansEmpty` (`Portfolio`; `data/portfolio_reader.py:249`): load_portfolio_summary answers all zeros as soon as there is no snapshot, which is so until the first bar with a held position is processed: orders that are PENDING by then are not counted. data/portfolio_reader.py:91 says "Latest snapshot plus open counts; zeros when the ledger is empty."
* `IdleIsReal` (`Portfolio`; `data/portfolio_reader.py:259`): Positions are counted before orders by separate queries, so an order that a pass fills in between is in neither count and the summary shows an idle portfolio that never was. data/portfolio_reader.py:239 says "Latest account snapshot plus open position/order counts."
* `OmittedStays` (`RuntimeSettings`; `data/risk_config.py:118`): set_risk_params loads all knobs, replaces those sent and stores the whole row without a lock, so of two overlapping requests for different knobs the later commit restores the old value of the other knob. api/v1/risk.py:74 says "Apply runtime risk overrides (admin-only, audited). Omitted fields stay."
* `DefaultsFollow` (`RuntimeSettings`; `data/risk_config.py:118`): stored contains every editable knob, so the first override of one knob pins all others to the environment of that day. data/risk_config.py:3 says "Defaults come from environment Settings; admins may override individual knobs".
* `BreachMeansLag` (`Staleness`; `monitor/staleness.py:78`): The age is wall-clock time, so at the Sunday opening every intraday series is two days old and alerts although no bar is missing. monitor/staleness.py:30 says "Alert once a series lags more than 3 bars behind real time."
* `StallShows` (`Staleness`; `workers/ingest_worker.py:190`): The staleness picture is written by the worker it is about and has no expiry, so when the ingest worker dies the gauge keeps its last value. api/v1/system.py:221 says "Prometheus scrape endpoint (refreshes worker/staleness gauges live)."
* `SweptHadNoOpen` (`PaperLedger`; `workers/orchestrator_worker.py:537`): The sweep goes by valid_until alone and runs after a failed unit too, so one exception in the pass that catches up cancels an order whose fill bar is stored and that the next pass would have filled. _cancel_expired_pending says it releases the slot "the way the backtest implies (no next open ⇒ no position)" (workers/orchestrator_worker.py:669), and the backtest fills at that open.
* `StochIsSeparated` (`TechnicalAgent`; `agents/technical.py:260`): _stoch_vote compares k and d without any separation, so a difference of rounding size votes with full weight. agents/technical.py:20 says "histogram) use a dead-zone of 5% of ATR(14); Stochastic requires %K/%D" and :21 "separation > 0.5 points."

## Proofs

Every proof follows the same argument: an inductive invariant, one lemma per action (or group of actions) that it is preserved,
and one theorem per property. Assumptions on constants are named definitions (`IngestAssumption`, `SessionsAssumption`,
`AlertsAssumption`, `HeartbeatAssumption`, `LimiterAssumption`, `SettingsAssumption`, `LiveAssumption`, `AgentsAssumption`,
`ContentAssumption`, `InputsAssumption`, `EngineAssumption`, `BacktestAssumption`, `TechnicalAssumption`,
`ReadersAssumption`, `StalenessAssumption`) or ASSUMEs of the module; they say that bounds are naturals, that periods and batch sizes are positive and that `NULL` is no value, and TLC evaluates them
on the instances of the runs. Conditions on the environment are named separately and stated as hypotheses of the theorem.

`PaperLedgerProofs`, from `UnitsAssumption`, `RowsAssumption`, `NumbersAssumption` and `NullAssumption`: `TypeOK`,
`OneOpenPerSymbol`, `FilledAtFillBar`, `CandidatesStayPending`, `FlipIsAtomic` and `ExitIsBackedByBar` are invariants, and
`HistoryIsFinal` holds of every step. `IInv` adds that an order exists only for a persisted decision (otherwise `Decide`
could overwrite a filled order) and that a stored bar has closed. The properties are first stated of arbitrary tables
(`OneOpen`, `Linked`, `ExitsBacked`, `FlipsDone`), because they must be followed through the two halves of a transaction: `Core`
leaves the flip property out since it is false between the close and the fill of a flip, and `FlipsStayDone` restores
it. `Kept` is `HistoryIsFinal` between two tables; it is transitive, so a bar's open and close compose.

Under `BarsInOrder` (no backfill, one unit per symbol, the conditions of the run `ledger_single`) also `NoBreachSkipped` and
`PositionsDoNotOverlap`, for any number of bars, window and failures. Both fail without it. The invariant `Timeline` says why a
pass may be cut off anywhere and start again from the entry of the held position: an order that may still be filled comes after
everything its market did (`PendingIsLast`), the loop has loaded every pending order and meets its fill bar before a later bar
(`OrdersAreLoaded`), the bars left to it have no gap (`WindowIsConvex`), and the bars it has passed, in this pass or an earlier
one, breached nothing (`PassedBarsAreQuiet`). `WindowIsPrefix` is the lemma about the throttled window: what it leaves out is later
than all it holds.

Also in `PaperLedgerProofs`: `LedgerImplementsSlots`, the refinement, for every set of units, bars and brackets. It uses
`Invariance`. A bar is followed through its halves as changes of a table: `FillAtOpenSlot` says that the open
leaves the table alone or enters one order into a slot that is free or held by the opposing side, `EvaluateExitSlot` that the close
leaves it alone or exits the open order of the symbol; `ExitedSets` and `EnteredSets` say what such changes do to the sets of held and
past orders, and `ProcessBarServesSlot` combines the two halves into one abstract step. All other actions stutter. And
`SummarySound`: `SummaryIsSound` of `Portfolio`, over every interleaving of the queries with the lifecycle. `ReaderInv` says that the
positions of the first query stay rows, so that their orders are FILLED, not PENDING, when the second query counts.

`OrchestratorLockProofs`, from `LockAssumption` and `LockNullAssumption`: `TypeOK`, `LeaseHolds`, `OneConfirmedOwner`, and
`OnlyOwnerTouchesLease` for every step, for any number of orchestrators and any lease. `IInv` says that an active
orchestrator owns the key with the expiry it was confirmed, or its confirmation is at least a lease old. Without `SlowReplies` also
`RefusedByLiveOwnerOnly`, from `RefusalIsFresh`: between a refusal and the look at the time that remains, the lease in the way has not
run out.

`IngestProofs`, from `IngestAssumption`: `AnnouncedIsStored` and `IngestionIsSound`, for any series, universes, jobs, cap and
faults. `IInv` adds what the worker holds between two steps (`WorkerOK`: a call in flight has its series and window, and the bars to be
announced are stored) and `OpenIsRespected`, which strengthens `OpenSurvivesRestart`: while a persisted OPEN state is in force the worker
is down, or holds it unchanged and is not calling, as long as a whole second of the cooldown is left (`QuotientIsPositive`). "Only closed bars" needs, for a synthetic provider, that
there are no jobs; then every window ends at the forming bucket (`LiveOnly`). `NoHoles` needs `OutagesAreShort`; `Gapless` says that
the window of the fetch in flight has every bar missing after a stored one, so the cap cut nothing off (`WindowReaches`), and that
the bars fetched follow the stored ones (`BarsFit`).

`AccountProofs`, from `SessionsAssumption`: `SessionsSafe`, that is `SessionsAreSafe`, for any users, tabs and number of tokens. `IInv` adds that only
issued families are caught (`CaughtWereIssued`), and for one tab (`OneAtATime`) that a family has at most one token that is not
revoked, that caught families have none, and that the token a request has read is still not revoked (`OneUnrevoked`): the last part is what a
second tab breaks.

Also in `AccountProofs`: `SettingsSafe`, from `SettingsAssumption`: `SettingsAreSafe`, its parts about overlapping requests under
`OneAdminPerKind`. `SettingsInv` says that then what a request has read is still what is stored.

`ServicesProofs`:

* `BudgetIsKept`, from `BudgetAssumption`: `BudgetIsExact`, for every budget, set of costs and number of days. The strengthening
  `SpentIsPaid` says that what the breaker remembers is what its day really cost and that later days have cost nothing, which makes
  the rollover lose nothing.
* `AlertsKept`, from `AlertsAssumption` and `EntriesCanBeSaved` (no entry whose INSERT fails: "Known deviations"): `AlertsAreKept`.
  `AlertInv` says that an entry is at one place (to be delivered, pending, acknowledged), that what waits for its acknowledgement is
  in the open transaction or already in the table, and that two staleness alerts of a pair are raised with different stamps.
* `WorkerIsUp`, from `HeartbeatAssumption` and `OneWorkerInTime` (no second process, HSET and EXPIRE within one instant, cycles
  shorter than the time to live): `HealthyIsUp`. `WorkerInv` says that what is left of the key's life and the time since the last touch
  add up to at least the time to live.
* `LimiterExact`, from `LimiterAssumption`: `LimiterIsExact`. `LimiterInv` says that the table is the end of the history and holds
  all of the window, that in the history a call and the one `Limit` places later are a window apart, and that an advice ends less than a
second after the oldest hit leaves the window (`RoundedUp`); `SpacedCallsFit` turns
  that into a bound on the calls of any window.
* `FeedExact`, from `LiveAssumption`: `FeedIsExact`, for any topics, read size and length of the streams. `FeedInv` adds that everything
  sent or about to be sent lies behind the cursor of its topic.

The properties of the run `services` are theorems about `Services`, the specification TLC runs, with every component's constants
left open: `ServicesBudget`, `ServicesKeepAlerts`, `ServicesReportUp`, `ServicesFeed`, `ServicesLimit`, `ServicesSessions`,
`ServicesSettings`, `ServicesSummary`. They rest on `OtherPartsWait`: a step of one part leaves the variables of the others alone, so
every behaviour of the whole is one of each component; the component's theorem does the rest.

`PipelineProofs` does the same for `Pipeline` (`PipelineIngestion` from `IngestProofs`) and proves the stages that have no proof
module of their own:

* `AgentsAnnounceStored` and, with the ingest worker, `PipelineAnnouncements`: `AnnouncedIsStored`. `AgentsInv` says that what the
  stream and the worker hold was announced and is stored (`InFlight`), and that the worker was shown the bar it is about to save
  and has saved the one it publishes (`InHand`). `WindowHasBar` needs `HistoryFits`, that the history is no longer than the lookback:
  a bar that a long backlog has pushed out of the window is analysed without itself.
* `PipelineContent`: `NothingSlipsThrough`, from `PollTimes`: the first successful poll of a source was before its last one, and neither
  lies in the future.
* `PipelineDecisions`: `DecidedOnce`, and `PipelinePaper`: `PaperIsEarned`, both from `DecisionEngineProofs` (below). `SpacingIsProved`,
  `LedgerIsProved` and `VerdictIsProved` say that its operators are those of the parts of `Pipeline`. `InputsInv` says that the inputs of a
  verdict stay well-formed, from `InputsAssumption`.
* `PipelineSimulation`: `SimulationIsSound`. `BrokerInv` follows the simulated broker: the types of a run (`RunTypes`), nothing is traded
  before the fine timeframe (`Untraded`) or before a symbol's turn (`Ahead`), and what is held or waits fits the bar at hand. `ReportInv`
  says that until its report a symbol has as many replayed signals as decided bars (`DecidedBars`), or one is missing. The first needs
  `DistinctSymbols`: neither the CLI nor the service removes duplicates from the list of symbols, and a symbol named twice is
  replayed again with its last position open.

`DecisionEngineProofs`, from `EngineAssumption` and the ASSUMEs of `Fusion` and `RiskGate`:

* Sums first. A sum over a set of voters is defined by a fold whose order is a CHOOSE. `FoldsAgree` shows by induction on the subsets of the
  set (`SubsetInduction`) that two such folds agree and `FoldExists` that there is one; so `SumSplit`: a sum splits off any one element.
  `SumMonotone`, `SumScale`, `SumAgree` and `SumPositive` follow.
* The verdict: `MeanOfVotes` (a score lies between the least and the greatest vote), `DirectionMonotone` (raising votes lowers no
  direction), `ContextFacts` (the nudge of the context cannot cross both thresholds: `ContextAssumption`), `BackedByVotes` (the share of
  the weight that votes for a PAPER direction; a direction that only the context created carries the agreement 0), `SizingFacts`
  and `RiskValidated` (the rounded-down size fits the risk and the exposure share).
* The engine: `StepKinds` sorts its actions by what they do to the tables. `DecisionsAreFinal` follows without any assumption.
  `PapersKeepTheCooldown` needs a positive cooldown and `SpacingInv`: signals and decisions are numbered as they were created
  (`SignalsNumbered`, `DecisionsNumbered`), so that the latest PAPER decision a cooldown looks up is the latest there is, and a decision was
  taken while it was valid. `LossesStopPaperDecisions`, with the types, needs `EngineInv`: decisions are about reported bars, what agents
  reported is a vote (`Reported`), and `AccountOk` on the snapshots: the equity of each is positive and at most the peak the latest one
  remembers, and every fall between two of them, or from the start, is less than one percent above the drawdown the latest one
  remembers (`FallIsCovered`: it is enough to cover the fall from the peak; `SnapshotCovers`: a new snapshot does). So the gate, which sees only the latest
  snapshot, knows all falls between snapshots; nothing is claimed of results that no snapshot recorded. `SeenOk` says that a
  decision was taken after a number of these snapshots. `AccountStep` follows
  the bars of the lifecycle, for every result, flip and snapshot interval. The theorem is stated for `Params.risk > 0`: `Settings` demands it (`core/config.py:152`), but an override of exactly 0 is accepted (`data/risk_config.py:25`), and a
  trade that risks nothing fits under a cap that is used up.

Also in `DecisionEngineProofs`, whose lemmas about sums they use:

* `TechnicalAgentIsFair`, from `TechnicalAssumption` (an upper band is not below its lower band, and a missing indicator is told apart from
  a value): `MirrorImage` (but for ties), `ScoreIsAFraction` and `WeakTrendIsDamped`, for every reading. `ScoreForm` writes the score as one linear
  expression in the nine votes, `MirrorVotes` says that a mirrored reading turns each of them round, and `Damped` what the gate of a
  weak trend leaves of a trend follower.
* `ContentAgentsAreFair`, from `ReadersAssumption` (importances and signs are among those of the code, and a decayed weight is positive):
  `PairIsSymmetric`, `ConfidenceIsAFraction` and `OwnPairIsNeutral`, for any currencies, events and stories. A bias is the quotient of
  two sums over the same events (`BiasForm`, `AggregateForm`), hence a fraction, and naming the pair the other way round exchanges the two
  quotients (`BiasSwapped`, `AggregateSwapped`). Neither theorem needs an invariant beyond the types: both are about all inputs.

`PipelineAgents` puts both together: `AgentsAreUnbiased` of `Pipeline`.

`ProgressProofs`, from `StalenessAssumption` (a bar is 1, 2, 3, 4, 6, 8, 12 or 24 hours long, and four bars last longer than
`_MIN_THRESHOLD_SECONDS`; of the timeframes of the code that leaves out those below an hour, which this clock cannot tell, and four M1
bars are shorter than the floor of fifteen minutes, so a lag of three of them is deliberately not flagged): `ProgressSweep`, that is
`SweepIsAccurate`, for any number of outages and a worker that may die. The calendar first: `TwoWeeks` says when the market trades,
`BarsOfTheWeek` at which hours a bar ends, `OpensOnSunday` and `ClosesOnFriday` where `next_open` and `next_close` lead. Then
`ProgressInvariance`: `WeekInv` says that the age of the newest stored bar has the phase of the clock and is at least one bar longer for
each bar that is missing (`Lags`), that with none missing it is less than two bars or no bar has ended since the market closed
(`LastBarIsStored`), and that the published picture is what a sweep now would find (`PictureIsCurrent`). The properties alone
are not inductive: an hour later the age must be compared with the threshold again, and only `Lags` says what it was.

Every invariant and action property the passing runs check is thus stated by a theorem. Only model-checked: `PendingIsResolved`,
`BreachEndsPosition`, `DualActiveEnds` and the temporal properties of `progress`, which say that something eventually happens. They
need fairness and ENABLED, which the prover does not handle.

## Not modelled, and the plan

Not modelled: the indicators and the lexicon (floating-point and text computation without state); the regime agent (labels only, always
FLAT); rounding to digits; the metrics of a backtest report; HTTP schemas, provider payloads, hashing, JWT; the order of names in the market
lists (sets here); a stop multiple of exactly 0, which an override may set;
a PAPER size that rounds to zero units in a backtest; pages of a forbidden origin, which `ws_stream` closes before it looks at their ticket; the trimming of the streams in `LiveStream` (10000 entries, polled ten times a second); the overlap of a page's history
fetch with its live feed; ties of technical votes at equal floating-point values; `build_llm_client`, which has no caller;
`_refresh_exposure`, a mirror no decision reads; logging, metrics, configuration, migrations; the pages of the frontend.

Next: a composition of `OrchestratorLock` and `PaperLedger`, with two writers and the unique indexes as the last line;
`DecisionEngine` over `PaperLedger` itself instead of its rules.
