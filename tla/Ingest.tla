------------------------------- MODULE Ingest -------------------------------
(***************************************************************************)
(* Candle ingestion:                                                       *)
(*                                                                         *)
(*   backend/app/data/ingest.py            IngestService                   *)
(*   backend/app/workers/ingest_worker.py  run_ingest_worker               *)
(*   backend/app/data/repository.py        last_closed_ts, upsert_candles  *)
(*   backend/app/data/timeframes.py        bucket arithmetic               *)
(*   backend/app/data/providers/           fetch_candles                   *)
(*   backend/app/api/v1/admin.py           backfill queue, universe        *)
(*                                                                         *)
(* One worker visits the series of the universe one after the other.  The  *)
(* fetch, the commit, the quote and every published event are awaits: time *)
(* passes, an admin queues a backfill, and the process may die between any *)
(* two of them.  What survives is the candles, the provider_health row,    *)
(* the stream, the quote cache and the backfill queue.                     *)
(***************************************************************************)
EXTENDS CircuitBreaker, Sequences, FiniteSets

CONSTANTS
  Series,         \* <<symbol, step>>: a timeframe is the length of its bars
  Universes,      \* orders in which a cycle may visit series (get_market_config)
  History,        \* ingest_initial_history_days
  MaxBars,        \* ingest_max_bars_per_cycle
  Synthetic,      \* the provider computes its bars (synthetic) or looks them up (oanda)
  ProviderGaps,   \* may the provider leave out a bar
  Jobs,           \* backfills an admin may ask for: [s, start, end]
  DrainLimit,     \* limit of drain_backfill_queue
  MaxTime,        \* bound: the last instant of the market clock
  MaxJobs,        \* bound: backfills queued in all
  MaxFailures,    \* bound: provider failures
  MaxErrors,      \* bound: exceptions that are not provider errors
  MaxCrashes      \* bound: deaths of the worker

IngestAssumption ==
  /\ \A s \in Series : s[2] \in Nat \ {0}
  /\ Universes \subseteq Seq(Series)
  /\ Jobs \subseteq [s : Series, start : Int, end : Int]
  /\ {Threshold, Cooldown, Second, MaxBars, DrainLimit} \subseteq Nat \ {0}
  /\ {History, MaxTime, MaxJobs, MaxFailures, MaxErrors, MaxCrashes} \subseteq Nat
  /\ {Synthetic, ProviderGaps} \subseteq BOOLEAN
  /\ NULL \notin Int \cup Breakers

VARIABLES
  now,       \* the clock
  candles,   \* candles[s]: bucket starts of the stored bars
  health,    \* the provider_health row, or NULL
  stream,    \* bar.closed events published: <<s, bucket>>
  quote,     \* quote[symbol]: bucket of the cached latest price, or NULL
  jobs,      \* the Redis list jobs:backfill, oldest first
  universe,  \* the configured universe
  breaker,   \* the worker's breaker
  pc,        \* where the worker is
  phase,     \* "live" during run_cycle, "backfill" while jobs are drained
  todo,      \* series still to visit: [s, start, end], start NULL for a live fetch
  bars,      \* bars of the current fetch: fetched, then stored, then being published
  streak,    \* history: provider calls failed since the last one that succeeded
  used       \* what the bounds count

memory == <<breaker, phase, todo, bars>>
tables == <<candles, health, stream, quote, jobs, universe>>
vars   == <<now, tables, memory, pc, streak, used>>

Symbols == {s[1] : s \in Series}
Live(s) == [s |-> s, start |-> NULL, end |-> NULL]
Current == Head(todo)

----------------------------------------------------------------------------
(* Buckets and windows. *)

\* align_to_bucket
Align(t, s) == t - (t % s[2])

\* iterate_buckets
Buckets(lo, hi, s) == {t \in Align(lo, s) .. (hi - 1) : t % s[2] = 0}

First(S) == CHOOSE t \in S : \A u \in S : t <= u
Last(S)  == CHOOSE t \in S : \A u \in S : u <= t

\* last_closed_ts
Newest(s) == IF candles[s] = {} THEN NULL ELSE Last(candles[s])

Smaller(x, y) == IF x < y THEN x ELSE y

\* Mutant: continues one bar too late.
FetchWindowSkipping(item) ==
  LET end == IF item.end # NULL THEN item.end ELSE Align(now, item.s)
      from == IF Newest(item.s) = NULL THEN end - History ELSE Newest(item.s) + 2 * item.s[2]
  IN <<IF item.start # NULL THEN item.start ELSE from, end>>

\* _fetch_window: the half-open window of closed buckets.  previous_closed_bucket
\* plus one step is the start of the bucket that is still forming.
FetchWindow(item) ==
  LET s    == item.s
      end  == IF item.end # NULL THEN item.end ELSE Align(now, s)
      from == IF Newest(s) = NULL THEN Smaller(end - History, end - s[2])
              ELSE Newest(s) + s[2]
      span == MaxBars * s[2]
  IN <<IF item.start # NULL THEN item.start
       ELSE IF end - from > span THEN end - span ELSE from, end>>

\* The synthetic provider: computes the bars of any window, closed by its end.
ComputedBars(s, w) == {t \in Buckets(w[1], w[2], s) : t + s[2] <= w[2]}

\* Mutant: the bar that is still forming counts as complete.
LookedUpFormingBars(s, w) == {t \in Buckets(w[1], w[2], s) : t >= w[1] /\ t <= now}

\* The practice API: complete bars of the window, closed by its end.
LookedUpBars(s, w) ==
  {t \in Buckets(w[1], w[2], s) : t >= w[1] /\ t + s[2] <= Smaller(w[2], now)}

\* build_provider, fetch_candles.  The market has no bars before instant 0.
Provided(s, w) ==
  {t \in IF Synthetic THEN ComputedBars(s, w) ELSE LookedUpBars(s, w) : t >= 0}

\* candles[:limit] in _publish_new_bars
Oldest(S, n) == {t \in S : Cardinality({u \in S : u < t}) < n}

----------------------------------------------------------------------------

Init ==
  /\ now = 0
  /\ candles = [s \in Series |-> {}]
  /\ health = NULL
  /\ stream = {}
  /\ quote = [y \in Symbols |-> NULL]
  /\ jobs = <<>>
  /\ universe \in Universes
  /\ breaker = NewBreaker
  /\ pc = "idle"
  /\ phase = "live"
  /\ todo = <<>>
  /\ bars = {}
  /\ streak = 0
  /\ used = [jobs |-> 0, failures |-> 0, errors |-> 0, crashes |-> 0]

\* Time passes; after MaxTime the market is closed and only the cooldown runs on.
Tick ==
  /\ \/ now < MaxTime
     \/ Aged(breaker) # breaker
     \/ health # NULL /\ Aged(health) # health
  /\ now' = Smaller(now + 1, MaxTime)
  /\ breaker' = Aged(breaker)
  /\ health' = IF health = NULL THEN NULL ELSE Aged(health)
  /\ UNCHANGED <<candles, stream, quote, jobs, universe, phase, todo, bars, pc, streak, used>>

\* normalize_symbols, normalize_timeframes: not empty, nothing twice.
Normalized(u) == u # <<>> /\ \A i, j \in DOMAIN u : u[i] = u[j] => i = j

\* PUT /admin/market-config: set_market_config
SetUniverse ==
  /\ universe' \in {u \in Universes \ {universe} : Normalized(u)}
  /\ UNCHANGED <<now, candles, health, stream, quote, jobs, memory, pc, streak, used>>

\* POST /admin/backfill: trigger_backfill
RequestBackfill ==
  /\ used.jobs < MaxJobs
  /\ \E j \in Jobs : j.end > j.start /\ jobs' = Append(jobs, j)
  /\ used' = [used EXCEPT !.jobs = @ + 1]
  /\ UNCHANGED <<now, candles, health, stream, quote, universe, memory, pc, streak>>

----------------------------------------------------------------------------
(* One series: _ingest_series. *)

\* The series is done, whatever came of it.
Finish ==
  /\ pc' = "series"
  /\ todo' = Tail(todo)
  /\ bars' = {}
  /\ UNCHANGED phase

\* before_call refuses: the series is skipped, a backfill job's series too.
SkipSeries ==
  /\ pc = "series" /\ todo # <<>>
  /\ Refuses(breaker)
  /\ Finish
  /\ UNCHANGED <<now, tables, breaker, streak, used>>

\* The window is empty: record_success, although the provider was not called.
UpToDate ==
  /\ pc = "series" /\ todo # <<>>
  /\ ~ Refuses(breaker)
  /\ LET w == FetchWindow(Current) IN w[1] >= w[2]
  /\ breaker' = RecordSuccess(Admit(breaker))
  /\ Finish
  /\ UNCHANGED <<now, tables, streak, used>>

\* The call to the provider begins; the window stays as computed now.
BeginFetch ==
  /\ pc = "series" /\ todo # <<>>
  /\ ~ Refuses(breaker)
  /\ LET w == FetchWindow(Current)
     IN /\ w[1] < w[2]
        /\ todo' = [todo EXCEPT ![1] = [s |-> @.s, start |-> w[1], end |-> w[2]]]
  /\ breaker' = Admit(breaker)
  /\ pc' = "fetching"
  /\ UNCHANGED <<now, tables, phase, bars, streak, used>>

FetchSucceeds ==
  /\ pc = "fetching"
  /\ LET all == Provided(Current.s, <<Current.start, Current.end>>)
     IN bars' \in IF ProviderGaps THEN SUBSET all ELSE {all}
  /\ pc' = "storing"
  /\ streak' = 0
  /\ UNCHANGED <<now, tables, breaker, phase, todo, used>>

\* ProviderTransientError or ProviderError.
FetchFails ==
  /\ pc = "fetching" /\ used.failures < MaxFailures
  /\ breaker' = RecordFailure(breaker)
  /\ streak' = Smaller(streak + 1, Threshold)
  /\ used' = [used EXCEPT !.failures = @ + 1]
  /\ pc' = "persisting"
  /\ UNCHANGED <<now, tables, phase, todo, bars>>

\* persist_breaker_snapshot after a failure.
PersistFailure ==
  /\ pc = "persisting"
  /\ health' = breaker
  /\ Finish
  /\ UNCHANGED <<now, candles, stream, quote, jobs, universe, breaker, streak, used>>

\* Any other exception before the commit, of the database or of the parser: logged, and
\* the breaker is left as it is.  (The gate has already admitted the call.)
SeriesError ==
  /\ \/ pc \in {"fetching", "storing"} /\ UNCHANGED breaker
     \/ pc = "series" /\ todo # <<>> /\ ~ Refuses(breaker) /\ breaker' = Admit(breaker)
  /\ used.errors < MaxErrors
  /\ used' = [used EXCEPT !.errors = @ + 1]
  /\ Finish
  /\ UNCHANGED <<now, tables, streak>>

\* Mutant: the bars are announced before, and whether or not, they are committed.
StoreAfterPublish ==
  /\ pc = "storing"
  /\ bars # {} /\ pc' = "quoting" /\ UNCHANGED memory
  /\ UNCHANGED <<now, tables, streak, used>>

\* upsert_candles and the commit; with nothing to announce the series ends here.
Store ==
  /\ pc = "storing"
  /\ candles' = [candles EXCEPT ![Current.s] = @ \cup bars]
  /\ IF bars = {} THEN breaker' = RecordSuccess(breaker) /\ Finish
     ELSE pc' = "quoting" /\ UNCHANGED memory
  /\ UNCHANGED <<now, health, stream, quote, jobs, universe, streak, used>>

\* _cache_quote: the newest bar of this fetch; a Redis failure is swallowed.
CacheQuote ==
  /\ pc = "quoting"
  /\ \/ quote' = [quote EXCEPT ![Current.s[1]] = Last(bars)]
     \/ UNCHANGED quote
  /\ bars' = Oldest(bars, MaxBars)
  /\ pc' = "publishing"
  /\ UNCHANGED <<now, candles, health, stream, jobs, universe, breaker, phase, todo, streak, used>>

\* _publish_new_bars, one event: oldest first, those CacheQuote left.
PublishBar ==
  /\ pc = "publishing" /\ bars # {}
  /\ stream' = stream \cup {<<Current.s, First(bars)>>}
  /\ bars' = bars \ {First(bars)}
  /\ UNCHANGED <<now, candles, health, quote, jobs, universe, breaker, phase, todo, pc, streak, used>>

\* The stream is exhausted, over the limit or unavailable (break): the series ends well.
EndPublish ==
  /\ pc = "publishing"
  /\ breaker' = RecordSuccess(breaker)
  /\ Finish
  /\ UNCHANGED <<now, tables, streak, used>>

----------------------------------------------------------------------------
(* The worker loop: run_ingest_worker. *)

StartCycle ==
  /\ pc = "idle"
  /\ todo' = [i \in 1 .. Len(universe) |-> Live(universe[i])]
  /\ phase' = "live"
  /\ pc' = "series"
  /\ UNCHANGED <<now, tables, breaker, bars, streak, used>>

\* Mutant: all jobs are taken from the queue, those beyond the limit are forgotten.
EndCycleDropping ==
  /\ pc = "series" /\ phase = "live" /\ todo = <<>>
  /\ health' = breaker
  /\ todo' = SubSeq(jobs, 1, Smaller(DrainLimit, Len(jobs)))
  /\ jobs' = <<>>
  /\ phase' = "backfill"
  /\ UNCHANGED <<now, candles, stream, quote, universe, breaker, bars, pc, streak, used>>

\* persist_breaker_snapshot at the end of a cycle, then drain_backfill_queue: the oldest
\* jobs leave Redis before they are run.
EndCycle ==
  /\ pc = "series" /\ phase = "live" /\ todo = <<>>
  /\ health' = breaker
  /\ LET n == Smaller(DrainLimit, Len(jobs))
     IN todo' = SubSeq(jobs, 1, n) /\ jobs' = SubSeq(jobs, n + 1, Len(jobs))
  /\ phase' = "backfill"
  /\ UNCHANGED <<now, candles, stream, quote, universe, breaker, bars, pc, streak, used>>

EndBackfill ==
  /\ pc = "series" /\ phase = "backfill" /\ todo = <<>>
  /\ pc' = "idle"
  /\ UNCHANGED <<now, tables, memory, streak, used>>

Crash ==
  /\ pc # "down" /\ used.crashes < MaxCrashes
  /\ used' = [used EXCEPT !.crashes = @ + 1]
  /\ pc' = "down"
  /\ breaker' = NewBreaker
  /\ phase' = "live" /\ todo' = <<>> /\ bars' = {}
  /\ UNCHANGED <<now, tables, streak>>

\* load_breaker_snapshot
Restart ==
  /\ pc = "down"
  /\ breaker' = IF health = NULL THEN NewBreaker ELSE Load(health)
  /\ pc' = "idle"
  /\ UNCHANGED <<now, tables, phase, todo, bars, streak, used>>

IngestSeries ==
  \/ SkipSeries \/ UpToDate \/ BeginFetch \/ FetchSucceeds \/ PersistFailure
  \/ Store \/ CacheQuote \/ PublishBar \/ EndPublish

Work == IngestSeries \/ StartCycle \/ EndCycle \/ EndBackfill \/ Restart

Next ==
  \/ Tick \/ SetUniverse \/ RequestBackfill
  \/ Work \/ FetchFails \/ SeriesError \/ Crash

Spec == Init /\ [][Next]_vars

\* The worker's loop goes on and time passes; nothing forces failures, errors, crashes,
\* configuration or jobs.
FairSpec == Spec /\ WF_vars(Work) /\ WF_vars(Tick)

----------------------------------------------------------------------------
(* Properties. *)

Phases == {"down", "idle", "series", "fetching", "persisting", "storing", "quoting", "publishing"}
Bounds == [jobs : 0 .. MaxJobs, failures : 0 .. MaxFailures, errors : 0 .. MaxErrors,
           crashes : 0 .. MaxCrashes]
Items  == [s : Series, start : Int \cup {NULL}, end : Int \cup {NULL}]

\* Types of the tables and of the worker's memory.
TypeOK ==
  /\ now \in 0 .. MaxTime
  /\ candles \in [Series -> SUBSET Nat]
  /\ health \in Breakers \cup {NULL}
  /\ stream \subseteq Series \X Nat
  /\ quote \in [Symbols -> Nat \cup {NULL}]
  /\ jobs \in Seq(Jobs)
  /\ universe \in Universes
  /\ breaker \in Breakers
  /\ pc \in Phases /\ phase \in {"live", "backfill"}
  /\ todo \in Seq(Items)
  /\ bars \subseteq Nat
  /\ streak \in 0 .. Threshold
  /\ used \in Bounds

\* A breaker, in memory or persisted, is closed only below the threshold and open only
\* with the instant it opened (before_call lets every call through otherwise).
BreakerConsistent ==
  \A br \in {breaker} \cup ({health} \ {NULL}) :
    /\ br.state = "closed" => br.failures < Threshold
    /\ br.state # "closed" => br.age # NULL

\* A persisted OPEN state is respected until the last second of its cooldown: no provider
\* call is in flight meanwhile, whatever number of restarts came in between.
OpenSurvivesRestart ==
  health # NULL /\ health.state = "open" /\ health.age + Second <= Ticks => pc # "fetching"

\* bar.closed announces committed bars only, although the worker may die between the two.
AnnouncedIsStored == \A e \in stream : e[2] \in candles[e[1]]

\* Only live ingestion, from a provider with no gaps, and never more bars behind than
\* one cycle may fetch.
OutagesAreShort ==
  /\ Jobs = {} /\ ~ ProviderGaps
  /\ \A s \in Series : MaxTime <= MaxBars * s[2]

\* Live ingestion continues from the last stored bar: over failures, restarts and outages
\* no bar between the first and the last stored one is missing.
NoHoles ==
  \A s \in Series : \A a, b \in candles[s] : Buckets(a, b, s) \subseteq candles[s]

\* Only closed bars are stored (providers/base.py: "forming bars are never produced").
OnlyClosedBars == \A s \in Series : \A t \in candles[s] : t + s[2] <= now

\* What holds of every worker, and what holds unless the provider invents bars on demand,
\* leaves some out, or is away for longer than a cycle's cap lets it catch up.
IngestionIsSound ==
  /\ TypeOK
  /\ BreakerConsistent /\ OpenSurvivesRestart
  /\ ~ Synthetic \/ Jobs = {} => OnlyClosedBars
  /\ OutagesAreShort => NoHoles

\* "a single probe call decides" (breaker.py): HALF_OPEN does not last.
ProbeDecides == []<>(breaker.state # "half_open")

\* The backlog newer than the first stored bar is drained by later cycles.
BacklogIsDrained ==
  <>[](\A s \in Series : \A t \in Buckets(0, MaxTime, s) :
         candles[s] # {} /\ First(candles[s]) < t /\ t + s[2] <= now => t \in candles[s])

\* An accepted backfill is carried out: the closed bars it asked for are stored.
BackfillIsApplied ==
  \A j \in Jobs : (\E i \in DOMAIN jobs : jobs[i] = j) ~>
    \A t \in Buckets(j.start, j.end, j.s) : t + j.s[2] <= Smaller(now, j.end) => t \in candles[j.s]

\* Not guaranteed by the code (README, "Known deviations").
\* "all calls are refused until the cooldown elapses" (breaker.py).
RefusedUntilCooldown ==
  health # NULL /\ health.state = "open" /\ health.age < Ticks => pc # "fetching"

\* Not guaranteed by the code (README, "Known deviations").
\* "OPEN: entered after failure_threshold consecutive failures" of provider calls.
FailuresOpenBreaker ==
  streak >= Threshold /\ pc # "down" => breaker.state # "closed"

\* Not guaranteed by the code (README, "Known deviations").
\* The cached latest price of a symbol is never replaced by that of an older bar.
QuoteNeverGoesBack ==
  [][\A y \in Symbols : quote[y] # NULL => quote'[y] # NULL /\ quote'[y] >= quote[y]]_quote
=============================================================================
