----------------------------- MODULE Staleness -----------------------------
(***************************************************************************)
(* The market week and the staleness of a candle series:                   *)
(*                                                                         *)
(*   backend/app/data/market_hours.py      is_market_open, next_open, ...  *)
(*   backend/app/monitor/staleness.py      StalenessMonitor.check          *)
(*   backend/app/workers/ingest_worker.py  _publish_staleness_latest       *)
(*   backend/app/api/v1/system.py          _refresh_runtime_gauges         *)
(*                                                                         *)
(* Time is the hour of the week, Monday 00:00 being 0.  One series of a    *)
(* provider that has bars only while the market trades, one worker that    *)
(* ingests and sweeps every hour, and a scraper.                           *)
(***************************************************************************)
EXTENDS Integers

CONSTANTS
  Step,          \* length of a bar, in hours
  MinThreshold,  \* _MIN_THRESHOLD_SECONDS, in hours
  WorkerDies,    \* may the ingest worker die for good
  Outages        \* bound: provider outages

VARIABLES
  t,         \* the hour of the week
  age,       \* hours since the newest stored bar began, NoBar for none
  missing,   \* history: bars that closed after it and are not stored
  provider,  \* does the provider answer
  worker,    \* does the worker run
  picture,   \* Redis: was the series in breach at the last sweep
  gauge,     \* STALENESS_BREACH_COUNT
  outages    \* outages so far

vars == <<t, age, missing, provider, worker, picture, gauge, outages>>

Day  == 24
Week == 7 * Day
NoBar == -1
SundayOpen == 6 * Day + 22

\* Timeframe: bars of an hour or more fill a day, and four of them last longer
\* than the fifteen minutes of _MIN_THRESHOLD_SECONDS.
StalenessAssumption ==
  /\ Step \in 1 .. Day /\ Day % Step = 0
  /\ MinThreshold \in Nat /\ MinThreshold < 4 * Step

----------------------------------------------------------------------------
(* The calendar. *)

Weekday(h) == (h % Week) \div Day
Hour(h)    == h % Day

\* is_market_open: from Sunday 22:00 to Friday 22:00.
IsMarketOpen(h) ==
  CASE Weekday(h) = 6 -> Hour(h) >= 22
    [] Weekday(h) = 4 -> Hour(h) < 22
    [] OTHER -> Weekday(h) # 5

\* Mutant: a boundary later on the same day is put off by a week.
NextBoundarySkippingToday(weekday, hour, after) ==
  LET candidate == after - Hour(after) + hour
      ahead == (weekday - Weekday(after)) % 7
      days == IF ahead = 0 THEN 7 ELSE ahead
  IN candidate + days * Day

\* _next_boundary: the next time that weekday and hour come, strictly after.
NextBoundary(weekday, hour, after) ==
  LET candidate == after - Hour(after) + hour
      ahead == (weekday - Weekday(after)) % 7
      days == IF ahead = 0 /\ candidate <= after THEN 7 ELSE ahead
  IN candidate + days * Day

\* Mutant: the boundary of the current instant is missed.
NextOpenStrict(h) ==
  IF IsMarketOpen(h) THEN h ELSE NextBoundary(6, 22, h + 1)

\* next_open: the code asks for the boundary after one second before h, which
\* on the hours of this clock is h itself or one after it.
NextOpen(h) ==
  IF IsMarketOpen(h) THEN h
  ELSE LET sunday == NextBoundary(6, 22, h - 1)
           monday == NextBoundary(0, 0, h - 1)
       IN IF sunday < monday THEN sunday ELSE monday

\* next_close
NextClose(h) == NextBoundary(4, 22, IF IsMarketOpen(h) THEN h ELSE NextOpen(h))

----------------------------------------------------------------------------
(* Bars and breaches. *)

\* Does a bar end at h: the end of a bucket in which the market traded.
BarEnds(h) == h % Step = 0 /\ \E u \in (h - Step) .. (h - 1) : IsMarketOpen(u + Week)

\* Mutant: a lag of six bars is tolerated.
StalenessThresholdLax == 6 * Step

\* staleness_threshold_seconds
StalenessThreshold == IF 3 * Step > MinThreshold THEN 3 * Step ELSE MinThreshold

\* Mutant: the calendar is not asked.
BreachedAnyTime(h, a) == a = NoBar \/ a > StalenessThreshold

\* Mutant: a series without bars has no age and is not in breach.
BreachedByAge(h, a) == IsMarketOpen(h) /\ a > StalenessThreshold

\* StalenessFinding.breached
Breached(h, a) == IsMarketOpen(h) /\ (a = NoBar \/ a > StalenessThreshold)

----------------------------------------------------------------------------

Init ==
  /\ t = 0
  /\ age = NoBar /\ missing = 0
  /\ provider = TRUE /\ worker = TRUE
  /\ picture = FALSE /\ gauge = 0
  /\ outages = 0

Older(a)  == IF a = NoBar \/ a = Week THEN a ELSE a + 1
Ingests == provider /\ worker

\* Mutant: the picture is written only when something is in breach.
PublishStalenessLatestOnBreach(breached) == picture' = (breached \/ picture)

\* _publish_staleness_latest: written at every sweep; it does not expire.
PublishStalenessLatest(breached) == picture' = breached

\* What GET /metrics shows.
Shown == IF picture THEN 1 ELSE 0

\* An hour passes, with a scrape in it (prometheus.yml: every 15 seconds).  A
\* worker that runs stores the bar that ended, if the provider has it, then
\* sweeps and publishes what it found.
Pass ==
  LET h == (t + 1) % Week
      stored == BarEnds(h) /\ Ingests
  IN /\ gauge = Shown
     /\ t' = h
     /\ age' = IF stored THEN Step ELSE Older(age)
     /\ missing' = IF stored THEN 0
                   ELSE IF BarEnds(h) /\ missing < 5 THEN missing + 1 ELSE missing
     /\ IF worker THEN PublishStalenessLatest(Breached(h, age')) ELSE UNCHANGED picture
     /\ UNCHANGED <<provider, worker, gauge, outages>>

ProviderFails ==
  /\ provider /\ outages < Outages
  /\ provider' = FALSE
  /\ outages' = outages + 1
  /\ UNCHANGED <<t, age, missing, worker, picture, gauge>>

ProviderReturns ==
  /\ ~ provider
  /\ provider' = TRUE
  /\ UNCHANGED <<t, age, missing, worker, picture, gauge, outages>>

Die ==
  /\ WorkerDies /\ worker
  /\ worker' = FALSE
  /\ UNCHANGED <<t, age, missing, provider, picture, gauge, outages>>

\* GET /metrics
Scrape ==
  /\ gauge' = Shown
  /\ UNCHANGED <<t, age, missing, provider, worker, picture, outages>>

Next == Pass \/ ProviderFails \/ ProviderReturns \/ Die \/ Scrape

\* Time passes, and Prometheus scrapes.
Spec == Init /\ [][Next]_vars /\ WF_vars(Pass) /\ WF_vars(Scrape)

----------------------------------------------------------------------------
(* Properties. *)

\* next_open is the first instant, now or later, at which is_market_open holds.
NextOpenIsFirst ==
  /\ NextOpen(t) >= t /\ IsMarketOpen(NextOpen(t))
  /\ \A u \in t .. (NextOpen(t) - 1) : ~ IsMarketOpen(u)

\* next_close is the first instant strictly after now at which the market goes
\* from open to closed.
NextCloseIsFirst ==
  /\ NextClose(t) > t /\ ~ IsMarketOpen(NextClose(t)) /\ IsMarketOpen(NextClose(t) - 1)
  /\ \A u \in (t + 1) .. (NextClose(t) - 1) : ~ (IsMarketOpen(u - 1) /\ ~ IsMarketOpen(u))

\* A sweep never misses a series that lags three bars while the market trades.
StallIsFlagged ==
  worker /\ IsMarketOpen(t) /\ missing >= 3 => picture

\* A series that has every bar so far is not in breach, but for the time
\* between the opening and the first bar after it.
FreshIsQuiet ==
  picture /\ worker /\ missing = 0 /\ age # NoBar
    => t >= SundayOpen /\ \A u \in SundayOpen + 1 .. t : ~ BarEnds(u)

\* Not guaranteed by the code (README, "Known deviations").
\* A series that has every bar so far is never in breach
\* (staleness_threshold_seconds: "Alert once a series lags more than 3 bars
\* behind real time").
BreachMeansLag == picture /\ worker /\ age # NoBar => missing > 0

\* A series that gets no more bars shows on the gauge of /metrics every week.
StallShows == (<>[] ~ Ingests) => []<>(gauge = 1)

\* A series that is fed again leaves the gauge.
RecoveryShows == (<>[] Ingests) => []<>(gauge = 0)

=============================================================================
