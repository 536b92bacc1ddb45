---------------------------- MODULE IngestProofs ----------------------------
(***************************************************************************)
(* Safety of candle ingestion for every set of series and universes, every *)
(* backfill an admin may ask for, and any number of failures and restarts. *)
(***************************************************************************)
EXTENDS Ingest, WellFoundedInduction, TLAPS

----------------------------------------------------------------------------
(* Numbers and sets of stamps.                                             *)

\* A set of naturals has a least element.
LEMMA LeastExists ==
  ASSUME NEW S \in SUBSET Nat, S # {}
  PROVE  \E x \in S : \A y \in S : x <= y
<1>1. PICK x \in S : \A y \in S : ~ (<<y, x>> \in OpToRel(<,Nat))
  BY WFMin, NatLessThanWellFounded
<1>2. \A y \in S : ~ (y < x)
  BY <1>1 DEF OpToRel
<1> QED BY <1>2

\* A bounded one has a greatest.
LEMMA GreatestExists ==
  ASSUME NEW S \in SUBSET Nat, S # {}, NEW n \in Nat, \A t \in S : t <= n
  PROVE  \E x \in S : \A y \in S : y <= x
<1> DEFINE T == {n - t : t \in S}
<1>0. \A t \in S : n - t \in Nat
  OBVIOUS
<1>1. T \in SUBSET Nat /\ T # {}
  BY <1>0
<1>2. PICK y \in T : \A z \in T : y <= z
  BY <1>1, LeastExists
<1>3. PICK x \in S : y = n - x
  BY <1>2
<1>4. ASSUME NEW z \in S PROVE z <= x
  <2>1. n - x <= n - z
    BY <1>2, <1>3
  <2> QED BY <2>1
<1> QED BY <1>4

Bounded(S) == S \in SUBSET Nat /\ \E n \in Nat : \A t \in S : t <= n

\* The oldest and the newest bar of a set are bars of it.
LEMMA EndsOfBars ==
  ASSUME NEW S, Bounded(S), S # {}
  PROVE  /\ First(S) \in S /\ \A t \in S : First(S) <= t
         /\ Last(S) \in S /\ \A t \in S : t <= Last(S)
<1>1. \E x \in S : \A y \in S : x <= y
  BY LeastExists DEF Bounded
<1>2. \E x \in S : \A y \in S : y <= x
  BY GreatestExists DEF Bounded
<1> QED BY <1>1, <1>2 DEF First, Last

\* Two sets with an upper bound have one together.
LEMMA BoundedUnion ==
  ASSUME NEW S, NEW T, Bounded(S), Bounded(T) PROVE Bounded(S \cup T)
<1>1. PICK m \in Nat : \A t \in S : t <= m
  BY DEF Bounded
<1>2. PICK n \in Nat : \A t \in T : t <= n
  BY DEF Bounded
<1>3. \A t \in S \cup T : t \in Nat /\ t <= m + n
  BY <1>1, <1>2 DEF Bounded
<1> QED BY <1>3 DEF Bounded

\* A subset of a set with an upper bound has one.
LEMMA BoundedSubset ==
  ASSUME NEW S, NEW T \in SUBSET S, Bounded(S) PROVE Bounded(T)
BY DEF Bounded

\* Bars of a timeframe are a whole step apart.
LEMMA NextMultiple ==
  ASSUME NEW n \in Nat \ {0}, NEW a \in Nat, NEW t \in Nat, a % n = 0, t % n = 0, a < t
  PROVE  a + n <= t
<1>1. PICK p \in Nat : a = n * p
  OBVIOUS
<1>2. PICK q \in Nat : t = n * q
  OBVIOUS
<1>3. p + 1 <= q
  BY <1>1, <1>2
<1> QED BY <1>1, <1>2, <1>3

\* align_to_bucket goes back by less than a step.
LEMMA AlignFacts ==
  ASSUME IngestAssumption, NEW s \in Series, NEW t \in Int
  PROVE  /\ Align(t, s) \in Int /\ Align(t, s) <= t /\ t - s[2] < Align(t, s)
         /\ s[2] \in Nat \ {0}
<1>1. s[2] \in Nat \ {0}
  BY DEF IngestAssumption
<1>2. t % s[2] \in 0 .. s[2] - 1
  BY <1>1
<1> QED BY <1>1, <1>2 DEF Align

----------------------------------------------------------------------------
(* The worker's list of series.                                            *)

\* The item in hand is the head of the list of work, and the rest is a list.
LEMMA TodoFacts ==
  ASSUME todo \in Seq(Items), todo # <<>>
  PROVE  /\ Current \in Items /\ Current = todo[1] /\ 1 \in DOMAIN todo
         /\ Tail(todo) \in Seq(Items)
         /\ Current.s \in Series
         /\ \A i \in DOMAIN Tail(todo) : i + 1 \in DOMAIN todo /\ i \in Nat
                                         /\ i > 0 /\ Tail(todo)[i] = todo[i + 1]
<1>1. Current \in Items /\ Current = todo[1] /\ Tail(todo) \in Seq(Items) /\ 1 \in DOMAIN todo
  BY DEF Current
<1>2. \A i \in DOMAIN Tail(todo) : i + 1 \in DOMAIN todo /\ i \in Nat
                                         /\ i > 0 /\ Tail(todo)[i] = todo[i + 1]
  OBVIOUS
<1> QED BY <1>1, <1>2 DEF Items

InFlight == pc \in {"fetching", "persisting", "storing", "quoting", "publishing"}

\* A call in flight has its series and its window; what the worker holds is
\* bounded, and stored once it is announced.
WorkerOK ==
  /\ InFlight => todo # <<>> /\ Current.start \in Int /\ Current.end \in Int
  /\ pc = "quoting" => bars # {}
  /\ Bounded(bars)
  /\ \A s \in Series : Bounded(candles[s])
  /\ pc \in {"quoting", "publishing"} => bars \subseteq candles[Current.s]

\* But for the last second of its cooldown, while a persisted OPEN row is in force the
\* worker is down, or has that very breaker and calls nobody.
OpenIsRespected ==
  health # NULL /\ health.state = "open" /\ health.age + Second <= Ticks =>
    pc = "down" \/ (pc \in {"idle", "series"} /\ breaker = health)

IInv ==
  /\ TypeOK
  /\ WorkerOK
  /\ BreakerConsistent
  /\ OpenIsRespected
  /\ AnnouncedIsStored

----------------------------------------------------------------------------
(* The breaker.                                                            *)

Consistent(br) ==
  /\ br.state = "closed" => br.failures < Threshold
  /\ br.state # "closed" => br.age # NULL

\* A cooldown is a number of ticks.
LEMMA TicksIsNat == ASSUME IngestAssumption PROVE Ticks \in Nat /\ Second \in Nat \ {0}
<1>1. Cooldown \in Nat /\ Second \in Nat \ {0}
  BY DEF IngestAssumption
<1>2. Cooldown * Second \in Nat
  BY <1>1
<1> QED BY <1>1, <1>2 DEF Ticks

\* Something divided by no more than itself is at least one.
LEMMA QuotientIsPositive ==
  ASSUME NEW m \in Int, NEW d \in Nat \ {0}, d <= m PROVE m \div d > 0
OBVIOUS

\* An OPEN breaker refuses while at least a second of its cooldown is left
\* (seconds_until_probe cuts off what is less).
LEMMA OpenRefuses ==
  ASSUME IngestAssumption, NEW br \in Breakers, Consistent(br), br.state = "open",
         br.age + Second <= Ticks
  PROVE  Refuses(br)
<1>1. br.age # NULL /\ br.age \in 0 .. Ticks /\ Ticks \in Nat /\ Second \in Nat \ {0}
  BY TicksIsNat DEF Consistent, Breakers
<1>2. Ticks - br.age \in Int /\ Second <= Ticks - br.age
  BY <1>1
<1>3. SecondsUntilProbe(br) > 0
  BY <1>1, <1>2, QuotientIsPositive DEF SecondsUntilProbe
<1> QED BY <1>1, <1>3 DEF Refuses

\* A breaker that was just made is consistent.
LEMMA NewBreakerFacts ==
  ASSUME IngestAssumption PROVE NewBreaker \in Breakers /\ Consistent(NewBreaker)
BY DEF IngestAssumption, NewBreaker, Breakers, BreakerStates, Consistent

\* Letting a probe through keeps a breaker consistent (before_call).
LEMMA AdmitFacts ==
  ASSUME IngestAssumption, NEW br \in Breakers, Consistent(br)
  PROVE  Admit(br) \in Breakers /\ Consistent(Admit(br))
BY DEF Admit, Breakers, BreakerStates, Consistent

\* Counting a failure keeps a breaker consistent: it opens at its threshold.
LEMMA RecordFailureFacts ==
  ASSUME IngestAssumption, NEW br \in Breakers, Consistent(br)
  PROVE  RecordFailure(br) \in Breakers /\ Consistent(RecordFailure(br))
<1> DEFINE n == IF br.failures < Threshold THEN br.failures + 1 ELSE Threshold
<1>1. n \in 0 .. Threshold /\ Threshold \in Nat /\ 0 \in 0 .. Ticks
  BY TicksIsNat DEF IngestAssumption, Breakers
<1> HIDE DEF n
<1>2. CASE br.state = "half_open" \/ n >= Threshold
  <2>1. RecordFailure(br) = [state |-> "open", failures |-> n, age |-> 0]
    BY <1>2 DEF RecordFailure, n
  <2>2. 0 # NULL
    BY DEF IngestAssumption
  <2> QED BY <1>1, <2>1, <2>2 DEF Breakers, BreakerStates, Consistent
<1>3. CASE ~ (br.state = "half_open" \/ n >= Threshold)
  <2>1. RecordFailure(br) = [br EXCEPT !.failures = n]
    BY <1>3 DEF RecordFailure, n
  <2> QED BY <1>1, <1>3, <2>1 DEF Breakers, Consistent
<1> QED BY <1>2, <1>3

\* Time passing keeps a breaker consistent and leaves its state alone.
LEMMA AgedFacts ==
  ASSUME IngestAssumption, NEW br \in Breakers, Consistent(br)
  PROVE  /\ Aged(br) \in Breakers /\ Consistent(Aged(br))
         /\ Aged(br).state = br.state
         /\ Aged(br).state = "open" /\ Aged(br).age + Second <= Ticks
              => br.age + Second <= Ticks
<1> DEFINE a == IF br.age = NULL \/ br.age = Ticks THEN br.age ELSE br.age + 1
<1>1. Ticks \in Nat /\ Second \in Nat /\ NULL \notin Int
  BY TicksIsNat DEF IngestAssumption
<1>2. Aged(br) = [br EXCEPT !.age = a]
  BY DEF Aged, Breakers
<1>3. /\ a \in 0 .. Ticks \cup {NULL} /\ (a = NULL <=> br.age = NULL)
      /\ a # NULL /\ a + Second <= Ticks => br.age + Second <= Ticks
  BY <1>1 DEF Breakers
<1> HIDE DEF a
<1> QED BY <1>2, <1>3 DEF Breakers, Consistent

\* BreakerConsistent is consistency of the breaker in memory and of the persisted one.
LEMMA ConsistencyOfBoth ==
  ASSUME TypeOK
  PROVE  BreakerConsistent <=> Consistent(breaker) /\ (health # NULL => Consistent(health))
BY DEF BreakerConsistent, Consistent

----------------------------------------------------------------------------
(* Windows and bars.                                                       *)

\* A fetch window is a pair of instants.
LEMMA WindowFacts ==
  ASSUME IngestAssumption, TypeOK, WorkerOK, NEW item \in Items
  PROVE  FetchWindow(item)[1] \in Int /\ FetchWindow(item)[2] \in Int
<1> DEFINE z == item.s
           end == IF item.end # NULL THEN item.end ELSE Align(now, z)
           from == IF Newest(z) = NULL THEN Smaller(end - History, end - z[2])
                   ELSE Newest(z) + z[2]
           span == MaxBars * z[2]
<1>1. z \in Series /\ z[2] \in Nat /\ now \in Int
  BY DEF IngestAssumption, TypeOK, Items
<1>2. end \in Int
  BY <1>1, AlignFacts DEF Items
<1>3. span \in Int
  BY <1>1 DEF IngestAssumption
<1>4. Newest(z) # NULL => Newest(z) \in Int
  <2>1. CASE candles[z] = {}
    BY <2>1 DEF Newest
  <2>2. CASE candles[z] # {}
    <3>1. Last(candles[z]) \in candles[z]
      BY <1>1, <2>2, EndsOfBars DEF WorkerOK
    <3> QED BY <1>1, <2>2, <3>1 DEF Newest, TypeOK
  <2> QED BY <2>1, <2>2
<1>5. from \in Int
  <2>1. History \in Int
    BY DEF IngestAssumption
  <2>2. Smaller(end - History, end - z[2]) \in Int
    BY <1>1, <1>2, <2>1 DEF Smaller
  <2> QED BY <1>1, <1>4, <2>2
<1>6. FetchWindow(item) = <<IF item.start # NULL THEN item.start
                           ELSE IF end - from > span THEN end - span ELSE from, end>>
  BY DEF FetchWindow
<1> HIDE DEF end, from, span
<1> QED BY <1>2, <1>3, <1>5, <1>6 DEF Items

\* What a provider returns is bounded, and in its window.
LEMMA ProvidedFacts ==
  ASSUME IngestAssumption, TypeOK, NEW z \in Series, NEW a \in Int, NEW b \in Int,
         NEW S \in SUBSET Provided(z, <<a, b>>)
  PROVE  /\ Bounded(S)
         /\ \A t \in S : /\ t \in Nat /\ t % z[2] = 0
                         /\ Align(a, z) <= t /\ t + z[2] <= b
                         /\ ~ Synthetic => a <= t /\ t + z[2] <= now
<1>1. z[2] \in Nat \ {0} /\ now \in Int /\ Align(a, z) \in Int
  BY AlignFacts DEF IngestAssumption, TypeOK
<1>2. ASSUME NEW t \in S
      PROVE  /\ t \in Nat /\ t % z[2] = 0
             /\ Align(a, z) <= t /\ t + z[2] <= b
             /\ ~ Synthetic => a <= t /\ t + z[2] <= now
  <2>1. t \in Buckets(a, b, z) /\ t >= 0
    BY DEF Provided, ComputedBars, LookedUpBars
  <2>2. t \in Align(a, z) .. (b - 1) /\ t % z[2] = 0 /\ t \in Int
    BY <1>1, <2>1 DEF Buckets
  <2>3. CASE Synthetic
    BY <1>1, <2>1, <2>2, <2>3 DEF Provided, ComputedBars
  <2>4. CASE ~ Synthetic
    <3>1. a <= t /\ t + z[2] <= Smaller(b, now)
      BY <1>1, <2>4 DEF Provided, LookedUpBars
    <3> QED BY <1>1, <2>1, <2>2, <3>1 DEF Smaller
  <2> QED BY <2>3, <2>4
<1>3. CASE b \in Nat
  BY <1>1, <1>2, <1>3 DEF Bounded
<1>4. CASE b \notin Nat
  <2>1. S = {}
    BY <1>1, <1>2, <1>4
  <2> QED BY <2>1 DEF Bounded
<1> QED BY <1>2, <1>3, <1>4

----------------------------------------------------------------------------
(* Every step keeps the invariant.                                         *)

\* A counter below its bound may go up by one.
LEMMA UsedFacts ==
  ASSUME IngestAssumption, used \in Bounds
  PROVE  /\ used.jobs < MaxJobs => [used EXCEPT !.jobs = @ + 1] \in Bounds
         /\ used.failures < MaxFailures => [used EXCEPT !.failures = @ + 1] \in Bounds
         /\ used.errors < MaxErrors => [used EXCEPT !.errors = @ + 1] \in Bounds
         /\ used.crashes < MaxCrashes => [used EXCEPT !.crashes = @ + 1] \in Bounds
<1>1. MaxJobs \in Nat /\ MaxFailures \in Nat /\ MaxErrors \in Nat /\ MaxCrashes \in Nat
  BY DEF IngestAssumption
<1>2. /\ used.jobs \in 0 .. MaxJobs /\ used.failures \in 0 .. MaxFailures
      /\ used.errors \in 0 .. MaxErrors /\ used.crashes \in 0 .. MaxCrashes
  BY DEF Bounds
<1>3. /\ used.jobs < MaxJobs => used.jobs + 1 \in 0 .. MaxJobs
      /\ used.failures < MaxFailures => used.failures + 1 \in 0 .. MaxFailures
      /\ used.errors < MaxErrors => used.errors + 1 \in 0 .. MaxErrors
      /\ used.crashes < MaxCrashes => used.crashes + 1 \in 0 .. MaxCrashes
  BY <1>1, <1>2
<1> QED BY <1>3 DEF Bounds

\* A fresh worker with empty tables satisfies the invariant.
LEMMA InitEstablishes ==
  ASSUME IngestAssumption, Init PROVE IInv
<1>1. TypeOK
  <2>1. /\ now \in 0 .. MaxTime /\ streak \in 0 .. Threshold /\ used \in Bounds
    BY DEF Init, IngestAssumption, Bounds
  <2>2. breaker \in Breakers
    BY NewBreakerFacts DEF Init
  <2>3. /\ candles \in [Series -> SUBSET Nat] /\ health \in Breakers \cup {NULL}
        /\ stream \subseteq Series \X Nat /\ quote \in [Symbols -> Nat \cup {NULL}]
        /\ jobs \in Seq(Jobs) /\ universe \in Universes /\ pc \in Phases
        /\ phase \in {"live", "backfill"} /\ todo \in Seq(Items) /\ bars \subseteq Nat
    BY DEF Init, Phases
  <2> QED BY <2>1, <2>2, <2>3 DEF TypeOK
<1>2. WorkerOK
  BY DEF Init, WorkerOK, InFlight, Bounded
<1>3. BreakerConsistent
  BY <1>1, NewBreakerFacts, ConsistencyOfBoth DEF Init
<1>4. OpenIsRespected /\ AnnouncedIsStored
  BY DEF Init, OpenIsRespected, AnnouncedIsStored
<1> QED BY <1>1, <1>2, <1>3, <1>4 DEF IInv

\* The end of a series, whatever came of it.
LEMMA FinishKeeps ==
  ASSUME IInv, todo # <<>>, Finish, UNCHANGED candles
  PROVE  /\ WorkerOK'
         /\ todo' \in Seq(Items) /\ bars' = {} /\ pc' = "series" /\ phase' = phase
<1>1. todo' \in Seq(Items) /\ bars' = {} /\ pc' = "series" /\ phase' = phase
  BY TodoFacts DEF Finish, IInv, TypeOK
<1>2. WorkerOK'
  BY <1>1 DEF IInv, WorkerOK, InFlight, Bounded
<1> QED BY <1>1, <1>2

\* The steps that end the work on one series keep the invariant.
LEMMA SeriesStepsKeep ==
  ASSUME IngestAssumption, IInv,
         SkipSeries \/ UpToDate \/ PersistFailure \/ SeriesError \/ EndPublish
  PROVE  IInv'
<1>1. todo # <<>> /\ Finish /\ UNCHANGED <<now, candles, stream, quote, jobs, universe>>
  BY DEF SkipSeries, UpToDate, PersistFailure, SeriesError, EndPublish, tables, IInv, WorkerOK,
         InFlight
<1>2. /\ WorkerOK' /\ todo' \in Seq(Items) /\ bars' = {} /\ pc' = "series" /\ phase' = phase
  BY <1>1, FinishKeeps
<1>3. TypeOK /\ Consistent(breaker) /\ (health # NULL => Consistent(health))
  BY ConsistencyOfBoth DEF IInv
<1>4. breaker' \in Breakers /\ Consistent(breaker')
  <2>1. breaker' \in {breaker, Admit(breaker), NewBreaker}
    BY DEF SkipSeries, UpToDate, PersistFailure, SeriesError, EndPublish, RecordSuccess
  <2> QED BY <1>3, <2>1, AdmitFacts, NewBreakerFacts DEF TypeOK
<1>5. /\ health' \in Breakers \cup {NULL} /\ (health' # NULL => Consistent(health'))
      /\ health' = health \/ health' = breaker'
  BY <1>3 DEF SkipSeries, UpToDate, PersistFailure, SeriesError, EndPublish, tables, TypeOK
<1>6. TypeOK'
  <2>1. streak' = streak
    BY DEF SkipSeries, UpToDate, PersistFailure, SeriesError, EndPublish
  <2>2. used' \in Bounds
    <3>1. CASE SeriesError
      BY <1>3, <3>1, UsedFacts DEF SeriesError, TypeOK
    <3>2. CASE ~ SeriesError
      BY <1>3, <3>2 DEF SkipSeries, UpToDate, PersistFailure, EndPublish, TypeOK
    <3> QED BY <3>1, <3>2
  <2> QED BY <1>1, <1>2, <1>3, <1>4, <1>5, <2>1, <2>2 DEF TypeOK, Phases
<1>7. BreakerConsistent'
  BY <1>4, <1>5 DEF BreakerConsistent, Consistent
<1>8. OpenIsRespected'
  <2> SUFFICES ASSUME health' # NULL, health'.state = "open", health'.age + Second <= Ticks
               PROVE  breaker' = health'
    BY <1>2 DEF OpenIsRespected
  <2>1. CASE health' = breaker'
    BY <2>1
  <2>2. CASE health' = health /\ ~ PersistFailure
    <3>1. pc \in {"idle", "series"} /\ breaker = health
      <4>1. pc # "down"
        BY <2>2 DEF SkipSeries, UpToDate, SeriesError, EndPublish
      <4> QED BY <2>2, <4>1 DEF IInv, OpenIsRespected
    <3>2. Refuses(breaker)
      BY <1>3, <2>2, <3>1, OpenRefuses DEF TypeOK
    <3> QED BY <2>2, <3>1, <3>2 DEF SkipSeries, UpToDate, SeriesError, EndPublish
  <2>3. CASE PersistFailure
    BY <2>3 DEF PersistFailure
  <2> QED BY <1>5, <2>1, <2>2, <2>3
<1>9. AnnouncedIsStored'
  BY <1>1 DEF IInv, AnnouncedIsStored
<1> QED BY <1>2, <1>6, <1>7, <1>8, <1>9 DEF IInv

\* What a cycle takes off the queue and what it leaves are jobs of the queue.
LEMMA DrainedJobs ==
  ASSUME IngestAssumption, NEW S, jobs \in Seq(S)
  PROVE  LET n == Smaller(DrainLimit, Len(jobs))
         IN /\ SubSeq(jobs, 1, n) \in Seq(S)
            /\ SubSeq(jobs, n + 1, Len(jobs)) \in Seq(S)
<1> DEFINE n == Smaller(DrainLimit, Len(jobs))
<1>1. Len(jobs) \in Nat /\ DrainLimit \in Nat
  BY DEF IngestAssumption
<1>2. n \in 0 .. Len(jobs)
  BY <1>1 DEF Smaller
<1> HIDE DEF n
<1>3. \A i \in 1 .. Len(jobs) : jobs[i] \in S
  OBVIOUS
<1>4. /\ SubSeq(jobs, 1, n) \in Seq(S)
      /\ SubSeq(jobs, n + 1, Len(jobs)) \in Seq(S)
  BY <1>1, <1>2, <1>3
<1> QED BY <1>4 DEF n

\* Steps of the loop and of the environment, which hold no bars.
LEMMA LoopStepsKeep ==
  ASSUME IngestAssumption, IInv,
         StartCycle \/ EndCycle \/ EndBackfill \/ SetUniverse \/ RequestBackfill
  PROVE  IInv'
<1>1. /\ UNCHANGED <<now, candles, stream, quote, breaker, bars, streak>>
      /\ TypeOK
  BY DEF StartCycle, EndCycle, EndBackfill, SetUniverse, RequestBackfill, tables, memory, IInv
<1>2. health' = health \/ (health' = breaker /\ pc = "series" /\ pc' = pc)
  BY DEF StartCycle, EndCycle, EndBackfill, SetUniverse, RequestBackfill, tables, memory
<1>3. jobs \in Seq(Items)
  <2>1. Jobs \subseteq Items
    BY DEF IngestAssumption, Items
  <2> QED BY <1>1, <2>1 DEF TypeOK
<1>4. todo' \in Seq(Items)
  <2>1. CASE StartCycle
    <3>1. universe \in Seq(Series)
      BY <1>1 DEF TypeOK, IngestAssumption
    <3>2. \A i \in 1 .. Len(universe) : Live(universe[i]) \in Items
      BY <3>1 DEF Live, Items
    <3>3. Len(universe) \in Nat
      BY <3>1
    <3> QED BY <2>1, <3>2, <3>3 DEF StartCycle
  <2>2. CASE EndCycle
    BY <1>3, <2>2, DrainedJobs DEF EndCycle
  <2>3. CASE EndBackfill \/ SetUniverse \/ RequestBackfill
    BY <1>1, <2>3 DEF EndBackfill, SetUniverse, RequestBackfill, memory, TypeOK
  <2> QED BY <2>1, <2>2, <2>3
<1>5. TypeOK'
  <2>1. universe' \in Universes /\ pc' \in Phases /\ phase' \in {"live", "backfill"}
    BY <1>1 DEF StartCycle, EndCycle, EndBackfill, SetUniverse, RequestBackfill, tables, memory,
                TypeOK, Phases
  <2>2. jobs' \in Seq(Jobs) /\ used' \in Bounds
    <3>1. CASE RequestBackfill
      <4>1. used' \in Bounds
        BY <1>1, <3>1, UsedFacts DEF RequestBackfill, TypeOK
      <4> QED BY <1>1, <3>1, <4>1 DEF RequestBackfill, TypeOK
    <3>2. CASE EndCycle
      BY <1>1, <3>2, DrainedJobs DEF EndCycle, TypeOK
    <3>3. CASE ~ RequestBackfill /\ ~ EndCycle
      BY <1>1, <3>3 DEF StartCycle, EndBackfill, SetUniverse, tables, TypeOK
    <3> QED BY <3>1, <3>2, <3>3
  <2>3. health' \in Breakers \cup {NULL}
    BY <1>1, <1>2 DEF TypeOK
  <2> QED BY <1>1, <1>4, <2>1, <2>2, <2>3 DEF TypeOK
<1>6. WorkerOK'
  <2>1. CASE StartCycle \/ EndCycle \/ EndBackfill
    BY <1>1, <2>1 DEF StartCycle, EndCycle, EndBackfill, IInv, WorkerOK, InFlight, Bounded
  <2>2. CASE SetUniverse \/ RequestBackfill
    <3>1. UNCHANGED <<pc, todo>>
      BY <2>2 DEF SetUniverse, RequestBackfill, memory
    <3> QED BY <1>1, <3>1 DEF IInv, WorkerOK, InFlight, Bounded, Current
  <2> QED BY <2>1, <2>2
<1>7. BreakerConsistent' /\ AnnouncedIsStored'
  BY <1>1, <1>2 DEF IInv, BreakerConsistent, AnnouncedIsStored
<1>8. OpenIsRespected'
  <2>1. pc' = pc \/ (pc \in {"idle", "series"} /\ pc' \in {"idle", "series"})
    BY DEF StartCycle, EndCycle, EndBackfill, SetUniverse, RequestBackfill
  <2> QED BY <1>1, <1>2, <2>1 DEF IInv, OpenIsRespected
<1> QED BY <1>5, <1>6, <1>7, <1>8 DEF IInv

\* Time passes for the breaker and for the persisted row of it alike.
LEMMA TickKeeps ==
  ASSUME IngestAssumption, IInv, Tick
  PROVE  IInv' /\ now <= now'
<1>1. /\ UNCHANGED <<candles, stream, quote, jobs, universe, phase, todo, bars, pc, streak, used>>
      /\ TypeOK /\ Consistent(breaker) /\ (health # NULL => Consistent(health))
  BY ConsistencyOfBoth DEF Tick, IInv
<1>2. /\ breaker' = Aged(breaker) /\ breaker' \in Breakers /\ Consistent(breaker')
  BY <1>1, AgedFacts DEF Tick, TypeOK
<1>3. CASE health = NULL
  <2>1. health' = NULL
    BY <1>3 DEF Tick
  <2>2. now' \in 0 .. MaxTime /\ now <= now'
    <3>1. MaxTime \in Nat /\ now \in 0 .. MaxTime
      BY <1>1 DEF IngestAssumption, TypeOK
    <3> QED BY <3>1 DEF Tick, Smaller
  <2>3. TypeOK'
    BY <1>1, <1>2, <2>1, <2>2 DEF TypeOK
  <2>4. WorkerOK' /\ AnnouncedIsStored'
    BY <1>1 DEF IInv, WorkerOK, InFlight, Bounded, Current, AnnouncedIsStored
  <2>5. BreakerConsistent' /\ OpenIsRespected'
    BY <1>2, <2>1 DEF BreakerConsistent, Consistent, OpenIsRespected
  <2> QED BY <2>2, <2>3, <2>4, <2>5 DEF IInv
<1>4. CASE health # NULL
  <2>1. /\ health' = Aged(health) /\ health' \in Breakers /\ Consistent(health')
        /\ health'.state = health.state
        /\ health'.state = "open" /\ health'.age + Second <= Ticks
             => health.age + Second <= Ticks
    BY <1>1, <1>4, AgedFacts DEF Tick, TypeOK
  <2>2. now' \in 0 .. MaxTime /\ now <= now'
    <3>1. MaxTime \in Nat /\ now \in 0 .. MaxTime
      BY <1>1 DEF IngestAssumption, TypeOK
    <3> QED BY <3>1 DEF Tick, Smaller
  <2>3. TypeOK'
    BY <1>1, <1>2, <2>1, <2>2 DEF TypeOK
  <2>4. WorkerOK' /\ AnnouncedIsStored'
    BY <1>1 DEF IInv, WorkerOK, InFlight, Bounded, Current, AnnouncedIsStored
  <2>5. BreakerConsistent'
    BY <1>2, <2>1 DEF BreakerConsistent, Consistent
  <2>6. OpenIsRespected'
    BY <1>1, <1>2, <1>4, <2>1 DEF IInv, OpenIsRespected
  <2> QED BY <2>2, <2>3, <2>4, <2>5, <2>6 DEF IInv
<1> QED BY <1>3, <1>4

\* The worker dies; the restarted one has the breaker that was persisted.
LEMMA CrashAndRestartKeep ==
  ASSUME IngestAssumption, IInv, Crash \/ Restart
  PROVE  IInv'
<1>1. /\ UNCHANGED <<now, candles, health, stream, quote, jobs, universe, streak>>
      /\ TypeOK /\ (health # NULL => Consistent(health)) /\ Consistent(breaker)
  BY ConsistencyOfBoth DEF Crash, Restart, tables, IInv
<1>2. /\ breaker' \in Breakers /\ Consistent(breaker')
      /\ Restart /\ health # NULL => breaker' = health
  BY <1>1, NewBreakerFacts DEF Crash, Restart, Load, TypeOK
<1>3. /\ pc' \in {"down", "idle"} /\ (pc' = "down" \/ Restart)
      /\ bars' \in {{}, bars} /\ phase' \in {"live", phase}
      /\ todo' \in {<<>>, todo} /\ (used' = used \/ Crash)
  BY DEF Crash, Restart
<1>4. TypeOK'
  <2>1. used' \in Bounds
    BY <1>1, <1>3, UsedFacts DEF Crash, TypeOK
  <2>2. bars' \subseteq Nat /\ phase' \in {"live", "backfill"} /\ pc' \in Phases
    BY <1>1, <1>3 DEF TypeOK, Phases
  <2>3. todo' \in Seq(Items)
    <3>1. CASE todo' = <<>>
      BY <3>1
    <3>2. CASE todo' = todo
      BY <1>1, <3>2 DEF TypeOK
    <3> QED BY <1>3, <3>1, <3>2
  <2> QED BY <1>1, <1>2, <2>1, <2>2, <2>3 DEF TypeOK
<1>5. WorkerOK'
  BY <1>1, <1>3 DEF IInv, WorkerOK, InFlight, Bounded
<1>6. BreakerConsistent' /\ AnnouncedIsStored' /\ OpenIsRespected'
  BY <1>1, <1>2, <1>3 DEF IInv, BreakerConsistent, Consistent, AnnouncedIsStored, OpenIsRespected
<1> QED BY <1>4, <1>5, <1>6 DEF IInv

\* The call begins: the window is fixed, and no persisted OPEN row is in force.
LEMMA BeginFetchKeeps ==
  ASSUME IngestAssumption, IInv, BeginFetch
  PROVE  /\ IInv'
         /\ LET w == FetchWindow(Current)
            IN todo' = [todo EXCEPT ![1] = [s |-> Current.s, start |-> w[1], end |-> w[2]]]
         /\ Current'.s = Current.s /\ Current'.start = FetchWindow(Current)[1]
         /\ Current'.end = FetchWindow(Current)[2]
<1> DEFINE w == FetchWindow(Current)
           item == [s |-> Current.s, start |-> w[1], end |-> w[2]]
<1>1. /\ UNCHANGED <<now, candles, health, stream, quote, jobs, universe, phase, bars, streak, used>>
      /\ pc = "series" /\ pc' = "fetching" /\ todo # <<>> /\ ~ Refuses(breaker)
      /\ TypeOK /\ Consistent(breaker) /\ (health # NULL => Consistent(health))
  BY ConsistencyOfBoth DEF BeginFetch, tables, IInv
<1>2. Current \in Items /\ Current = todo[1] /\ 1 \in DOMAIN todo /\ todo \in Seq(Items)
  BY <1>1, TodoFacts DEF TypeOK
<1>3. w[1] \in Int /\ w[2] \in Int
  BY <1>1, <1>2, WindowFacts DEF IInv
<1>4. todo' = [todo EXCEPT ![1] = item]
  BY <1>2 DEF BeginFetch
<1> HIDE DEF w
<1>5. item \in Items
  BY <1>2, <1>3 DEF Items
<1>6. todo' \in Seq(Items) /\ todo' # <<>> /\ todo'[1] = item
  BY <1>2, <1>4, <1>5
<1>7. Current' = item
  BY <1>6 DEF Current
<1>8. breaker' \in Breakers /\ Consistent(breaker')
  BY <1>1, AdmitFacts DEF BeginFetch, TypeOK
<1>9. TypeOK'
  BY <1>1, <1>6, <1>8 DEF TypeOK, Phases
<1>10. WorkerOK'
  BY <1>1, <1>3, <1>6, <1>7 DEF IInv, WorkerOK, InFlight, Bounded
<1>11. BreakerConsistent' /\ AnnouncedIsStored'
  BY <1>1, <1>8 DEF IInv, BreakerConsistent, Consistent, AnnouncedIsStored
<1>12. OpenIsRespected'
  <2>1. ~ (health # NULL /\ health.state = "open" /\ health.age + Second <= Ticks)
    <3> SUFFICES ASSUME health # NULL, health.state = "open", health.age + Second <= Ticks
                 PROVE  FALSE
      OBVIOUS
    <3>1. breaker = health /\ breaker \in Breakers
      BY <1>1 DEF IInv, OpenIsRespected, TypeOK
    <3> QED BY <1>1, <3>1, OpenRefuses
  <2> QED BY <1>1, <2>1 DEF OpenIsRespected
<1> QED BY <1>4, <1>7, <1>9, <1>10, <1>11, <1>12 DEF IInv, w

\* A step of the call in flight that writes no provider_health row.
LEMMA NothingInForce ==
  ASSUME IInv, InFlight, UNCHANGED health PROVE OpenIsRespected'
BY DEF IInv, OpenIsRespected, InFlight

\* An answer of the provider is a set of bars of the window asked for, and changes
\* nothing that is stored.
LEMMA FetchSucceedsKeeps ==
  ASSUME IngestAssumption, IInv, FetchSucceeds
  PROVE  /\ IInv' /\ UNCHANGED <<now, candles, todo>>
         /\ bars' \in SUBSET Provided(Current.s, <<Current.start, Current.end>>)
<1>1. /\ UNCHANGED <<now, candles, health, stream, quote, jobs, universe, breaker, phase, todo, used>>
      /\ pc = "fetching" /\ pc' = "storing" /\ streak' = 0 /\ TypeOK /\ InFlight
  BY DEF FetchSucceeds, tables, IInv, InFlight
<1>2. todo # <<>> /\ Current.start \in Int /\ Current.end \in Int /\ Current.s \in Series
      /\ Current' = Current
  BY <1>1, TodoFacts DEF IInv, WorkerOK, TypeOK, Current
<1>3. bars' \in SUBSET Provided(Current.s, <<Current.start, Current.end>>)
  BY DEF FetchSucceeds
<1>4. Bounded(bars')
  BY <1>1, <1>2, <1>3, ProvidedFacts
<1>5. TypeOK'
  <2>1. streak' \in 0 .. Threshold /\ bars' \subseteq Nat
    BY <1>1, <1>4 DEF IngestAssumption, Bounded
  <2> QED BY <1>1, <2>1 DEF TypeOK, Phases
<1>6. WorkerOK'
  BY <1>1, <1>2, <1>4 DEF IInv, WorkerOK, InFlight, Bounded
<1>7. BreakerConsistent' /\ AnnouncedIsStored' /\ OpenIsRespected'
  BY <1>1, NothingInForce DEF IInv, BreakerConsistent, AnnouncedIsStored
<1> QED BY <1>1, <1>3, <1>5, <1>6, <1>7 DEF IInv

\* A failed call is counted by the breaker and keeps the invariant.
LEMMA FetchFailsKeeps ==
  ASSUME IngestAssumption, IInv, FetchFails PROVE IInv'
<1>1. /\ UNCHANGED <<now, candles, health, stream, quote, jobs, universe, phase, todo, bars>>
      /\ pc = "fetching" /\ pc' = "persisting" /\ TypeOK /\ InFlight /\ Consistent(breaker)
  BY ConsistencyOfBoth DEF FetchFails, tables, IInv, InFlight
<1>2. breaker' \in Breakers /\ Consistent(breaker')
  BY <1>1, RecordFailureFacts DEF FetchFails, TypeOK
<1>3. TypeOK'
  <2>1. streak' \in 0 .. Threshold
    <3>1. Threshold \in Nat /\ streak \in 0 .. Threshold
      BY <1>1 DEF TypeOK, IngestAssumption
    <3> QED BY <3>1 DEF FetchFails, Smaller
  <2>2. used' \in Bounds
    BY <1>1, UsedFacts DEF FetchFails, TypeOK
  <2> QED BY <1>1, <1>2, <2>1, <2>2 DEF TypeOK, Phases
<1>4. WorkerOK'
  BY <1>1 DEF IInv, WorkerOK, InFlight, Bounded, Current
<1>5. BreakerConsistent' /\ AnnouncedIsStored' /\ OpenIsRespected'
  BY <1>1, <1>2, NothingInForce DEF IInv, BreakerConsistent, Consistent, AnnouncedIsStored
<1> QED BY <1>3, <1>4, <1>5 DEF IInv

\* The commit: from here on the bars of the call are stored.
LEMMA StoreKeeps ==
  ASSUME IngestAssumption, IInv, Store
  PROVE  /\ IInv' /\ now' = now /\ Current.s \in Series
         /\ candles' = [candles EXCEPT ![Current.s] = @ \cup bars]
         /\ (pc' = "series" /\ todo' = Tail(todo)) \/ (pc' = "quoting" /\ todo' = todo)
<1>1. /\ UNCHANGED <<now, health, stream, quote, jobs, universe, streak, used>>
      /\ candles' = [candles EXCEPT ![Current.s] = @ \cup bars]
      /\ pc = "storing" /\ TypeOK /\ InFlight /\ Consistent(breaker)
  BY ConsistencyOfBoth DEF Store, IInv, InFlight
<1>2. /\ todo # <<>> /\ Current.s \in Series /\ Tail(todo) \in Seq(Items)
      /\ Current.start \in Int /\ Current.end \in Int
  BY <1>1, TodoFacts DEF IInv, WorkerOK, TypeOK
<1>3. /\ candles' \in [Series -> SUBSET Nat]
      /\ candles'[Current.s] = candles[Current.s] \cup bars
      /\ \A z \in Series : candles[z] \subseteq candles'[z]
      /\ \A z \in Series : z # Current.s => candles'[z] = candles[z]
  BY <1>1, <1>2 DEF TypeOK
<1>4. \A z \in Series : Bounded(candles'[z])
  <2>1. ASSUME NEW z \in Series PROVE Bounded(candles'[z])
    BY <1>3, BoundedUnion DEF IInv, WorkerOK
  <2> QED BY <2>1
<1>5. AnnouncedIsStored'
  BY <1>1, <1>3 DEF IInv, AnnouncedIsStored, TypeOK
<1>6. OpenIsRespected'
  BY <1>1, NothingInForce
<1>7. CASE bars = {}
  <2>1. breaker' = NewBreaker /\ Finish
    BY <1>7 DEF Store, RecordSuccess
  <2>2. pc' = "series" /\ todo' = Tail(todo) /\ bars' = {} /\ phase' = phase
    BY <2>1 DEF Finish
  <2>3. TypeOK'
    BY <1>1, <1>2, <1>3, <2>1, <2>2, NewBreakerFacts DEF TypeOK, Phases
  <2>4. WorkerOK'
    BY <1>4, <2>2 DEF IInv, WorkerOK, InFlight, Bounded
  <2>5. BreakerConsistent'
    BY <1>1, <2>1, NewBreakerFacts DEF IInv, BreakerConsistent, Consistent
  <2> QED BY <1>1, <1>2, <1>5, <1>6, <2>1, <2>2, <2>3, <2>4, <2>5 DEF IInv
<1>8. CASE bars # {}
  <2>1. pc' = "quoting" /\ UNCHANGED <<breaker, phase, todo, bars>>
    BY <1>8 DEF Store, memory
  <2>2. TypeOK'
    BY <1>1, <1>3, <2>1 DEF TypeOK, Phases
  <2>3. WorkerOK'
    <3>1. Current' = Current
      BY <2>1 DEF Current
    <3> QED BY <1>2, <1>3, <1>4, <1>8, <2>1, <3>1 DEF IInv, WorkerOK, InFlight, Bounded
  <2>4. BreakerConsistent'
    BY <1>1, <2>1 DEF IInv, BreakerConsistent
  <2> QED BY <1>1, <1>2, <1>5, <1>6, <2>1, <2>2, <2>3, <2>4 DEF IInv
<1> QED BY <1>7, <1>8

\* Caching the last price keeps the invariant.
LEMMA CacheQuoteKeeps ==
  ASSUME IngestAssumption, IInv, CacheQuote PROVE IInv'
<1>1. /\ UNCHANGED <<now, candles, health, stream, jobs, universe, breaker, phase, todo, streak, used>>
      /\ pc = "quoting" /\ pc' = "publishing" /\ TypeOK /\ InFlight
      /\ bars # {} /\ Bounded(bars) /\ bars' \subseteq bars /\ Current' = Current
  BY DEF CacheQuote, IInv, InFlight, WorkerOK, Oldest, Current
<1>2. Current.s \in Series /\ Current.s[1] \in Symbols
  BY <1>1, TodoFacts DEF IInv, WorkerOK, TypeOK, Symbols
<1>3. Last(bars) \in Nat
  BY <1>1, EndsOfBars DEF Bounded
<1>4. quote' \in [Symbols -> Nat \cup {NULL}]
  BY <1>1, <1>2, <1>3 DEF CacheQuote, TypeOK
<1>5. TypeOK'
  BY <1>1, <1>4 DEF TypeOK, Phases
<1>6. WorkerOK'
  BY <1>1, BoundedSubset DEF IInv, WorkerOK, InFlight
<1>7. BreakerConsistent' /\ AnnouncedIsStored' /\ OpenIsRespected'
  BY <1>1, NothingInForce DEF IInv, BreakerConsistent, AnnouncedIsStored
<1> QED BY <1>5, <1>6, <1>7 DEF IInv

\* An event: it announces a bar that is stored.
LEMMA PublishBarKeeps ==
  ASSUME IngestAssumption, IInv, PublishBar PROVE IInv'
<1>1. /\ UNCHANGED <<now, candles, health, quote, jobs, universe, breaker, phase, todo, pc, streak, used>>
      /\ pc = "publishing" /\ TypeOK /\ InFlight
      /\ bars # {} /\ Bounded(bars) /\ bars' \subseteq bars /\ Current' = Current
      /\ stream' = stream \cup {<<Current.s, First(bars)>>}
  BY DEF PublishBar, IInv, InFlight, WorkerOK, Current
<1>2. Current.s \in Series
  BY <1>1, TodoFacts DEF IInv, WorkerOK, TypeOK
<1>3. First(bars) \in bars /\ First(bars) \in Nat /\ First(bars) \in candles[Current.s]
  BY <1>1, EndsOfBars DEF Bounded, IInv, WorkerOK
<1>4. TypeOK'
  BY <1>1, <1>2, <1>3 DEF TypeOK, Phases
<1>5. WorkerOK'
  BY <1>1, BoundedSubset DEF IInv, WorkerOK, InFlight
<1>6. AnnouncedIsStored'
  BY <1>1, <1>3 DEF IInv, AnnouncedIsStored
<1>7. BreakerConsistent' /\ OpenIsRespected'
  BY <1>1, NothingInForce DEF IInv, BreakerConsistent
<1> QED BY <1>4, <1>5, <1>6, <1>7 DEF IInv

\* Every step of the worker and of its environment.
LEMMA NextKeeps ==
  ASSUME IngestAssumption, IInv, [Next]_vars PROVE IInv'
<1>1. CASE UNCHANGED vars
  BY <1>1 DEF vars, tables, memory, IInv, TypeOK, WorkerOK, InFlight, Bounded, Current,
              BreakerConsistent, OpenIsRespected, AnnouncedIsStored
<1>2. CASE Next
  BY <1>2, TickKeeps, LoopStepsKeep, SeriesStepsKeep, BeginFetchKeeps, FetchSucceedsKeeps,
     FetchFailsKeeps, StoreKeeps, CacheQuoteKeeps, PublishBarKeeps, CrashAndRestartKeep
     DEF Next, Work, IngestSeries
<1> QED BY <1>1, <1>2

\* The inductive invariant holds in every reachable state.
THEOREM Invariance == ASSUME IngestAssumption PROVE Spec => []IInv
<1>1. Init => IInv
  BY InitEstablishes
<1>2. IInv /\ [Next]_vars => IInv'
  BY NextKeeps
<1> QED BY <1>1, <1>2, PTL DEF Spec

\* bar.closed events announce committed bars only, wherever the worker dies.
THEOREM AnnouncementsAreStored == ASSUME IngestAssumption PROVE Spec => []AnnouncedIsStored
<1>1. IInv => AnnouncedIsStored
  BY DEF IInv
<1> QED BY <1>1, Invariance, PTL

----------------------------------------------------------------------------
(* What is stored.  Seen from the candles, a step is one of seven kinds.   *)

TimePasses == UNCHANGED <<candles, pc, todo, bars>> /\ now <= now'

SeriesEnds ==
  UNCHANGED <<now, candles>> /\ todo # <<>> /\ todo' = Tail(todo) /\ pc' = "series"

CallGoesOn ==
  /\ UNCHANGED <<now, candles, todo>> /\ (InFlight' <=> InFlight)
  /\ pc' \notin {"fetching", "storing"}

NewList ==
  /\ UNCHANGED <<now, candles>> /\ pc' \in {"series", "down"}
  /\ todo' \in Seq(Items)
  /\ Jobs = {} => \A i \in DOMAIN todo' : todo'[i].start = NULL /\ todo'[i].end = NULL

\* Every step is of one of the kinds that the proofs of closed bars and of holes tell
\* apart.
LEMMA StepKinds ==
  ASSUME IngestAssumption, IInv, [Next]_vars
  PROVE  \/ TimePasses \/ SeriesEnds \/ CallGoesOn \/ NewList
         \/ BeginFetch \/ FetchSucceeds \/ Store
<1>0. TypeOK /\ now \in Int
  BY DEF IInv, TypeOK
<1>1. CASE Tick
  BY <1>1, TickKeeps DEF Tick, TimePasses
<1>2. CASE SetUniverse \/ RequestBackfill \/ UNCHANGED vars
  <2>1. UNCHANGED <<now, candles, pc, todo, bars>>
    BY <1>2 DEF SetUniverse, RequestBackfill, vars, tables, memory
  <2> QED BY <1>0, <2>1 DEF TimePasses
<1>3. CASE SkipSeries \/ UpToDate \/ PersistFailure \/ SeriesError \/ EndPublish
  <2>1. todo # <<>> /\ Finish /\ UNCHANGED <<now, candles>>
    BY <1>3 DEF SkipSeries, UpToDate, PersistFailure, SeriesError, EndPublish, tables, IInv,
                WorkerOK, InFlight
  <2> QED BY <2>1 DEF SeriesEnds, Finish
<1>4. CASE FetchFails \/ CacheQuote \/ PublishBar \/ EndBackfill \/ Restart
  BY <1>4 DEF FetchFails, CacheQuote, PublishBar, EndBackfill, Restart, tables, memory,
              CallGoesOn, InFlight
<1>5. CASE StartCycle
  <2>1. universe \in Seq(Series) /\ Len(universe) \in Nat
    BY <1>0 DEF TypeOK, IngestAssumption
  <2>2. \A i \in 1 .. Len(universe) : Live(universe[i]) \in Items
    BY <2>1 DEF Live, Items
  <2>3. todo' = [i \in 1 .. Len(universe) |-> Live(universe[i])] /\ todo' \in Seq(Items)
    BY <1>5, <2>1, <2>2 DEF StartCycle
  <2>4. \A i \in DOMAIN todo' : todo'[i].start = NULL /\ todo'[i].end = NULL
    BY <2>3 DEF Live
  <2> QED BY <1>5, <2>3, <2>4 DEF StartCycle, tables, NewList
<1>6. CASE EndCycle
  <2>1. jobs \in Seq(Items)
    <3>1. Jobs \subseteq Items
      BY DEF IngestAssumption, Items
    <3> QED BY <1>0, <3>1 DEF TypeOK
  <2>2. todo' \in Seq(Items) /\ todo' \in Seq(Jobs)
    BY <1>0, <1>6, <2>1, DrainedJobs DEF EndCycle, TypeOK
  <2>3. Jobs = {} => \A i \in DOMAIN todo' : FALSE
    BY <2>2
  <2> QED BY <1>6, <2>2, <2>3 DEF EndCycle, NewList
<1>7. CASE Crash
  BY <1>7 DEF Crash, tables, NewList
<1> QED BY <1>1, <1>2, <1>3, <1>4, <1>5, <1>6, <1>7 DEF Next, Work, IngestSeries

\* Without backfills every window ends at the bucket that is still forming.
LiveOnly ==
  /\ \A i \in DOMAIN todo : i > 1 \/ ~ InFlight => todo[i].start = NULL /\ todo[i].end = NULL
  /\ pc = "fetching" => Current.end <= now

\* Without jobs every item of work stays one of the live universe.
LEMMA LiveOnlyKept ==
  ASSUME IngestAssumption, Jobs = {}, IInv, LiveOnly, [Next]_vars
  PROVE  LiveOnly'
<1>0. TypeOK /\ now \in Int
  BY DEF IInv, TypeOK
<1>1. CASE TimePasses
  <2>1. pc = "fetching" => Current.end \in Int /\ now' \in Int
    BY NextKeeps DEF IInv, WorkerOK, InFlight, TypeOK
  <2> QED BY <1>0, <1>1, <2>1 DEF TimePasses, LiveOnly, InFlight, Current
<1>2. CASE SeriesEnds
  <2>1. \A i \in DOMAIN todo' : i + 1 \in DOMAIN todo /\ i + 1 > 1 /\ todo'[i] = todo[i + 1]
    BY <1>0, <1>2, TodoFacts DEF SeriesEnds, TypeOK
  <2> QED BY <1>2, <2>1 DEF SeriesEnds, LiveOnly
<1>3. CASE CallGoesOn
  BY <1>3 DEF CallGoesOn, LiveOnly, InFlight
<1>4. CASE NewList
  BY <1>4 DEF NewList, LiveOnly
<1>5. CASE BeginFetch
  <2>1. /\ todo # <<>> /\ pc' = "fetching" /\ now' = now
        /\ todo[1] = Current /\ 1 \in DOMAIN todo /\ Current.s \in Series
        /\ ~ InFlight
    BY <1>0, <1>5, TodoFacts DEF BeginFetch, TypeOK, InFlight
  <2>2. \A i \in DOMAIN todo' : i > 1 => i \in DOMAIN todo /\ todo'[i] = todo[i]
    BY <1>0, <1>5, BeginFetchKeeps DEF TypeOK
  <2>3. Current.end = NULL
    BY <2>1 DEF LiveOnly
  <2>4. FetchWindow(Current)[2] = Align(now, Current.s)
    BY <2>3 DEF FetchWindow
  <2>5. Current'.end <= now'
    BY <1>0, <1>5, <2>1, <2>4, AlignFacts, BeginFetchKeeps
  <2> QED BY <2>1, <2>2, <2>5 DEF LiveOnly, InFlight
<1>6. CASE FetchSucceeds
  BY <1>6, FetchSucceedsKeeps DEF FetchSucceeds, LiveOnly, InFlight
<1>7. CASE Store
  <2>2. CASE todo' = todo /\ pc' = "quoting" /\ pc = "storing"
    BY <2>2 DEF LiveOnly, InFlight
  <2>3. CASE todo' = Tail(todo) /\ pc' = "series" /\ todo # <<>>
    <3>1. \A i \in DOMAIN todo' : i + 1 \in DOMAIN todo /\ i + 1 > 1 /\ todo'[i] = todo[i + 1]
      BY <1>0, <2>3, TodoFacts DEF TypeOK
    <3> QED BY <2>3, <3>1 DEF LiveOnly
  <2> QED BY <1>7, <2>2, <2>3, StoreKeeps DEF Store, IInv, WorkerOK, InFlight
<1> QED BY <1>1, <1>2, <1>3, <1>4, <1>5, <1>6, <1>7, StepKinds

\* Without jobs the worker only ever asks for live windows.
LEMMA LiveWindows == ASSUME IngestAssumption, Jobs = {} PROVE Spec => []LiveOnly
<1>1. Init => LiveOnly
  BY DEF Init, LiveOnly
<1>2. IInv /\ LiveOnly /\ [Next]_vars => LiveOnly'
  BY LiveOnlyKept
<1> QED BY <1>1, <1>2, Invariance, PTL DEF Spec

\* What is fetched and what is stored has closed.
ClosedBars ==
  /\ OnlyClosedBars
  /\ pc = "storing" => \A t \in bars : t + Current.s[2] <= now

\* A step stores and holds closed bars only, if windows end now or the provider has
\* no bars of the future.
LEMMA ClosedBarsKept ==
  ASSUME IngestAssumption, ~ Synthetic \/ LiveOnly, IInv, ClosedBars, [Next]_vars
  PROVE  ClosedBars'
<1>0. /\ TypeOK /\ now \in Int /\ now' \in Int
      /\ \A z \in Series : z[2] \in Int /\ candles[z] \subseteq Nat
      /\ bars \subseteq Nat
  <2>1. IInv'
    BY NextKeeps
  <2>2. TypeOK /\ TypeOK'
    BY <2>1 DEF IInv
  <2>3. now \in Int /\ now' \in Int /\ bars \subseteq Nat
    BY <2>2 DEF TypeOK
  <2>4. \A z \in Series : z[2] \in Nat \ {0} /\ candles[z] \subseteq Nat
    BY <2>2 DEF TypeOK, IngestAssumption
  <2> QED BY <2>1, <2>2, <2>3, <2>4
<1>1. CASE TimePasses
  <2>1. OnlyClosedBars'
    BY <1>0, <1>1 DEF TimePasses, ClosedBars, OnlyClosedBars
  <2>2. ASSUME pc' = "storing" PROVE \A t \in bars' : t + Current'.s[2] <= now'
    <3>1. Current' = Current /\ Current.s \in Series /\ pc = "storing"
      BY <1>0, <1>1, <2>2, TodoFacts DEF TimePasses, Current, IInv, WorkerOK, InFlight, TypeOK
    <3> QED BY <1>0, <1>1, <3>1 DEF TimePasses, ClosedBars
  <2> QED BY <2>1, <2>2 DEF ClosedBars
<1>2. CASE SeriesEnds \/ CallGoesOn \/ NewList \/ BeginFetch
  <2>1. UNCHANGED <<now, candles>> /\ pc' # "storing"
    BY <1>2 DEF SeriesEnds, CallGoesOn, NewList, BeginFetch, tables
  <2> QED BY <2>1 DEF ClosedBars, OnlyClosedBars
<1>3. CASE FetchSucceeds
  <2>1. /\ Current' = Current /\ Current.s \in Series /\ UNCHANGED <<now, candles>>
        /\ Current.start \in Int /\ Current.end \in Int /\ pc = "fetching"
        /\ bars' \in SUBSET Provided(Current.s, <<Current.start, Current.end>>)
    BY <1>0, <1>3, TodoFacts, FetchSucceedsKeeps
       DEF FetchSucceeds, Current, IInv, WorkerOK, InFlight, TypeOK
  <2>2. \A t \in bars' : /\ t \in Nat /\ t + Current.s[2] <= Current.end
                         /\ ~ Synthetic => t + Current.s[2] <= now
    BY <1>0, <2>1, ProvidedFacts
  <2>3. LiveOnly => Current.end <= now
    BY <2>1 DEF LiveOnly
  <2>4. \A t \in bars' : t + Current.s[2] <= now
    BY <1>0, <2>1, <2>2, <2>3
  <2> QED BY <2>1, <2>4 DEF ClosedBars, OnlyClosedBars
<1>4. CASE Store
  <2>1. /\ now' = now /\ Current.s \in Series /\ pc' # "storing" /\ pc = "storing"
        /\ candles' = [candles EXCEPT ![Current.s] = @ \cup bars]
    BY <1>4, StoreKeeps DEF Store
  <2>2. \A z \in Series : \A t \in candles'[z] :
          t \in candles[z] \/ (z = Current.s /\ t \in bars)
    BY <1>0, <2>1 DEF TypeOK
  <2>3. OnlyClosedBars'
    BY <2>1, <2>2 DEF ClosedBars, OnlyClosedBars
  <2> QED BY <2>1, <2>3 DEF ClosedBars
<1> QED BY <1>1, <1>2, <1>3, <1>4, StepKinds

\* Only closed bars are ever stored, if windows end now or the provider has no bars
\* of the future.
LEMMA OnlyClosed ==
  ASSUME IngestAssumption, ~ Synthetic \/ Jobs = {} PROVE Spec => []OnlyClosedBars
<1>1. Init => ClosedBars
  BY DEF Init, ClosedBars, OnlyClosedBars
<1>2. CASE ~ Synthetic
  <2>1. IInv /\ ClosedBars /\ [Next]_vars => ClosedBars'
    BY <1>2, ClosedBarsKept
  <2>2. ClosedBars => OnlyClosedBars
    BY DEF ClosedBars
  <2> QED BY <1>1, <2>1, <2>2, Invariance, PTL DEF Spec
<1>3. CASE Jobs = {}
  <2>1. IInv /\ LiveOnly /\ ClosedBars /\ [Next]_vars => ClosedBars'
    BY <1>3, ClosedBarsKept
  <2>2. ClosedBars => OnlyClosedBars
    BY DEF ClosedBars
  <2>3. Spec => []LiveOnly
    BY <1>3, LiveWindows
  <2> QED BY <1>1, <2>1, <2>2, <2>3, Invariance, PTL DEF Spec
<1> QED BY <1>2, <1>3

----------------------------------------------------------------------------
(* No hole: a window starts at the bar after the newest one, and reaches   *)
(* it as long as the worker was not away for longer than the cap.          *)

Aligned(s, t) == t \in Nat /\ t % s[2] = 0

\* Every bar that is missing after a stored one is in the window.
WindowReaches ==
  pc = "fetching" =>
    /\ \A b \in candles[Current.s] : b + Current.s[2] <= Current.start
    /\ \A t : /\ Aligned(Current.s, t) /\ t \notin candles[Current.s]
              /\ \E a \in candles[Current.s] : a < t
              => Current.start <= t

\* The bars fetched follow the stored ones with no gap.
BarsFit ==
  pc = "storing" =>
    /\ \A a \in bars : Aligned(Current.s, a) /\ \A b \in candles[Current.s] : b < a
    /\ \A b \in bars : \A t :
         /\ Aligned(Current.s, t) /\ t < b
         /\ \/ t \notin candles[Current.s] /\ \E a \in candles[Current.s] : a < t
            \/ \E a \in bars : a < t
         => t \in bars

Gapless ==
  /\ \A s \in Series : \A t \in candles[s] : Aligned(s, t)
  /\ \A s \in Series : \A a, b \in candles[s] : \A t :
       Aligned(s, t) /\ a < t /\ t < b => t \in candles[s]
  /\ WindowReaches
  /\ BarsFit

\* In whole buckets this is NoHoles.
LEMMA GaplessHasNoHoles ==
  ASSUME IngestAssumption, TypeOK, Gapless PROVE NoHoles
<1> SUFFICES ASSUME NEW z \in Series, NEW a \in candles[z], NEW b \in candles[z],
                    NEW t \in Buckets(a, b, z)
             PROVE  t \in candles[z]
  BY DEF NoHoles
<1>1. /\ a \in Nat /\ b \in Nat /\ a % z[2] = 0 /\ z[2] \in Nat \ {0}
  BY DEF Gapless, Aligned, IngestAssumption
<1>2. Align(a, z) = a
  BY <1>1 DEF Align
<1>3. t \in a .. (b - 1) /\ t % z[2] = 0
  BY <1>2 DEF Buckets
<1>4. Aligned(z, t) /\ (t = a \/ a < t) /\ t < b
  BY <1>1, <1>3 DEF Aligned
<1> QED BY <1>4 DEF Gapless

\* The window of a live fetch.
LEMMA LiveWindow ==
  ASSUME IngestAssumption, OutagesAreShort, IInv, Gapless, NEW item \in Items,
         item.start = NULL, item.end = NULL, candles[item.s] # {}
  PROVE  FetchWindow(item)[1] = Last(candles[item.s]) + item.s[2]
<1> DEFINE z == item.s
           end == Align(now, z)
           from == Last(candles[z]) + z[2]
           span == MaxBars * z[2]
<1>1. z \in Series /\ z[2] \in Nat \ {0} /\ now \in 0 .. MaxTime /\ MaxTime \in Nat
  BY DEF IInv, TypeOK, IngestAssumption, Items
<1>2. Last(candles[z]) \in Nat
  BY <1>1, EndsOfBars DEF IInv, WorkerOK, Bounded
<1>3. Last(candles[z]) # NULL
  BY <1>2 DEF IngestAssumption
<1>4. FetchWindow(item)[1] = IF end - from > span THEN end - span ELSE from
  BY <1>3 DEF FetchWindow, Newest
<1>5. end \in Int /\ end <= MaxTime
  BY <1>1, AlignFacts
<1>6. span \in Int /\ MaxTime <= span
  BY <1>1 DEF OutagesAreShort, IngestAssumption
<1> HIDE DEF end, span
<1> QED BY <1>1, <1>2, <1>4, <1>5, <1>6

\* A step leaves no hole behind the newest bar of a series, if outages are short.
LEMMA GaplessKept ==
  ASSUME IngestAssumption, OutagesAreShort, IInv, LiveOnly, Gapless, [Next]_vars
  PROVE  Gapless'
<1>0. /\ TypeOK /\ now \in Int /\ IInv'
      /\ \A z \in Series : z[2] \in Nat \ {0} /\ candles[z] \subseteq Nat
      /\ bars \subseteq Nat
  <2>1. IInv'
    BY NextKeeps
  <2>2. TypeOK /\ TypeOK'
    BY <2>1 DEF IInv
  <2>3. now \in Int /\ now' \in Int /\ bars \subseteq Nat
    BY <2>2 DEF TypeOK
  <2>4. \A z \in Series : z[2] \in Nat \ {0} /\ candles[z] \subseteq Nat
    BY <2>2 DEF TypeOK, IngestAssumption
  <2> QED BY <2>1, <2>2, <2>3, <2>4
<1>1. CASE TimePasses
  BY <1>1 DEF TimePasses, Gapless, WindowReaches, BarsFit, Current
<1>2. CASE SeriesEnds \/ CallGoesOn \/ NewList
  <2>1. UNCHANGED candles /\ pc' \notin {"fetching", "storing"}
    BY <1>2 DEF SeriesEnds, CallGoesOn, NewList
  <2> QED BY <2>1 DEF Gapless, WindowReaches, BarsFit
<1>3. CASE BeginFetch
  <2> DEFINE z == Current.s
             n == Last(candles[z])
  <2>1. /\ todo # <<>> /\ pc' = "fetching" /\ UNCHANGED candles /\ ~ InFlight
        /\ Current \in Items /\ z \in Series /\ Current = todo[1] /\ 1 \in DOMAIN todo
    BY <1>0, <1>3, TodoFacts DEF BeginFetch, tables, TypeOK, InFlight
  <2>2. Current.start = NULL /\ Current.end = NULL
    BY <2>1 DEF LiveOnly
  <2>3. Current'.s = z /\ Current'.start = FetchWindow(Current)[1]
    BY <1>3, BeginFetchKeeps
  <2>4. WindowReaches'
    <3>1. CASE candles[z] = {}
      BY <2>1, <2>3, <3>1 DEF WindowReaches
    <3>2. CASE candles[z] # {}
      <4>1. Current'.start = n + z[2]
        BY <2>1, <2>2, <2>3, <3>2, LiveWindow
      <4>2. n \in candles[z] /\ n \in Nat /\ \A b \in candles[z] : b <= n
        BY <1>0, <2>1, <3>2, EndsOfBars DEF IInv, WorkerOK
      <4> HIDE DEF n
      <4>3. \A b \in candles[z] : b + z[2] <= n + z[2]
        <5> SUFFICES ASSUME NEW b \in candles[z] PROVE b + z[2] <= n + z[2]
          OBVIOUS
        <5>1. b \in Nat /\ b <= n /\ z[2] \in Nat
          BY <1>0, <2>1, <4>2
        <5> QED BY <4>2, <5>1
      <4>4. ASSUME NEW t, Aligned(z, t), t \notin candles[z], NEW a \in candles[z], a < t
            PROVE  n + z[2] <= t
        <5>1. ~ (t < n)
          BY <2>1, <4>2, <4>4 DEF Gapless
        <5>2. t \in Nat /\ t % z[2] = 0 /\ n % z[2] = 0 /\ n < t
          BY <2>1, <4>2, <4>4, <5>1 DEF Gapless, Aligned
        <5> QED BY <1>0, <2>1, <4>2, <5>2, NextMultiple
      <4> QED BY <2>1, <2>3, <4>1, <4>3, <4>4 DEF WindowReaches, Aligned
    <3> QED BY <3>1, <3>2
  <2> QED BY <2>1, <2>4 DEF Gapless, BarsFit
<1>4. CASE FetchSucceeds
  <2> DEFINE z == Current.s
             lo == Current.start
             hi == Current.end
  <2>1. /\ Current' = Current /\ z \in Series /\ UNCHANGED <<now, candles>>
        /\ lo \in Int /\ hi \in Int /\ pc = "fetching" /\ pc' = "storing"
    BY <1>0, <1>4, TodoFacts, FetchSucceedsKeeps
       DEF FetchSucceeds, Current, IInv, WorkerOK, InFlight, TypeOK
  <2>2. bars' = Provided(z, <<lo, hi>>)
    BY <1>4 DEF FetchSucceeds, OutagesAreShort
  <2>3. hi <= now
    BY <2>1 DEF LiveOnly
  <2> HIDE DEF z, lo, hi
  <2>4. \A t \in bars' : /\ Aligned(z, t) /\ Align(lo, z) <= t /\ t + z[2] <= hi
                         /\ ~ Synthetic => lo <= t
    BY <1>0, <2>1, <2>2, ProvidedFacts DEF Aligned
  <2>5. Align(lo, z) \in Int /\ Align(lo, z) <= lo /\ lo - z[2] < Align(lo, z) /\ z[2] \in Nat
    BY <2>1, AlignFacts
  <2>6. \A t : (/\ Aligned(z, t) /\ t + z[2] <= hi
                /\ lo <= t \/ (Synthetic /\ Align(lo, z) <= t))
              => t \in bars'
    <3> SUFFICES ASSUME NEW t, Aligned(z, t), t + z[2] <= hi,
                        lo <= t \/ (Synthetic /\ Align(lo, z) <= t)
                 PROVE  t \in Provided(z, <<lo, hi>>)
      BY <2>2
    <3>1. t \in Nat /\ t % z[2] = 0 /\ Align(lo, z) <= t /\ t < hi
      BY <1>0, <2>1, <2>5 DEF Aligned
    <3>2. t \in Buckets(lo, hi, z)
      BY <2>1, <2>5, <3>1 DEF Buckets
    <3>3. CASE Synthetic
      BY <3>1, <3>2, <3>3 DEF Provided, ComputedBars
    <3>4. CASE ~ Synthetic
      <4>1. t + z[2] <= Smaller(hi, now)
        BY <1>0, <2>1, <2>3 DEF Smaller
      <4> QED BY <3>1, <3>2, <3>4, <4>1 DEF Provided, LookedUpBars
    <3> QED BY <3>3, <3>4
  <2>7. \A a \in bars' : \A b \in candles[z] : b < a
    <3> SUFFICES ASSUME NEW a \in bars', NEW b \in candles[z] PROVE b < a
      OBVIOUS
    <3>1. b + z[2] <= lo
      BY <2>1 DEF Gapless, WindowReaches, z, lo
    <3>2. Align(lo, z) <= a /\ a \in Nat /\ b \in Nat
      BY <1>0, <2>1, <2>4 DEF Aligned
    <3> QED BY <2>1, <2>5, <3>1, <3>2
  <2>8. ASSUME NEW b \in bars', NEW t, Aligned(z, t), t < b,
               \/ t \notin candles[z] /\ \E a \in candles[z] : a < t
               \/ \E a \in bars' : a < t
        PROVE  t \in bars'
    <3>1. t + z[2] <= hi
      BY <2>1, <2>4, <2>5, <2>8 DEF Aligned
    <3>2. CASE t \notin candles[z] /\ \E a \in candles[z] : a < t
      <4>1. lo <= t
        BY <2>1, <2>8, <3>2 DEF Gapless, WindowReaches, z, lo
      <4> QED BY <2>6, <2>8, <3>1, <4>1
    <3>3. CASE \E a \in bars' : a < t
      <4>1. PICK a \in bars' : a < t
        BY <3>3
      <4>2. a \in Nat /\ t \in Nat /\ Align(lo, z) <= a /\ (~ Synthetic => lo <= a)
        BY <2>4, <2>8 DEF Aligned
      <4>3. lo <= t \/ (Synthetic /\ Align(lo, z) <= t)
        BY <2>1, <2>5, <4>1, <4>2
      <4> QED BY <2>6, <2>8, <3>1, <4>3
    <3> QED BY <2>8, <3>2, <3>3
  <2>9. BarsFit'
    BY <2>1, <2>4, <2>7, <2>8 DEF BarsFit, Aligned, z
  <2> QED BY <2>1, <2>9 DEF Gapless, WindowReaches
<1>5. CASE Store
  <2> DEFINE z == Current.s
  <2>1. /\ z \in Series /\ pc' \notin {"fetching", "storing"} /\ pc = "storing"
        /\ candles' = [candles EXCEPT ![z] = @ \cup bars]
    BY <1>5, StoreKeeps DEF Store
  <2>2. /\ \A y \in Series : y # z => candles'[y] = candles[y]
        /\ candles'[z] = candles[z] \cup bars
    BY <1>0, <2>1 DEF TypeOK
  <2>3. /\ \A a \in bars : Aligned(z, a) /\ \A b \in candles[z] : b < a
        /\ \A b \in bars : \A t :
             /\ Aligned(z, t) /\ t < b
             /\ \/ t \notin candles[z] /\ \E a \in candles[z] : a < t
                \/ \E a \in bars : a < t
             => t \in bars
    BY <2>1 DEF Gapless, BarsFit
  <2> HIDE DEF z
  <2>4. \A y \in Series : \A t \in candles'[y] : Aligned(y, t)
    BY <2>2, <2>3 DEF Gapless
  <2>5. ASSUME NEW a \in candles'[z], NEW b \in candles'[z], NEW t, Aligned(z, t), a < t, t < b
        PROVE  t \in candles'[z]
    <3>1. CASE b \in bars
      BY <2>2, <2>3, <2>5, <3>1
    <3>2. CASE b \in candles[z] /\ a \in candles[z]
      BY <2>1, <2>2, <2>5, <3>2 DEF Gapless
    <3>3. CASE b \in candles[z] /\ a \in bars
      <4>1. b < a /\ a \in Nat /\ b \in Nat /\ t \in Nat
        BY <1>0, <2>1, <2>3, <2>5, <3>3 DEF Aligned
      <4> QED BY <2>5, <4>1
    <3> QED BY <2>2, <2>5, <3>1, <3>2, <3>3
  <2>6. \A y \in Series : \A a, b \in candles'[y] : \A t :
          Aligned(y, t) /\ a < t /\ t < b => t \in candles'[y]
    <3> SUFFICES ASSUME NEW y \in Series, NEW a \in candles'[y], NEW b \in candles'[y], NEW t,
                        Aligned(y, t), a < t, t < b
                 PROVE  t \in candles'[y]
      OBVIOUS
    <3>1. CASE y = z
      BY <2>5, <3>1
    <3>2. CASE y # z
      BY <2>2, <3>2 DEF Gapless
    <3> QED BY <3>1, <3>2
  <2> QED BY <2>1, <2>4, <2>6 DEF Gapless, WindowReaches, BarsFit, Aligned
<1> QED BY <1>1, <1>2, <1>3, <1>4, <1>5, StepKinds

\* Live ingestion never leaves a hole, if outages are short.
LEMMA HolesNeverAppear ==
  ASSUME IngestAssumption, OutagesAreShort PROVE Spec => []NoHoles
<1>1. Init => Gapless
  BY DEF Init, Gapless, WindowReaches, BarsFit
<1>2. IInv /\ LiveOnly /\ Gapless /\ [Next]_vars => Gapless'
  BY GaplessKept
<1>3. IInv /\ Gapless => NoHoles
  BY GaplessHasNoHoles DEF IInv
<1>4. Spec => []LiveOnly
  BY LiveWindows DEF OutagesAreShort
<1> QED BY <1>1, <1>2, <1>3, <1>4, Invariance, PTL DEF Spec

\* Ingestion is sound: over failures, restarts, configuration changes and
\* backfills the breaker is consistent and a persisted OPEN state is respected but
\* for the last second of its cooldown, which seconds_until_probe cuts off;
\* only closed bars are stored unless bars of the future are asked of a provider
\* that computes them; and live ingestion leaves no hole.
THEOREM IngestionSound == ASSUME IngestAssumption PROVE Spec => []IngestionIsSound
<1>1. IInv => TypeOK /\ BreakerConsistent /\ OpenSurvivesRestart
  BY DEF IInv, OpenIsRespected, OpenSurvivesRestart
<1> DEFINE A == ~ Synthetic \/ Jobs = {}
           B == OutagesAreShort
<1>2. Spec => [](A => OnlyClosedBars)
  <2>1. CASE A
    <3>1. Spec => []OnlyClosedBars
      BY <2>1, OnlyClosed
    <3> HIDE DEF A
    <3> QED BY <3>1, PTL
  <2>2. CASE ~ A
    <3>1. TRUE => (A => OnlyClosedBars)
      BY <2>2
    <3> HIDE DEF A
    <3> QED BY <3>1, PTL
  <2> QED BY <2>1, <2>2
<1>3. Spec => [](B => NoHoles)
  <2>1. CASE B
    <3>1. Spec => []NoHoles
      BY <2>1, HolesNeverAppear
    <3> HIDE DEF B
    <3> QED BY <3>1, PTL
  <2>2. CASE ~ B
    <3>1. TRUE => (B => NoHoles)
      BY <2>2
    <3> HIDE DEF B
    <3> QED BY <3>1, PTL
  <2> QED BY <2>1, <2>2
<1>4. TypeOK /\ BreakerConsistent /\ OpenSurvivesRestart /\ (A => OnlyClosedBars)
        /\ (B => NoHoles) => IngestionIsSound
  BY DEF IngestionIsSound
<1> HIDE DEF A, B
<1> QED BY <1>1, <1>2, <1>3, <1>4, Invariance, PTL
=============================================================================
