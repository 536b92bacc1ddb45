----------------------------- MODULE MCPipeline -----------------------------
(***************************************************************************)
(* Values for the constants of Pipeline.                                   *)
(***************************************************************************)
EXTENDS Pipeline

----------------------------------------------------------------------------
(* Ingestion of candles and of content: two series with failures and       *)
(* restarts; one series with backfills and provider gaps.                  *)

Fast == <<"EURUSD", 1>>
Slow == <<"EURUSD", 2>>
LiveValues ==
  [Series |-> {Fast, Slow}, Universes |-> {<<Fast>>, <<Fast, Slow>>}, History |-> 2, MaxBars |-> 4,
   Threshold |-> 2, Cooldown |-> 2, Second |-> 2, Synthetic |-> FALSE, ProviderGaps |-> FALSE,
   Jobs |-> {}, DrainLimit |-> 1,
   MaxTime |-> 3, MaxJobs |-> 0, MaxFailures |-> 2, MaxErrors |-> 1, MaxCrashes |-> 1]
BackfillValues ==
  [Series |-> {Fast}, Universes |-> {<<Fast>>}, History |-> 2, MaxBars |-> 2,
   Threshold |-> 2, Cooldown |-> 2, Second |-> 2, Synthetic |-> FALSE, ProviderGaps |-> TRUE,
   Jobs |-> {[s |-> Fast, start |-> 0, end |-> 1], [s |-> Fast, start |-> 0, end |-> 4]},
   DrainLimit |-> 1, MaxTime |-> 3, MaxJobs |-> 2, MaxFailures |-> 0, MaxErrors |-> 1, MaxCrashes |-> 1]

AgentsValues ==
  [Symbols |-> {"EURUSD", "GBPUSD"}, Agents |-> {"technical", "regime"}, Lookback |-> 4,
   Multiplier |-> 2, BatchSize |-> 2, MaxBars |-> 2, MaxBackfills |-> 1, MaxErrors |-> 1,
   MaxCrashes |-> 1]

ContentItems == {"cpi", "rates", "story"}
ContentValues ==
  [Items |-> ContentItems, Source |-> [x \in ContentItems |-> IF x = "story" THEN "news" ELSE "calendar"],
   At |-> [cpi |-> 2, rates |-> 6, story |-> 3], Released |-> [cpi |-> 5, rates |-> 6, story |-> 3],
   Lookback |-> [calendar |-> 6, news |-> 4], Interval |-> 2, Before |-> 1, Slot |-> 3,
   MaxTime |-> 10, MaxFaults |-> 2]

----------------------------------------------------------------------------
(* The agents: every vote in every direction, at its bounds, and absent. *)

Band(u, l) == [upper |-> u, lower |-> l]
Day(h, l, c) == [high |-> h, low |-> l, close |-> c]
Stoch(k, d) == [k |-> k, d |-> d]
TechnicalValues ==
  [Diffs |-> {-2, 1}, DeadZones |-> {0, 1}, Bands |-> {NULL, Band(1, -1), Band(0, -1), Band(1, 0)},
   Days |-> {NULL, Day(2, -1, 1), Day(1, -2, -1)}, Rsis |-> {NULL, 300, 500, 690, 700},
   Stochs |-> {NULL, Stoch(150, 300), Stoch(503, 500), Stoch(500, 700)}, Adxs |-> {NULL, 5, 19, 40}]

EURUSD == <<"EUR", "USD">>
GBPUSD == <<"GBP", "USD">>
ReadersValues ==
  [Base |-> "EUR", Quote |-> "USD",
   Events |-> {[cur |-> c, sign |-> g, imp |-> p, dist |-> d] :
                c \in {"EUR", "USD"}, g \in {-1, 0, 1}, p \in {"low", "high"}, d \in {5, 600}},
   Stories |-> {[score |-> g, weight |-> w, pairs |-> ps] :
                 g \in {-1, 1}, w \in {1, 3}, ps \in {<<>>, <<EURUSD>>, <<GBPUSD, EURUSD>>}},
   MaxInputs |-> 2]

----------------------------------------------------------------------------
(* Verdicts, with the default weights, thresholds and caps of the code. *)

W(t, f, s) == [technical |-> t, fundamental |-> f, sentiment |-> s]
DefaultWeights == [trending |-> W(55, 20, 25), unknown |-> W(40, 30, 30)]
DefaultParams == [risk |-> 1, exposure |-> 30, dailyLoss |-> 3, drawdown |-> 10, correlation |-> 15,
                  sl |-> 3, tp |-> 5, minRR |-> 150, equity |-> 10000, enabled |-> TRUE]
V(d, c) == [dir |-> d, conf |-> c]
ManyVotes == {V(0, 0), V(1, 0), V(1, 14), V(1, 17), V(1, 60), V(-1, 14), V(-1, 60), V(-1, 100)}
ManyContexts == {V(0, 0), V(1, 100), V(1, 40), V(-1, 100)}
FreeGate == [exposure |-> 0, correlation |-> 0, triggered |-> FALSE, dailyLoss |-> 0, drawdown |-> 0]
OneRisk == {[atr |-> 2, price |-> 100, gate |-> FreeGate]}

\* Every gate just below, at and just above its limit, and inputs that cannot be sized.
Gates ==
  {[atr |-> a, price |-> p,
    gate |-> [exposure |-> e, correlation |-> c, triggered |-> t, dailyLoss |-> l, drawdown |-> d]] :
      a \in {0, 1, 2}, p \in {0, 100}, e \in {0, 29, 30}, c \in {14, 15}, t \in BOOLEAN,
      l \in {2, 3}, d \in {9, 10}}
TwoVotes == {V(1, 60), V(-1, 60)}
NoContext == {V(0, 0)}

----------------------------------------------------------------------------
(* The decision engine: one pair with a cooldown; two pairs whose account  *)
(* may gain, lose, and lose exactly its drawdown cap.                      *)

Says(d, c) == [technical |-> V(d, c), fundamental |-> V(d, c), sentiment |-> V(d, c)]
Baskets == [EURUSD |-> {"EUR", "USD"}, GBPUSD |-> {"GBP", "USD"}]

SpacingValues ==
  [PairOrder |-> <<<<"EURUSD", "H1">>>>, Foreign |-> {}, TfOrder |-> <<"H1">>, TfLen |-> [H1 |-> 1],
   Basket |-> Baskets, Bulletins |-> {Says(1, 60), Says(1, 2)}, Regime |-> "unknown", Atr |-> 2,
   Price |-> 100, Cooldown |-> 3, DayLen |-> 4,
   Outcomes |-> {0}, EntryCost |-> 0, SnapshotInterval |-> 100, MaxTime |-> 5, MaxReports |-> 2,
   MaxTriggers |-> 1, MaxReplays |-> 1, MaxFaults |-> 0]
LedgerValues ==
  [PairOrder |-> <<<<"EURUSD", "H1">>, <<"GBPUSD", "H1">>>>, Foreign |-> {<<"AUDNZD", "H1">>},
   TfOrder |-> <<"H1">>, TfLen |-> [H1 |-> 1],
   Basket |-> Baskets, Bulletins |-> {Says(1, 60)}, Regime |-> "unknown", Atr |-> 2,
   Price |-> 100, Cooldown |-> 0, DayLen |-> 2,
   Outcomes |-> {-990, 200}, EntryCost |-> 10, SnapshotInterval |-> 0, MaxTime |-> 3, MaxReports |-> 2,
   MaxTriggers |-> 1, MaxReplays |-> 0, MaxFaults |-> 0]

----------------------------------------------------------------------------
(* The backtest: one symbol that trades; two symbols on two timeframes     *)
(* with gaps, faults and kills.                                            *)

PricesValues ==
  [Symbols |-> <<"EURUSD">>, Bars |-> 4, Ratio |-> 0, Warmup |-> 1, Prices |-> 1 .. 3,
   MaxFaults |-> 0, MayDie |-> FALSE]
CoverageValues ==
  [Symbols |-> <<"EURUSD", "GBPUSD">>, Bars |-> 3, Ratio |-> 2, Warmup |-> 1, Prices |-> {2},
   MaxFaults |-> 1, MayDie |-> TRUE]

ASSUME
  /\ Live!IngestAssumption /\ Backfill!IngestAssumption
  /\ Live!OutagesAreShort
  /\ AgentsOf!AgentsAssumption /\ AgentsOf!HistoryFits
  /\ ContentOf!ContentAssumption
  /\ Technical!TechnicalAssumption /\ Readers!ReadersAssumption
  /\ InputsAssumption /\ Risks!InputsAssumption
  /\ Spacing!EngineAssumption /\ Ledger!EngineAssumption /\ SpacingSetup.Cooldown > 0 /\ Params.risk > 0
  /\ PricedRun!BacktestAssumption /\ PricedRun!DistinctSymbols /\ GappyRun!BacktestAssumption
=============================================================================
