------------------------------ MODULE DecisionEngine ------------------------------
(***************************************************************************)
(* The decision pipeline of the active orchestrator                          *)
(* (backend/app/workers/orchestrator_worker.py, decisions/engine.py):         *)
(* signal.emitted triggers and periodic scans name pairs; for each pair one    *)
(* transaction reads the persisted signals and the paper ledger, decides, and  *)
(* stores the decision, its risk evaluation and, for PAPER, a pending order;   *)
(* after the commit decision.emitted and alert.risk_brake are published.       *)
(*                                                                         *)
(* A pair is <<symbol, timeframe>>.  Bar b of a timeframe of length n starts   *)
(* at b * n and closes at (b + 1) * n ticks.  The agents write the signals of  *)
(* a bar together (agent_worker.py), so a bar has one set of votes and one      *)
(* place in the order of created_at.  The ledger is its orders, the position   *)
(* of each symbol, the net results booked per day and the account snapshots,   *)
(* the only memory the account has of its equity and drawdown.  What a bar     *)
(* does to the orders and positions of a symbol is PaperLedger's subject; here *)
(* any outstanding bar may be the next and have any outcome.                   *)
(***************************************************************************)
EXTENDS RiskGate, Sequences, SequencesExt

CONSTANTS
    PairOrder,      \* the configured pairs, in the order of a scan
    Foreign,        \* pairs a trigger may name that are not configured
    TfOrder,        \* the configured timeframes, by rank
    TfLen,          \* timeframe |-> ticks per bar
    Basket,         \* symbol |-> its two currencies
    Bulletins,      \* what the directional agents may report for a bar
    Regime,         \* the regime the regime agent reports
    Atr, Price,     \* what _resolve_atr_price finds
    Cooldown,       \* orch_pair_cooldown_seconds, in ticks
    DayLen,         \* ticks per UTC day
    Outcomes,       \* the net results a position may have, at its exit or when it is marked
    EntryCost,      \* the cost of a fill
    SnapshotInterval, \* paper_snapshot_interval_seconds, in ticks; 0: not set
    MaxTime,        \* bound: the clock stops here
    MaxReports,     \* bound on reported bars
    MaxTriggers,    \* bound on unread triggers
    MaxReplays,     \* bound on administrative replays
    MaxFaults       \* bound on failed transactions, failed publications and crashes

Pairs == ToSet(PairOrder)
Symbols == {p[1] : p \in Pairs}
Buckets == 0..MaxTime
Keys == Pairs \X Buckets
Len1(p) == TfLen[p[2]]

EngineAssumption ==
    /\ \A p \in Pairs : Len1(p) \in Nat \ {0}
    /\ PairOrder \in Seq(Pairs) /\ TfOrder \in Seq(ToSet(TfOrder))
    /\ {Atr, Price, Cooldown, MaxTime, MaxReports, MaxFaults} \subseteq Nat
    /\ DayLen \in Nat \ {0} /\ Outcomes \subseteq Int
    /\ {EntryCost, SnapshotInterval} \subseteq Nat
    /\ Bulletins \subseteq [DirectionalAgents -> [dir : {-1, 0, 1}, conf : Percent]]

VARIABLES
    now,            \* the clock
    signals,        \* agent_signals: a key |-> [votes, created]
    decisions,      \* the decisions table: a key |-> a row
    orders,         \* paper_orders: a sequence of [key, side, notional, state]
    position,       \* symbol |-> [side, notional, since, held]; side 0 is no position
    realized,       \* day |-> the sum of net_pnl of the positions closed by its bars
    snapshots,      \* account_snapshots: a sequence of [ts, cash, equity, peak, drawdown]
    triggers,       \* signals.stream beyond the group's last delivered entry
    todo,           \* the pairs of the batch or scan in progress
    pc,             \* where the worker is: idle, batch, emit, brake or down
    scanning,       \* whether the work in progress is a scan
    result,         \* the DecideResult whose events are to be published
    events,         \* the decision.emitted events published: [key, status]
    replays,        \* administrative replays so far
    faults          \* faults so far

store == <<signals, decisions>>
ledger == <<orders, position, realized, snapshots>>
work == <<todo, pc, scanning, result>>
vars == <<now, store, ledger, triggers, work, events, replays, faults>>

Days == 0..(MaxTime \div DayLen)
NoResult == [key |-> <<>>, status |-> "none"]
NoPosition == [side |-> 0, notional |-> 0, since |-> 0, held |-> {}]

Init ==
    /\ now = 0 /\ signals = <<>> /\ decisions = <<>> /\ orders = <<>>
    /\ position = [s \in Symbols |-> NoPosition]
    /\ realized = [d \in Days |-> 0] /\ snapshots = <<>>
    /\ triggers = <<>> /\ todo = <<>> /\ pc = "idle" /\ scanning = FALSE
    /\ result = NoResult /\ events = {} /\ replays = 0 /\ faults = 0

-----------------------------------------------------------------------------------
(* What a decision reads.                                                          *)

\* valid_until_for: a signal lives for 2 bars from the start of its bar, the regime agent's for 4.
FreshUntil(agent, p, b) == (b + (IF agent = "regime" THEN 4 ELSE 2)) * Len1(p)

\* load_latest_per_agent: the newest row of an agent is the one created last.
ReportedBars(p) == {k[2] : k \in {j \in DOMAIN signals : j[1] = p}}
LatestBar(p) == CHOOSE b \in ReportedBars(p) :
                    \A c \in ReportedBars(p) : signals[<<p, c>>].created <= signals[<<p, b>>].created
FreshAgents(p) == IF ReportedBars(p) = {} THEN {}
                  ELSE {a \in AgentFamilies : now <= FreshUntil(a, p, LatestBar(p))}
FreshSignals(p) == [a \in FreshAgents(p) |-> IF a = "regime" THEN [dir |-> 0, conf |-> 100]
                                             ELSE signals[<<p, LatestBar(p)>>].votes[a]]

\* A decision is valid for 4 bars from the start of its bar.
ValidUntil(k) == (k[2] + 4) * Len1(k[1])

\* Mutant: a decision is looked for by the age of its bar alone.
LatestDecisionNoSlack(p, since) ==
    LET valid == {k \in DOMAIN decisions : k[1] = p /\ ValidUntil(k) >= now}
    IN  {k \in valid : \A j \in valid : decisions[j].order <= decisions[k].order}

\* load_latest_decision: of the decisions of a pair valid at since, the one decided last.
LatestDecision(p, since) ==
    LET valid == {k \in DOMAIN decisions : k[1] = p /\ ValidUntil(k) >= since}
    IN  {k \in valid : \A j \in valid : decisions[j].order <= decisions[k].order}

\* _parent_context: the decision of the nearest larger timeframe that has a valid one.
Rank(tf) == CHOOSE i \in DOMAIN TfOrder : TfOrder[i] = tf
Parents(p) == {i \in DOMAIN TfOrder : i > Rank(p[2]) /\ LatestDecision(<<p[1], TfOrder[i]>>, now) # {}}
ParentKey(p) == CHOOSE k \in LatestDecision(<<p[1], TfOrder[Min(Parents(p))]>>, now) : TRUE
ParentContext(p) ==
    IF Parents(p) = {} THEN [dir |-> 0, conf |-> 0]
    ELSE [dir |-> decisions[ParentKey(p)].dir, conf |-> decisions[ParentKey(p)].conf]

\* restore_state: the account as the latest snapshot has it, or as it starts.
Account ==
    IF snapshots = <<>>
    THEN [ts |-> 0, cash |-> Params.equity, equity |-> Params.equity, peak |-> Params.equity, drawdown |-> 0]
    ELSE snapshots[Len(snapshots)]

\* build_ledger_gate: open positions only, LONG ones for the basket; shares of the equity; the day's
\* loss by the rows of the positions closed, the drawdown by the account.
Loss(net) == IF net < 0 THEN 0 - net ELSE 0
Touching(s) == {t \in Symbols : position[t].side = 1 /\ Basket[t] \cap Basket[s] # {}}
Notional(S) == MapThenSumSet(LAMBDA t : position[t].notional, S)
LedgerGate(s) ==
    [exposure    |-> (100 * Notional(Symbols)) \div Account.equity,
     correlation |-> (100 * Notional(Touching(s))) \div Account.equity,
     triggered   |-> Touching(s) # {},
     dailyLoss   |-> (100 * Loss(realized[now \div DayLen])) \div Account.equity,
     drawdown    |-> Account.drawdown]

Inputs(p) ==
    [signals |-> FreshSignals(p), regime |-> Regime, context |-> ParentContext(p),
     atr |-> Atr, price |-> Price, gate |-> LedgerGate(p[1])]

\* DecideResult: the outcome of compute_decision, with the pair and bar it is about.
About(key, v) == [key |-> key, action |-> v.action, status |-> v.status, veto |-> v.veto,
                  fused |-> v.fused, sizing |-> v.sizing]

\* decide, after process_pair found the pair configured: the verdict on the latest bar, with the
\* cooldown applied to a paper intent.  Without fresh signals nothing is decided.
Decided(p) ==
    IF p \notin Pairs \/ FreshAgents(p) = {}
    THEN About(<<p, 0>>, Skip("no_directional_votes", NoVotes))
    ELSE LET v == About(<<p, LatestBar(p)>>, ComputeDecision(Inputs(p)))
         IN  IF v.status = "PAPER" /\ Cooldown > 0 /\ LatestDecision(p, now - Cooldown) # {}
             THEN [v EXCEPT !.status = "ANALYSIS", !.veto = "cooldown"]
             ELSE v

-----------------------------------------------------------------------------------
(* The environment: the agents, the administrator, the paper lifecycle, the clock. *)

\* The agent worker commits the signals of a closed bar and publishes their trigger; a replayed
\* bar changes nothing in the table.  Bars need not be reported in their order (backfills).
AgentsReport(p, b, votes) ==
    /\ (b + 1) * Len1(p) <= now /\ <<p, b>> \notin DOMAIN signals
    /\ Cardinality(DOMAIN signals) < MaxReports /\ Len(triggers) < MaxTriggers
    /\ signals' = [k \in DOMAIN signals \cup {<<p, b>>} |->
                      IF k \in DOMAIN signals THEN signals[k]
                      ELSE [votes |-> votes, created |-> Cardinality(DOMAIN signals)]]
    /\ triggers' = Append(triggers, p)
    /\ UNCHANGED <<now, decisions, ledger, work, events, replays, faults>>

\* replay_decision: an administrator publishes a trigger for any pair.
ReplayDecision(p) ==
    /\ replays < MaxReplays /\ Len(triggers) < MaxTriggers
    /\ triggers' = Append(triggers, p)
    /\ replays' = replays + 1
    /\ UNCHANGED <<now, store, ledger, work, events, faults>>

\* candidates_for_bar: the pending orders of a pair whose fill bar is b, the one after their own.
DueOrders(p, b) ==
    {i \in DOMAIN orders : orders[i].state = "pending" /\ orders[i].key = <<p, b - 1>>}

\* arbitrate_fills: the first of them that is not on the side already held is filled.
Filled(p, b) ==
    LET acts == {i \in DueOrders(p, b) : orders[i].side # position[p[1]].side}
    IN  {i \in acts : \A j \in acts : i <= j}

\* The position of the symbol after the open of the bar.
AtOpen(p, b) ==
    IF Filled(p, b) = {} THEN position[p[1]]
    ELSE LET i == CHOOSE j \in Filled(p, b) : TRUE
         IN  [side |-> orders[i].side, notional |-> orders[i].notional, since |-> b * Len1(p), held |-> {}]
Flips(p, b) == Filled(p, b) # {} /\ position[p[1]].side # 0

\* _outstanding_stamps: a closed bar at or after the first anchor, which is the fill bar of a pending
\* order or the entry of the symbol's open position, of whatever timeframe.
Anchors(p) ==
    {(orders[i].key[2] + 1) * Len1(p) :
        i \in {j \in DOMAIN orders : orders[j].state = "pending" /\ orders[j].key[1] = p}}
    \cup (IF position[p[1]].side = 0 THEN {} ELSE {position[p[1]].since})
Outstanding(p, b) ==
    /\ (b + 1) * Len1(p) <= now
    /\ \E a \in Anchors(p) : a <= b * Len1(p)

\* _snapshot_due: none exists at or after the bar, nor within the interval before it.
SnapshotDue(ts) ==
    snapshots = <<>> \/ (ts > Account.ts /\ ts >= Account.ts + SnapshotInterval)

\* Mutant: the drawdown of the moment, not the largest so far.
SnapshotForgetting(ts, cash, equity) ==
    LET peak == IF equity > Account.peak THEN equity ELSE Account.peak
    IN  [ts |-> ts, cash |-> cash, equity |-> equity, peak |-> peak,
         drawdown |-> (100 * (peak - equity)) \div peak]

\* equity_snapshot and state: the peak and the largest drawdown are kept with the equity.
SnapshotOf(ts, cash, equity) ==
    LET peak == IF equity > Account.peak THEN equity ELSE Account.peak
        fall == (100 * (peak - equity)) \div peak
    IN  [ts |-> ts, cash |-> cash, equity |-> equity, peak |-> peak,
         drawdown |-> IF fall > Account.drawdown THEN fall ELSE Account.drawdown]

\* What the open does to the orders, what the close does to the position: it exits, or is left open.
OrdersAfter(p, b) ==
    [i \in DOMAIN orders |->
        IF i \notin DueOrders(p, b) THEN orders[i]
        ELSE [orders[i] EXCEPT !.state = IF i \in Filled(p, b) THEN "filled" ELSE "cancelled"]]
PositionAfter(p, b, exits) ==
    IF exits \/ AtOpen(p, b).side = 0 THEN NoPosition
    ELSE [AtOpen(p, b) EXCEPT !.held = @ \cup {<<p, b>>}]

\* The results of the positions the bar closes, and the cash they leave: that of the latest snapshot
\* and what the bar adds to it.
Booked(p, b, flip, out, exits) ==
    (IF Flips(p, b) THEN flip ELSE 0) + (IF exits THEN out ELSE 0)
CashAfter(p, b, booked) ==
    Account.cash + booked - (IF Filled(p, b) # {} THEN EntryCost ELSE 0)
SnapshotsAfter(p, b, cash, equity) ==
    IF AtOpen(p, b).side # 0 /\ SnapshotDue(b * Len1(p))
    THEN Append(snapshots, SnapshotOf(b * Len1(p), cash, equity)) ELSE snapshots

\* At its close the position may exit, unless the same close has left it open before, or is marked;
\* the closed positions' results go to their rows, by the start of the bar.  Bound: the account
\* stays solvent.
Settles(p, b, flip, out, exits) ==
    LET booked == Booked(p, b, flip, out, exits)
        cash   == CashAfter(p, b, booked)
        equity == cash + (IF AtOpen(p, b).side # 0 /\ ~exits THEN out ELSE 0)
    IN  /\ exits => AtOpen(p, b).side # 0 /\ <<p, b>> \notin AtOpen(p, b).held
        /\ equity > 0
        /\ position' = [position EXCEPT ![p[1]] = PositionAfter(p, b, exits)]
        /\ realized' = [realized EXCEPT ![(b * Len1(p)) \div DayLen] = @ + booked]
        /\ snapshots' = SnapshotsAfter(p, b, cash, equity)

\* process_unit_bar and its commit: at the open a due order is filled, which closes an opposite
\* position, then the bar closes.
LifecycleBar(p, b) ==
    /\ pc = "idle" /\ Outstanding(p, b)
    /\ orders' = OrdersAfter(p, b)
    /\ \E flip, out \in Outcomes, exits \in BOOLEAN : Settles(p, b, flip, out, exits)
    /\ UNCHANGED <<now, store, triggers, work, events, replays, faults>>

\* A fill bar that closed is missing (missing_bar_candidates), or the decision is past its window
\* (_cancel_expired_pending).
LifecycleCancels(i) ==
    /\ pc = "idle" /\ orders[i].state = "pending"
    /\ (orders[i].key[2] + 2) * Len1(orders[i].key[1]) <= now
    /\ orders' = [orders EXCEPT ![i].state = "cancelled"]
    /\ UNCHANGED <<now, store, position, realized, snapshots, triggers, work, events, replays, faults>>

Tick ==
    /\ now < MaxTime
    /\ now' = now + 1
    /\ UNCHANGED <<store, ledger, triggers, work, events, replays, faults>>

-----------------------------------------------------------------------------------
(* The worker.                                                                     *)

\* poll_once: the unread triggers are delivered; each pair is processed once per batch.
Poll ==
    /\ pc = "idle" /\ triggers # <<>>
    /\ todo' = FoldLeft(LAMBDA s, p : IF p \in ToSet(s) THEN s ELSE Append(s, p), <<>>, triggers)
    /\ triggers' = <<>>
    /\ pc' = "batch" /\ scanning' = FALSE
    /\ UNCHANGED <<now, store, ledger, result, events, replays, faults>>

\* Mutant: the scan leaves out the first configured pair.
ScanAllButOne ==
    /\ pc = "idle"
    /\ todo' = Tail(PairOrder)
    /\ pc' = "batch" /\ scanning' = TRUE
    /\ UNCHANGED <<now, store, ledger, triggers, result, events, replays, faults>>

\* scan_all, every SCAN_EVERY_CYCLES cycles of the loop.
ScanAll ==
    /\ pc = "idle"
    /\ todo' = PairOrder
    /\ pc' = "batch" /\ scanning' = TRUE
    /\ UNCHANGED <<now, store, ledger, triggers, result, events, replays, faults>>

\* The batch is acknowledged (poll_once) or the scan returns.
EndBatch ==
    /\ pc = "batch" /\ todo = <<>>
    /\ pc' = "idle" /\ scanning' = FALSE
    /\ UNCHANGED <<now, store, ledger, triggers, todo, result, events, replays, faults>>

Row(v) == [dir |-> v.fused.dir,
           conf |-> Min({100, (IF v.fused.num < 0 THEN -v.fused.num ELSE v.fused.num) \div v.fused.den}),
           status |-> v.status, veto |-> v.veto, order |-> Cardinality(DOMAIN decisions), when |-> now,
           today |-> realized[now \div DayLen], seen |-> Len(snapshots),
           parent |-> IF Parents(v.key[1]) = {} THEN "none" ELSE decisions[ParentKey(v.key[1])].status]

\* Mutant: the last writer wins.
SaveDecisionOverwriting(v) ==
    decisions' = [k \in DOMAIN decisions \cup {v.key} |-> IF k = v.key THEN Row(v) ELSE decisions[k]]

\* save_decision: the first writer of a key wins.
SaveDecision(v) ==
    decisions' = [k \in DOMAIN decisions \cup {v.key} |->
                     IF k \in DOMAIN decisions THEN decisions[k] ELSE Row(v)]

NewOrder(v) == [key |-> v.key, side |-> v.fused.dir, notional |-> v.sizing.units * Price, state |-> "pending"]

\* Mutant: a replayed PAPER verdict sponsors an order, too.
SponsorOnReplay(v) ==
    orders' = IF v.status # "ANALYSIS" /\ v.sizing.units > 0 THEN Append(orders, NewOrder(v)) ELSE orders

\* _sponsor_paper_order, _wire_paper_decision and the broker's refusal: only for a PAPER decision
\* this transaction stored, with a size, and no open position of the same side.
SponsorPaperOrder(v) ==
    orders' = IF /\ v.status = "PAPER" /\ v.key \notin DOMAIN decisions
                 /\ v.sizing.units > 0 /\ position[v.key[1][1]].side # v.fused.dir
              THEN Append(orders, NewOrder(v)) ELSE orders

\* Mutant: only a decision this transaction stored is announced.
AfterCommitOnce(v) ==
    IF v.key \in DOMAIN decisions THEN todo' = Tail(todo) /\ UNCHANGED <<pc, result>>
    ELSE result' = [key |-> v.key, status |-> v.status] /\ pc' = "emit" /\ UNCHANGED todo

\* What is persisted, a replay as well, is to be announced after the commit, as computed now.
AfterCommit(v) ==
    result' = [key |-> v.key, status |-> v.status] /\ pc' = "emit" /\ UNCHANGED todo

\* process_pair, up to its commit.  A pair that is not configured is skipped, as is a verdict
\* that is not persisted.
ProcessPair ==
    /\ pc = "batch" /\ todo # <<>>
    /\ \E v \in {Decided(Head(todo))} :
           IF v.action = "PERSIST"
           THEN /\ SaveDecision(v)
                /\ SponsorPaperOrder(v)
                /\ AfterCommit(v)
           ELSE /\ todo' = Tail(todo)
                /\ UNCHANGED <<decisions, orders, result, pc>>
    /\ UNCHANGED <<now, signals, position, realized, snapshots, triggers, scanning, events, replays, faults>>

Stopped == pc' = "down" /\ todo' = <<>> /\ scanning' = FALSE

\* An exception leaves process_pair: a batch goes on with the next pair and acknowledges this
\* one's trigger, a scan ends the runtime loop.
Raises ==
    /\ IF scanning THEN Stopped ELSE pc' = "batch" /\ todo' = Tail(todo) /\ UNCHANGED scanning
    /\ result' = NoResult

\* The transaction fails and is rolled back.
ProcessFails ==
    /\ pc = "batch" /\ todo # <<>> /\ faults < MaxFaults
    /\ Raises
    /\ faults' = faults + 1
    /\ UNCHANGED <<now, store, ledger, triggers, events, replays>>

\* _emit_decision, for a replay as well.
EmitDecision ==
    /\ pc = "emit"
    /\ events' = events \cup {result}
    /\ result' = NoResult
    /\ IF result.status = "BLOCKED" THEN pc' = "brake" /\ UNCHANGED todo
       ELSE pc' = "batch" /\ todo' = Tail(todo)
    /\ UNCHANGED <<now, store, ledger, triggers, scanning, replays, faults>>

\* The publication fails: the decision is committed and its event is not published.
EmitFails ==
    /\ pc = "emit" /\ faults < MaxFaults
    /\ Raises
    /\ faults' = faults + 1
    /\ UNCHANGED <<now, store, ledger, triggers, events, replays>>

\* _emit_risk_brake_alert, whose failure is swallowed.
EmitRiskBrakeAlert ==
    /\ pc = "brake"
    /\ pc' = "batch" /\ todo' = Tail(todo)
    /\ UNCHANGED <<now, store, ledger, triggers, scanning, result, events, replays, faults>>

\* The process dies.  What was delivered and not acknowledged is never read again: poll_once asks
\* for new entries only.
Crash ==
    /\ pc # "down" /\ faults < MaxFaults
    /\ Stopped /\ result' = NoResult
    /\ faults' = faults + 1
    /\ UNCHANGED <<now, store, ledger, triggers, events, replays>>

Restart ==
    /\ pc = "down"
    /\ pc' = "idle"
    /\ UNCHANGED <<now, store, ledger, triggers, todo, scanning, result, events, replays, faults>>

Environment ==
    \/ \E p \in Pairs, b \in Buckets, v \in Bulletins : AgentsReport(p, b, v)
    \/ \E p \in Pairs \cup Foreign : ReplayDecision(p)
    \/ \E p \in Pairs, b \in Buckets : LifecycleBar(p, b)
    \/ \E i \in DOMAIN orders : LifecycleCancels(i)
    \/ Tick
Loop == Poll \/ EndBatch \/ EmitDecision \/ EmitRiskBrakeAlert \/ Restart
Faults == ProcessFails \/ EmitFails \/ Crash
Next == Environment \/ Loop \/ ProcessPair \/ ScanAll \/ Faults

\* ProcessPair is enabled as long as pairs are left in a batch, and each takes one: that batches
\* end is its weak fairness.
BatchDone == ~(pc = "batch" /\ todo # <<>>)

\* The loop runs as long as the process does, is restarted, and reaches its scan.
Fairness ==
    /\ WF_vars(Loop) /\ WF_vars(Tick) /\ SF_vars(ScanAll)
    /\ []<>BatchDone
Spec == Init /\ [][Next]_vars
FairSpec == Spec /\ Fairness

-----------------------------------------------------------------------------------
\* Every variable has its type.
TypeOK ==
    /\ now \in 0..MaxTime
    /\ DOMAIN signals \subseteq Keys /\ DOMAIN decisions \subseteq DOMAIN signals
    /\ \A k \in DOMAIN decisions :
        /\ decisions[k].dir \in {-1, 1} /\ decisions[k].status \in {"ANALYSIS", "PAPER", "BLOCKED"}
        /\ decisions[k].conf \in Threshold..100
    /\ pc \in {"idle", "batch", "emit", "brake", "down"}
    /\ ToSet(todo) \subseteq Pairs \cup Foreign /\ faults \in 0..MaxFaults

\* A decision is final: later signals, replays, scans and restarts never change or remove a row
\* (save_decision).
DecisionIsFinal ==
    [][\A k \in DOMAIN decisions : k \in DOMAIN decisions' /\ decisions'[k] = decisions[k]]_vars

\* Redelivered triggers, scans and restarts never give a decision a second order, and only a
\* PAPER decision has one, on its own side (_wire_paper_decision).
OneOrderPerDecision ==
    /\ \A i, j \in DOMAIN orders : orders[i].key = orders[j].key => i = j
    /\ \A i \in DOMAIN orders :
        /\ orders[i].key \in DOMAIN decisions
        /\ decisions[orders[i].key].status = "PAPER" /\ decisions[orders[i].key].dir = orders[i].side

\* Two PAPER decisions of a pair are further apart than the cooldown, whatever the order in which
\* their bars were reported (decide).
PapersAreSpaced ==
    \A j, k \in DOMAIN decisions :
        /\ j[1] = k[1] /\ decisions[j].status = "PAPER" /\ decisions[k].status = "PAPER"
        /\ decisions[j].order < decisions[k].order
        => decisions[j].when + Cooldown < decisions[k].when

\* The equity of the i-th snapshot; the account starts with that of Params.
EquityAt(i) == IF i = 0 THEN Params.equity ELSE snapshots[i].equity

\* While the day's closed positions have lost the daily cap no decision is PAPER, and none ever after
\* two snapshots between which the account fell by the drawdown cap, whatever it recovered since
\* (build_ledger_gate, restore_state, assess).
LossesStopPaper ==
    \A k \in DOMAIN decisions : decisions[k].status = "PAPER" =>
        /\ 100 * Loss(decisions[k].today) < Params.dailyLoss * EquityAt(decisions[k].seen)
        /\ \A i, j \in 0..decisions[k].seen : i < j =>
            100 * (EquityAt(i) - EquityAt(j)) < Params.drawdown * EquityAt(i)

\* A pair whose latest signals are fresh and call for a decision gets one for that bar, however
\* its triggers were lost, unless newer signals arrive, the signals expire or the ledger changes the verdict
\* (scan_all: "recover from missed triggers").
Calls(p) == Decided(p).action = "PERSIST" /\ Decided(p).key \notin DOMAIN decisions
MissedTriggersRecovered == \A p \in Pairs : []<>~Calls(p)

\* The decision a scan would find again: stored, and what the latest signals call for.
Announces(p) == Decided(p).action = "PERSIST" /\ Decided(p).key \in DOMAIN decisions

\* A stored decision is announced, also when the process died or the publication failed after the
\* commit, unless its signals expire or are superseded first: a scan finds the pair and announces
\* the replay (process_pair).
DecisionIsAnnounced ==
    \A p \in Pairs :
        []<>(Announces(p) => \E e \in events : e.key = Decided(p).key)

-----------------------------------------------------------------------------------
\* Not guaranteed by the code (README, "Known deviations").
\* config.py: "Per-pair cooldown between PAPER decisions (seconds)".  A decision is refused by
\* the cooldown only if a PAPER decision of the pair was taken within it.
CooldownFollowsPaper ==
    \A k \in DOMAIN decisions : decisions[k].veto = "cooldown" =>
        \E j \in DOMAIN decisions :
            /\ j[1] = k[1] /\ decisions[j].status = "PAPER"
            /\ decisions[j].order < decisions[k].order /\ decisions[j].when + Cooldown >= decisions[k].when

\* Not guaranteed by the code (README, "Known deviations").
\* admin.py: "a replayed trigger is idempotent: a fresh decision for the same (symbol, timeframe,
\* bucket) is a no-op".  A decision event states what the stored decision states.
EventMatchesDecision ==
    \A e \in events : e.key \in DOMAIN decisions /\ decisions[e.key].status = e.status

\* Not guaranteed by the code (README, "Known deviations").
\* fusion.py: "The context only uses a direction produced by a prior (risk-validated) decision".
ContextIsRiskValidated ==
    \A k \in DOMAIN decisions : decisions[k].parent \in {"none", "PAPER"}

\* Not guaranteed by the code (README, "Known deviations").
\* risk.py: "total open paper notional must stay under the cap".
ExposureUnderCap == 100 * Notional(Symbols) <= Params.exposure * Account.equity

\* Not guaranteed by the code (README, "Known deviations").
\* ledger_gate.py: "risk gates are computed from the actual paper ledger".  The account that equity
\* and drawdown are those of has paid for every loss that is booked.
AccountKnowsLosses ==
    Account.cash <= Params.equity + MapThenSumSet(LAMBDA d : realized[d], Days)

================================================================================
