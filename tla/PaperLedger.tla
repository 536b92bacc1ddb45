---------------------------- MODULE PaperLedger ----------------------------
(***************************************************************************)
(* The paper-trading ledger (orders_paper, positions, account_snapshots)   *)
(* and the lifecycle pass that the orchestrator drives over it:            *)
(*                                                                         *)
(*   backend/app/workers/orchestrator_worker.py   process_lifecycle, ...   *)
(*   backend/app/broker/lifecycle.py              process_unit_bar, ...    *)
(*   backend/app/broker/ledger.py, paper.py, positions.py, store.py        *)
(*                                                                         *)
(* One orchestrator is the only writer of the ledger; the ingest worker    *)
(* stores candles while a pass is under way; a pass may fail in one unit,  *)
(* or the process may die, between any two commits.  The in-memory broker  *)
(* is rebuilt from the tables before every unit-bar (restore_state), so it *)
(* is not a variable: only what a pass holds across commits is.            *)
(***************************************************************************)
EXTENDS Integers, FiniteSets

CONSTANTS
  Units,            \* (symbol, timeframe) pairs, numbered in their sort order
  SymbolOf,         \* the symbol of a unit
  TfSeconds,        \* the length of a unit's bars
  Bars,             \* the [open, close] a stored bar may have
  Brackets,         \* the [side, sl, tp] the risk evaluation may size
  Cost,             \* cost of one entry or one exit (cost_per_unit * units)
  StartEquity,      \* risk_paper_equity
  MaxBars,          \* paper_catchup_max_bars
  SnapshotInterval, \* paper_snapshot_interval_seconds, 0 for None
  Backfill,         \* may a forced backfill store bars older than the newest
  MaxTime,          \* bound: the last instant of the clock
  MaxDecisions,     \* bound: PAPER decisions taken
  MaxFailures,      \* bound: failed units, failed sweeps and crashes
  NULL

Sides    == {"LONG", "SHORT"}
Stamps   == 0 .. MaxTime
Symbols  == {SymbolOf[u] : u \in Units}
Optional == Int \cup {NULL}

ASSUME UnitsAssumption ==
  /\ Units \subseteq Int
  /\ TfSeconds \in [Units -> Nat \ {0}]
  /\ DOMAIN SymbolOf = Units

ASSUME RowsAssumption ==
  /\ Bars \subseteq [open : Int, close : Int]
  /\ Brackets \subseteq [side : Sides, sl : Optional, tp : Optional]

ASSUME NumbersAssumption ==
  /\ Cost \in Nat
  /\ StartEquity \in Int
  /\ MaxBars \in Int
  /\ SnapshotInterval \in Nat
  /\ Backfill \in BOOLEAN
  /\ MaxTime \in Nat
  /\ MaxDecisions \in Nat
  /\ MaxFailures \in Nat

VARIABLES
  clock,      \* wall-clock time
  candles,    \* candles[u][ts]: the stored closed bar, or NULL
  decided,    \* decisions already persisted, <<unit, bucket>>
  orders,     \* orders[d]: the orders_paper row of decision d, or NULL
  positions,  \* positions[d]: the positions row filled from order d, or NULL
  snapshot,   \* the latest account_snapshots row, or NULL
  pc,         \* where the lifecycle pass is: "idle", "cycle" or "bars"
  queue,      \* units of this pass that are still to be processed
  unit,       \* the unit whose bars are being processed, or NULL
  cands,      \* the candidates that unit's session loaded
  window,     \* the stamps of that unit still to be processed
  failures    \* failures and crashes so far

tables == <<decided, orders, positions, snapshot>>
pass   == <<pc, queue, unit, cands, window>>
vars   == <<clock, candles, tables, pass, failures>>

----------------------------------------------------------------------------
(* Decisions and rows.  A decision is unique per (symbol, timeframe,       *)
(* bucket) and sponsors at most one order (uq_orders_paper_decision_id),   *)
(* so an order is named by its decision, and a position by its order.      *)

Decisions == Units \X Stamps

DecisionSymbol(d) == SymbolOf[d[1]]

OrderRow ==
  [side : Sides, sl : Optional, tp : Optional,
   status : {"PENDING", "FILLED", "CANCELLED"}]

PositionRow ==
  [side : Sides, sl : Optional, tp : Optional, entry_ts : Int,
   entry_price : Int, costs : Int, status : {"OPEN", "CLOSED"},
   exit_ts : Optional, exit_price : Optional, net_pnl : Optional,
   exit_reason : {"none", "stop_loss", "take_profit", "signal"}]

SnapshotRow == [ts : Int, cash : Int, equity : Int, peak_equity : Int]

ASSUME NullAssumption ==
  NULL \notin Int \cup Bars \cup OrderRow \cup PositionRow \cup SnapshotRow

\* lifecycle.fill_stamp: the decision's bucket plus the order's timeframe.
FillStamp(d) == d[2] + TfSeconds[d[1]]

\* DecisionEngine.decide: a decision is valid for four bars.
ValidUntil(d) == d[2] + 4 * TfSeconds[d[1]]

IsPending(O, d) == O[d] # NULL /\ O[d].status = "PENDING"
IsOpen(P, d)    == P[d] # NULL /\ P[d].status = "OPEN"
IsClosed(P, d)  == P[d] # NULL /\ P[d].status = "CLOSED"

\* PositionSet.open_for: by symbol only, whatever the timeframe.
OpenFor(P, s) == {d \in Decisions : IsOpen(P, d) /\ DecisionSymbol(d) = s}

\* last_closed_ts and load_candles: the stored bars of a unit.
Stored(u) == {ts \in Stamps : candles[u][ts] # NULL}

----------------------------------------------------------------------------
(* The simulated broker.  A book is the in-memory broker inside one        *)
(* unit-bar transaction: the rows it will flush and its cash.              *)

\* Position.unrealized, and the gross PnL of a close.
Gross(p, price) ==
  IF p.side = "LONG" THEN price - p.entry_price ELSE p.entry_price - price

\* Position.exit_price_for: the stop is tested before the target.
StopHit(p, close) ==
  /\ p.sl # NULL
  /\ IF p.side = "LONG" THEN close <= p.sl ELSE close >= p.sl

TargetHit(p, close) ==
  /\ p.tp # NULL
  /\ IF p.side = "LONG" THEN close >= p.tp ELSE close <= p.tp

Breach(p, close) == StopHit(p, close) \/ TargetHit(p, close)

\* restore_state: cash comes from the latest snapshot, or is the start equity.
RestoredCash == IF snapshot = NULL THEN StartEquity ELSE snapshot.cash
RestoredPeak == IF snapshot = NULL THEN StartEquity ELSE snapshot.peak_equity

RestoreState == [orders |-> orders, positions |-> positions, cash |-> RestoredCash]

\* PaperBroker._close with LedgerBroker._persist_close: cash moves by the
\* gross PnL less the exit cost AND the entry cost the position carries.
CloseAt(bk, d, price, reason, ts) ==
  LET p     == bk.positions[d]
      total == Cost + p.costs
  IN [bk EXCEPT
        !.cash = @ + Gross(p, price) - total,
        !.positions[d] = [p EXCEPT !.status = "CLOSED", !.exit_ts = ts,
                                   !.exit_price = price,
                                   !.exit_reason = reason, !.costs = total,
                                   !.net_pnl = Gross(p, price) - total]]

\* The position an order opens.
Entered(o, price, ts) ==
  [side |-> o.side, sl |-> o.sl, tp |-> o.tp, entry_ts |-> ts,
   entry_price |-> price, costs |-> Cost, status |-> "OPEN",
   exit_ts |-> NULL, exit_price |-> NULL, net_pnl |-> NULL,
   exit_reason |-> "none"]

\* Mutant: the order row is left PENDING.
EnterKeepingOrder(bk, d, price, ts) ==
  [bk EXCEPT !.cash = @ - Cost, !.positions[d] = Entered(bk.orders[d], price, ts)]

\* PaperBroker.enter_at_next_open and the rows fill_pending flushes for it.
EnterAtNextOpen(bk, d, price, ts) ==
  [bk EXCEPT !.cash = @ - Cost,
             !.orders[d].status = "FILLED",
             !.positions[d] = Entered(bk.orders[d], price, ts)]

\* LedgerBroker.fill_pending: only a PENDING order, only into a free slot.
FillPending(bk, d, price, ts) ==
  IF IsPending(bk.orders, d) /\ OpenFor(bk.positions, DecisionSymbol(d)) = {}
  THEN EnterAtNextOpen(bk, d, price, ts)
  ELSE bk

\* Mutant: a status the orders_paper check constraint does not know.
CancelToUnknownStatus(O, D) ==
  [d \in Decisions |->
     IF d \in D /\ IsPending(O, d) THEN [O[d] EXCEPT !.status = "EXPIRED"] ELSE O[d]]

\* Mutant: any order of the set is cancelled, a FILLED one too.
CancelWhateverStatus(O, D) ==
  [d \in Decisions |->
     IF d \in D /\ O[d] # NULL THEN [O[d] EXCEPT !.status = "CANCELLED"] ELSE O[d]]

\* LedgerBroker.cancel_pending over a set of orders.
CancelPending(O, D) ==
  [d \in Decisions |->
     IF d \in D /\ IsPending(O, d) THEN [O[d] EXCEPT !.status = "CANCELLED"]
     ELSE O[d]]

\* Mutant: the bar's candidate is entered without looking at the open slot.
FillUnarbitrated(bk, u, ts, price) ==
  LET d == <<u, ts - TfSeconds[u]>>
  IN IF d \in cands THEN EnterAtNextOpen(bk, d, price, ts) ELSE bk

\* Mutant: a flip closes the held position and leaves the entry to a later bar.
FlipClosesOnly(bk, u, ts, price) ==
  LET d    == <<u, ts - TfSeconds[u]>>
      held == OpenFor(bk.positions, SymbolOf[u])
  IN IF d \notin cands THEN bk
     ELSE IF held = {} THEN FillPending(bk, d, price, ts)
     ELSE CloseAt(bk, CHOOSE e \in held : TRUE, price, "signal", ts)

\* arbitrate_fills and the loop that applies it, at the bar's OPEN.  Fill
\* stamps are injective on the decisions of a unit, so a bar has at most one
\* candidate: <<u, ts - TfSeconds[u]>>.
FillAtOpen(bk, u, ts, price) ==
  LET d    == <<u, ts - TfSeconds[u]>>
      held == OpenFor(bk.positions, SymbolOf[u])
      h    == CHOOSE e \in held : TRUE
  IN IF d \notin cands THEN bk
     ELSE IF held = {} THEN FillPending(bk, d, price, ts)
     ELSE IF bk.positions[h].side = bk.orders[d].side
          THEN [bk EXCEPT !.orders = CancelPending(@, {d})]
          ELSE FillPending(CloseAt(bk, h, price, "signal", ts), d, price, ts)

\* Mutant: a target exit is recorded as a stop.
ExitMislabelled(bk, s, close, ts) ==
  LET held == OpenFor(bk.positions, s)
      h    == CHOOSE e \in held : TRUE
      p    == bk.positions[h]
  IN IF held = {} \/ ~ Breach(p, close) THEN bk
     ELSE CloseAt(bk, h, IF StopHit(p, close) THEN p.sl ELSE p.tp, "stop_loss", ts)

\* LedgerBroker.evaluate_exit, at the bar's CLOSE: a breach exits at the
\* threshold itself.
EvaluateExit(bk, s, close, ts) ==
  LET held == OpenFor(bk.positions, s)
      h    == CHOOSE e \in held : TRUE
      p    == bk.positions[h]
  IN IF held = {} THEN bk
     ELSE IF StopHit(p, close) THEN CloseAt(bk, h, p.sl, "stop_loss", ts)
     ELSE IF TargetHit(p, close) THEN CloseAt(bk, h, p.tp, "take_profit", ts)
     ELSE bk

\* PaperBroker.total_equity after mark_position: the processed symbol is
\* marked at the close, every other open position at its entry price.
EquityAt(bk, s, close) ==
  LET held == OpenFor(bk.positions, s)
  IN IF held = {} THEN bk.cash
     ELSE bk.cash + Gross(bk.positions[CHOOSE e \in held : TRUE], close)

\* PaperLifecycle._snapshot_due.
SnapshotDue(ts) ==
  \/ snapshot = NULL
  \/ snapshot # NULL /\ snapshot.ts < ts /\ snapshot.ts + SnapshotInterval <= ts

\* LedgerBroker.equity_snapshot (realized_pnl is the sum over the closed rows
\* and drawdown_pct a ratio of peak and equity; neither is kept here).
EquitySnapshot(bk, s, close, ts) ==
  LET equity == EquityAt(bk, s, close)
  IN [ts |-> ts, cash |-> bk.cash, equity |-> equity,
      peak_equity |-> IF equity > RestoredPeak THEN equity ELSE RestoredPeak]

----------------------------------------------------------------------------
(* Discovery and the catch-up window.                                      *)

PendingOf(u) == {d \in Decisions : d[1] = u /\ IsPending(orders, d)}

\* process_lifecycle, lines 484-489: units with a pending order or an open
\* position.
ActiveUnits ==
  {u \in Units : \E d \in Decisions :
     d[1] = u /\ (IsPending(orders, d) \/ IsOpen(positions, d))}

\* Mutant: every order whose fill bar is not newer than the latest bar.
DoomedWhetherStored(u) ==
  {d \in PendingOf(u) : \E ts \in Stored(u) : FillStamp(d) <= ts}

\* missing_bar_candidates: the fill bar is not newer than the latest stored
\* bar, and was not stored.
Doomed(u) ==
  {d \in PendingOf(u) :
     /\ \E ts \in Stored(u) : FillStamp(d) <= ts
     /\ FillStamp(d) \notin Stored(u)}

\* Mutant: an open position gives no anchor.
AnchorsOfFills(u) ==
  {FillStamp(d) : d \in {e \in PendingOf(u) : FillStamp(e) \in Stored(u)}}

\* _outstanding_stamps: every stored bar from the earliest anchor on, the
\* anchors being the due fill bars and the entry of the symbol's position.
Anchors(u) ==
  {FillStamp(d) : d \in {e \in PendingOf(u) : FillStamp(e) \in Stored(u)}}
  \cup {positions[d].entry_ts : d \in OpenFor(positions, SymbolOf[u])}

OutstandingStamps(u) ==
  {ts \in Stored(u) : \E a \in Anchors(u) : a <= ts}

\* Mutant: the newest stamps instead of the oldest.
NewestWindow(S) == {ts \in S : Cardinality({t \in S : ts < t}) < MaxBars}

\* catchup_window: the first max(1, MaxBars) stamps in ascending order.
CatchupWindow(S) ==
  {ts \in S : Cardinality({t \in S : t < ts}) < (IF MaxBars < 1 THEN 1 ELSE MaxBars)}

----------------------------------------------------------------------------
(* Initial state: empty tables, no pass under way.                         *)

Init ==
  /\ clock = 0
  /\ candles = [u \in Units |-> [ts \in Stamps |-> NULL]]
  /\ decided = {}
  /\ orders = [d \in Decisions |-> NULL]
  /\ positions = [d \in Decisions |-> NULL]
  /\ snapshot = NULL
  /\ pc = "idle"
  /\ queue = {}
  /\ unit = NULL
  /\ cands = {}
  /\ window = {}
  /\ failures = 0

(* The environment: time, and the ingest worker storing closed bars.       *)

Tick ==
  /\ clock < MaxTime
  /\ clock' = clock + 1
  /\ UNCHANGED <<candles, tables, pass, failures>>

\* IngestService._ingest_series: a complete bar of an aligned bucket; the
\* regular window starts after the newest stored bar, a forced one anywhere.
StoreBar(u, ts, bar) ==
  /\ ts % TfSeconds[u] = 0
  /\ ts + TfSeconds[u] <= clock
  /\ candles[u][ts] = NULL
  /\ Backfill \/ \A t \in Stored(u) : t < ts
  /\ candles' = [candles EXCEPT ![u][ts] = bar]
  /\ UNCHANGED <<clock, tables, pass, failures>>

(* The orchestrator's process_pair for a PAPER decision: decision and      *)
(* PENDING order in one commit.  poll_once and process_lifecycle alternate *)
(* in one task, so it happens between passes only.                         *)

\* submit_paper_order: declined while a same-side position is open.
SubmitPaperOrder(d, br) ==
  IF \E e \in OpenFor(positions, DecisionSymbol(d)) : positions[e].side = br.side
  THEN orders
  ELSE [orders EXCEPT ![d] = [side |-> br.side, sl |-> br.sl, tp |-> br.tp,
                              status |-> "PENDING"]]

\* The bucket's bar is stored and its voting signals are fresh (bucket + 2
\* bars); save_decision is first-writer-wins, so a decided bucket sponsors
\* nothing more, however often its signals are delivered.
Decide(d, br) ==
  /\ pc = "idle"
  /\ d[2] \in Stored(d[1])
  /\ clock <= d[2] + 2 * TfSeconds[d[1]]
  /\ d \notin decided
  /\ Cardinality(decided) < MaxDecisions
  /\ decided' = decided \cup {d}
  /\ orders' = SubmitPaperOrder(d, br)
  /\ UNCHANGED <<clock, candles, positions, snapshot, pass, failures>>

----------------------------------------------------------------------------
(* The lifecycle pass.                                                     *)

\* Back to the unit loop (process_lifecycle, line 495).
NextUnit ==
  /\ pc' = "cycle"
  /\ unit' = NULL
  /\ cands' = {}
  /\ window' = {}

Discover ==
  /\ pc = "idle"
  /\ pc' = "cycle"
  /\ queue' = ActiveUnits
  /\ UNCHANGED <<clock, candles, tables, unit, cands, window, failures>>

\* _process_unit up to the bar loop: load the candidates, cancel the doomed
\* ones in one commit, compute the window.
StartUnit ==
  /\ pc = "cycle"
  /\ \E u \in queue :
       /\ \A v \in queue : u <= v
       /\ queue' = queue \ {u}
       /\ orders' = CancelPending(orders, Doomed(u))
       /\ IF OutstandingStamps(u) = {}
          THEN NextUnit
          ELSE /\ pc' = "bars"
               /\ unit' = u
               /\ cands' = PendingOf(u)
               /\ window' = CatchupWindow(OutstandingStamps(u))
  /\ UNCHANGED <<clock, candles, decided, positions, snapshot, failures>>

\* PaperLifecycle.process_unit_bar and its commit: restore, fills at the
\* OPEN, exit at the CLOSE, mark, snapshot.  The state changed iff a position
\* was held after the fills (a filled one is held until the exit test).
ProcessBar ==
  /\ pc = "bars"
  /\ \E ts \in window :
       /\ \A t \in window : ts <= t
       /\ LET bar == candles[unit][ts]
              sym == SymbolOf[unit]
          IN \E filled \in {FillAtOpen(RestoreState, unit, ts, bar.open)} :
             \E final \in {EvaluateExit(filled, sym, bar.close, ts)} :
               /\ orders' = final.orders
               /\ positions' = final.positions
               /\ snapshot' = IF OpenFor(filled.positions, sym) # {} /\ SnapshotDue(ts)
                              THEN EquitySnapshot(final, sym, bar.close, ts)
                              ELSE snapshot
       /\ IF window = {ts} THEN NextUnit
          ELSE /\ window' = window \ {ts}
               /\ UNCHANGED <<pc, unit, cands>>
  /\ UNCHANGED <<clock, candles, decided, queue, failures>>

\* Mutant: the sweep finds nothing to cancel.
SweepNothing ==
  /\ pc = "cycle"
  /\ queue = {}
  /\ pc' = "idle"
  /\ UNCHANGED <<clock, candles, tables, queue, unit, cands, window, failures>>

\* _cancel_expired_pending, after the last unit.
ExpirySweep ==
  /\ pc = "cycle"
  /\ queue = {}
  /\ pc' = "idle"
  /\ orders' = CancelPending(orders, {d \in Decisions : ValidUntil(d) < clock})
  /\ UNCHANGED <<clock, candles, decided, positions, snapshot, queue, unit, cands,
                 window, failures>>

(* Failures.  An exception rolls the open transaction back; what was       *)
(* committed before stays.                                                 *)

Fail ==
  /\ failures < MaxFailures
  /\ failures' = failures + 1
  /\ UNCHANGED <<clock, candles, tables>>

\* One unit raises: it is skipped, the pass goes on (lines 521-534).
UnitFails ==
  /\ \/ /\ pc = "bars"
        /\ queue' = queue
     \/ /\ pc = "cycle"
        /\ \E u \in queue : (\A v \in queue : u <= v) /\ queue' = queue \ {u}
  /\ NextUnit
  /\ Fail

\* The sweep raises: its batch is rolled back (lines 538-546).
SweepFails ==
  /\ pc = "cycle"
  /\ queue = {}
  /\ pc' = "idle"
  /\ UNCHANGED <<queue, unit, cands, window>>
  /\ Fail

\* The process dies and restarts: the pass is forgotten.
Crash ==
  /\ pc # "idle"
  /\ pc' = "idle"
  /\ queue' = {}
  /\ unit' = NULL
  /\ cands' = {}
  /\ window' = {}
  /\ Fail

Lifecycle == Discover \/ StartUnit \/ ProcessBar \/ ExpirySweep

Next ==
  \/ Tick
  \/ \E u \in Units, ts \in Stamps, bar \in Bars : StoreBar(u, ts, bar)
  \/ \E d \in Decisions, br \in Brackets : Decide(d, br)
  \/ Lifecycle
  \/ UnitFails
  \/ SweepFails
  \/ Crash

Spec == Init /\ [][Next]_vars

\* run_orchestrator keeps passing over the ledger and time passes.
FairSpec == Spec /\ WF_vars(Tick) /\ WF_vars(Lifecycle)

----------------------------------------------------------------------------
(* Properties.                                                             *)

\* Every row, and what a pass holds, has its type.
TypeOK ==
  /\ clock \in Stamps
  /\ candles \in [Units -> [Stamps -> Bars \cup {NULL}]]
  /\ decided \subseteq Decisions
  /\ orders \in [Decisions -> OrderRow \cup {NULL}]
  /\ positions \in [Decisions -> PositionRow \cup {NULL}]
  /\ snapshot \in SnapshotRow \cup {NULL}
  /\ pc \in {"idle", "cycle", "bars"}
  /\ queue \subseteq Units
  /\ unit \in Units \cup {NULL}
  /\ cands \subseteq Decisions
  /\ window \subseteq Stamps
  /\ failures \in 0 .. MaxFailures

\* At most one position is OPEN per symbol, whatever timeframes trade it and
\* wherever a pass failed: the code never runs into uq_positions_open_symbol.
OneOpenPerSymbol ==
  \A d, e \in Decisions :
    IsOpen(positions, d) /\ IsOpen(positions, e)
      /\ DecisionSymbol(d) = DecisionSymbol(e) => d = e

\* The order and the position tables agree: an order is FILLED iff its
\* position exists, and the position was entered at the order's own fill bar,
\* at the stored open of that bar, after the bar closed.
FilledAtFillBar ==
  \A d \in Decisions :
    /\ positions[d] # NULL <=> (orders[d] # NULL /\ orders[d].status = "FILLED")
    /\ positions[d] # NULL =>
         LET ts == positions[d].entry_ts
         IN /\ ts = FillStamp(d)
            /\ ts + TfSeconds[d[1]] <= clock
            /\ ts \in Stored(d[1])
            /\ positions[d].entry_price = candles[d[1]][ts].open

\* What a unit's session loaded is still good when it is used: whenever the
\* window still holds an order's fill bar, that order is still PENDING and the
\* bar is stored, however long the catch-up has been running.
CandidatesStayPending ==
  pc = "bars" =>
    /\ unit \in Units
    /\ window \subseteq Stored(unit)
    /\ \A d \in cands :
         /\ d[1] = unit
         /\ FillStamp(d) \in window => IsPending(orders, d)

\* A flip is atomic: a position closed by a signal was replaced, at the same
\* bar open and at the same price, by an opposing position of its symbol.
FlipIsAtomic ==
  \A d \in Decisions :
    IsClosed(positions, d) /\ positions[d].exit_reason = "signal" =>
      \E e \in Decisions :
        /\ positions[e] # NULL
        /\ DecisionSymbol(e) = DecisionSymbol(d)
        /\ positions[e].side # positions[d].side
        /\ positions[e].entry_ts = positions[d].exit_ts
        /\ positions[e].entry_price = positions[d].exit_price

\* A stop or target exit happens at its threshold and only when a stored bar
\* of the symbol, stamped with the exit, closed at or beyond the threshold.
ExitIsBackedByBar ==
  \A d \in Decisions :
    LET p == positions[d]
    IN IsClosed(positions, d) /\ p.exit_reason # "signal" =>
         /\ p.exit_price = IF p.exit_reason = "stop_loss" THEN p.sl ELSE p.tp
         /\ \E u \in Units :
              /\ SymbolOf[u] = DecisionSymbol(d)
              /\ p.exit_ts \in Stored(u)
              /\ Breach(p, candles[u][p.exit_ts].close)

\* No recovery skips a breach: no stored bar of the position's own unit
\* between its entry and its exit closed beyond its stop or target.
NoBreachSkipped ==
  \A d \in Decisions :
    IsClosed(positions, d) =>
      \A ts \in Stored(d[1]) :
        positions[d].entry_ts <= ts /\ ts < positions[d].exit_ts =>
          ~ Breach(positions[d], candles[d[1]][ts].close)

\* Positions of one symbol do not overlap in bar time: one was closed no
\* later than the bar at whose open the other was entered.
PositionsDoNotOverlap ==
  \A d, e \in Decisions :
    /\ d # e
    /\ positions[d] # NULL
    /\ positions[e] # NULL
    /\ DecisionSymbol(d) = DecisionSymbol(e)
    /\ positions[d].entry_ts <= positions[e].entry_ts
    => IsClosed(positions, d) /\ positions[d].exit_ts <= positions[e].entry_ts

\* lifecycle.py:18-20 on recovery: a position is continued on closed bars of
\* its timeframe after its entry, so it never ends before it began.
ExitNotBeforeEntry ==
  \A d \in Decisions :
    IsClosed(positions, d) => positions[d].entry_ts <= positions[d].exit_ts

\* FILLED and CANCELLED orders, CLOSED positions and the entry of an open
\* position are history: no later pass, retry or restart rewrites them.
HistoryIsFinal ==
  [][\A d \in Decisions :
       /\ orders[d] # NULL /\ ~ IsPending(orders, d) => orders'[d] = orders[d]
       /\ IsClosed(positions, d) => positions'[d] = positions[d]
       /\ IsOpen(positions, d) =>
            /\ positions'[d] # NULL
            /\ positions'[d].entry_ts = positions[d].entry_ts
            /\ positions'[d].entry_price = positions[d].entry_price
            /\ positions'[d].side = positions[d].side]_vars

\* Not guaranteed by the code (README, "Known deviations").
\* orchestrator_worker.py:668-669 on the expiry sweep: an order it cancels had
\* no next open to be filled at.
SweptHadNoOpen ==
  [][\A d \in Decisions :
       pc = "cycle" /\ queue = {} /\ IsPending(orders, d) /\ ~ IsPending(orders', d)
         => FillStamp(d) \notin Stored(d[1])]_vars

\* Every PENDING order whose validity ends within the horizon is eventually
\* filled or cancelled, whatever bars are missing and wherever passes failed.
PendingIsResolved ==
  \A d \in {e \in Decisions : ValidUntil(e) < MaxTime} :
    IsPending(orders, d) ~> ~ IsPending(orders, d)

\* A stored bar, at or after the entry, that closed beyond a threshold of an
\* open position eventually closes the position: a bar left out of one pass
\* is processed by a later one.
BreachEndsPosition ==
  \A d \in {e \in Decisions : FillStamp(e) + TfSeconds[e[1]] <= MaxTime} :
    (/\ IsOpen(positions, d)
     /\ \E ts \in Stored(d[1]) :
          /\ positions[d].entry_ts <= ts
          /\ Breach(positions[d], candles[d[1]][ts].close))
    ~> IsClosed(positions, d)
=============================================================================
