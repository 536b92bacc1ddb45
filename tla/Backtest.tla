------------------------------ MODULE Backtest ------------------------------
(***************************************************************************)
(* One backtest run, from the CLI to the backtest_* tables:                *)
(*                                                                         *)
(*   backend/app/backtest/driver.py            the replay                  *)
(*   backend/app/backtest/orchestrator_sim.py  parent context              *)
(*   backend/app/backtest/agent_runner.py      computed, replayed signals  *)
(*   backend/app/backtest/service.py, repository.py  the run's row         *)
(*   backend/app/broker/paper.py               the simulated broker        *)
(*                                                                         *)
(* Time is counted in bars of the fine timeframe: bar i covers [i, i + 1). *)
(* A bar of the coarse timeframe covers Ratio of them.  What the decision  *)
(* path answers is left open (Verdict has it); what it was given is kept,  *)
(* as the instant at which the newest piece of it became known.            *)
(***************************************************************************)
EXTENDS Integers, Sequences, FiniteSets

CONSTANTS
  NULL,
  Symbols,    \* cfg.symbols, a sequence
  Bars,       \* fine bars in the range
  Ratio,      \* fine bars per coarse bar; 0: one timeframe only
  Warmup,     \* cfg.warmup_bars
  Prices,     \* prices of a bar
  MaxFaults,  \* bound: exceptions of the driver and the database
  MayDie      \* whether the process may die

SymbolSet == {Symbols[n] : n \in DOMAIN Symbols}
Sides == {-1, 1}

\* A position of the broker, and _PendingFill, which waits for the next open.
Positions == [side : Sides, entry : Int, at : Nat, from : Int, stop : Int, target : Int]
Fills     == [close : BOOLEAN, dir : Sides, at : Nat, stop : Int, target : Int]

BacktestAssumption ==
  /\ Symbols \in Seq(SymbolSet) /\ Symbols # <<>>
  /\ {Bars, Ratio, Warmup} \subseteq Nat /\ Prices \subseteq Int
  /\ NULL \notin Int \cup Positions \cup Fills \cup {"RUNNING", "COMPLETED", "FAILED"}

\* No symbol is named twice: it would be replayed again with its last position open.
DistinctSymbols == \A m, n \in DOMAIN Symbols : Symbols[m] = Symbols[n] => m = n

VARIABLES
  phase,    \* "create", "context", "fine", "save", "failed", "end"
  row,      \* status of the run's row
  results,  \* trades and equity curve are in the tables
  k, i,     \* the symbol and bar of the loops of run
  step,     \* the numbered step of _run_fine: 1 .. 4
  bar,      \* open and close of the bar at hand
  last,     \* last[s]: the latest coarse decision (_last)
  pos,      \* pos[s]: the open position, or NULL
  pending,  \* pending[s]: the fill decided on the previous bar, or NULL
  trades,   \* closed trades
  points,   \* stamps of equity_points
  replays,  \* decided bars of this symbol that had their replayed signals
  missed,   \* history: some decided bar of this symbol had not
  degraded, \* degraded[s]: the symbol's coverage report, NULL before it
  used,     \* history: what the last decision was given
  faults

loops == <<k, i, step, bar>>
broker == <<pos, pending, trades>>
report == <<points, replays, missed, degraded, used>>
vars == <<phase, row, results, loops, last, broker, report, faults>>

None == [t \in SymbolSet |-> NULL]

Init ==
  /\ phase = "create" /\ row = NULL /\ results = FALSE
  /\ k = 1 /\ i = 0 /\ step = 1 /\ bar = NULL
  /\ last = None /\ pos = None /\ pending = None /\ trades = <<>>
  /\ points = <<>> /\ replays = 0 /\ missed = FALSE
  /\ degraded = None /\ used = NULL /\ faults = 0

s == Symbols[k]

\* run_backtest: the row is committed as RUNNING before anything else.
Create ==
  /\ phase = "create"
  /\ row' = "RUNNING"
  /\ phase' = IF Ratio > 0 THEN "context" ELSE "fine"
  /\ UNCHANGED <<results, loops, last, broker, report, faults>>

----------------------------------------------------------------------------
(* The coarse timeframe: all its bars, before the first fine one. *)

CoarseBars == IF Ratio = 0 THEN 0 ELSE (Bars + Ratio - 1) \div Ratio

\* _run_context_tf, one bar: the decision replaces the one before it in _last.
ContextBar ==
  /\ phase = "context" /\ i < CoarseBars
  /\ i' = i + 1
  /\ \/ i < Warmup /\ UNCHANGED last
     \/ i >= Warmup /\ UNCHANGED last       \* no technical signal, or SKIP
     \/ /\ i >= Warmup
        /\ \E d \in Sides \cup {0} : last' = [last EXCEPT ![s] = [dir |-> d, bucket |-> i]]
  /\ UNCHANGED <<phase, row, results, k, step, bar, broker, report, faults>>

ContextDone ==
  /\ phase = "context" /\ i = CoarseBars
  /\ i' = 0
  /\ IF k < Len(Symbols) THEN k' = k + 1 /\ UNCHANGED phase
                         ELSE k' = 1 /\ phase' = "fine"
  /\ UNCHANGED <<row, results, step, bar, last, broker, report, faults>>

\* _parent_context: the latest coarse decision, unless it is flat or its four
\* bars of validity are over.
Parent ==
  IF last[s] = NULL \/ Ratio = 0 THEN NULL
  ELSE IF last[s].dir = 0 \/ (last[s].bucket + 4) * Ratio < i THEN NULL
  ELSE last[s]

\* Mutant: the day under way counts as the previous one.
PrevDailyOpen == IF Ratio = 0 \/ i < Ratio THEN NULL ELSE i \div Ratio

\* _prev_daily, with the coarse timeframe as the day: the newest coarse bar
\* that ended by the start of this bar.
PrevDaily == IF Ratio = 0 \/ i < Ratio THEN NULL ELSE i \div Ratio - 1

----------------------------------------------------------------------------
(* The fine timeframe: four steps per bar, symbol after symbol. *)

\* PaperBroker._close
Close(p, price, reason) ==
  Append(trades, [sym |-> s, side |-> p.side, entered |-> p.at, entry |-> p.entry,
                  exited |-> i, exit |-> price, reason |-> reason])

\* _apply_fill: close_on_signal when the fill says so, then enter_at_next_open,
\* which does nothing when a position is open.  Bound: a PAPER decision's size does
\* not round to zero units, for which it does nothing either.
ApplyFill(act, open) ==
  LET free == pos[s] = NULL \/ act.close
  IN /\ trades' = IF act.close /\ pos[s] # NULL THEN Close(pos[s], open, "signal") ELSE trades
     /\ pos' = IF ~free THEN pos
               ELSE [pos EXCEPT ![s] = [side |-> act.dir, entry |-> open, at |-> i, from |-> act.at,
                                        stop |-> act.stop, target |-> act.target]]

\* Mutant: the pending fill is read and not taken out.
FillAgain ==
  /\ phase = "fine" /\ step = 1 /\ i < Bars
  /\ \E open, close \in Prices :
       /\ bar' = [open |-> open, close |-> close]
       /\ IF pending[s] # NULL THEN ApplyFill(pending[s], open) ELSE UNCHANGED <<pos, trades>>
  /\ step' = 2
  /\ UNCHANGED <<phase, row, results, k, i, last, pending, report, faults>>

\* Step 1: the fill decided on the previous bar, at this bar's open.
Fill ==
  /\ phase = "fine" /\ step = 1 /\ i < Bars
  /\ \E open, close \in Prices :
       /\ bar' = [open |-> open, close |-> close]
       /\ IF pending[s] # NULL THEN ApplyFill(pending[s], open) ELSE UNCHANGED <<pos, trades>>
  /\ pending' = [pending EXCEPT ![s] = NULL]
  /\ step' = 2
  /\ UNCHANGED <<phase, row, results, k, i, last, report, faults>>

\* Mutant: a close exactly at a threshold is not a breach.
StoppedStrict(p, c) == (c - p.stop) * p.side < 0

\* exit_price_for: the close at or beyond the stop; the target comes second.
Stopped(p, c) == (c - p.stop) * p.side <= 0
Target(p, c)  == (c - p.target) * p.side >= 0

\* Mutant: the trade is recorded and the position stays.
ExitKeepsPosition ==
  /\ phase = "fine" /\ step = 2
  /\ IF pos[s] # NULL /\ Stopped(pos[s], bar.close)
     THEN trades' = Close(pos[s], pos[s].stop, "stop_loss") ELSE UNCHANGED trades
  /\ step' = 3
  /\ UNCHANGED <<phase, row, results, k, i, bar, last, pos, pending, report, faults>>

\* Step 2: evaluate_exit on this bar's close, at the threshold.
Exit ==
  /\ phase = "fine" /\ step = 2
  /\ LET p == pos[s]
         hit == p # NULL /\ (Stopped(p, bar.close) \/ Target(p, bar.close))
     IN IF ~hit THEN UNCHANGED <<pos, trades>>
        ELSE /\ trades' = IF Stopped(p, bar.close) THEN Close(p, p.stop, "stop_loss")
                                                   ELSE Close(p, p.target, "take_profit")
             /\ pos' = [pos EXCEPT ![s] = NULL]
  /\ step' = 3
  /\ UNCHANGED <<phase, row, results, k, i, bar, last, pending, report, faults>>

\* The newest event the gate of a decision reads: entries of open positions
\* and exits of trades, of every symbol, at the start of their bar.
GateAsOf ==
  LET times == {0} \cup {pos[t].at : t \in {u \in SymbolSet : pos[u] # NULL}}
                   \cup {trades[n].exited : n \in DOMAIN trades}
  IN CHOOSE t \in times : \A u \in times : u <= t

\* The instants at which the newest pieces given to a decision became known.
Given ==
  [now    |-> i + 1,
   parent |-> IF Parent = NULL THEN 0 ELSE (Parent.bucket + 1) * Ratio,
   gate   |-> GateAsOf,
   daily  |-> IF PrevDaily = NULL THEN 0 ELSE (PrevDaily + 1) * Ratio]

\* Mutant: a fill is scheduled again for the side that is held.
ScheduleHeld(d) ==
  IF i + 1 >= Bars \/ d = 0 THEN pending
  ELSE [pending EXCEPT ![s] = [close |-> pos[s] # NULL /\ pos[s].side # d, dir |-> d, at |-> i,
                               stop |-> bar.close - d, target |-> bar.close + 2 * d]]

\* _schedule_fill: nothing on the last bar, for a flat decision, or when the
\* side is held already.  The thresholds are around the close decided on.
Schedule(d) ==
  IF i + 1 >= Bars \/ d = 0 THEN pending
  ELSE IF pos[s] # NULL /\ pos[s].side = d THEN pending
  ELSE [pending EXCEPT ![s] = [close |-> pos[s] # NULL, dir |-> d, at |-> i,
                               stop |-> bar.close - d, target |-> bar.close + 2 * d]]

\* Step 3: the signals of the bar, and the decision.  replayed: the persisted
\* fundamental and sentiment signals of this bucket exist.
Decide ==
  /\ phase = "fine" /\ step = 3
  /\ \E replayed \in BOOLEAN :
       /\ replays' = IF i >= Warmup /\ replayed THEN replays + 1 ELSE replays
       /\ missed'  = (missed \/ (i >= Warmup /\ ~replayed))
  /\ \/ UNCHANGED <<pending, used>>                       \* warmup, SKIP
     \/ i >= Warmup /\ used' = Given /\ UNCHANGED pending   \* ANALYSIS, BLOCKED
     \/ i >= Warmup /\ used' = Given /\ \E d \in Sides : pending' = Schedule(d)   \* PAPER
  /\ step' = 4
  /\ UNCHANGED <<phase, row, results, k, i, bar, last, pos, trades, points, degraded, faults>>

\* Step 4: the equity is recorded under the bar's stamp; a stamp equal to the
\* last one replaces it.
Mark ==
  /\ phase = "fine" /\ step = 4
  /\ points' = IF points # <<>> /\ points[Len(points)] = i THEN points ELSE Append(points, i)
  /\ step' = 1
  /\ i' = i + 1
  /\ UNCHANGED <<phase, row, results, k, bar, last, broker, replays, missed, degraded, used, faults>>

\* Mutant: warmup bars are expected to have signals.
ExpectedBars0 == Bars

\* Bars a symbol's coverage is measured against.
ExpectedBars == Bars - Warmup

\* _append_coverage, and the next symbol.
Coverage ==
  /\ phase = "fine" /\ step = 1 /\ i = Bars
  /\ degraded' = [degraded EXCEPT ![s] = (replays < ExpectedBars)]
  /\ replays' = 0 /\ missed' = FALSE /\ i' = 0
  /\ IF k < Len(Symbols) THEN k' = k + 1 /\ UNCHANGED phase
                         ELSE phase' = "save" /\ UNCHANGED k
  /\ UNCHANGED <<row, results, step, bar, last, broker, points, used, faults>>

----------------------------------------------------------------------------
(* Persistence. *)

\* uq_backtest_equity_run_ts
CurveInserts == \A m, n \in DOMAIN points : points[m] = points[n] => m = n

\* Mutant: the row is completed in a transaction before the results.
SaveRowFirst ==
  /\ phase = "save"
  /\ IF row = "RUNNING" THEN row' = "COMPLETED" /\ UNCHANGED <<phase, results>>
     ELSE results' = TRUE /\ phase' = "end" /\ UNCHANGED row
  /\ UNCHANGED <<loops, last, broker, report, faults>>

\* save_trades, save_equity_curve and mark_completed in one transaction.
Save ==
  /\ phase = "save"
  /\ IF CurveInserts THEN row' = "COMPLETED" /\ results' = TRUE /\ phase' = "end"
                     ELSE phase' = "failed" /\ UNCHANGED <<row, results>>
  /\ UNCHANGED <<loops, last, broker, report, faults>>

\* An exception of the replay or of the transaction.
Raises ==
  /\ phase \in {"context", "fine", "save"}
  /\ faults < MaxFaults
  /\ faults' = faults + 1
  /\ phase' = "failed"
  /\ UNCHANGED <<row, results, loops, last, broker, report>>

\* Mutant: the handler of the exception only raises.
MarkFailedNot ==
  /\ phase = "failed"
  /\ phase' = "end"
  /\ UNCHANGED <<row, results, loops, last, broker, report, faults>>

\* mark_failed
MarkFailed ==
  /\ phase = "failed"
  /\ row' = "FAILED"
  /\ phase' = "end"
  /\ UNCHANGED <<results, loops, last, broker, report, faults>>

\* The process dies, or mark_failed cannot be written either.
Dies ==
  /\ MayDie /\ phase \notin {"create", "end"}
  /\ faults < MaxFaults
  /\ faults' = faults + 1
  /\ phase' = "end"
  /\ UNCHANGED <<row, results, loops, last, broker, report>>

Replay == ContextBar \/ ContextDone \/ Fill \/ Exit \/ Decide \/ Mark \/ Coverage
Next == Create \/ Replay \/ Save \/ MarkFailed \/ Raises \/ Dies

Spec == Init /\ [][Next]_vars
\* The CLI command runs to its end.
FairSpec == Spec /\ WF_vars(Create \/ Replay \/ Save \/ MarkFailed)

----------------------------------------------------------------------------
(* Properties. *)

\* A fill that waits was decided on the bar before, and its plan still fits
\* the broker when it is executed: it closes exactly when the other side is
\* held (_schedule_fill decides close_existing one bar earlier).
PendingStillFits ==
  \A t \in SymbolSet : (phase = "fine" /\ t = s /\ step = 1 /\ pending[t] # NULL) =>
    /\ pending[t].at = i - 1 /\ i < Bars
    /\ pending[t].close <=> pos[t] # NULL
    /\ pos[t] # NULL => pos[t].side = -pending[t].dir

\* Every position was decided on the bar before the one at whose open it was
\* entered: no look-ahead, and no decision is executed late (D-C).
EntryFollowsDecision ==
  \A t \in SymbolSet : pos[t] # NULL => pos[t].at = pos[t].from + 1

\* A position that survived a bar has its close strictly inside its
\* thresholds (evaluate_exit).
InsideThresholds ==
  (phase = "fine" /\ step \in {3, 4} /\ pos[s] # NULL) =>
    /\ (bar.close - pos[s].stop) * pos[s].side > 0
    /\ (pos[s].target - bar.close) * pos[s].side > 0

\* The trades of a symbol follow each other: each ends before the next begins,
\* and the open position began after the last of them.
TradesDoNotOverlap ==
  /\ \A m, n \in DOMAIN trades :
       m < n /\ trades[m].sym = trades[n].sym => trades[m].exited <= trades[n].entered
  /\ \A n \in DOMAIN trades : pos[trades[n].sym] # NULL =>
       trades[n].exited <= pos[trades[n].sym].at

\* A symbol is reported degraded exactly when a decided bar lacked its replayed
\* signals: missing coverage is reported and nothing else is (D-B).
DegradedIsMissing == degraded' # degraded => degraded'[s] = missed

\* The previous day a decision is given had ended when its bar began.
DailyIsPast == used # NULL => used.daily < used.now

\* A completed run has its trades and its equity curve, and only a completed
\* one has (one transaction in run_backtest).
CompletedHasResults == (row = "COMPLETED") <=> results

\* A run that is not killed does not stay RUNNING.
RunIsClosed == <>[](row \in {"COMPLETED", "FAILED"})

\* Not guaranteed by the code (README, "Known deviations").
\* driver.py: "decisions are generated from information available at the bar
\* close": the parent decision was taken by then.
ParentIsKnown == used # NULL => used.parent <= used.now

\* Not guaranteed by the code (README, "Known deviations").
\* The same for the positions and losses the risk gate reads.
GateIsKnown == used # NULL => used.gate <= used.now

\* Not guaranteed by the code (README, "Known deviations").
\* cli.py: "Run a deterministic synthetic-data backtest and persist the
\* results": a run without exceptions in driver or database is completed.
SoundRunIsCompleted == row = "FAILED" => faults > 0

=============================================================================
