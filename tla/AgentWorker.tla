---------------------------- MODULE AgentWorker ----------------------------
(***************************************************************************)
(* From a closed bar to the agents' signals:                               *)
(*                                                                         *)
(*   backend/app/workers/agent_worker.py   AgentWorker                     *)
(*   backend/app/data/signal_repository.py save_signals, load_latest_...   *)
(*   backend/app/data/repository.py        load_candles                    *)
(*   backend/app/agents/base.py            valid_until_for, is_fresh       *)
(*                                                                         *)
(* One timeframe, whose bars are numbered; a bar is an instant long, so    *)
(* bar b closes at b + 1.  What an agent concludes is left out: a signal   *)
(* is known by its bar and by the candles its agent was shown.  The agents *)
(* of a bar are stored in one transaction, so a row stands for all of      *)
(* them, but every agent's signal.emitted is published by itself.          *)
(***************************************************************************)
EXTENDS Naturals, Sequences, FiniteSets

CONSTANTS
  Symbols,
  Agents,          \* the registry
  Lookback,        \* LOOKBACK_BARS
  Multiplier,      \* FRESHNESS_MULTIPLIER
  BatchSize,       \* count of poll_once
  MaxBars,         \* bound: bars of the market
  MaxBackfills,    \* bound: bars announced again by a backfill
  MaxErrors,       \* bound: exceptions while a bar is processed
  MaxCrashes       \* bound: deaths of the worker

AgentsAssumption ==
  /\ {BatchSize, Lookback} \subseteq Nat \ {0}
  /\ {MaxBars, MaxBackfills, MaxErrors, MaxCrashes} \subseteq Nat

\* The window still reaches from the oldest bar stored to the newest.
HistoryFits == MaxBars <= Lookback

VARIABLES
  now,       \* the clock: bar now - 1 is the newest one that has closed
  candles,   \* candles[s]: the bars stored
  stream,    \* bars.closed: entries not delivered yet, oldest first
  announced, \* history: every entry published
  pending,   \* entries delivered and not acknowledged
  rows,      \* agent_signals in the order of created_at
  emitted,   \* signal.emitted events published: <<agent, symbol, bar>>
  selected,  \* the dict of the batch's entries to analyze: [entry, at], where at is
             \* the place at which the symbol's key was inserted
  acks,      \* entries to acknowledge
  window,    \* the candles the agents were shown
  left,      \* agents whose event is still to be published
  pc,        \* where the worker is
  used       \* what the bounds count

memory == <<selected, acks, window, left>>
bus    == <<stream, announced>>
vars   == <<now, candles, bus, pending, rows, emitted, memory, pc, used>>

Newer(x, y) == x.bar > y.bar \/ (x.bar = y.bar /\ x.id > y.id)

----------------------------------------------------------------------------
(* What is read from the tables. *)

\* Mutant: the window leaves out the bar that has just closed.
LoadCandlesBefore(s) == {b \in candles[s] : b + 1 < now}

\* load_candles: ascending from the oldest, cut off after Lookback rows.
LoadCandles(s) == {b \in candles[s] : Cardinality({c \in candles[s] : c < b}) < Lookback}

\* Rows of a symbol, and valid_until_for against a time.
Rows(s)  == {i \in DOMAIN rows : rows[i].symbol = s}
Fresh(r) == r.bar + Multiplier >= now

\* load_latest_per_agent with now: the row created last, if it is still fresh.
LoadLatest(s) ==
  {rows[i] : i \in {j \in Rows(s) : (\A k \in Rows(s) : k <= j) /\ Fresh(rows[j])}}

----------------------------------------------------------------------------

Init ==
  /\ now = 0
  /\ candles = [s \in Symbols |-> {}]
  /\ stream = <<>> /\ announced = {} /\ pending = {}
  /\ rows = <<>> /\ emitted = {}
  /\ selected = {} /\ acks = {} /\ window = {} /\ left = {}
  /\ pc = "idle"
  /\ used = [backfills |-> 0, errors |-> 0, crashes |-> 0]

Announce(entries) ==
  /\ stream' = stream \o entries
  /\ announced' = announced \cup {entries[i] : i \in DOMAIN entries}

Entry(s, b) == [symbol |-> s, bar |-> b, id |-> Cardinality(announced) + 1]

\* The ingest worker stores the bar that closed and announces it.
CloseBar ==
  \E s \in Symbols :
    /\ now < MaxBars
    /\ candles' = [candles EXCEPT ![s] = @ \cup {now}]
    /\ Announce(<<Entry(s, now)>>)
    /\ now' = now + 1
    /\ UNCHANGED <<pending, rows, emitted, memory, pc, used>>

\* A backfill fetches an older bar, stores it and announces it, again perhaps.
Backfill ==
  \E s \in Symbols, b \in 0 .. now - 1 :
    /\ used.backfills < MaxBackfills
    /\ used' = [used EXCEPT !.backfills = @ + 1]
    /\ candles' = [candles EXCEPT ![s] = @ \cup {b}]
    /\ Announce(<<Entry(s, b)>>)
    /\ UNCHANGED <<now, pending, rows, emitted, memory, pc>>

----------------------------------------------------------------------------
(* One poll of the worker. *)

\* Mutant: the oldest bar of the batch is analyzed.
NewestOfFirst(batch, s) ==
  {e \in batch : e.symbol = s /\ \A f \in batch : f.symbol = s /\ f # e => Newer(f, e)}

\* Of the bars of one symbol in a batch the newest is analyzed; of entries of
\* the same bar the later one.
NewestOf(batch, s) ==
  {e \in batch : e.symbol = s /\ \A f \in batch : f.symbol = s /\ f # e => Newer(e, f)}

\* xreadgroup: the oldest entries, at most BatchSize of them.
Batch == SubSeq(stream, 1, IF Len(stream) < BatchSize THEN Len(stream) ELSE BatchSize)

\* selected: a key stays where it was inserted when its value is replaced.
FirstOf(q, s) ==
  CHOOSE i \in DOMAIN q : q[i].symbol = s /\ \A j \in 1 .. i - 1 : q[j].symbol # s
Select(q) ==
  UNION {{[entry |-> e, at |-> FirstOf(q, s)] : e \in NewestOf({q[i] : i \in DOMAIN q}, s)} :
           s \in Symbols}

\* The entry at hand: the keys are visited in the order of their insertion.
Current == CHOOSE x \in selected : \A y \in selected : x.at <= y.at
AtHand  == Current.entry

\* Mutant: entries are read without a group.
PollOnceNoPending ==
  /\ pc = "idle" /\ stream # <<>>
  /\ stream' = SubSeq(stream, Len(Batch) + 1, Len(stream))
  /\ selected' = Select(Batch)
  /\ acks' = {Batch[i] : i \in DOMAIN Batch} \ {x.entry : x \in Select(Batch)}
  /\ window' = {} /\ left' = {}
  /\ pc' = "analyze"
  /\ UNCHANGED <<now, candles, announced, pending, rows, emitted, used>>

\* poll_once reads and selects; the other entries are only acknowledged.
PollOnce ==
  /\ pc = "idle" /\ stream # <<>>
  /\ stream' = SubSeq(stream, Len(Batch) + 1, Len(stream))
  /\ pending' = pending \cup {Batch[i] : i \in DOMAIN Batch}
  /\ selected' = Select(Batch)
  /\ acks' = {Batch[i] : i \in DOMAIN Batch} \ {x.entry : x \in Select(Batch)}
  /\ window' = {} /\ left' = {}
  /\ pc' = "analyze"
  /\ UNCHANGED <<now, candles, announced, rows, emitted, used>>

\* process_bar: load the series and run the agents.
Analyze ==
  /\ pc = "analyze" /\ selected # {}
  /\ window' = LoadCandles(AtHand.symbol)
  /\ pc' = "save"
  /\ UNCHANGED <<now, candles, bus, pending, rows, emitted, selected, acks, left, used>>

\* Mutant: the events are published before the transaction is committed.
SaveSignalsLater ==
  /\ pc = "save"
  /\ left' = Agents
  /\ pc' = "publish"
  /\ UNCHANGED <<now, candles, bus, pending, rows, emitted, selected, acks, window, used>>

\* save_signals and commit: a bar that has its rows keeps them.
SaveSignals ==
  /\ pc = "save"
  /\ LET e == AtHand
     IN rows' = IF \E i \in Rows(e.symbol) : rows[i].bar = e.bar THEN rows
                ELSE Append(rows, [symbol |-> e.symbol, bar |-> e.bar, window |-> window])
  /\ left' = Agents
  /\ pc' = "publish"
  /\ UNCHANGED <<now, candles, bus, pending, emitted, selected, acks, window, used>>

\* Mutant: the events of a bar are published until one agent has none.
PublishSignalOnce ==
  /\ pc = "publish" /\ left = Agents
  /\ \E a \in left :
       /\ emitted' = emitted \cup {<<a, AtHand.symbol, AtHand.bar>>}
       /\ left' = {}
  /\ UNCHANGED <<now, candles, bus, pending, rows, selected, acks, window, pc, used>>

PublishSignal ==
  /\ pc = "publish"
  /\ \E a \in left :
       /\ emitted' = emitted \cup {<<a, AtHand.symbol, AtHand.bar>>}
       /\ left' = left \ {a}
  /\ UNCHANGED <<now, candles, bus, pending, rows, selected, acks, window, pc, used>>

NextEntry ==
  /\ acks' = acks \cup {AtHand}
  /\ selected' = selected \ {Current}
  /\ window' = {} /\ left' = {}
  /\ pc' = "analyze"

EndBar ==
  /\ pc = "publish" /\ left = {}
  /\ NextEntry
  /\ UNCHANGED <<now, candles, bus, pending, rows, emitted, used>>

\* An exception anywhere in process_bar: logged, and the entry acknowledged.
BarFails ==
  /\ pc \in {"analyze", "save", "publish"} /\ selected # {}
  /\ used.errors < MaxErrors
  /\ used' = [used EXCEPT !.errors = @ + 1]
  /\ NextEntry
  /\ UNCHANGED <<now, candles, bus, pending, rows, emitted>>

\* The XACKs at the end of poll_once.
Ack ==
  /\ pc = "analyze" /\ selected = {}
  /\ pending' = pending \ acks
  /\ acks' = {}
  /\ pc' = "idle"
  /\ UNCHANGED <<now, candles, bus, rows, emitted, selected, window, left, used>>

\* The process dies and starts again; ensure_groups finds its groups.
Crash ==
  /\ used.crashes < MaxCrashes
  /\ used' = [used EXCEPT !.crashes = @ + 1]
  /\ selected' = {} /\ acks' = {} /\ window' = {} /\ left' = {}
  /\ pc' = "idle"
  /\ UNCHANGED <<now, candles, bus, pending, rows, emitted>>

----------------------------------------------------------------------------

Poll == PollOnce \/ Analyze \/ SaveSignals \/ PublishSignal \/ EndBar \/ BarFails \/ Ack

Next == CloseBar \/ Backfill \/ Poll \/ Crash

\* The runtime polls forever.
Spec == Init /\ [][Next]_vars /\ WF_vars(Poll)

----------------------------------------------------------------------------
(* Properties. *)

\* The variables have their types; what the worker holds is pending.
TypeOK ==
  /\ now \in 0 .. MaxBars
  /\ \A s \in Symbols : candles[s] \subseteq 0 .. MaxBars - 1
  /\ pc \in {"idle", "analyze", "save", "publish"}
  /\ acks \cup {x.entry : x \in selected} \subseteq pending
  /\ left \subseteq Agents
  /\ pc \in {"save", "publish"} => selected # {}

\* A signal.emitted event is about rows the orchestrator finds when it reads
\* the table, whatever fails or dies in between.
EmittedIsStored ==
  \A e \in emitted : \E i \in Rows(e[2]) : rows[i].bar = e[3]

\* Skipping a backlog keeps up with the market: of every bar that was
\* announced, it or a newer one of its symbol is analyzed in the end.
BacklogIsOvertaken ==
  <>[](\A e \in announced : \E i \in Rows(e.symbol) : rows[i].bar >= e.bar)

\* Every stored signal triggers the orchestrator (agent_worker.py: "every
\* processed bar publishes signal.emitted events to signals.stream").
StoredIsEmitted ==
  <>[](\A a \in Agents, s \in Symbols : \A i \in Rows(s) : <<a, s, rows[i].bar>> \in emitted)

\* The agents were shown the bar their signal is about (AnalysisContext: "the
\* last row corresponds to bucket_ts").
WindowHasBar == \A i \in DOMAIN rows : rows[i].bar \in rows[i].window

\* Not guaranteed by the code (README, "Known deviations").
\* The agents were shown no later bar than the one their signal is about.
NoLookahead == \A i \in DOMAIN rows : \A b \in rows[i].window : b <= rows[i].bar

\* Not guaranteed by the code (README, "Known deviations").
\* A symbol with fresh signals has them in what the decision engine gathers
\* (IMPLEMENTATION_PLAN: "Gather fresh signals (staleness-checked)").
FreshIsGathered ==
  \A s \in Symbols : (\E i \in Rows(s) : Fresh(rows[i])) => LoadLatest(s) # {}

=============================================================================
