----------------------------- MODULE Portfolio -----------------------------
(***************************************************************************)
(* The read side of the paper ledger:                                      *)
(*                                                                         *)
(*   backend/app/data/portfolio_reader.py                                  *)
(*   backend/app/api/v1/portfolio.py                                       *)
(*                                                                         *)
(* A summary takes three queries of one session, and PaperLedger's         *)
(* transactions commit between them (PostgreSQL's READ COMMITTED: a query  *)
(* sees what was committed when it began).                                 *)
(***************************************************************************)
EXTENDS PaperLedger

CONSTANT PageLimit   \* the limit of a page of positions

VARIABLES
  rpc,    \* the next query of the summary under way: "snapshot", "positions", "orders"
  got,    \* what its queries returned: [as_of, open, pending]
  shown,  \* the last summary answered, or NULL
  idle    \* history: the ledger was idle at some instant of this summary

reader == <<rpc, got, shown, idle>>

Open    == {d \in Decisions : IsOpen(positions, d)}
Pending == {d \in Decisions : IsPending(orders, d)}
Idle    == Open = {} /\ Pending = {}

\* _empty_summary
EmptySummary == [as_of |-> NULL, open |-> {}, pending |-> {}]

PortfolioInit == Init /\ rpc = "snapshot" /\ got = EmptySummary /\ shown = NULL /\ idle = FALSE

\* The latest snapshot; without one the summary is the empty one.
ReadSnapshot ==
  /\ rpc = "snapshot"
  /\ idle' = Idle
  /\ IF snapshot = NULL
     THEN shown' = EmptySummary /\ UNCHANGED <<rpc, got>>
     ELSE /\ got' = [EmptySummary EXCEPT !.as_of = snapshot.ts]
          /\ rpc' = "positions"
          /\ UNCHANGED shown
  /\ UNCHANGED vars

\* Mutant: the second query counts orders, the third one positions.
ReadCountsSwapped(query) ==
  /\ rpc = query
  /\ IF query = "positions"
     THEN got' = [got EXCEPT !.pending = Pending] /\ rpc' = "orders" /\ UNCHANGED shown
     ELSE /\ shown' = [got EXCEPT !.open = Open]
          /\ got' = EmptySummary /\ rpc' = "snapshot"
  /\ UNCHANGED <<vars, idle>>

\* The two counts, positions first; what they count is kept here.
ReadCounts(query) ==
  /\ rpc = query
  /\ IF query = "positions"
     THEN got' = [got EXCEPT !.open = Open] /\ rpc' = "orders" /\ UNCHANGED shown
     ELSE /\ shown' = [got EXCEPT !.pending = Pending]
          /\ got' = EmptySummary /\ rpc' = "snapshot"
  /\ UNCHANGED <<vars, idle>>

LedgerStep == Next /\ idle' = (idle \/ Idle') /\ UNCHANGED <<rpc, got, shown>>

PortfolioNext ==
  LedgerStep \/ ReadSnapshot \/ \E q \in {"positions", "orders"} : ReadCounts(q)

PortfolioSpec == PortfolioInit /\ [][PortfolioNext]_<<vars, reader>>

\* order_by(entry_ts.desc()).limit(limit): rows of the same stamp in any order.
Newest(S, T, limit) ==
  /\ S \subseteq T
  /\ Cardinality(S) = limit \/ (S = T /\ Cardinality(T) < limit)
  /\ \A d \in S, e \in T \ S : positions[d].entry_ts >= positions[e].entry_ts

Listed(status) == {d \in Decisions : positions[d] # NULL /\ positions[d].status = status}

\* Mutant: the status is filtered after the limit.
ListPositionsLate(status, limit) ==
  {S \cap Listed(status) : S \in {R \in SUBSET (Listed("OPEN") \cup Listed("CLOSED")) :
     Newest(R, Listed("OPEN") \cup Listed("CLOSED"), limit)}}

\* list_positions with a status: the answers it may give.
ListPositions(status, limit) ==
  {S \in SUBSET Listed(status) : Newest(S, Listed(status), limit)}

----------------------------------------------------------------------------
(* Properties. *)

\* However a pass interleaves with the queries, an order that is filled in
\* between is not counted as an order and as a position.
NothingCountedTwice == shown # NULL => shown.open \cap shown.pending = {}

\* A page of OPEN positions has them all if it is long enough for them, however
\* many positions were entered later and are closed.
OpenAreListed ==
  Cardinality(Open) <= PageLimit => \A S \in ListPositions("OPEN", PageLimit) : S = Open

\* What every answer of the read side promises.
SummaryIsSound == NothingCountedTwice /\ OpenAreListed

\* Not guaranteed by the code (README, "Known deviations").
\* portfolio_reader.py: "zeros when the ledger is empty": an empty summary is
\* not one of a ledger with orders or positions.
EmptyMeansEmpty ==
  [][ReadSnapshot /\ shown' = EmptySummary => Idle]_<<vars, reader>>

\* Not guaranteed by the code (README, "Known deviations").
\* portfolio_reader.py: "Latest account snapshot plus open position/order
\* counts": a summary without orders and positions is one of a ledger that had
\* none at some instant of the request.
IdleIsReal ==
  [][rpc = "orders" /\ rpc' = "snapshot" /\ shown'.open = {} /\ shown'.pending = {}
       => idle \/ Idle]_<<vars, reader>>

=============================================================================
