------------------------- MODULE PaperLedgerProofs -------------------------
(***************************************************************************)
(* The paper ledger, for every set of units and bars, every window length  *)
(* and any number of failures: its safety, that it implements the abstract *)
(* slots (SymbolSlots), and that what its read side answers is sound       *)
(* (Portfolio), however queries interleave with the commits of a pass.     *)
(***************************************************************************)
EXTENDS PaperLedgerSlots, Portfolio, FiniteSetTheorems, TLAPS

Reasons == {"stop_loss", "take_profit", "signal"}

Book == [orders : [Decisions -> OrderRow \cup {NULL}],
         positions : [Decisions -> PositionRow \cup {NULL}],
         cash : Int]

----------------------------------------------------------------------------
(* What the book operators do.                                             *)

\* The row CloseAt writes: exit columns and costs; the entry is untouched.
LEMMA CloseAtFacts ==
  ASSUME NEW bk \in Book, NEW d \in Decisions, IsOpen(bk.positions, d),
         NEW price \in Int, NEW reason \in Reasons, NEW ts \in Int
  PROVE  LET c == CloseAt(bk, d, price, reason, ts)
             p == bk.positions[d]
             q == c.positions[d]
         IN /\ c \in Book
            /\ c.orders = bk.orders
            /\ \A e \in Decisions : e # d => c.positions[e] = bk.positions[e]
            /\ q \in PositionRow
            /\ q.status = "CLOSED"
            /\ q.side = p.side /\ q.sl = p.sl /\ q.tp = p.tp
            /\ q.entry_ts = p.entry_ts /\ q.entry_price = p.entry_price
            /\ q.exit_ts = ts /\ q.exit_price = price
            /\ q.exit_reason = reason
<1> DEFINE p == bk.positions[d]
           total == Cost + p.costs
           q == [p EXCEPT !.status = "CLOSED", !.exit_ts = ts,
                          !.exit_price = price,
                          !.exit_reason = reason, !.costs = total,
                          !.net_pnl = Gross(p, price) - total]
           c == CloseAt(bk, d, price, reason, ts)
<1>1. p \in PositionRow
  BY DEF Book, IsOpen
<1>2. total \in Int /\ Gross(p, price) \in Int
  BY <1>1, NumbersAssumption DEF PositionRow, Gross
<1>3. /\ q \in PositionRow
      /\ q.status = "CLOSED"
      /\ q.side = p.side /\ q.sl = p.sl /\ q.tp = p.tp
      /\ q.entry_ts = p.entry_ts /\ q.entry_price = p.entry_price
      /\ q.exit_ts = ts /\ q.exit_price = price
      /\ q.exit_reason = reason
  <2> HIDE DEF p, total
  <2>0. /\ ts \in Optional /\ price \in Optional
        /\ Gross(p, price) - total \in Optional
        /\ reason \in {"none", "stop_loss", "take_profit", "signal"}
    BY <1>2 DEF Optional, Reasons
  <2>1. q \in PositionRow
    <3> DEFINE g == Gross(p, price) - total
    <3>1. g \in Optional
      BY <2>0
    <3> HIDE DEF g
    <3> QED BY <1>1, <1>2, <2>0, <3>1 DEF PositionRow
  <2>2. q.status = "CLOSED" /\ q.side = p.side /\ q.sl = p.sl /\ q.tp = p.tp
    BY <1>1 DEF PositionRow
  <2>3. q.entry_ts = p.entry_ts /\ q.entry_price = p.entry_price
    BY <1>1 DEF PositionRow
  <2>4. q.exit_ts = ts /\ q.exit_price = price /\ q.exit_reason = reason
    BY <1>1 DEF PositionRow
  <2> QED BY <2>1, <2>2, <2>3, <2>4
<1>4. /\ c.orders = bk.orders
      /\ c.positions = [bk.positions EXCEPT ![d] = q]
      /\ c.cash = bk.cash + Gross(p, price) - total
      /\ c \in [orders : {c.orders}, positions : {c.positions}, cash : {c.cash}]
  BY DEF CloseAt, Book
<1> HIDE DEF c, q, total
<1>5. c \in Book
  BY <1>2, <1>3, <1>4 DEF Book
<1>6. /\ \A e \in Decisions : e # d => c.positions[e] = bk.positions[e]
      /\ c.positions[d] = q
  BY <1>4 DEF Book
<1> QED BY <1>3, <1>4, <1>5, <1>6 DEF c

\* The rows FillPending writes: the order is FILLED, its position OPEN.
LEMMA FillPendingFacts ==
  ASSUME NEW bk \in Book, NEW d \in Decisions, IsPending(bk.orders, d),
         OpenFor(bk.positions, DecisionSymbol(d)) = {},
         NEW price \in Int, NEW ts \in Int
  PROVE  LET f == FillPending(bk, d, price, ts)
             q == f.positions[d]
         IN /\ f \in Book
            /\ \A e \in Decisions : e # d => /\ f.positions[e] = bk.positions[e]
                                             /\ f.orders[e] = bk.orders[e]
            /\ f.orders[d] \in OrderRow
            /\ f.orders[d].status = "FILLED"
            /\ q \in PositionRow
            /\ q.status = "OPEN"
            /\ q.entry_ts = ts /\ q.entry_price = price
            /\ q.side = bk.orders[d].side
<1> DEFINE o == bk.orders[d]
           r == [o EXCEPT !.status = "FILLED"]
           q == [side |-> o.side, sl |-> o.sl, tp |-> o.tp, entry_ts |-> ts,
                 entry_price |-> price, costs |-> Cost, status |-> "OPEN",
                 exit_ts |-> NULL, exit_price |-> NULL, net_pnl |-> NULL,
                 exit_reason |-> "none"]
           f == FillPending(bk, d, price, ts)
<1>1. o \in OrderRow
  BY DEF Book, IsPending
<1>2. r \in OrderRow /\ r.status = "FILLED"
  BY <1>1 DEF OrderRow
<1>3. /\ q \in PositionRow
      /\ q.status = "OPEN"
      /\ q.entry_ts = ts /\ q.entry_price = price
      /\ q.side = o.side
  <2>1. NULL \in Optional /\ Cost \in Int
    BY NumbersAssumption DEF Optional
  <2> HIDE DEF o
  <2> QED BY <1>1, <2>1 DEF PositionRow, OrderRow
<1>4. /\ f.orders = [bk.orders EXCEPT ![d] = r]
      /\ f.positions = [bk.positions EXCEPT ![d] = q]
      /\ f.cash = bk.cash - Cost
      /\ f \in [orders : {f.orders}, positions : {f.positions}, cash : {f.cash}]
  BY DEF FillPending, EnterAtNextOpen, Entered, Book
<1> HIDE DEF f, q, r
<1>5. f \in Book
  BY <1>2, <1>3, <1>4, NumbersAssumption DEF Book
<1>6. /\ \A e \in Decisions : e # d => /\ f.positions[e] = bk.positions[e]
                                       /\ f.orders[e] = bk.orders[e]
      /\ f.orders[d] = r
      /\ f.positions[d] = q
  BY <1>4 DEF Book
<1> QED BY <1>2, <1>3, <1>5, <1>6 DEF f

\* CancelPending changes PENDING rows of the given set to CANCELLED only.
LEMMA CancelPendingFacts ==
  ASSUME NEW O \in [Decisions -> OrderRow \cup {NULL}], NEW D
  PROVE  /\ CancelPending(O, D) \in [Decisions -> OrderRow \cup {NULL}]
         /\ \A d \in Decisions :
              \/ CancelPending(O, D)[d] = O[d]
              \/ /\ d \in D
                 /\ IsPending(O, d)
                 /\ CancelPending(O, D)[d] \in OrderRow
                 /\ CancelPending(O, D)[d].status = "CANCELLED"
<1>1. \A d \in Decisions : IsPending(O, d) =>
        /\ [O[d] EXCEPT !.status = "CANCELLED"] \in OrderRow
        /\ [O[d] EXCEPT !.status = "CANCELLED"].status = "CANCELLED"
  BY DEF IsPending, OrderRow
<1> QED BY <1>1 DEF CancelPending

----------------------------------------------------------------------------
(* The invariants, stated of the tables O and P a transaction would write. *)

OneOpen(P) ==
  \A d, e \in Decisions :
    IsOpen(P, d) /\ IsOpen(P, e) /\ DecisionSymbol(d) = DecisionSymbol(e) => d = e

Linked(O, P) ==
  \A d \in Decisions :
    /\ P[d] # NULL <=> (O[d] # NULL /\ O[d].status = "FILLED")
    /\ P[d] # NULL =>
         /\ P[d].entry_ts = FillStamp(d)
         /\ FillStamp(d) \in Stored(d[1])
         /\ P[d].entry_price = candles[d[1]][FillStamp(d)].open

Replaced(P, d) ==
  \E e \in Decisions :
    /\ P[e] # NULL
    /\ DecisionSymbol(e) = DecisionSymbol(d)
    /\ P[e].side # P[d].side
    /\ P[e].entry_ts = P[d].exit_ts
    /\ P[e].entry_price = P[d].exit_price

FlipsDone(P) ==
  \A d \in Decisions :
    IsClosed(P, d) /\ P[d].exit_reason = "signal" => Replaced(P, d)

Backed(P, d) ==
  /\ P[d].exit_price = IF P[d].exit_reason = "stop_loss" THEN P[d].sl ELSE P[d].tp
  /\ \E u \in Units :
       /\ SymbolOf[u] = DecisionSymbol(d)
       /\ P[d].exit_ts \in Stored(u)
       /\ Breach(P[d], candles[u][P[d].exit_ts].close)

ExitsBacked(P) ==
  \A d \in Decisions :
    IsClosed(P, d) /\ P[d].exit_reason # "signal" => Backed(P, d)

\* The tables without the flip property, which is broken between the two
\* halves of a flip.
Core(bk) ==
  /\ bk \in Book
  /\ OneOpen(bk.positions)
  /\ Linked(bk.orders, bk.positions)
  /\ ExitsBacked(bk.positions)

\* HistoryIsFinal between two books.
Kept(O, P, O2, P2) ==
  \A d \in Decisions :
    /\ O[d] # NULL /\ ~ IsPending(O, d) => O2[d] = O[d]
    /\ IsClosed(P, d) => P2[d] = P[d]
    /\ IsOpen(P, d) => /\ P2[d] # NULL
                       /\ P2[d].entry_ts = P[d].entry_ts
                       /\ P2[d].entry_price = P[d].entry_price
                       /\ P2[d].side = P[d].side

\* A row that exists is OPEN or CLOSED.
LEMMA OpenOrClosed ==
  ASSUME NEW P \in [Decisions -> PositionRow \cup {NULL}], NEW d \in Decisions,
         P[d] # NULL
  PROVE  /\ IsOpen(P, d) \/ IsClosed(P, d)
         /\ ~ (IsOpen(P, d) /\ IsClosed(P, d))
BY DEF IsOpen, IsClosed, PositionRow

\* Closing the open position keeps the core and empties the symbol's slot.
LEMMA CloseKeepsCore ==
  ASSUME NEW bk, Core(bk), NEW h \in Decisions, IsOpen(bk.positions, h),
         NEW price \in Int, NEW reason \in Reasons, NEW ts \in Int,
         \/ reason = "signal"
         \/ /\ price = IF reason = "stop_loss" THEN bk.positions[h].sl
                                               ELSE bk.positions[h].tp
            /\ \E u \in Units : /\ SymbolOf[u] = DecisionSymbol(h)
                                /\ ts \in Stored(u)
                                /\ Breach(bk.positions[h], candles[u][ts].close)
  PROVE  LET c == CloseAt(bk, h, price, reason, ts)
         IN /\ Core(c)
            /\ Kept(bk.orders, bk.positions, c.orders, c.positions)
            /\ OpenFor(c.positions, DecisionSymbol(h)) = {}
            /\ IsClosed(c.positions, h)
            /\ \A e \in Decisions : e # h => c.positions[e] = bk.positions[e]
            /\ c.orders = bk.orders
            /\ c.positions[h].side = bk.positions[h].side
            /\ c.positions[h].exit_ts = ts
            /\ c.positions[h].exit_price = price
            /\ c.positions[h].exit_reason = reason
<1> DEFINE c == CloseAt(bk, h, price, reason, ts)
<1>1. bk \in Book
  BY DEF Core
<1>2. /\ c \in Book
      /\ c.orders = bk.orders
      /\ \A e \in Decisions : e # h => c.positions[e] = bk.positions[e]
      /\ c.positions[h] \in PositionRow
      /\ c.positions[h].status = "CLOSED"
      /\ c.positions[h].side = bk.positions[h].side
      /\ c.positions[h].sl = bk.positions[h].sl
      /\ c.positions[h].tp = bk.positions[h].tp
      /\ c.positions[h].entry_ts = bk.positions[h].entry_ts
      /\ c.positions[h].entry_price = bk.positions[h].entry_price
      /\ c.positions[h].exit_ts = ts
      /\ c.positions[h].exit_price = price
      /\ c.positions[h].exit_reason = reason
  BY <1>1, CloseAtFacts
<1> HIDE DEF c
<1>3. /\ c.positions[h] # NULL
      /\ bk.positions[h] # NULL
      /\ IsClosed(c.positions, h)
      /\ ~ IsOpen(c.positions, h)
  BY <1>2, NullAssumption DEF IsClosed, IsOpen
<1>4. OneOpen(c.positions)
  BY <1>2, <1>3 DEF OneOpen, Core, IsOpen
<1>5. Linked(c.orders, c.positions)
  BY <1>2, <1>3 DEF Linked, Core
<1>6. ExitsBacked(c.positions)
  <2> SUFFICES ASSUME NEW d \in Decisions, IsClosed(c.positions, d),
                      c.positions[d].exit_reason # "signal"
               PROVE  Backed(c.positions, d)
    BY DEF ExitsBacked
  <2>1. CASE d = h
    <3>1. \A close : Breach(c.positions[h], close) = Breach(bk.positions[h], close)
      BY <1>2 DEF Breach, StopHit, TargetHit
    <3> QED BY <1>2, <2>1, <3>1 DEF Backed
  <2>2. CASE d # h
    BY <1>2, <2>2 DEF ExitsBacked, Backed, Core, IsClosed
  <2> QED BY <2>1, <2>2
<1>7. Kept(bk.orders, bk.positions, c.orders, c.positions)
  BY <1>2, <1>3 DEF Kept, IsClosed, IsOpen
<1>8. OpenFor(c.positions, DecisionSymbol(h)) = {}
  BY <1>2, <1>3 DEF OpenFor, Core, OneOpen, IsOpen
<1> QED BY <1>2, <1>3, <1>4, <1>5, <1>6, <1>7, <1>8 DEF Core, c

\* Filling a pending order at its fill bar keeps the core.
LEMMA FillKeepsCore ==
  ASSUME TypeOK, NEW bk, Core(bk), NEW d \in Decisions, IsPending(bk.orders, d),
         OpenFor(bk.positions, DecisionSymbol(d)) = {},
         FillStamp(d) \in Stored(d[1])
  PROVE  LET ts    == FillStamp(d)
             price == candles[d[1]][ts].open
             f     == FillPending(bk, d, price, ts)
         IN /\ Core(f)
            /\ Kept(bk.orders, bk.positions, f.orders, f.positions)
            /\ IsOpen(f.positions, d)
            /\ f.positions[d].side = bk.orders[d].side
            /\ f.positions[d].entry_ts = ts
            /\ f.positions[d].entry_price = price
            /\ \A e \in Decisions : e # d => /\ f.positions[e] = bk.positions[e]
                                             /\ f.orders[e] = bk.orders[e]
<1> DEFINE ts == FillStamp(d)
           price == candles[d[1]][ts].open
           f == FillPending(bk, d, price, ts)
<1>1. /\ ts \in Int
      /\ price \in Int
      /\ bk \in Book
  <2>1. d[1] \in Units /\ ts \in Stamps
    BY DEF Decisions, Stored
  <2>2. candles[d[1]][ts] \in Bars
    BY <2>1 DEF TypeOK, Stored
  <2> QED BY <2>1, <2>2, RowsAssumption DEF Stamps, Core
<1> HIDE DEF ts, price
<1>2. /\ f \in Book
      /\ \A e \in Decisions : e # d => /\ f.positions[e] = bk.positions[e]
                                       /\ f.orders[e] = bk.orders[e]
      /\ f.orders[d] \in OrderRow
      /\ f.orders[d].status = "FILLED"
      /\ f.positions[d] \in PositionRow
      /\ f.positions[d].status = "OPEN"
      /\ f.positions[d].entry_ts = ts
      /\ f.positions[d].entry_price = price
      /\ f.positions[d].side = bk.orders[d].side
  BY <1>1, FillPendingFacts
<1> HIDE DEF f
<1>3. /\ f.orders[d] # NULL
      /\ f.positions[d] # NULL
      /\ IsOpen(f.positions, d)
      /\ ~ IsClosed(f.positions, d)
      /\ bk.positions[d] = NULL
  BY <1>2, NullAssumption DEF IsOpen, IsClosed, IsPending, Core, Linked
<1>4. OneOpen(f.positions)
  BY <1>2, <1>3 DEF OneOpen, Core, IsOpen, OpenFor
<1>5. Linked(f.orders, f.positions)
  BY <1>2, <1>3 DEF Linked, Core, ts, price
<1>6. ExitsBacked(f.positions)
  BY <1>2, <1>3 DEF ExitsBacked, Backed, Core, IsClosed
<1>7. Kept(bk.orders, bk.positions, f.orders, f.positions)
  BY <1>2, <1>3 DEF Kept, IsClosed, IsOpen
<1> QED BY <1>2, <1>3, <1>4, <1>5, <1>6, <1>7 DEF Core, f, ts, price

\* Cancelling pending orders keeps the core.
LEMMA CancelKeepsCore ==
  ASSUME NEW bk, Core(bk), NEW D
  PROVE  LET c == [bk EXCEPT !.orders = CancelPending(@, D)]
         IN /\ Core(c)
            /\ Kept(bk.orders, bk.positions, c.orders, c.positions)
            /\ c.orders = CancelPending(bk.orders, D)
            /\ c.positions = bk.positions
<1> DEFINE c == [bk EXCEPT !.orders = CancelPending(@, D)]
<1>0. bk \in Book
  BY DEF Core
<1>1. /\ c.orders = CancelPending(bk.orders, D)
      /\ c.positions = bk.positions
      /\ c.cash = bk.cash
      /\ c \in [orders : {c.orders}, positions : {c.positions}, cash : {c.cash}]
  BY <1>0 DEF Book
<1> HIDE DEF c
<1>2. /\ c.orders \in [Decisions -> OrderRow \cup {NULL}]
      /\ \A d \in Decisions :
           \/ c.orders[d] = bk.orders[d]
           \/ /\ IsPending(bk.orders, d)
              /\ c.orders[d] \in OrderRow
              /\ c.orders[d].status = "CANCELLED"
  BY <1>0, <1>1, CancelPendingFacts DEF Book
<1>3. c \in Book
  BY <1>0, <1>1, <1>2 DEF Book
<1>4. Linked(c.orders, c.positions)
  BY <1>1, <1>2 DEF Linked, Core, IsPending
<1>5. Kept(bk.orders, bk.positions, c.orders, c.positions)
  BY <1>1, <1>2 DEF Kept, IsPending, IsOpen, IsClosed
<1> QED BY <1>1, <1>3, <1>4, <1>5 DEF Core, c

\* A replaced position stays replaced: its successor keeps its entry.
LEMMA FlipsStayDone ==
  ASSUME NEW O, NEW P \in [Decisions -> PositionRow \cup {NULL}],
         NEW O2, NEW P2, Kept(O, P, O2, P2), FlipsDone(P),
         \A d \in Decisions : IsClosed(P2, d) /\ P2[d].exit_reason = "signal"
                                => IsClosed(P, d) \/ Replaced(P2, d)
  PROVE  FlipsDone(P2)
<1> SUFFICES ASSUME NEW d \in Decisions, IsClosed(P2, d),
                    P2[d].exit_reason = "signal", IsClosed(P, d)
             PROVE  Replaced(P2, d)
  BY DEF FlipsDone
<1>1. P2[d] = P[d]
  BY DEF Kept
<1>2. PICK e \in Decisions :
         /\ P[e] # NULL
         /\ DecisionSymbol(e) = DecisionSymbol(d)
         /\ P[e].side # P[d].side
         /\ P[e].entry_ts = P[d].exit_ts
         /\ P[e].entry_price = P[d].exit_price
  BY <1>1 DEF FlipsDone, Replaced
<1>3. IsOpen(P, e) \/ IsClosed(P, e)
  BY <1>2, OpenOrClosed
<1>4. /\ P2[e] # NULL
      /\ P2[e].side = P[e].side
      /\ P2[e].entry_ts = P[e].entry_ts
      /\ P2[e].entry_price = P[e].entry_price
  BY <1>2, <1>3 DEF Kept
<1> QED BY <1>1, <1>2, <1>4 DEF Replaced

\* Two commits that each keep history keep it together.
LEMMA KeptTransitive ==
  ASSUME NEW O, NEW P, NEW O2, NEW P2 \in [Decisions -> PositionRow \cup {NULL}],
         NEW O3, NEW P3, Kept(O, P, O2, P2), Kept(O2, P2, O3, P3),
         \A d \in Decisions : O[d] # NULL /\ ~ IsPending(O, d) => ~ IsPending(O2, d)
  PROVE  Kept(O, P, O3, P3)
<1> SUFFICES ASSUME NEW d \in Decisions
             PROVE  /\ O[d] # NULL /\ ~ IsPending(O, d) => O3[d] = O[d]
                    /\ IsClosed(P, d) => P3[d] = P[d]
                    /\ IsOpen(P, d) => /\ P3[d] # NULL
                                       /\ P3[d].entry_ts = P[d].entry_ts
                                       /\ P3[d].entry_price = P[d].entry_price
                                       /\ P3[d].side = P[d].side
  BY DEF Kept
<1>1. O[d] # NULL /\ ~ IsPending(O, d) => O3[d] = O[d]
  BY DEF Kept, IsPending
<1>2. IsClosed(P, d) => P3[d] = P[d]
  BY DEF Kept, IsClosed
<1>3. ASSUME IsOpen(P, d)
      PROVE  /\ P3[d] # NULL
             /\ P3[d].entry_ts = P[d].entry_ts
             /\ P3[d].entry_price = P[d].entry_price
             /\ P3[d].side = P[d].side
  <2>1. /\ P2[d] # NULL
        /\ P2[d].entry_ts = P[d].entry_ts
        /\ P2[d].entry_price = P[d].entry_price
        /\ P2[d].side = P[d].side
    BY <1>3 DEF Kept
  <2>2. IsOpen(P2, d) \/ IsClosed(P2, d)
    BY <2>1, OpenOrClosed
  <2> QED BY <2>1, <2>2 DEF Kept
<1> QED BY <1>1, <1>2, <1>3

\* The bar's OPEN: fill, supersede or flip, each keeping all four parts.
LEMMA FillAtOpenKeeps ==
  ASSUME TypeOK, NEW bk, Core(bk), FlipsDone(bk.positions),
         NEW u \in Units, NEW ts \in Stored(u),
         \A d \in cands : FillStamp(d) = ts /\ d[1] = u => IsPending(bk.orders, d)
  PROVE  LET f == FillAtOpen(bk, u, ts, candles[u][ts].open)
         IN /\ Core(f)
            /\ FlipsDone(f.positions)
            /\ Kept(bk.orders, bk.positions, f.orders, f.positions)
            /\ \A e \in Decisions :
                 ~ (e[1] = u /\ FillStamp(e) = ts) => f.orders[e] = bk.orders[e]
<1> DEFINE d == <<u, ts - TfSeconds[u]>>
           price == candles[u][ts].open
           held == OpenFor(bk.positions, SymbolOf[u])
           h == CHOOSE e \in held : TRUE
           f == FillAtOpen(bk, u, ts, price)
<1>0. /\ bk \in Book
      /\ ts \in Int
      /\ TfSeconds[u] \in Int
      /\ candles[u][ts] \in Bars
      /\ price \in Int
  <2>1. ts \in Stamps /\ candles[u][ts] # NULL
    BY DEF Stored
  <2>2. candles[u][ts] \in Bars
    BY <2>1 DEF TypeOK
  <2> QED BY <2>1, <2>2, RowsAssumption, UnitsAssumption DEF Stamps, Core
<1>1. d[1] = u /\ FillStamp(d) = ts
  BY <1>0 DEF FillStamp
<1>2. CASE d \notin cands
  <2>1. f = bk
    BY <1>2 DEF FillAtOpen
  <2>2. Kept(bk.orders, bk.positions, bk.orders, bk.positions)
    BY DEF Kept, IsOpen
  <2> QED BY <2>1, <2>2
<1>3. CASE d \in cands
  <2>1. d \in Decisions /\ IsPending(bk.orders, d) /\ DecisionSymbol(d) = SymbolOf[u]
    BY <1>1, <1>3 DEF TypeOK, DecisionSymbol
  <2> HIDE DEF d
  <2>2. CASE held = {}
    <3>1. f = FillPending(bk, d, price, ts)
      BY <1>3, <2>2 DEF FillAtOpen, d
    <3>2. /\ Core(f)
          /\ Kept(bk.orders, bk.positions, f.orders, f.positions)
          /\ \A e \in Decisions : e # d => /\ f.positions[e] = bk.positions[e]
                                           /\ f.orders[e] = bk.orders[e]
          /\ IsOpen(f.positions, d)
      <4> HIDE DEF f
      <4> QED BY <3>1, <1>1, <2>1, <2>2, FillKeepsCore
    <3> HIDE DEF f
    <3>3. FlipsDone(f.positions)
      <4>1. \A e \in Decisions : IsClosed(f.positions, e) => IsClosed(bk.positions, e)
        BY <3>2 DEF IsClosed, IsOpen
      <4> QED BY <3>2, <4>1, <1>0, FlipsStayDone DEF Book
    <3> QED BY <3>2, <3>3, <1>1 DEF f
  <2>3. CASE held # {}
    <3>1. h \in held
      BY <2>3
    <3>2. h \in Decisions /\ IsOpen(bk.positions, h) /\ DecisionSymbol(h) = SymbolOf[u]
      BY <3>1 DEF OpenFor
    <3> HIDE DEF h
    <3>3. CASE bk.positions[h].side = bk.orders[d].side
      <4>1. f = [bk EXCEPT !.orders = CancelPending(@, {d})]
        BY <1>3, <2>3, <3>3 DEF FillAtOpen, d, h
      <4> HIDE DEF f
      <4>2. /\ Core(f)
            /\ Kept(bk.orders, bk.positions, f.orders, f.positions)
            /\ f.orders = CancelPending(bk.orders, {d})
            /\ f.positions = bk.positions
        BY <4>1, CancelKeepsCore
      <4>3. \A e \in Decisions : e # d => f.orders[e] = bk.orders[e]
        BY <4>2, <1>0, CancelPendingFacts DEF Book
      <4> QED BY <4>2, <4>3, <1>1 DEF f
    <3>4. CASE bk.positions[h].side # bk.orders[d].side
      <4> DEFINE c == CloseAt(bk, h, price, "signal", ts)
      <4>1. f = FillPending(c, d, price, ts)
        BY <1>3, <2>3, <3>4 DEF FillAtOpen, d, h
      <4>2. /\ Core(c)
            /\ Kept(bk.orders, bk.positions, c.orders, c.positions)
            /\ OpenFor(c.positions, DecisionSymbol(h)) = {}
            /\ IsClosed(c.positions, h)
            /\ \A e \in Decisions : e # h => c.positions[e] = bk.positions[e]
            /\ c.orders = bk.orders
            /\ c.positions[h].side = bk.positions[h].side
            /\ c.positions[h].exit_ts = ts
            /\ c.positions[h].exit_price = price
        <5>1. "signal" \in Reasons
          BY DEF Reasons
        <5>2. c = CloseAt(bk, h, price, "signal", ts)
          OBVIOUS
        <5> HIDE DEF price, c
        <5>3. /\ bk \in Book
              /\ h \in Decisions /\ IsOpen(bk.positions, h)
              /\ price \in Int /\ ts \in Int
          BY <1>0, <3>2
        <5>4. /\ c.positions[h].side = bk.positions[h].side
              /\ c.positions[h].exit_ts = ts
              /\ c.positions[h].exit_price = price
          BY ONLY <5>1, <5>2, <5>3, CloseAtFacts
        <5>5. /\ Core(c)
              /\ Kept(bk.orders, bk.positions, c.orders, c.positions)
              /\ OpenFor(c.positions, DecisionSymbol(h)) = {}
              /\ IsClosed(c.positions, h)
              /\ \A e \in Decisions : e # h => c.positions[e] = bk.positions[e]
              /\ c.orders = bk.orders
          BY ONLY Core(bk), <5>1, <5>2, <5>3, CloseKeepsCore
        <5> QED BY <5>4, <5>5
      <4> HIDE DEF c, f
      <4>3. IsPending(c.orders, d) /\ OpenFor(c.positions, DecisionSymbol(d)) = {}
        BY <2>1, <3>2, <4>2
      <4>4. /\ Core(f)
            /\ Kept(c.orders, c.positions, f.orders, f.positions)
            /\ IsOpen(f.positions, d)
            /\ f.positions[d].side = c.orders[d].side
            /\ f.positions[d].entry_ts = ts
            /\ f.positions[d].entry_price = price
            /\ \A e \in Decisions : e # d => /\ f.positions[e] = c.positions[e]
                                             /\ f.orders[e] = c.orders[e]
        <5>1. /\ FillStamp(d) \in Stored(d[1])
              /\ candles[d[1]][FillStamp(d)].open = price
          BY <1>1
        <5>2. /\ Core(c) /\ IsPending(c.orders, d)
              /\ OpenFor(c.positions, DecisionSymbol(d)) = {}
              /\ d \in Decisions
              /\ FillStamp(d) = ts
          BY <4>2, <4>3, <1>1, <2>1
        <5> HIDE DEF price, held
        <5> QED BY ONLY TypeOK, <4>1, <5>1, <5>2, FillKeepsCore
      <4>5. Kept(bk.orders, bk.positions, f.orders, f.positions)
        <5>1. c.positions \in [Decisions -> PositionRow \cup {NULL}]
          BY <4>2 DEF Core, Book
        <5> QED BY <4>2, <4>4, <5>1, KeptTransitive
      <4>6. FlipsDone(f.positions)
        <5>1. h # d
          BY <4>2, <2>1, <4>4 DEF Core, Linked, IsPending, IsClosed
        <5>2. f.positions[h] = c.positions[h] /\ f.positions[d] # NULL
          BY <4>4, <5>1, <3>2 DEF IsOpen
        <5>3. Replaced(f.positions, h)
          BY <5>2, <4>2, <4>4, <3>2, <3>4, <2>1 DEF Replaced
        <5>4. \A e \in Decisions : e # h /\ IsClosed(f.positions, e)
                                    => IsClosed(bk.positions, e)
          BY <4>2, <4>4 DEF IsClosed, IsOpen
        <5> QED BY <4>5, <5>3, <5>4, <1>0, FlipsStayDone DEF Book
      <4> QED BY <4>2, <4>4, <4>5, <4>6, <1>1 DEF f
    <3> QED BY <3>3, <3>4
  <2> QED BY <2>2, <2>3
<1> QED BY <1>2, <1>3

\* The bar's CLOSE: a stop or target exit, backed by that very bar.
LEMMA EvaluateExitKeeps ==
  ASSUME TypeOK, NEW bk, Core(bk), FlipsDone(bk.positions),
         NEW u \in Units, NEW ts \in Stored(u)
  PROVE  LET x == EvaluateExit(bk, SymbolOf[u], candles[u][ts].close, ts)
         IN /\ Core(x)
            /\ FlipsDone(x.positions)
            /\ Kept(bk.orders, bk.positions, x.orders, x.positions)
            /\ x.orders = bk.orders
<1> DEFINE close == candles[u][ts].close
           held == OpenFor(bk.positions, SymbolOf[u])
           h == CHOOSE e \in held : TRUE
           p == bk.positions[h]
           x == EvaluateExit(bk, SymbolOf[u], close, ts)
<1>0. /\ bk \in Book
      /\ ts \in Int
  BY DEF Core, Stored, Stamps
<1>1. CASE x = bk
  <2>1. Kept(bk.orders, bk.positions, bk.orders, bk.positions)
    BY DEF Kept, IsOpen
  <2> QED BY <1>1, <2>1
<1>2. ASSUME held # {}, NEW reason \in {"stop_loss", "take_profit"}, NEW price \in Int,
             price = IF reason = "stop_loss" THEN p.sl ELSE p.tp,
             Breach(p, close), x = CloseAt(bk, h, price, reason, ts)
      PROVE  /\ Core(x)
             /\ FlipsDone(x.positions)
             /\ Kept(bk.orders, bk.positions, x.orders, x.positions)
             /\ x.orders = bk.orders
  <2>1. h \in held
    BY <1>2
  <2>2. h \in Decisions /\ IsOpen(bk.positions, h) /\ DecisionSymbol(h) = SymbolOf[u]
    BY <2>1 DEF OpenFor
  <2> HIDE DEF h
  <2>3. reason \in Reasons
    BY <1>2 DEF Reasons
  <2>4. \E v \in Units : /\ SymbolOf[v] = DecisionSymbol(h)
                         /\ ts \in Stored(v)
                         /\ Breach(p, candles[v][ts].close)
    BY <1>2, <2>2
  <2> HIDE DEF x
  <2>5. /\ Core(x)
        /\ Kept(bk.orders, bk.positions, x.orders, x.positions)
        /\ \A e \in Decisions : e # h => x.positions[e] = bk.positions[e]
        /\ x.orders = bk.orders
        /\ x.positions[h].exit_reason = reason
    BY <1>0, <1>2, <2>2, <2>3, <2>4, CloseKeepsCore
  <2>6. FlipsDone(x.positions)
    <3>1. \A e \in Decisions : IsClosed(x.positions, e) /\ x.positions[e].exit_reason = "signal"
                                => IsClosed(bk.positions, e)
      BY <2>5, <1>2 DEF IsClosed
    <3> QED BY <2>5, <3>1, <1>0, FlipsStayDone DEF Book
  <2> QED BY <2>5, <2>6
<1>3. CASE held # {} /\ StopHit(p, close)
  <2>1. p.sl \in Int
    <3>1. h \in Decisions /\ p # NULL
      BY <1>3 DEF OpenFor, IsOpen
    <3>2. p \in PositionRow
      BY <1>0, <3>1 DEF Book
    <3> QED BY <3>2, <1>3 DEF PositionRow, Optional, StopHit
  <2>2. x = CloseAt(bk, h, p.sl, "stop_loss", ts)
    BY <1>3 DEF EvaluateExit
  <2>3. Breach(p, close)
    BY <1>3 DEF Breach
  <2>4. p.sl = IF "stop_loss" = "stop_loss" THEN p.sl ELSE p.tp
    OBVIOUS
  <2> HIDE DEF x, p, h, held, close
  <2>5. /\ Core(x)
        /\ FlipsDone(x.positions)
        /\ Kept(bk.orders, bk.positions, x.orders, x.positions)
        /\ x.orders = bk.orders
    BY <1>3, <2>1, <2>2, <2>3, <2>4, <1>2
  <2> QED BY <2>5 DEF x, close
<1>4. CASE held # {} /\ ~ StopHit(p, close) /\ TargetHit(p, close)
  <2>1. p.tp \in Int
    <3>1. h \in Decisions /\ p # NULL
      BY <1>4 DEF OpenFor, IsOpen
    <3>2. p \in PositionRow
      BY <1>0, <3>1 DEF Book
    <3> QED BY <3>2, <1>4 DEF PositionRow, Optional, TargetHit
  <2>2. x = CloseAt(bk, h, p.tp, "take_profit", ts)
    BY <1>4 DEF EvaluateExit
  <2>3. Breach(p, close)
    BY <1>4 DEF Breach
  <2>4. p.tp = IF "take_profit" = "stop_loss" THEN p.sl ELSE p.tp
    OBVIOUS
  <2> HIDE DEF x, p, h, held, close
  <2>5. /\ Core(x)
        /\ FlipsDone(x.positions)
        /\ Kept(bk.orders, bk.positions, x.orders, x.positions)
        /\ x.orders = bk.orders
    BY <1>4, <2>1, <2>2, <2>3, <2>4, <1>2
  <2> QED BY <2>5 DEF x, close
<1>5. CASE held = {} \/ (~ StopHit(p, close) /\ ~ TargetHit(p, close))
  <2>1. x = bk
    BY <1>5 DEF EvaluateExit
  <2> QED BY <2>1, <1>1
<1> QED BY <1>3, <1>4, <1>5

----------------------------------------------------------------------------
(* The inductive invariant.  The four table properties need: an order only *)
(* exists for a persisted decision (so Decide never overwrites a row), a   *)
(* stored bar has closed, and what a unit's session holds is still good.   *)

TablesOK ==
  /\ OneOpen(positions)
  /\ Linked(orders, positions)
  /\ ExitsBacked(positions)
  /\ FlipsDone(positions)

OrdersDecided == \A d \in Decisions : orders[d] # NULL => d \in decided

CandlesClosed ==
  \A u \in Units : \A ts \in Stored(u) : ts + TfSeconds[u] <= clock

IInv ==
  /\ TypeOK
  /\ TablesOK
  /\ OrdersDecided
  /\ CandlesClosed
  /\ CandidatesStayPending

\* The tables as a book.
LEMMA RestoreIsBook ==
  ASSUME TypeOK
  PROVE  /\ RestoreState \in Book
         /\ RestoreState.orders = orders
         /\ RestoreState.positions = positions
         /\ RestoreState.cash \in Int
         /\ RestoredPeak \in Int
<1>1. RestoredCash \in Int /\ RestoredPeak \in Int
  BY NumbersAssumption DEF TypeOK, SnapshotRow, RestoredCash, RestoredPeak
<1> QED BY <1>1 DEF RestoreState, Book, TypeOK

\* A step that touches neither candles nor tables keeps the table parts.
LEMMA TablesUntouched ==
  ASSUME IInv, UNCHANGED <<candles, tables>>
  PROVE  /\ TablesOK'
         /\ OrdersDecided'
         /\ Kept(orders, positions, orders', positions')
<1> USE DEF IInv, tables
<1>1. TablesOK'
  BY DEF TablesOK, OneOpen, Linked, ExitsBacked, FlipsDone, Backed, Replaced,
         Stored, IsOpen, IsClosed
<1>2. OrdersDecided'
  BY DEF OrdersDecided
<1>3. Kept(orders, positions, orders', positions')
  BY DEF Kept, IsOpen
<1> QED BY <1>1, <1>2, <1>3

\* Init establishes the invariant.
LEMMA InitEstablishes == Init => IInv
<1> SUFFICES ASSUME Init PROVE IInv
  OBVIOUS
<1>1. TypeOK
  BY NumbersAssumption DEF Init, TypeOK, Stamps
<1>2. TablesOK
  BY DEF Init, TablesOK, OneOpen, Linked, ExitsBacked, FlipsDone, IsOpen, IsClosed
<1>3. OrdersDecided /\ CandlesClosed /\ CandidatesStayPending
  BY DEF Init, OrdersDecided, CandlesClosed, CandidatesStayPending, Stored
<1> QED BY <1>1, <1>2, <1>3 DEF IInv

\* Time passing.
LEMMA TickKeeps ==
  ASSUME IInv, Tick
  PROVE  IInv' /\ Kept(orders, positions, orders', positions')
<1> USE DEF IInv
<1>1. TypeOK'
  BY NumbersAssumption DEF TypeOK, Tick, tables, pass, Stamps
<1>2. /\ TablesOK'
      /\ OrdersDecided'
      /\ Kept(orders, positions, orders', positions')
  BY TablesUntouched DEF Tick
<1>3. CandlesClosed'
  BY UnitsAssumption, NumbersAssumption DEF CandlesClosed, TypeOK, Tick, Stored, Stamps
<1>4. CandidatesStayPending'
  BY DEF CandidatesStayPending, Tick, tables, pass, Stored, IsPending
<1> QED BY <1>1, <1>2, <1>3, <1>4

\* The ingest worker stores a bar while a pass is under way.
LEMMA StoreBarKeeps ==
  ASSUME IInv, NEW u \in Units, NEW ts \in Stamps, NEW bar \in Bars, StoreBar(u, ts, bar)
  PROVE  IInv' /\ Kept(orders, positions, orders', positions')
<1> USE DEF IInv
<1>1. TypeOK'
  BY DEF TypeOK, StoreBar, tables, pass
<1>2. /\ \A v \in Units : Stored(v) \subseteq Stored(v)'
      /\ \A v \in Units : \A t \in Stored(v) : candles'[v][t] = candles[v][t]
      /\ \A v \in Units : \A t \in Stored(v)' : t \in Stored(v) \/ (v = u /\ t = ts)
  BY NullAssumption DEF TypeOK, StoreBar, Stored
<1>3. orders' = orders /\ positions' = positions /\ decided' = decided
  BY DEF StoreBar, tables
<1>4. TablesOK'
  <2>1. OneOpen(positions)' /\ FlipsDone(positions)'
    BY <1>3 DEF TablesOK, OneOpen, FlipsDone, Replaced, IsOpen, IsClosed
  <2>2. Linked(orders, positions)'
    BY <1>2, <1>3 DEF TablesOK, Linked, Decisions
  <2>3. ExitsBacked(positions)'
    <3> SUFFICES ASSUME NEW d \in Decisions, IsClosed(positions', d),
                        positions'[d].exit_reason # "signal"
                 PROVE  Backed(positions, d)'
      BY DEF ExitsBacked, IsClosed
    <3>1. Backed(positions, d)
      BY <1>3 DEF TablesOK, ExitsBacked
    <3> QED BY <3>1, <1>2, <1>3 DEF Backed
  <2> QED BY <2>1, <2>2, <2>3 DEF TablesOK
<1>5. OrdersDecided' /\ Kept(orders, positions, orders', positions')
  BY <1>3 DEF OrdersDecided, Kept, IsOpen
<1>6. CandlesClosed'
  BY <1>2 DEF CandlesClosed, StoreBar
<1>7. CandidatesStayPending'
  BY <1>2, <1>3 DEF CandidatesStayPending, StoreBar, pass, IsPending
<1> QED BY <1>1, <1>4, <1>5, <1>6, <1>7

\* A PAPER decision with its PENDING order.
LEMMA DecideKeeps ==
  ASSUME IInv, NEW d \in Decisions, NEW br \in Brackets, Decide(d, br)
  PROVE  IInv' /\ Kept(orders, positions, orders', positions')
<1> USE DEF IInv
<1> DEFINE row == [side |-> br.side, sl |-> br.sl, tp |-> br.tp, status |-> "PENDING"]
<1>1. orders' = orders \/ orders' = [orders EXCEPT ![d] = row]
  BY DEF Decide, SubmitPaperOrder
<1>2. row \in OrderRow /\ row.status = "PENDING"
  BY RowsAssumption DEF OrderRow
<1>3. orders[d] = NULL /\ positions[d] = NULL
  BY DEF OrdersDecided, Decide, TablesOK, Linked
<1> HIDE DEF row
<1>4. /\ orders' \in [Decisions -> OrderRow \cup {NULL}]
      /\ \A e \in Decisions : e # d => orders'[e] = orders[e]
      /\ orders'[d] = NULL \/ orders'[d] = row
  BY <1>1, <1>2, <1>3 DEF TypeOK
<1>5. TypeOK'
  BY <1>4 DEF TypeOK, Decide, pass
<1>6. TablesOK'
  <2>1. OneOpen(positions)' /\ FlipsDone(positions)' /\ ExitsBacked(positions)'
    BY DEF TablesOK, Decide, OneOpen, FlipsDone, ExitsBacked, Replaced, Backed,
           IsOpen, IsClosed, Stored
  <2>2. Linked(orders, positions)'
    BY <1>2, <1>3, <1>4 DEF TablesOK, Decide, Linked, Stored
  <2> QED BY <2>1, <2>2 DEF TablesOK
<1>7. OrdersDecided'
  BY <1>4 DEF OrdersDecided, Decide
<1>8. CandlesClosed' /\ CandidatesStayPending'
  BY DEF CandlesClosed, CandidatesStayPending, Decide, pass, Stored
<1>9. Kept(orders, positions, orders', positions')
  BY <1>3, <1>4 DEF Kept, Decide, IsPending, IsOpen
<1> QED BY <1>5, <1>6, <1>7, <1>8, <1>9

\* Steps of a pass that write nothing and leave no bar loop behind.
LEMMA IdleStepKeeps ==
  ASSUME IInv, UNCHANGED <<clock, candles, tables>>, TypeOK', pc' # "bars"
  PROVE  IInv' /\ Kept(orders, positions, orders', positions')
<1>1. /\ TablesOK'
      /\ OrdersDecided'
      /\ Kept(orders, positions, orders', positions')
  BY TablesUntouched
<1>2. CandlesClosed' /\ CandidatesStayPending'
  BY DEF IInv, CandlesClosed, CandidatesStayPending, Stored
<1> QED BY <1>1, <1>2 DEF IInv

\* The start of a pass touches no table.
LEMMA DiscoverKeeps ==
  ASSUME IInv, Discover
  PROVE  IInv' /\ Kept(orders, positions, orders', positions')
<1>1. TypeOK'
  BY DEF IInv, TypeOK, Discover, tables, ActiveUnits
<1> QED BY <1>1, IdleStepKeeps DEF Discover

\* A failed unit, a failed sweep and a crash touch no table.
LEMMA FailuresKeep ==
  ASSUME IInv, UnitFails \/ SweepFails \/ Crash
  PROVE  IInv' /\ Kept(orders, positions, orders', positions')
<1>1. UNCHANGED <<clock, candles, tables>> /\ pc' # "bars"
  BY DEF UnitFails, SweepFails, Crash, Fail, NextUnit
<1>2. TypeOK'
  <2>1. failures' \in 0 .. MaxFailures
    BY NumbersAssumption DEF IInv, TypeOK, UnitFails, SweepFails, Crash, Fail
  <2>2. /\ pc' \in {"idle", "cycle"}
        /\ queue' \subseteq Units
        /\ unit' \in Units \cup {NULL}
        /\ cands' \subseteq Decisions
        /\ window' \subseteq Stamps
    BY DEF IInv, TypeOK, UnitFails, SweepFails, Crash, NextUnit
  <2> QED BY <1>1, <2>1, <2>2 DEF IInv, TypeOK, tables
<1> QED BY <1>1, <1>2, IdleStepKeeps

\* A commit that only cancels pending orders.
LEMMA CancelStepKeeps ==
  ASSUME IInv, NEW D, orders' = CancelPending(orders, D),
         UNCHANGED <<clock, candles, decided, positions>>
  PROVE  /\ TablesOK'
         /\ OrdersDecided'
         /\ CandlesClosed'
         /\ orders' \in [Decisions -> OrderRow \cup {NULL}]
         /\ \A d \in Decisions : d \notin D => orders'[d] = orders[d]
         /\ Kept(orders, positions, orders', positions')
<1> USE DEF IInv
<1>1. /\ orders' \in [Decisions -> OrderRow \cup {NULL}]
      /\ \A d \in Decisions :
           \/ orders'[d] = orders[d]
           \/ /\ d \in D
              /\ IsPending(orders, d)
              /\ orders'[d] \in OrderRow
              /\ orders'[d].status = "CANCELLED"
  BY CancelPendingFacts DEF TypeOK
<1>2. TablesOK'
  <2>1. OneOpen(positions)' /\ FlipsDone(positions)' /\ ExitsBacked(positions)'
    BY DEF TablesOK, OneOpen, FlipsDone, ExitsBacked, Replaced, Backed,
           IsOpen, IsClosed, Stored
  <2>2. Linked(orders, positions)'
    BY <1>1 DEF TablesOK, Linked, Stored, IsPending
  <2> QED BY <2>1, <2>2 DEF TablesOK
<1>3. OrdersDecided' /\ CandlesClosed'
  BY <1>1 DEF OrdersDecided, CandlesClosed, Stored, IsPending
<1>4. Kept(orders, positions, orders', positions')
  BY <1>1 DEF Kept, IsOpen
<1> QED BY <1>1, <1>2, <1>3, <1>4

\* The sweep cancels PENDING orders only.
LEMMA ExpirySweepKeeps ==
  ASSUME IInv, ExpirySweep
  PROVE  IInv' /\ Kept(orders, positions, orders', positions')
<1>1. /\ TablesOK'
      /\ OrdersDecided'
      /\ CandlesClosed'
      /\ orders' \in [Decisions -> OrderRow \cup {NULL}]
      /\ Kept(orders, positions, orders', positions')
  BY CancelStepKeeps DEF ExpirySweep
<1>2. TypeOK'
  BY <1>1 DEF IInv, TypeOK, ExpirySweep
<1>3. CandidatesStayPending'
  BY DEF CandidatesStayPending, ExpirySweep
<1> QED BY <1>1, <1>2, <1>3 DEF IInv

\* The candidates loaded at the start of a unit survive its own cancellations
\* for as long as their fill bar is in the window.
LEMMA StartUnitKeeps ==
  ASSUME IInv, StartUnit
  PROVE  IInv' /\ Kept(orders, positions, orders', positions')
<1>0. PICK u \in queue :
        /\ queue' = queue \ {u}
        /\ orders' = CancelPending(orders, Doomed(u))
        /\ IF OutstandingStamps(u) = {}
           THEN NextUnit
           ELSE /\ pc' = "bars"
                /\ unit' = u
                /\ cands' = PendingOf(u)
                /\ window' = CatchupWindow(OutstandingStamps(u))
  BY DEF StartUnit
<1>1. /\ TablesOK'
      /\ OrdersDecided'
      /\ CandlesClosed'
      /\ orders' \in [Decisions -> OrderRow \cup {NULL}]
      /\ \A d \in Decisions : d \notin Doomed(u) => orders'[d] = orders[d]
      /\ Kept(orders, positions, orders', positions')
  BY <1>0, CancelStepKeeps DEF StartUnit
<1>2. u \in Units
  BY DEF IInv, TypeOK
<1>3. /\ CatchupWindow(OutstandingStamps(u)) \subseteq Stored(u)
      /\ Stored(u) \subseteq Stamps
      /\ PendingOf(u) \subseteq Decisions
      /\ Stored(u)' = Stored(u)
  BY DEF CatchupWindow, OutstandingStamps, Stored, PendingOf, StartUnit
<1>4. TypeOK'
  BY <1>0, <1>1, <1>2, <1>3 DEF IInv, TypeOK, StartUnit, NextUnit
<1>5. CandidatesStayPending'
  <2>1. CASE OutstandingStamps(u) = {}
    BY <1>0, <2>1 DEF NextUnit, CandidatesStayPending
  <2>2. CASE OutstandingStamps(u) # {}
    <3>1. unit' = u /\ cands' = PendingOf(u) /\ window' \subseteq Stored(u)
      BY <1>0, <1>3, <2>2
    <3>2. ASSUME NEW d \in PendingOf(u)
          PROVE  /\ d[1] = u
                 /\ FillStamp(d) \in window' => IsPending(orders', d)
      <4>1. d \in Decisions /\ d[1] = u /\ IsPending(orders, d)
        BY DEF PendingOf
      <4>2. FillStamp(d) \in window' => d \notin Doomed(u)
        BY <3>1 DEF Doomed
      <4> QED BY <4>1, <4>2, <1>1 DEF IsPending
    <3>3. Stored(unit)' = Stored(u)
      BY <3>1, <1>3 DEF Stored, StartUnit
    <3> QED BY <3>1, <3>2, <3>3, <1>2 DEF CandidatesStayPending, FillStamp, IsPending
  <2> QED BY <2>1, <2>2
<1> QED BY <1>1, <1>4, <1>5 DEF IInv

\* The equity of a book is a number, so a snapshot is well formed.
LEMMA SnapshotTyped ==
  ASSUME TypeOK, NEW bk \in Book, NEW s, NEW close \in Int, NEW ts \in Int
  PROVE  EquitySnapshot(bk, s, close, ts) \in SnapshotRow
<1> DEFINE held == OpenFor(bk.positions, s)
           h == CHOOSE e \in held : TRUE
<1>1. EquityAt(bk, s, close) \in Int
  <2>1. CASE held = {}
    BY <2>1 DEF EquityAt, Book
  <2>2. CASE held # {}
    <3>1. h \in Decisions /\ bk.positions[h] # NULL
      BY <2>2 DEF OpenFor, IsOpen
    <3> HIDE DEF h
    <3>2. bk.positions[h] \in PositionRow
      BY <3>1 DEF Book
    <3>3. Gross(bk.positions[h], close) \in Int
      BY <3>2 DEF PositionRow, Gross
    <3>4. EquityAt(bk, s, close) = bk.cash + Gross(bk.positions[h], close)
      BY <2>2 DEF EquityAt, h
    <3>5. bk.cash \in Int
      BY DEF Book
    <3> QED BY <3>3, <3>4, <3>5
  <2> QED BY <2>1, <2>2
<1>2. RestoredPeak \in Int /\ bk.cash \in Int
  BY RestoreIsBook DEF Book
<1> HIDE DEF held, h
<1> QED BY <1>1, <1>2 DEF EquitySnapshot, SnapshotRow

\* One unit-bar transaction.
LEMMA ProcessBarKeeps ==
  ASSUME IInv, ProcessBar
  PROVE  IInv' /\ Kept(orders, positions, orders', positions')
<1> DEFINE sym == SymbolOf[unit]
<1>0. PICK ts \in window :
        LET bar    == candles[unit][ts]
            filled == FillAtOpen(RestoreState, unit, ts, bar.open)
            final  == EvaluateExit(filled, sym, bar.close, ts)
        IN /\ orders' = final.orders
           /\ positions' = final.positions
           /\ snapshot' = IF OpenFor(filled.positions, sym) # {} /\ SnapshotDue(ts)
                          THEN EquitySnapshot(final, sym, bar.close, ts)
                          ELSE snapshot
           /\ IF window = {ts} THEN NextUnit
              ELSE /\ window' = window \ {ts}
                   /\ UNCHANGED <<pc, unit, cands>>
  BY DEF ProcessBar
<1> DEFINE bar == candles[unit][ts]
           filled == FillAtOpen(RestoreState, unit, ts, bar.open)
           final == EvaluateExit(filled, sym, bar.close, ts)
<1>1. /\ TypeOK
      /\ pc = "bars"
      /\ unit \in Units
      /\ ts \in Stored(unit)
      /\ \A d \in cands : d \in Decisions /\ d[1] = unit
      /\ \A d \in cands : FillStamp(d) \in window => IsPending(orders, d)
  BY DEF IInv, ProcessBar, CandidatesStayPending, TypeOK
<1>2. /\ RestoreState.orders = orders
      /\ RestoreState.positions = positions
      /\ Core(RestoreState)
      /\ FlipsDone(RestoreState.positions)
  BY <1>1, RestoreIsBook DEF IInv, TablesOK, Core
<1>3. /\ Core(filled)
      /\ FlipsDone(filled.positions)
      /\ Kept(orders, positions, filled.orders, filled.positions)
      /\ \A e \in Decisions :
           ~ (e[1] = unit /\ FillStamp(e) = ts) => filled.orders[e] = orders[e]
  <2>1. \A d \in cands : FillStamp(d) = ts /\ d[1] = unit
                            => IsPending(RestoreState.orders, d)
    BY <1>0, <1>1, <1>2
  <2> QED BY <1>1, <1>2, <2>1, FillAtOpenKeeps
<1> HIDE DEF filled
<1>4. /\ Core(final)
      /\ FlipsDone(final.positions)
      /\ Kept(filled.orders, filled.positions, final.orders, final.positions)
      /\ final.orders = filled.orders
  BY <1>1, <1>3, EvaluateExitKeeps
<1> HIDE DEF final
<1>5. orders' = final.orders /\ positions' = final.positions
  BY <1>0 DEF final, filled
<1>6. UNCHANGED <<clock, candles, decided, queue, failures>>
  BY DEF ProcessBar
<1>7. /\ orders' \in [Decisions -> OrderRow \cup {NULL}]
      /\ positions' \in [Decisions -> PositionRow \cup {NULL}]
      /\ final \in Book
      /\ filled.positions \in [Decisions -> PositionRow \cup {NULL}]
  BY <1>3, <1>4, <1>5 DEF Core, Book
<1>8. Kept(orders, positions, orders', positions')
  <2>1. \A d \in Decisions : orders[d] # NULL /\ ~ IsPending(orders, d)
                               => ~ IsPending(filled.orders, d)
    BY <1>3 DEF Kept, IsPending
  <2> QED BY <1>3, <1>4, <1>5, <1>7, <2>1, KeptTransitive
<1>9. snapshot' \in SnapshotRow \cup {NULL}
  <2>1. ts \in Int /\ bar.close \in Int
    <3>1. ts \in Stamps /\ bar \in Bars
      BY <1>1 DEF Stored, TypeOK
    <3> QED BY <3>1, RowsAssumption DEF Stamps
  <2> HIDE DEF bar, sym
  <2>2. EquitySnapshot(final, sym, bar.close, ts) \in SnapshotRow
    BY <1>1, <1>7, <2>1, SnapshotTyped
  <2>3. snapshot' = snapshot \/ snapshot' = EquitySnapshot(final, sym, bar.close, ts)
    BY <1>0 DEF final, filled, bar, sym
  <2> QED BY <1>1, <2>2, <2>3 DEF TypeOK
<1>10. \/ NextUnit
       \/ window' = window \ {ts} /\ UNCHANGED <<pc, unit, cands>>
  BY <1>0
<1>11. TypeOK'
  BY <1>1, <1>6, <1>7, <1>9, <1>10 DEF TypeOK, NextUnit
<1>12. TablesOK'
  <2>1. OneOpen(positions)' /\ FlipsDone(positions)'
    BY <1>4, <1>5 DEF Core, OneOpen, FlipsDone, Replaced, IsOpen, IsClosed
  <2>2. Linked(orders, positions)'
    BY <1>4, <1>5, <1>6 DEF Core, Linked, Stored
  <2>3. ExitsBacked(positions)'
    BY <1>4, <1>5, <1>6 DEF Core, ExitsBacked, Backed, Stored, IsClosed
  <2> QED BY <2>1, <2>2, <2>3 DEF TablesOK
<1>13. OrdersDecided'
  <2>1. ASSUME NEW d \in Decisions, orders'[d] # NULL
        PROVE  orders[d] # NULL
    <3>1. CASE d \in cands /\ FillStamp(d) = ts
      BY <3>1, <1>0, <1>1 DEF IsPending
    <3>2. CASE ~ (d[1] = unit /\ FillStamp(d) = ts)
      BY <3>2, <1>3, <1>4, <1>5, <2>1
    <3>3. CASE d \notin cands /\ d[1] = unit /\ FillStamp(d) = ts
      <4>1. d = <<unit, ts - TfSeconds[unit]>>
        BY <3>3, <1>1, UnitsAssumption DEF FillStamp, Decisions, Stored, Stamps
      <4>2. filled = RestoreState
        BY <4>1, <3>3 DEF FillAtOpen, filled
      <4> QED BY <4>2, <1>2, <1>4, <1>5, <2>1
    <3> QED BY <3>1, <3>2, <3>3
  <2> QED BY <2>1, <1>6 DEF IInv, OrdersDecided
<1>14. CandlesClosed'
  BY <1>6 DEF IInv, CandlesClosed, Stored
<1>15. CandidatesStayPending'
  <2>1. CASE NextUnit
    BY <2>1 DEF NextUnit, CandidatesStayPending
  <2>2. CASE window' = window \ {ts} /\ UNCHANGED <<pc, unit, cands>>
    <3>1. ASSUME NEW d \in cands, FillStamp(d) \in window \ {ts}
          PROVE  IsPending(orders', d)
      <4>1. IsPending(orders, d) /\ d \in Decisions /\ FillStamp(d) # ts
        BY <3>1, <1>1
      <4>2. orders'[d] = orders[d]
        BY <4>1, <1>3, <1>4, <1>5
      <4> QED BY <4>1, <4>2 DEF IsPending
    <3>2. window \subseteq Stored(unit) /\ Stored(unit)' = Stored(unit)
      BY <1>1, <1>6, <2>2 DEF IInv, CandidatesStayPending, Stored
    <3> QED BY <2>2, <3>1, <3>2, <1>1 DEF CandidatesStayPending, FillStamp, IsPending
  <2> QED BY <1>10, <2>1, <2>2
<1> QED BY <1>8, <1>11, <1>12, <1>13, <1>14, <1>15 DEF IInv

\* Every step of the orchestrator or its environment keeps the invariant and
\* the history of the tables.
LEMMA NextKeeps ==
  ASSUME IInv, [Next]_vars
  PROVE  IInv' /\ Kept(orders, positions, orders', positions')
<1>1. CASE Tick
  BY <1>1, TickKeeps
<1>2. CASE \E u \in Units, ts \in Stamps, bar \in Bars : StoreBar(u, ts, bar)
  BY <1>2, StoreBarKeeps
<1>3. CASE \E d \in Decisions, br \in Brackets : Decide(d, br)
  BY <1>3, DecideKeeps
<1>4. CASE Lifecycle
  BY <1>4, DiscoverKeeps, StartUnitKeeps, ProcessBarKeeps, ExpirySweepKeeps DEF Lifecycle
<1>5. CASE UnitFails \/ SweepFails \/ Crash
  BY <1>5, FailuresKeep
<1>6. CASE UNCHANGED vars
  <2>1. /\ TablesOK'
        /\ OrdersDecided'
        /\ Kept(orders, positions, orders', positions')
    BY <1>6, TablesUntouched DEF vars
  <2>2. TypeOK' /\ CandlesClosed' /\ CandidatesStayPending'
    BY <1>6 DEF vars, tables, pass, IInv, TypeOK, CandlesClosed,
                CandidatesStayPending, Stored, IsPending
  <2> QED BY <2>1, <2>2 DEF IInv
<1> QED BY <1>1, <1>2, <1>3, <1>4, <1>5, <1>6 DEF Next

----------------------------------------------------------------------------
(* The theorems.                                                           *)

\* The inductive invariant holds in every reachable state.
THEOREM Invariance == Spec => []IInv
<1>1. Init => IInv
  BY InitEstablishes
<1>2. IInv /\ [Next]_vars => IInv'
  BY NextKeeps
<1> QED BY <1>1, <1>2, PTL DEF Spec

\* Every row the lifecycle writes, and what a pass holds, has its type.
THEOREM TypeCorrect == Spec => []TypeOK
<1>1. IInv => TypeOK
  BY DEF IInv
<1> QED BY <1>1, Invariance, PTL

\* No sequence of decisions, passes, failures and restarts, over any number
\* of timeframes, opens two positions of one symbol.
THEOREM OneOpenPosition == Spec => []OneOpenPerSymbol
<1>1. IInv => OneOpenPerSymbol
  BY DEF IInv, TablesOK, OneOpen, OneOpenPerSymbol
<1> QED BY <1>1, Invariance, PTL

\* Orders and positions agree, and a fill is at its own bar's stored open.
THEOREM FillsAreAtTheFillBar == Spec => []FilledAtFillBar
<1>1. IInv => FilledAtFillBar
  <2> SUFFICES ASSUME IInv, NEW d \in Decisions
               PROVE  /\ positions[d] # NULL <=> (orders[d] # NULL /\ orders[d].status = "FILLED")
                      /\ positions[d] # NULL =>
                           /\ positions[d].entry_ts = FillStamp(d)
                           /\ FillStamp(d) + TfSeconds[d[1]] <= clock
                           /\ FillStamp(d) \in Stored(d[1])
                           /\ positions[d].entry_price = candles[d[1]][FillStamp(d)].open
    BY DEF FilledAtFillBar
  <2>1. d[1] \in Units
    BY DEF Decisions
  <2> QED BY <2>1 DEF IInv, TablesOK, Linked, CandlesClosed
<1> QED BY <1>1, Invariance, PTL

\* A candidate held across the commits of a catch-up is not stale when used.
THEOREM CandidatesAreFresh == Spec => []CandidatesStayPending
<1>1. IInv => CandidatesStayPending
  BY DEF IInv
<1> QED BY <1>1, Invariance, PTL

\* A position closed by a signal has its successor, wherever a pass failed.
THEOREM FlipsAreAtomic == Spec => []FlipIsAtomic
<1>1. IInv => FlipIsAtomic
  BY DEF IInv, TablesOK, FlipsDone, Replaced, FlipIsAtomic
<1> QED BY <1>1, Invariance, PTL

\* Every stop or target exit is justified by a stored bar of the symbol.
THEOREM ExitsAreBacked == Spec => []ExitIsBackedByBar
<1>1. IInv => ExitIsBackedByBar
  BY DEF IInv, TablesOK, ExitsBacked, Backed, ExitIsBackedByBar
<1> QED BY <1>1, Invariance, PTL

\* No later pass, retry or restart rewrites what the ledger recorded.
THEOREM HistoryKept == Spec => HistoryIsFinal
<1>1. IInv /\ [Next]_vars =>
        [\A d \in Decisions :
           /\ orders[d] # NULL /\ ~ IsPending(orders, d) => orders'[d] = orders[d]
           /\ IsClosed(positions, d) => positions'[d] = positions[d]
           /\ IsOpen(positions, d) =>
                /\ positions'[d] # NULL
                /\ positions'[d].entry_ts = positions[d].entry_ts
                /\ positions'[d].entry_price = positions[d].entry_price
                /\ positions'[d].side = positions[d].side]_vars
  BY NextKeeps DEF Kept
<1> QED BY <1>1, Invariance, PTL DEF Spec, HistoryIsFinal

----------------------------------------------------------------------------
(* Bar time.  With one timeframe per symbol and bars that are stored in    *)
(* order, positions of a symbol follow one another and no bar is skipped.  *)
(* Both fail otherwise: two timeframes of a symbol are passed one after    *)
(* the other, and a backfilled bar may be older than an exit.              *)

BarsInOrder ==
  /\ ~ Backfill
  /\ \A u, v \in Units : SymbolOf[u] = SymbolOf[v] => u = v

\* An order that may still be filled comes after everything its market did.
PendingIsLast ==
  \A d, e \in Decisions :
    positions[d] # NULL /\ IsPending(orders, e) /\ d[1] = e[1] =>
      /\ FillStamp(d) < FillStamp(e)
      /\ IsClosed(positions, d) => positions[d].exit_ts <= FillStamp(e)

\* The bar loop has loaded every pending order of its unit, and will come to
\* its fill bar before any later one.
OrdersAreLoaded ==
  pc = "bars" =>
    \A e \in Decisions : e[1] = unit /\ IsPending(orders, e) =>
      /\ e \in cands
      /\ \A w \in window : FillStamp(e) < w => FillStamp(e) \in window

\* The bars left to the loop have no gap.
WindowIsConvex ==
  pc = "bars" =>
    \A v, w \in window, t \in Stored(unit) : v < t /\ t < w => t \in window

\* A bar the loop has behind it did not touch the position that is open.
PassedBarsAreQuiet ==
  pc = "bars" =>
    \A d \in Decisions, t \in Stored(unit), w \in window :
      /\ d[1] = unit /\ IsOpen(positions, d)
      /\ positions[d].entry_ts <= t /\ t < w /\ t \notin window
      => ~ Breach(positions[d], candles[unit][t].close)

Timeline ==
  /\ PendingIsLast
  /\ PositionsDoNotOverlap
  /\ NoBreachSkipped
  /\ OrdersAreLoaded
  /\ WindowIsConvex
  /\ PassedBarsAreQuiet

----------------------------------------------------------------------------
(* What a unit-bar does to one row.                                        *)

\* Row p was closed at stamp ts, the terms it was entered on unchanged.
ClosedFrom(p, q, ts) ==
  /\ q.side = p.side /\ q.sl = p.sl /\ q.tp = p.tp /\ q.entry_ts = p.entry_ts
  /\ q.exit_ts = ts

\* At the OPEN of bar ts a row of unit u stays, is entered, or is flipped away.
OpenEffect(P, P2, u, ts, e) ==
  \/ P2[e] = P[e]
  \/ P[e] = NULL /\ e[1] = u /\ FillStamp(e) = ts /\ IsOpen(P2, e) /\ P2[e].entry_ts = ts
  \/ IsOpen(P, e) /\ DecisionSymbol(e) = SymbolOf[u] /\ IsClosed(P2, e) /\ ClosedFrom(P[e], P2[e], ts)

\* At its CLOSE a row stays, and unharmed if it is the symbol's, or is closed.
CloseEffect(P, P2, u, ts, e) ==
  \/ /\ P2[e] = P[e]
     /\ e \in OpenFor(P, SymbolOf[u]) => ~ Breach(P[e], candles[u][ts].close)
  \/ IsOpen(P, e) /\ DecisionSymbol(e) = SymbolOf[u] /\ IsClosed(P2, e) /\ ClosedFrom(P[e], P2[e], ts)

\* Breach looks at the terms of a position only.
LEMMA BreachOfTerms ==
  ASSUME NEW p, NEW q, q.side = p.side, q.sl = p.sl, q.tp = p.tp, NEW close
  PROVE  Breach(q, close) <=> Breach(p, close)
BY DEF Breach, StopHit, TargetHit

\* The fills of a bar, row by row; the bar's candidate is pending no more.
LEMMA FillAtOpenRows ==
  ASSUME TypeOK, NEW bk, Core(bk), NEW u \in Units, NEW ts \in Stored(u),
         \A d \in cands : FillStamp(d) = ts /\ d[1] = u => IsPending(bk.orders, d)
  PROVE  LET f == FillAtOpen(bk, u, ts, candles[u][ts].open)
         IN /\ \A e \in Decisions : OpenEffect(bk.positions, f.positions, u, ts, e)
            /\ \A e \in Decisions : IsPending(f.orders, e) => IsPending(bk.orders, e)
            /\ \A e \in cands : e[1] = u /\ FillStamp(e) = ts => ~ IsPending(f.orders, e)
            /\ \A e \in Decisions : bk.positions[e] = NULL /\ f.positions[e] # NULL
                                      => IsPending(bk.orders, e)
<1> DEFINE d == <<u, ts - TfSeconds[u]>>
           s == SymbolOf[u]
           price == candles[u][ts].open
           held == OpenFor(bk.positions, s)
           h == CHOOSE e \in held : TRUE
           f == FillAtOpen(bk, u, ts, price)
<1>0. bk \in Book /\ ts \in Int /\ TfSeconds[u] \in Int /\ price \in Int
  <2>1. ts \in Stamps /\ candles[u][ts] \in Bars
    BY DEF Stored, TypeOK
  <2> QED BY <2>1, RowsAssumption, UnitsAssumption DEF Stamps, Core
<1>00. \A e \in Decisions : e[1] = u /\ FillStamp(e) = ts => e = d
  BY <1>0, UnitsAssumption DEF FillStamp, Decisions, Stamps
<1>000. cands \subseteq Decisions
  BY DEF TypeOK
<1>1. CASE d \notin cands
  <2>1. f = bk
    BY <1>1 DEF FillAtOpen
  <2> QED BY <1>1, <1>00, <1>000, <2>1 DEF OpenEffect
<1>2. CASE d \in cands
  <2>1. /\ d \in Decisions /\ IsPending(bk.orders, d) /\ DecisionSymbol(d) = s
        /\ d[1] = u /\ FillStamp(d) = ts
    BY <1>0, <1>2 DEF TypeOK, DecisionSymbol, FillStamp
  <2>2. bk.positions[d] = NULL
    BY <2>1 DEF Core, Linked, IsPending
  <2> HIDE DEF d, s, price
  <2>3. CASE held = {}
    <3>1. f = FillPending(bk, d, price, ts)
      BY <1>2, <2>3 DEF FillAtOpen, d, s
    <3>2. /\ f.positions[d] \in PositionRow /\ f.positions[d].status = "OPEN"
          /\ f.positions[d].entry_ts = ts
          /\ f.orders[d].status = "FILLED"
          /\ \A e \in Decisions : e # d => /\ f.positions[e] = bk.positions[e]
                                           /\ f.orders[e] = bk.orders[e]
      BY <1>0, <2>1, <2>3, <3>1, FillPendingFacts
    <3> HIDE DEF f
    <3>3. f.positions[d] # NULL
      BY <3>2, NullAssumption
    <3>4. \A e \in Decisions : OpenEffect(bk.positions, f.positions, u, ts, e)
      BY <2>1, <2>2, <3>2, <3>3 DEF OpenEffect, IsOpen
    <3>5. \A e \in Decisions : IsPending(f.orders, e) => IsPending(bk.orders, e) /\ e # d
      BY <3>2 DEF IsPending
    <3> QED BY <1>00, <1>000, <2>1, <3>2, <3>4, <3>5 DEF f, price
  <2>4. CASE held # {} /\ bk.positions[h].side = bk.orders[d].side
    <3>1. f = [bk EXCEPT !.orders = CancelPending(@, {d})]
      BY <1>2, <2>4 DEF FillAtOpen, d, s
    <3>2. f.positions = bk.positions /\ f.orders = CancelPending(bk.orders, {d})
      BY <1>0, <3>1 DEF Book
    <3> HIDE DEF f
    <3>3. \A e \in Decisions : IsPending(f.orders, e) => IsPending(bk.orders, e) /\ e # d
      <4>1. bk.orders \in [Decisions -> OrderRow \cup {NULL}]
        BY <1>0 DEF Book
      <4>2. f.orders[d].status = "CANCELLED"
        BY <2>1, <3>2, <4>1 DEF CancelPending, IsPending, OrderRow
      <4> QED BY <3>2, <4>1, <4>2, CancelPendingFacts DEF IsPending
    <3>4. \A e \in Decisions : OpenEffect(bk.positions, f.positions, u, ts, e)
      BY <3>2 DEF OpenEffect
    <3> QED BY <1>00, <1>000, <3>2, <3>3, <3>4 DEF f, price
  <2>5. CASE held # {} /\ bk.positions[h].side # bk.orders[d].side
    <3> DEFINE c == CloseAt(bk, h, price, "signal", ts)
    <3>1. f = FillPending(c, d, price, ts)
      BY <1>2, <2>5 DEF FillAtOpen, d, s
    <3>2. h \in held /\ h \in Decisions /\ IsOpen(bk.positions, h) /\ h # d /\ DecisionSymbol(h) = s
      BY <2>2, <2>5 DEF OpenFor, IsOpen
    <3> HIDE DEF h
    <3>3. /\ c \in Book /\ c.orders = bk.orders
          /\ \A e \in Decisions : e # h => c.positions[e] = bk.positions[e]
          /\ c.positions[h] \in PositionRow
          /\ c.positions[h].status = "CLOSED"
          /\ ClosedFrom(bk.positions[h], c.positions[h], ts)
      BY <1>0, <3>2, CloseAtFacts DEF Reasons, ClosedFrom
    <3> HIDE DEF c
    <3>4. OpenFor(c.positions, DecisionSymbol(d)) = {}
      <4>1. \A e \in held : e = h
        BY <3>2 DEF Core, OneOpen, OpenFor
      <4> QED BY <2>1, <3>3, <4>1 DEF OpenFor, IsOpen
    <3>5. /\ f.positions[d] \in PositionRow /\ f.positions[d].status = "OPEN"
          /\ f.positions[d].entry_ts = ts
          /\ f.orders[d].status = "FILLED"
          /\ \A e \in Decisions : e # d => /\ f.positions[e] = c.positions[e]
                                           /\ f.orders[e] = c.orders[e]
      <4>1. IsPending(c.orders, d)
        BY <2>1, <3>3 DEF IsPending
      <4> QED BY <1>0, <2>1, <3>1, <3>3, <3>4, <4>1, FillPendingFacts
    <3> HIDE DEF f
    <3>6. f.positions[d] # NULL /\ c.positions[h] # NULL
      BY <3>3, <3>5, NullAssumption
    <3>7. \A e \in Decisions : OpenEffect(bk.positions, f.positions, u, ts, e)
      BY <2>1, <2>2, <3>2, <3>3, <3>5, <3>6 DEF OpenEffect, IsOpen, IsClosed, s
    <3>8. \A e \in Decisions : IsPending(f.orders, e) => IsPending(bk.orders, e) /\ e # d
      BY <3>3, <3>5 DEF IsPending
    <3>9. \A e \in Decisions : bk.positions[e] = NULL /\ f.positions[e] # NULL => e = d
      BY <3>2, <3>3, <3>5 DEF IsOpen
    <3> QED BY <1>00, <1>000, <2>1, <3>7, <3>8, <3>9 DEF f, price
  <2> QED BY <2>3, <2>4, <2>5
<1> QED BY <1>1, <1>2

\* The exit test of a bar, row by row.
LEMMA EvaluateExitRows ==
  ASSUME TypeOK, NEW bk, Core(bk), NEW u \in Units, NEW ts \in Stored(u)
  PROVE  LET x == EvaluateExit(bk, SymbolOf[u], candles[u][ts].close, ts)
         IN \A e \in Decisions : CloseEffect(bk.positions, x.positions, u, ts, e)
<1> DEFINE s == SymbolOf[u]
           close == candles[u][ts].close
           held == OpenFor(bk.positions, s)
           h == CHOOSE e \in held : TRUE
           p == bk.positions[h]
           x == EvaluateExit(bk, s, close, ts)
<1>0. bk \in Book /\ ts \in Int
  BY DEF Core, Stored, Stamps
<1>00. \A e \in held : e = h
  BY DEF Core, OneOpen, OpenFor
<1>1. ASSUME held # {}, NEW reason \in Reasons, NEW price \in Int,
             x = CloseAt(bk, h, price, reason, ts)
      PROVE  \A e \in Decisions : CloseEffect(bk.positions, x.positions, u, ts, e)
  <2>1. h \in held /\ h \in Decisions /\ IsOpen(bk.positions, h) /\ DecisionSymbol(h) = s
    BY <1>1 DEF OpenFor
  <2> HIDE DEF h, x
  <2>2. /\ \A e \in Decisions : e # h => x.positions[e] = bk.positions[e]
        /\ x.positions[h] \in PositionRow
        /\ x.positions[h].status = "CLOSED"
        /\ ClosedFrom(bk.positions[h], x.positions[h], ts)
    BY <1>0, <1>1, <2>1, CloseAtFacts DEF ClosedFrom
  <2> QED BY <1>00, <2>1, <2>2, NullAssumption DEF CloseEffect, IsClosed
<1>2. CASE held = {}
  BY <1>2 DEF EvaluateExit, CloseEffect
<1>3. CASE held # {} /\ StopHit(p, close)
  <2>1. p \in PositionRow /\ p.sl \in Int
    BY <1>0, <1>3 DEF OpenFor, IsOpen, Book, StopHit, PositionRow, Optional
  <2>2. x = CloseAt(bk, h, p.sl, "stop_loss", ts)
    BY <1>3 DEF EvaluateExit
  <2> HIDE DEF x, p
  <2> QED BY <1>1, <1>3, <2>1, <2>2 DEF Reasons, x
<1>4. CASE held # {} /\ ~ StopHit(p, close) /\ TargetHit(p, close)
  <2>1. p \in PositionRow /\ p.tp \in Int
    BY <1>0, <1>4 DEF OpenFor, IsOpen, Book, TargetHit, PositionRow, Optional
  <2>2. x = CloseAt(bk, h, p.tp, "take_profit", ts)
    BY <1>4 DEF EvaluateExit
  <2> HIDE DEF x, p
  <2> QED BY <1>1, <1>4, <2>1, <2>2 DEF Reasons, x
<1>5. CASE held # {} /\ ~ StopHit(p, close) /\ ~ TargetHit(p, close)
  <2>1. x = bk /\ ~ Breach(p, close)
    BY <1>5 DEF EvaluateExit, Breach
  <2> QED BY <1>00, <2>1 DEF CloseEffect
<1> QED BY <1>2, <1>3, <1>4, <1>5

----------------------------------------------------------------------------
(* Every step keeps the timeline.                                          *)

\* The stamps of a decision are integers.
LEMMA StampsOfDecision ==
  ASSUME NEW d \in Decisions
  PROVE  /\ d[1] \in Units /\ d[2] \in Int /\ TfSeconds[d[1]] \in Int
         /\ TfSeconds[d[1]] > 0 /\ FillStamp(d) \in Int
<1>1. d[1] \in Units /\ d[2] \in Stamps
  BY DEF Decisions
<1>2. d[2] \in Int
  BY <1>1, NumbersAssumption DEF Stamps
<1>3. TfSeconds[d[1]] \in Nat \ {0}
  BY <1>1, UnitsAssumption
<1> QED BY <1>1, <1>2, <1>3 DEF FillStamp

\* A unit has at most one decision for a fill bar.
LEMMA FillStampIsInjective ==
  ASSUME NEW c \in Decisions, NEW d \in Decisions, c[1] = d[1], FillStamp(c) = FillStamp(d)
  PROVE  c = d
<1>1. c[2] = d[2]
  BY StampsOfDecision DEF FillStamp
<1> QED BY <1>1 DEF Decisions

\* What is older than a bar of the catch-up window is in the window too.
LEMMA WindowIsPrefix ==
  ASSUME NEW S \in SUBSET Stamps, NEW w \in CatchupWindow(S), NEW t \in S, t < w
  PROVE  t \in CatchupWindow(S)
<1> DEFINE Below(x) == {y \in S : y < x}
           n == IF MaxBars < 1 THEN 1 ELSE MaxBars
<1>1. IsFiniteSet(Stamps)
  BY NumbersAssumption, FS_Interval DEF Stamps
<1>2. IsFiniteSet(Below(w)) /\ Below(t) \subseteq Below(w)
  <2>1. Below(w) \subseteq Stamps
    OBVIOUS
  <2>2. \A y \in S : y < t => y < w
    BY DEF CatchupWindow, Stamps
  <2> QED BY <1>1, <2>1, <2>2, FS_Subset
<1>3. /\ Cardinality(Below(t)) <= Cardinality(Below(w))
      /\ Cardinality(Below(t)) \in Nat /\ Cardinality(Below(w)) \in Nat
  BY <1>2, FS_Subset, FS_CardinalityType
<1>4. Cardinality(Below(w)) < n /\ n \in Int
  BY NumbersAssumption DEF CatchupWindow
<1> HIDE DEF Below, n
<1>5. Cardinality(Below(t)) < n
  BY <1>3, <1>4
<1> QED BY <1>5 DEF CatchupWindow, Below, n

\* A position ends at a stored bar of its own market.
LEMMA ExitIsStored ==
  ASSUME BarsInOrder, IInv, NEW d \in Decisions, IsClosed(positions, d)
  PROVE  positions[d].exit_ts \in Stored(d[1])
<1>1. d[1] \in Units /\ \A u \in Units : SymbolOf[u] = DecisionSymbol(d) => u = d[1]
  BY DEF BarsInOrder, Decisions, DecisionSymbol
<1>2. CASE positions[d].exit_reason = "signal"
  <2>1. PICK e \in Decisions : /\ positions[e] # NULL
                               /\ DecisionSymbol(e) = DecisionSymbol(d)
                               /\ positions[e].entry_ts = positions[d].exit_ts
    BY <1>2 DEF IInv, TablesOK, FlipsDone, Replaced
  <2>2. e[1] = d[1]
    BY <1>1, <2>1 DEF Decisions, DecisionSymbol
  <2> QED BY <2>1, <2>2 DEF IInv, TablesOK, Linked
<1>3. CASE positions[d].exit_reason # "signal"
  BY <1>1, <1>3 DEF IInv, TablesOK, ExitsBacked, Backed
<1> QED BY <1>2, <1>3

\* The orders table alone: with no pending order more, the tables keep their
\* part of the timeline.
TableTimeline == PendingIsLast /\ PositionsDoNotOverlap /\ NoBreachSkipped
LoopTimeline  == OrdersAreLoaded /\ WindowIsConvex /\ PassedBarsAreQuiet

\* Orders that stop being PENDING do not disturb the order of positions in bar time.
LEMMA FewerPending ==
  ASSUME TableTimeline, UNCHANGED <<candles, positions>>,
         \A e \in Decisions : IsPending(orders', e) => IsPending(orders, e)
  PROVE  TableTimeline'
<1>1. PendingIsLast'
  BY DEF TableTimeline, PendingIsLast, IsPending, IsClosed
<1>2. PositionsDoNotOverlap' /\ NoBreachSkipped'
  BY DEF TableTimeline, PositionsDoNotOverlap, NoBreachSkipped, IsClosed, Stored
<1> QED BY <1>1, <1>2 DEF TableTimeline

\* Outside the bar loop its part says nothing.
LEMMA NoLoop ==
  ASSUME pc # "bars" PROVE LoopTimeline
BY DEF LoopTimeline, OrdersAreLoaded, WindowIsConvex, PassedBarsAreQuiet

\* Time passing does not disturb bar time.
LEMMA TickKeepsTimeline ==
  ASSUME Timeline, UNCHANGED <<candles, tables, pass>> PROVE Timeline'
<1>1. TableTimeline'
  BY FewerPending DEF Timeline, TableTimeline, tables, IsPending
<1>2. LoopTimeline'
  BY DEF Timeline, LoopTimeline, OrdersAreLoaded, WindowIsConvex, PassedBarsAreQuiet, tables,
         pass, IsPending, IsOpen, Stored
<1> QED BY <1>1, <1>2 DEF Timeline, TableTimeline, LoopTimeline

\* A new bar is newer than all stored ones, so behind no exit and no bar of
\* the loop.
LEMMA StoreBarKeepsTimeline ==
  ASSUME BarsInOrder, IInv, Timeline,
         NEW u \in Units, NEW ts \in Stamps, NEW bar \in Bars, StoreBar(u, ts, bar)
  PROVE  Timeline'
<1> USE DEF BarsInOrder
<1>1. /\ \A v \in Units : Stored(v) \subseteq Stored(v)'
      /\ \A v \in Units : \A t \in Stored(v) : candles'[v][t] = candles[v][t]
      /\ \A v \in Units : \A t \in Stored(v)' : t \in Stored(v) \/ (v = u /\ t = ts)
  BY NullAssumption DEF IInv, TypeOK, StoreBar, Stored
<1>2. \A t \in Stored(u) : t < ts
  BY DEF StoreBar
<1>3. UNCHANGED <<orders, positions, pc, unit, cands, window>>
  BY DEF StoreBar, tables, pass
<1>4. PendingIsLast' /\ PositionsDoNotOverlap'
  BY <1>3 DEF Timeline, PendingIsLast, PositionsDoNotOverlap, IsPending, IsClosed
<1>5. NoBreachSkipped'
  <2> SUFFICES ASSUME NEW d \in Decisions, IsClosed(positions, d), NEW t \in Stored(d[1])',
                      positions[d].entry_ts <= t, t < positions[d].exit_ts
               PROVE  ~ Breach(positions[d], candles'[d[1]][t].close)
    BY <1>3 DEF NoBreachSkipped, IsClosed
  <2>1. positions[d].exit_ts \in Stored(d[1]) /\ d[1] \in Units
    BY ExitIsStored DEF Decisions
  <2>2. t \in Stored(d[1])
    BY <1>1, <1>2, <2>1 DEF Stored, Stamps
  <2> QED BY <1>1, <2>1, <2>2 DEF Timeline, NoBreachSkipped
<1>6. LoopTimeline'
  <2>1. CASE pc # "bars"
    BY <1>3, <2>1 DEF LoopTimeline, OrdersAreLoaded, WindowIsConvex, PassedBarsAreQuiet
  <2>2. CASE pc = "bars"
    <3>1. unit \in Units /\ window \subseteq Stored(unit)
      BY <2>2 DEF IInv, CandidatesStayPending
    <3>2. \A t \in Stored(unit)', w \in window : t < w => t \in Stored(unit)
      <4> SUFFICES ASSUME NEW t \in Stored(unit)', NEW w \in window, t < w
                   PROVE  t \in Stored(unit)
        OBVIOUS
      <4>1. unit' = unit /\ w \in Stored(unit) /\ w \in Int /\ ts \in Int
        BY <1>3, <3>1 DEF Stored, Stamps
      <4>2. t \in Stored(unit) \/ (unit = u /\ t = ts)
        BY <1>1, <3>1, <4>1 DEF Stored
      <4> QED BY <1>2, <4>1, <4>2
    <3>3. OrdersAreLoaded'
      BY <1>3 DEF Timeline, OrdersAreLoaded, IsPending
    <3>4. WindowIsConvex'
      BY <1>3, <2>2, <3>2 DEF Timeline, WindowIsConvex, Stored
    <3>5. PassedBarsAreQuiet'
      <4> SUFFICES ASSUME NEW d \in Decisions, NEW t \in Stored(unit)', NEW w \in window,
                          d[1] = unit, IsOpen(positions, d),
                          positions[d].entry_ts <= t, t < w, t \notin window
                   PROVE  ~ Breach(positions[d], candles'[unit][t].close)
        BY <1>3 DEF PassedBarsAreQuiet, IsOpen, Stored
      <4>1. t \in Stored(unit)
        BY <3>2
      <4> QED BY <1>1, <2>2, <3>1, <4>1 DEF Timeline, PassedBarsAreQuiet
    <3> QED BY <3>3, <3>4, <3>5 DEF LoopTimeline
  <2> QED BY <2>1, <2>2
<1> QED BY <1>4, <1>5, <1>6 DEF Timeline, LoopTimeline

\* A decision is taken before any bar after its fill bar has closed.
LEMMA DecideKeepsTimeline ==
  ASSUME BarsInOrder, IInv, Timeline,
         NEW d \in Decisions, NEW br \in Brackets, Decide(d, br)
  PROVE  Timeline'
<1>1. /\ UNCHANGED <<candles, positions, pc>> /\ pc = "idle"
      /\ \A e \in Decisions : e # d => orders'[e] = orders[e]
      /\ positions[d] = NULL
  <2>1. orders' = orders \/ \E r : orders' = [orders EXCEPT ![d] = r]
    BY DEF Decide, SubmitPaperOrder
  <2> QED BY <2>1 DEF Decide, pass, IInv, TypeOK, OrdersDecided, TablesOK, Linked
<1>2. \A t \in Stored(d[1]) : t <= FillStamp(d)
  <2>1. d[1] \in Units /\ d[2] \in Int
    BY DEF Decisions, Stamps
  <2>2. \A t \in Stored(d[1]) : t \in Int /\ t + TfSeconds[d[1]] <= clock
    BY <2>1 DEF IInv, CandlesClosed, Stored, Stamps
  <2>3. clock <= d[2] + 2 * TfSeconds[d[1]] /\ TfSeconds[d[1]] \in Int /\ clock \in Int
    <3>1. clock \in Int
      BY NumbersAssumption DEF IInv, TypeOK, Stamps
    <3>2. clock <= d[2] + 2 * TfSeconds[d[1]]
      BY DEF Decide
    <3> QED BY <3>1, <3>2, StampsOfDecision
  <2> QED BY <2>1, <2>2, <2>3 DEF FillStamp
<1>3. PendingIsLast'
  <2> SUFFICES ASSUME NEW c \in Decisions, NEW e \in Decisions,
                      positions[c] # NULL, IsPending(orders', e), c[1] = e[1]
               PROVE  /\ FillStamp(c) < FillStamp(e)
                      /\ IsClosed(positions, c) => positions[c].exit_ts <= FillStamp(e)
    BY <1>1 DEF PendingIsLast, IsClosed, IsPending, FillStamp
  <2>1. CASE e # d
    BY <1>1, <2>1 DEF Timeline, PendingIsLast, IsPending
  <2>2. CASE e = d
    <3>1. FillStamp(c) \in Stored(d[1])
      BY <2>2 DEF IInv, TablesOK, Linked
    <3>2. FillStamp(c) # FillStamp(d)
      BY <1>1, <2>2, FillStampIsInjective
    <3>3. IsClosed(positions, c) => positions[c].exit_ts \in Stored(d[1])
      BY <2>2, ExitIsStored
    <3>4. FillStamp(c) \in Int /\ FillStamp(d) \in Int
      BY StampsOfDecision
    <3> QED BY <1>2, <2>2, <3>1, <3>2, <3>3, <3>4
  <2> QED BY <2>1, <2>2
<1>4. PositionsDoNotOverlap' /\ NoBreachSkipped'
  BY <1>1 DEF Timeline, PositionsDoNotOverlap, NoBreachSkipped, IsClosed, Stored
<1>5. LoopTimeline'
  BY <1>1 DEF LoopTimeline, OrdersAreLoaded, WindowIsConvex, PassedBarsAreQuiet
<1> QED BY <1>3, <1>4, <1>5 DEF Timeline, LoopTimeline

\* Loading a unit: the window starts no later than any due order and than the
\* entry of the open position, and is a prefix of what is stored from there.
LEMMA StartUnitKeepsTimeline ==
  ASSUME BarsInOrder, IInv, Timeline, StartUnit
  PROVE  Timeline'
<1>0. PICK u \in queue :
        /\ orders' = CancelPending(orders, Doomed(u))
        /\ IF OutstandingStamps(u) = {}
           THEN NextUnit
           ELSE /\ pc' = "bars"
                /\ unit' = u
                /\ cands' = PendingOf(u)
                /\ window' = CatchupWindow(OutstandingStamps(u))
  BY DEF StartUnit
<1> DEFINE out == OutstandingStamps(u)
<1>1. /\ UNCHANGED <<candles, positions>>
      /\ orders \in [Decisions -> OrderRow \cup {NULL}]
      /\ positions \in [Decisions -> PositionRow \cup {NULL}]
      /\ u \in Units
  BY DEF StartUnit, IInv, TypeOK
<1>2. \A e \in Decisions : IsPending(orders', e) => IsPending(orders, e) /\ e \notin Doomed(u)
  BY <1>0, <1>1 DEF CancelPending, IsPending, OrderRow
<1>3. TableTimeline'
  BY <1>1, <1>2, FewerPending DEF Timeline, TableTimeline
<1>4. LoopTimeline'
  <2>1. CASE out = {}
    BY <1>0, <2>1 DEF NextUnit, LoopTimeline, OrdersAreLoaded, WindowIsConvex,
                      PassedBarsAreQuiet
  <2>2. CASE out # {}
    <3>0. /\ pc' = "bars" /\ unit' = u /\ cands' = PendingOf(u)
          /\ window' = CatchupWindow(out)
          /\ Stored(u)' = Stored(u)
      BY <1>0, <1>1, <2>2 DEF Stored
    <3>1. /\ out \subseteq Stored(u) /\ out \subseteq Stamps
          /\ CatchupWindow(out) \subseteq out
          /\ Stored(u) \subseteq Int
      BY DEF OutstandingStamps, Stored, CatchupWindow, Stamps
    <3>2. \A a \in Anchors(u) : a \in Int
      BY <1>1, StampsOfDecision DEF Anchors, PendingOf, OpenFor, IsOpen, PositionRow
    <3>3. \A w \in CatchupWindow(out), t \in out : t < w => t \in CatchupWindow(out)
      BY <3>1, WindowIsPrefix
    <3>4. \A a \in Anchors(u), t \in Stored(u) : a <= t => t \in out
      BY DEF OutstandingStamps
    <3>5. OrdersAreLoaded'
      <4> SUFFICES ASSUME NEW e \in Decisions, e[1] = u, IsPending(orders', e)
                   PROVE  /\ e \in PendingOf(u)
                          /\ \A w \in CatchupWindow(out) :
                               FillStamp(e) < w => FillStamp(e) \in CatchupWindow(out)
        BY <3>0 DEF OrdersAreLoaded, IsPending
      <4>1. e \in PendingOf(u) /\ e \notin Doomed(u)
        BY <1>2 DEF PendingOf
      <4>2. ASSUME NEW w \in CatchupWindow(out), FillStamp(e) < w
            PROVE  FillStamp(e) \in CatchupWindow(out)
        <5>1. FillStamp(e) \in Int /\ w \in Stored(u) /\ w \in Int
          BY <3>1, StampsOfDecision
        <5>2. FillStamp(e) \in Stored(u)
          BY <4>1, <4>2, <5>1 DEF Doomed
        <5>3. FillStamp(e) \in Anchors(u)
          BY <4>1, <5>2 DEF Anchors
        <5>4. FillStamp(e) \in out
          BY <3>4, <5>1, <5>2, <5>3
        <5> QED BY <3>3, <4>2, <5>4
      <4> QED BY <4>1, <4>2
    <3>6. WindowIsConvex'
      <4> SUFFICES ASSUME NEW v \in CatchupWindow(out), NEW w \in CatchupWindow(out),
                          NEW t \in Stored(u), v < t, t < w
                   PROVE  t \in CatchupWindow(out)
        BY <3>0 DEF WindowIsConvex
      <4>1. PICK a \in Anchors(u) : a <= v
        BY <3>1 DEF OutstandingStamps
      <4>2. a \in Int /\ v \in Int /\ t \in Int
        BY <3>1, <3>2
      <4>3. a <= t
        BY <4>1, <4>2
      <4> QED BY <3>3, <3>4, <4>3
    <3>7. PassedBarsAreQuiet'
      <4> SUFFICES ASSUME NEW d \in Decisions, NEW t \in Stored(u), NEW w \in CatchupWindow(out),
                          d[1] = u, IsOpen(positions, d), positions[d].entry_ts <= t, t < w
                   PROVE  t \in CatchupWindow(out)
        BY <1>1, <3>0 DEF PassedBarsAreQuiet, IsOpen
      <4>1. positions[d].entry_ts \in Anchors(u)
        BY DEF Anchors, OpenFor, DecisionSymbol
      <4> QED BY <3>3, <3>4, <4>1
    <3> QED BY <3>5, <3>6, <3>7 DEF LoopTimeline
  <2> QED BY <2>1, <2>2
<1> QED BY <1>3, <1>4 DEF Timeline, TableTimeline, LoopTimeline

\* The steps of a pass that touch no position and leave the bar loop alone.
LEMMA PassStepsKeepTimeline ==
  ASSUME IInv, Timeline, Discover \/ ExpirySweep \/ UnitFails \/ SweepFails \/ Crash
  PROVE  Timeline'
<1>1. /\ UNCHANGED <<candles, positions>>
      /\ pc' # "bars"
      /\ orders' = orders
         \/ orders' = CancelPending(orders, {d \in Decisions : ValidUntil(d) < clock})
  BY DEF Discover, ExpirySweep, UnitFails, SweepFails, Crash, NextUnit, Fail, tables
<1>2. \A e \in Decisions : IsPending(orders', e) => IsPending(orders, e)
  <2>1. orders \in [Decisions -> OrderRow \cup {NULL}]
    BY DEF IInv, TypeOK
  <2> QED BY <1>1, <2>1, CancelPendingFacts DEF IsPending
<1>3. TableTimeline'
  BY <1>1, <1>2, FewerPending DEF Timeline, TableTimeline
<1>4. LoopTimeline'
  BY <1>1 DEF LoopTimeline, OrdersAreLoaded, WindowIsConvex, PassedBarsAreQuiet
<1> QED BY <1>3, <1>4 DEF Timeline, TableTimeline, LoopTimeline

\* A whole unit-bar, row by row, where a symbol has one unit.
BarEffect(P, P2, u, ts, e) ==
  \/ /\ P2[e] = P[e]
     /\ IsOpen(P, e) /\ e[1] = u => ~ Breach(P[e], candles[u][ts].close)
  \/ /\ P[e] = NULL /\ e[1] = u /\ FillStamp(e) = ts
     /\ P2[e] # NULL /\ P2[e].entry_ts = ts
     /\ \/ IsOpen(P2, e) /\ ~ Breach(P2[e], candles[u][ts].close)
        \/ IsClosed(P2, e) /\ P2[e].exit_ts = ts
  \/ IsOpen(P, e) /\ e[1] = u /\ IsClosed(P2, e) /\ ClosedFrom(P[e], P2[e], ts)

\* A bar that fills at its open and exits at its close has the effect of both.
LEMMA OpenThenClose ==
  ASSUME BarsInOrder, NEW P, NEW Q, NEW P2, NEW u \in Units, NEW ts, NEW e \in Decisions,
         OpenEffect(P, Q, u, ts, e), CloseEffect(Q, P2, u, ts, e)
  PROVE  BarEffect(P, P2, u, ts, e)
<1>1. DecisionSymbol(e) = SymbolOf[u] <=> e[1] = u
  BY DEF BarsInOrder, DecisionSymbol, Decisions
<1>2. e \in OpenFor(Q, SymbolOf[u]) <=> IsOpen(Q, e) /\ e[1] = u
  BY <1>1 DEF OpenFor
<1>3. CASE Q[e] = P[e]
  BY <1>1, <1>2, <1>3 DEF OpenEffect, CloseEffect, BarEffect, IsOpen
<1>4. CASE P[e] = NULL /\ e[1] = u /\ FillStamp(e) = ts /\ IsOpen(Q, e) /\ Q[e].entry_ts = ts
  BY <1>1, <1>2, <1>4 DEF CloseEffect, BarEffect, IsOpen, IsClosed, ClosedFrom
<1>5. CASE IsOpen(P, e) /\ DecisionSymbol(e) = SymbolOf[u] /\ IsClosed(Q, e)
           /\ ClosedFrom(P[e], Q[e], ts)
  <2>1. ~ IsOpen(Q, e)
    BY <1>5 DEF IsOpen, IsClosed
  <2> QED BY <1>1, <1>5, <2>1 DEF CloseEffect, BarEffect, IsClosed
<1> QED BY <1>3, <1>4, <1>5 DEF OpenEffect

\* One unit-bar: its bar is the oldest one left, so nothing pending is older
\* and every bar since the entry has been looked at.
LEMMA ProcessBarKeepsTimeline ==
  ASSUME BarsInOrder, IInv, Timeline, ProcessBar
  PROVE  Timeline'
<1> DEFINE sym == SymbolOf[unit]
<1>0. PICK ts \in window :
        LET bar    == candles[unit][ts]
            filled == FillAtOpen(RestoreState, unit, ts, bar.open)
            final  == EvaluateExit(filled, sym, bar.close, ts)
        IN /\ \A t \in window : ts <= t
           /\ orders' = final.orders
           /\ positions' = final.positions
           /\ IF window = {ts} THEN NextUnit
              ELSE /\ window' = window \ {ts}
                   /\ UNCHANGED <<pc, unit, cands>>
  BY DEF ProcessBar
<1> DEFINE bar == candles[unit][ts]
           filled == FillAtOpen(RestoreState, unit, ts, bar.open)
           final == EvaluateExit(filled, sym, bar.close, ts)
           Q == filled.positions
<1>1. /\ TypeOK /\ pc = "bars" /\ unit \in Units
      /\ ts \in Stored(unit) /\ window \subseteq Stored(unit)
      /\ Stored(unit) \subseteq Int
      /\ \A d \in cands : d \in Decisions /\ d[1] = unit
      /\ \A d \in cands : FillStamp(d) \in window => IsPending(orders, d)
  BY DEF IInv, ProcessBar, CandidatesStayPending, TypeOK, Stored, Stamps
<1>2. /\ RestoreState.orders = orders
      /\ RestoreState.positions = positions
      /\ Core(RestoreState)
      /\ FlipsDone(RestoreState.positions)
  BY <1>1, RestoreIsBook DEF IInv, TablesOK, Core
<1>3. /\ Core(filled)
      /\ FlipsDone(filled.positions)
      /\ \A e \in Decisions : OpenEffect(positions, Q, unit, ts, e)
      /\ \A e \in Decisions : IsPending(filled.orders, e) => IsPending(orders, e)
      /\ \A e \in cands : FillStamp(e) = ts => ~ IsPending(filled.orders, e)
      /\ \A e \in Decisions : positions[e] = NULL /\ Q[e] # NULL => IsPending(orders, e)
  <2>1. \A d \in cands : FillStamp(d) = ts /\ d[1] = unit
                            => IsPending(RestoreState.orders, d)
    BY <1>0, <1>1, <1>2
  <2>2. Core(filled) /\ FlipsDone(filled.positions)
    BY <1>1, <1>2, <2>1, FillAtOpenKeeps
  <2> QED BY <1>1, <1>2, <2>1, <2>2, FillAtOpenRows
<1> HIDE DEF filled
<1>4. /\ \A e \in Decisions : CloseEffect(Q, final.positions, unit, ts, e)
      /\ final.orders = filled.orders
  BY <1>1, <1>3, EvaluateExitRows, EvaluateExitKeeps
<1> HIDE DEF final, Q
<1>5. orders' = filled.orders /\ positions' = final.positions /\ candles' = candles
  BY <1>0, <1>4 DEF ProcessBar, final, filled
<1>6. \A e \in Decisions : BarEffect(positions, positions', unit, ts, e)
  BY <1>1, <1>3, <1>4, <1>5, OpenThenClose
<1>7. \A e \in Decisions : IsPending(orders', e) => IsPending(orders, e)
  BY <1>3, <1>5
\* An order of the unit that is still pending is for a later bar.
<1>8. \A e \in Decisions : IsPending(orders', e) /\ e[1] = unit => ts < FillStamp(e)
  <2> SUFFICES ASSUME NEW e \in Decisions, IsPending(orders', e), e[1] = unit
               PROVE  ts < FillStamp(e)
    OBVIOUS
  <2>1. /\ e \in cands
        /\ FillStamp(e) < ts => FillStamp(e) \in window
    BY <1>1, <1>7 DEF Timeline, OrdersAreLoaded
  <2>2. FillStamp(e) # ts
    BY <1>3, <1>5, <2>1
  <2>3. FillStamp(e) \in Int /\ ts \in Int
    BY <1>1, StampsOfDecision
  <2>4. ~ (FillStamp(e) < ts)
    BY <1>0, <2>1, <2>3
  <2> QED BY <2>2, <2>3, <2>4
<1>9. /\ positions \in [Decisions -> PositionRow \cup {NULL}]
      /\ \A e \in Decisions : positions[e] # NULL => positions[e].entry_ts = FillStamp(e)
  BY DEF IInv, TypeOK, TablesOK, Linked
\* A row entered by this bar was the unit's candidate, and the only one.
<1>10. \A e \in Decisions : positions[e] = NULL /\ positions'[e] # NULL =>
         /\ e[1] = unit /\ FillStamp(e) = ts /\ IsPending(orders, e)
         /\ IsOpen(Q, e)
         /\ positions'[e].entry_ts = ts
         /\ IsClosed(positions', e) => positions'[e].exit_ts = ts
  <2> SUFFICES ASSUME NEW e \in Decisions, positions[e] = NULL, positions'[e] # NULL
               PROVE  /\ e[1] = unit /\ FillStamp(e) = ts /\ IsPending(orders, e)
                      /\ IsOpen(Q, e)
                      /\ positions'[e].entry_ts = ts
                      /\ IsClosed(positions', e) => positions'[e].exit_ts = ts
    OBVIOUS
  <2>1. ~ IsOpen(positions, e)
    BY DEF IsOpen
  <2>2. /\ e[1] = unit /\ FillStamp(e) = ts
        /\ positions'[e].entry_ts = ts
        /\ IsClosed(positions', e) => positions'[e].exit_ts = ts
    BY <1>6, <2>1 DEF BarEffect, IsOpen, IsClosed
  <2>3. IsOpen(Q, e)
    BY <1>3, <1>4, <1>5, <2>1 DEF OpenEffect, CloseEffect
  <2>4. IsPending(orders, e)
    BY <1>3, <2>3 DEF IsOpen
  <2> QED BY <2>2, <2>3, <2>4
\* A row that existed keeps its terms; a closed one is not touched.
<1>11. \A e \in Decisions : positions[e] # NULL =>
         /\ positions'[e] # NULL /\ positions'[e].entry_ts = positions[e].entry_ts
         /\ IsClosed(positions, e) => positions'[e] = positions[e]
         /\ IsClosed(positions', e) /\ positions'[e] # positions[e] =>
              /\ IsOpen(positions, e) /\ e[1] = unit
              /\ ClosedFrom(positions[e], positions'[e], ts)
  BY <1>6 DEF BarEffect, IsOpen, IsClosed, ClosedFrom
<1>12. PendingIsLast'
  <2> SUFFICES ASSUME NEW d \in Decisions, NEW e \in Decisions,
                      positions'[d] # NULL, IsPending(orders', e), d[1] = e[1]
               PROVE  /\ FillStamp(d) < FillStamp(e)
                      /\ IsClosed(positions', d) => positions'[d].exit_ts <= FillStamp(e)
    BY DEF PendingIsLast, IsPending, IsClosed, FillStamp
  <2>0. FillStamp(e) \in Int /\ ts \in Int
    BY <1>1, StampsOfDecision
  <2>1. CASE positions[d] = NULL
    <3>1. d[1] = unit /\ FillStamp(d) = ts /\ (IsClosed(positions', d) => positions'[d].exit_ts = ts)
      BY <1>10, <2>1
    <3>2. ts < FillStamp(e)
      BY <1>8, <3>1
    <3> QED BY <2>0, <3>1, <3>2
  <2>2. CASE positions[d] # NULL
    <3>1. /\ FillStamp(d) < FillStamp(e)
          /\ IsClosed(positions, d) => positions[d].exit_ts <= FillStamp(e)
      BY <1>7, <2>2 DEF Timeline, PendingIsLast
    <3>2. CASE positions'[d] = positions[d]
      BY <3>1, <3>2 DEF IsClosed
    <3>3. CASE positions'[d] # positions[d] /\ IsClosed(positions', d)
      <4>1. d[1] = unit /\ positions'[d].exit_ts = ts
        BY <1>11, <2>2, <3>3 DEF ClosedFrom
      <4>2. ts < FillStamp(e)
        BY <1>8, <4>1
      <4> QED BY <2>0, <3>1, <4>1, <4>2
    <3> QED BY <3>1, <3>2, <3>3
  <2> QED BY <2>1, <2>2
<1>13. PositionsDoNotOverlap'
  <2> SUFFICES ASSUME NEW d \in Decisions, NEW e \in Decisions, d # e,
                      positions'[d] # NULL, positions'[e] # NULL,
                      DecisionSymbol(d) = DecisionSymbol(e),
                      positions'[d].entry_ts <= positions'[e].entry_ts
               PROVE  IsClosed(positions', d) /\ positions'[d].exit_ts <= positions'[e].entry_ts
    BY DEF PositionsDoNotOverlap, IsClosed, DecisionSymbol
  <2>0. d[1] = e[1] /\ ts \in Int
    BY <1>1 DEF BarsInOrder, DecisionSymbol, Decisions
  <2>1. CASE positions[d] # NULL /\ positions[e] # NULL
    <3>1. IsClosed(positions, d) /\ positions[d].exit_ts <= positions[e].entry_ts
      BY <1>11, <2>1 DEF Timeline, PositionsDoNotOverlap
    <3> QED BY <1>11, <2>1, <3>1 DEF IsClosed
  <2>2. CASE positions[d] # NULL /\ positions[e] = NULL
    <3>1. /\ e[1] = unit /\ FillStamp(e) = ts /\ IsPending(orders, e) /\ IsOpen(Q, e)
          /\ positions'[e].entry_ts = ts
      BY <1>10, <2>2
    <3>2. IsClosed(positions, d) => positions[d].exit_ts <= ts
      BY <2>0, <2>2, <3>1 DEF Timeline, PendingIsLast
    <3>3. CASE IsClosed(positions, d)
      BY <1>11, <2>2, <3>1, <3>2, <3>3 DEF IsClosed
    <3>4. CASE IsOpen(positions, d)
      <4>1. ~ IsOpen(Q, d)
        BY <1>3, <3>1 DEF Core, OneOpen, Q
      <4>2. IsClosed(Q, d) /\ Q[d].exit_ts = ts
        BY <1>3, <3>4, <4>1 DEF OpenEffect, IsOpen, ClosedFrom
      <4>3. positions'[d] = Q[d]
        BY <1>4, <1>5, <4>1 DEF CloseEffect
      <4> QED BY <2>0, <3>1, <4>2, <4>3 DEF IsClosed
    <3> QED BY <1>9, <2>2, <3>3, <3>4, OpenOrClosed
  <2>3. CASE positions[d] = NULL /\ positions[e] # NULL
    <3>1. FillStamp(d) = ts /\ IsPending(orders, d) /\ positions'[d].entry_ts = ts
      BY <1>10, <2>3
    <3>2. FillStamp(e) < ts
      BY <2>0, <2>3, <3>1 DEF Timeline, PendingIsLast
    <3>3. positions'[e].entry_ts = FillStamp(e) /\ FillStamp(e) \in Int
      BY <1>9, <1>11, <2>3, StampsOfDecision
    <3> QED BY <2>0, <3>1, <3>2, <3>3
  <2>4. CASE positions[d] = NULL /\ positions[e] = NULL
    BY <1>10, <2>0, <2>4, FillStampIsInjective
  <2> QED BY <2>1, <2>2, <2>3, <2>4
<1>14. NoBreachSkipped'
  <2> SUFFICES ASSUME NEW d \in Decisions, IsClosed(positions', d), NEW t \in Stored(d[1]),
                      positions'[d].entry_ts <= t, t < positions'[d].exit_ts
               PROVE  ~ Breach(positions'[d], candles[d[1]][t].close)
    BY <1>5 DEF NoBreachSkipped, IsClosed, Stored
  <2>0. t \in Int /\ ts \in Int
    BY <1>1 DEF Stored, Stamps
  <2>1. CASE positions'[d] = positions[d]
    BY <2>1 DEF Timeline, NoBreachSkipped, IsClosed
  <2>2. CASE positions[d] = NULL
    BY <1>10, <2>0, <2>2 DEF IsClosed
  <2>3. CASE positions[d] # NULL /\ positions'[d] # positions[d]
    <3>1. IsOpen(positions, d) /\ d[1] = unit /\ ClosedFrom(positions[d], positions'[d], ts)
      BY <1>11, <2>3
    <3>2. positions[d].entry_ts <= t /\ t < ts /\ t \notin window
      BY <1>0, <2>0, <3>1 DEF ClosedFrom
    <3>3. ~ Breach(positions[d], candles[unit][t].close)
      BY <1>1, <3>1, <3>2 DEF Timeline, PassedBarsAreQuiet
    <3> QED BY <3>1, <3>3, BreachOfTerms DEF ClosedFrom
  <2> QED BY <2>1, <2>2, <2>3
<1>15. LoopTimeline'
  <2>1. CASE NextUnit
    BY <2>1 DEF NextUnit, LoopTimeline, OrdersAreLoaded, WindowIsConvex, PassedBarsAreQuiet
  <2>2. CASE window' = window \ {ts} /\ UNCHANGED <<pc, unit, cands>>
    <3>0. Stored(unit)' = Stored(unit)
      BY <1>5, <2>2 DEF Stored
    <3>1. OrdersAreLoaded'
      <4> SUFFICES ASSUME NEW e \in Decisions, e[1] = unit, IsPending(orders', e)
                   PROVE  /\ e \in cands
                          /\ \A w \in window \ {ts} :
                               FillStamp(e) < w => FillStamp(e) \in window \ {ts}
        BY <2>2 DEF OrdersAreLoaded, IsPending, FillStamp
      <4>1. FillStamp(e) # ts
        BY <1>1, <1>8, StampsOfDecision
      <4> QED BY <1>1, <1>7, <4>1 DEF Timeline, OrdersAreLoaded
    <3>2. WindowIsConvex'
      <4> SUFFICES ASSUME NEW v \in window \ {ts}, NEW w \in window \ {ts},
                          NEW t \in Stored(unit), v < t, t < w
                   PROVE  t \in window /\ t # ts
        BY <2>2, <3>0 DEF WindowIsConvex
      <4>1. t \in window
        BY <1>1 DEF Timeline, WindowIsConvex
      <4>2. ts <= v /\ ts \in Int /\ v \in Int
        BY <1>0, <1>1
      <4> QED BY <4>1, <4>2
    <3>3. PassedBarsAreQuiet'
      <4> SUFFICES ASSUME NEW d \in Decisions, NEW t \in Stored(unit), NEW w \in window \ {ts},
                          d[1] = unit, IsOpen(positions', d), positions'[d].entry_ts <= t,
                          t < w, t \notin window \ {ts}
                   PROVE  ~ Breach(positions'[d], candles[unit][t].close)
        BY <1>5, <2>2, <3>0 DEF PassedBarsAreQuiet, IsOpen
      <4>0. ~ IsClosed(positions', d) /\ positions'[d] # NULL
        BY DEF IsOpen, IsClosed
      <4>1. CASE positions[d] = NULL
        <5>1. positions'[d].entry_ts = ts /\ ts \in Int /\ t \in Int
          BY <1>1, <1>10, <4>0, <4>1
        <5>2. CASE t = ts
          BY <1>6, <4>0, <4>1, <5>2 DEF BarEffect, IsOpen
        <5>3. CASE t # ts
          BY <1>1, <5>1, <5>3 DEF Timeline, WindowIsConvex
        <5> QED BY <5>2, <5>3
      <4>2. CASE positions[d] # NULL
        <5>1. /\ positions'[d] = positions[d] /\ IsOpen(positions, d)
              /\ ~ Breach(positions[d], candles[unit][ts].close)
          BY <1>6, <4>0, <4>2 DEF BarEffect, IsOpen
        <5>2. CASE t = ts
          BY <5>1, <5>2
        <5>3. CASE t # ts
          BY <1>1, <5>1, <5>3 DEF Timeline, PassedBarsAreQuiet
        <5> QED BY <5>2, <5>3
      <4> QED BY <4>1, <4>2
    <3> QED BY <3>1, <3>2, <3>3 DEF LoopTimeline
  <2> QED BY <1>0, <2>1, <2>2
<1> QED BY <1>12, <1>13, <1>14, <1>15 DEF Timeline, LoopTimeline

\* The timeline is an invariant of the ledger.
LEMMA TimelineIsInvariant == ASSUME BarsInOrder PROVE Spec => []Timeline
<1>1. Init => Timeline
  BY DEF Init, Timeline, PendingIsLast, PositionsDoNotOverlap, NoBreachSkipped, IsClosed,
         OrdersAreLoaded, WindowIsConvex, PassedBarsAreQuiet
<1>2. IInv /\ Timeline /\ [Next]_vars => Timeline'
  <2> SUFFICES ASSUME IInv, Timeline, [Next]_vars PROVE Timeline'
    OBVIOUS
  <2>1. CASE Tick \/ UNCHANGED vars
    BY <2>1, TickKeepsTimeline DEF Tick, vars
  <2>2. CASE \E u \in Units, ts \in Stamps, bar \in Bars : StoreBar(u, ts, bar)
    BY <2>2, StoreBarKeepsTimeline
  <2>3. CASE \E d \in Decisions, br \in Brackets : Decide(d, br)
    BY <2>3, DecideKeepsTimeline
  <2>4. CASE Lifecycle \/ UnitFails \/ SweepFails \/ Crash
    BY <2>4, PassStepsKeepTimeline, StartUnitKeepsTimeline, ProcessBarKeepsTimeline DEF Lifecycle
  <2> QED BY <2>1, <2>2, <2>3, <2>4 DEF Next
<1> QED BY <1>1, <1>2, Invariance, PTL DEF Spec

\* No catch-up, retry or restart skips a bar that would have stopped a position
\* out: between its entry and its exit no stored bar of its unit closed beyond
\* its stop or its target.
THEOREM NoBreachIsSkipped == ASSUME BarsInOrder PROVE Spec => []NoBreachSkipped
<1>1. Timeline => NoBreachSkipped
  BY DEF Timeline
<1> QED BY <1>1, TimelineIsInvariant, PTL

\* Positions of one symbol follow one another in bar time.
THEOREM PositionsFollowOneAnother == ASSUME BarsInOrder PROVE Spec => []PositionsDoNotOverlap
<1>1. Timeline => PositionsDoNotOverlap
  BY DEF Timeline
<1> QED BY <1>1, TimelineIsInvariant, PTL

----------------------------------------------------------------------------
(* The abstract slots.                                                     *)

Tables == [Decisions -> PositionRow \cup {NULL}]

\* The abstract state a positions table stands for.
PositionOf(P, d) == [order |-> d, side |-> P[d].side]
HeldIn(P)        == {PositionOf(P, d) : d \in {e \in Decisions : IsOpen(P, e)}}
PastIn(P)        == {d \in Decisions : IsClosed(P, d)}
SlotIn(P, s)     == {x \in HeldIn(P) : DecisionSymbol(x.order) = s}

----------------------------------------------------------------------------
(* The three ways a unit-bar changes the positions table.                  *)

\* Position h of symbol s is closed, all other rows stay.
Exited(P, P2, s, h) ==
  /\ h \in OpenFor(P, s)
  /\ IsClosed(P2, h)
  /\ \A e \in Decisions : e # h => P2[e] = P[e]

\* Order d opens its position in a free slot of symbol s.
EnteredFree(P, P2, s, d) ==
  /\ OpenFor(P, s) = {}
  /\ d \in Decisions /\ DecisionSymbol(d) = s
  /\ P[d] = NULL
  /\ IsOpen(P2, d)
  /\ \A e \in Decisions : e # d => P2[e] = P[e]

\* Order d replaces the opposing position h of symbol s.
EnteredFlip(P, P2, s, d, h) ==
  /\ h \in OpenFor(P, s)
  /\ d \in Decisions /\ DecisionSymbol(d) = s
  /\ P[d] = NULL
  /\ IsOpen(P2, d)
  /\ P2[d].side # P[h].side
  /\ IsClosed(P2, h)
  /\ \A e \in Decisions : e # d /\ e # h => P2[e] = P[e]

\* What stands in the slot of a symbol.
LEMMA SlotFacts ==
  ASSUME NEW P \in Tables, OneOpen(P), NEW s
  PROVE  /\ OpenFor(P, s) = {} => SlotIn(P, s) = {}
         /\ \A h \in OpenFor(P, s) : SlotIn(P, s) = {PositionOf(P, h)}
<1>1. \A x \in SlotIn(P, s) : \E d \in OpenFor(P, s) : x = PositionOf(P, d)
  BY DEF SlotIn, HeldIn, OpenFor, PositionOf
<1>2. \A h \in OpenFor(P, s) : PositionOf(P, h) \in SlotIn(P, s)
  BY DEF SlotIn, HeldIn, OpenFor, PositionOf
<1>3. \A h, d \in OpenFor(P, s) : h = d
  BY DEF OneOpen, OpenFor
<1> QED BY <1>1, <1>2, <1>3

\* A closed position leaves its slot.
LEMMA ExitedSets ==
  ASSUME NEW P \in Tables, NEW P2 \in Tables, OneOpen(P), NEW s, NEW h,
         Exited(P, P2, s, h)
  PROVE  /\ HeldIn(P2) = HeldIn(P) \ SlotIn(P, s)
         /\ PastIn(P2) = PastIn(P) \cup {h}
         /\ SlotIn(P, s) = {PositionOf(P, h)}
<1>1. SlotIn(P, s) = {PositionOf(P, h)} /\ h \in Decisions
  BY SlotFacts DEF Exited, OpenFor
<1>2. \A e \in Decisions : IsOpen(P2, e) <=> IsOpen(P, e) /\ e # h
  BY DEF Exited, IsOpen, IsClosed
<1>3. \A e \in Decisions : e # h => PositionOf(P2, e) = PositionOf(P, e)
  BY DEF Exited, PositionOf
<1>4. \A e \in Decisions : PositionOf(P, e) = PositionOf(P, h) => e = h
  BY <1>1 DEF PositionOf
<1>5. HeldIn(P2) = HeldIn(P) \ {PositionOf(P, h)}
  BY <1>1, <1>2, <1>3, <1>4 DEF HeldIn
<1>6. PastIn(P2) = PastIn(P) \cup {h}
  BY <1>1 DEF PastIn, Exited, IsOpen, IsClosed
<1> QED BY <1>1, <1>5, <1>6

\* An order that takes its slot, free or opposing, and what it puts there.
LEMMA EnteredSets ==
  ASSUME NEW P \in Tables, NEW P2 \in Tables, OneOpen(P), NEW s, NEW d, NEW h,
         EnteredFree(P, P2, s, d) \/ EnteredFlip(P, P2, s, d, h)
  PROVE  /\ d \in Decisions /\ P2[d].side \in Sides /\ DecisionSymbol(d) = s
         /\ d \notin PastIn(P)
         /\ \A x \in HeldIn(P) : x.order # d
         /\ \A x \in SlotIn(P, s) : x.side # P2[d].side
         /\ HeldIn(P2) = (HeldIn(P) \ SlotIn(P, s)) \cup {PositionOf(P2, d)}
         /\ PastIn(P2) = PastIn(P) \cup {x.order : x \in SlotIn(P, s)}
<1>1. /\ d \in Decisions /\ DecisionSymbol(d) = s
      /\ P[d] = NULL /\ IsOpen(P2, d)
  BY DEF EnteredFree, EnteredFlip
<1>2. P2[d].side \in Sides
  BY <1>1 DEF Tables, IsOpen, PositionRow
<1>3. d \notin PastIn(P) /\ \A x \in HeldIn(P) : x.order # d
  BY <1>1 DEF PastIn, HeldIn, PositionOf, IsOpen, IsClosed
<1>4. CASE EnteredFree(P, P2, s, d)
  <2>1. SlotIn(P, s) = {}
    BY <1>4, SlotFacts DEF EnteredFree
  <2>2. /\ \A e \in Decisions : IsOpen(P2, e) <=> IsOpen(P, e) \/ e = d
        /\ \A e \in Decisions : e # d => PositionOf(P2, e) = PositionOf(P, e)
        /\ ~ IsOpen(P, d)
    BY <1>1, <1>4 DEF EnteredFree, IsOpen, PositionOf
  <2>3. HeldIn(P2) = HeldIn(P) \cup {PositionOf(P2, d)}
    BY <1>1, <2>2 DEF HeldIn
  <2>4. PastIn(P2) = PastIn(P)
    BY <1>1, <1>4 DEF EnteredFree, PastIn, IsOpen, IsClosed
  <2> QED BY <1>1, <1>2, <1>3, <2>1, <2>3, <2>4
<1>5. CASE EnteredFlip(P, P2, s, d, h)
  <2>1. SlotIn(P, s) = {PositionOf(P, h)} /\ h \in Decisions /\ h # d
    BY <1>1, <1>5, SlotFacts DEF EnteredFlip, OpenFor, IsOpen
  <2>2. /\ \A e \in Decisions : IsOpen(P2, e) <=> (IsOpen(P, e) /\ e # h) \/ e = d
        /\ \A e \in Decisions : e # d /\ e # h => PositionOf(P2, e) = PositionOf(P, e)
        /\ ~ IsOpen(P, d)
    BY <1>1, <1>5, <2>1 DEF EnteredFlip, IsOpen, IsClosed, PositionOf
  <2>3. \A e \in Decisions : PositionOf(P, e) = PositionOf(P, h) => e = h
    BY <2>1 DEF PositionOf
  <2>4. HeldIn(P2) = (HeldIn(P) \ {PositionOf(P, h)}) \cup {PositionOf(P2, d)}
    BY <1>1, <2>1, <2>2, <2>3 DEF HeldIn
  <2>5. PastIn(P2) = PastIn(P) \cup {h}
    BY <1>1, <1>5, <2>1 DEF EnteredFlip, PastIn, IsOpen, IsClosed
  <2>6. PositionOf(P, h).order = h /\ PositionOf(P, h).side = P[h].side
    BY DEF PositionOf
  <2>7. P2[d].side # P[h].side
    BY <1>5 DEF EnteredFlip
  <2> QED BY <1>1, <1>2, <1>3, <2>1, <2>4, <2>5, <2>6, <2>7
<1> QED BY <1>4, <1>5

----------------------------------------------------------------------------
(* The two halves of a unit-bar as changes of the positions table.         *)

\* The bar's OPEN leaves the table alone, fills a free slot or flips one.
LEMMA FillAtOpenSlot ==
  ASSUME TypeOK, NEW bk, Core(bk), NEW u \in Units, NEW ts \in Stored(u),
         \A d \in cands : FillStamp(d) = ts /\ d[1] = u => IsPending(bk.orders, d)
  PROVE  LET f == FillAtOpen(bk, u, ts, candles[u][ts].open)
             s == SymbolOf[u]
         IN \/ f.positions = bk.positions
            \/ \E d : EnteredFree(bk.positions, f.positions, s, d)
            \/ \E d, h : EnteredFlip(bk.positions, f.positions, s, d, h)
<1> DEFINE d == <<u, ts - TfSeconds[u]>>
           s == SymbolOf[u]
           price == candles[u][ts].open
           held == OpenFor(bk.positions, s)
           h == CHOOSE e \in held : TRUE
           f == FillAtOpen(bk, u, ts, price)
<1>0. bk \in Book /\ ts \in Int /\ TfSeconds[u] \in Int /\ price \in Int
  <2>1. ts \in Stamps /\ candles[u][ts] \in Bars
    BY DEF Stored, TypeOK
  <2> QED BY <2>1, RowsAssumption, UnitsAssumption DEF Stamps, Core
<1>1. CASE d \notin cands
  BY <1>1 DEF FillAtOpen
<1>2. CASE d \in cands
  <2>1. d \in Decisions /\ IsPending(bk.orders, d) /\ DecisionSymbol(d) = s
    BY <1>0, <1>2 DEF TypeOK, DecisionSymbol, FillStamp
  <2>2. bk.positions[d] = NULL
    BY <2>1 DEF Core, Linked, IsPending
  <2> HIDE DEF d, s, price
  <2>3. CASE held = {}
    <3>1. f = FillPending(bk, d, price, ts)
      BY <1>2, <2>3 DEF FillAtOpen, d, s
    <3>2. /\ f.positions[d] \in PositionRow
          /\ f.positions[d].status = "OPEN"
          /\ \A e \in Decisions : e # d => f.positions[e] = bk.positions[e]
      BY <1>0, <2>1, <2>3, <3>1, FillPendingFacts
    <3>3. f.positions[d] # NULL
      BY <3>2, NullAssumption
    <3>4. EnteredFree(bk.positions, f.positions, s, d)
      BY <2>1, <2>2, <2>3, <3>2, <3>3 DEF EnteredFree, IsOpen
    <3> QED BY <3>4 DEF s, price
  <2>4. CASE held # {} /\ bk.positions[h].side = bk.orders[d].side
    <3>1. f = [bk EXCEPT !.orders = CancelPending(@, {d})]
      BY <1>2, <2>4 DEF FillAtOpen, d, s
    <3>2. f.positions = bk.positions
      BY <1>0, <3>1 DEF Book
    <3> QED BY <3>2 DEF price
  <2>5. CASE held # {} /\ bk.positions[h].side # bk.orders[d].side
    <3> DEFINE c == CloseAt(bk, h, price, "signal", ts)
    <3>1. f = FillPending(c, d, price, ts)
      BY <1>2, <2>5 DEF FillAtOpen, d, s
    <3>2. h \in held /\ h \in Decisions /\ IsOpen(bk.positions, h) /\ h # d
      BY <2>2, <2>5 DEF OpenFor, IsOpen
    <3> HIDE DEF h
    <3>3. /\ c \in Book /\ c.orders = bk.orders
          /\ \A e \in Decisions : e # h => c.positions[e] = bk.positions[e]
          /\ c.positions[h] \in PositionRow
          /\ c.positions[h].status = "CLOSED"
      BY <1>0, <3>2, CloseAtFacts DEF Reasons
    <3> HIDE DEF c
    <3>4. OpenFor(c.positions, DecisionSymbol(d)) = {}
      <4>1. \A e \in held : e = h
        BY <3>2 DEF Core, OneOpen, OpenFor
      <4> QED BY <2>1, <3>3, <4>1 DEF OpenFor, IsOpen
    <3>5. /\ f.positions[d] \in PositionRow
          /\ f.positions[d].status = "OPEN"
          /\ f.positions[d].side = bk.orders[d].side
          /\ \A e \in Decisions : e # d => f.positions[e] = c.positions[e]
      <4>1. IsPending(c.orders, d)
        BY <2>1, <3>3 DEF IsPending
      <4> QED BY <1>0, <2>1, <3>1, <3>3, <3>4, <4>1, FillPendingFacts
    <3> HIDE DEF f
    <3>6. f.positions[d] # NULL /\ c.positions[h] # NULL
      BY <3>3, <3>5, NullAssumption
    <3>7. EnteredFlip(bk.positions, f.positions, s, d, h)
      BY <2>1, <2>2, <2>5, <3>2, <3>3, <3>5, <3>6 DEF EnteredFlip, IsOpen, IsClosed
    <3> QED BY <3>7 DEF f, s, price
  <2> QED BY <2>3, <2>4, <2>5
<1> QED BY <1>1, <1>2

\* The bar's CLOSE leaves the table alone or ends the symbol's position.
LEMMA EvaluateExitSlot ==
  ASSUME TypeOK, NEW bk, Core(bk), NEW u \in Units, NEW ts \in Stored(u)
  PROVE  LET x == EvaluateExit(bk, SymbolOf[u], candles[u][ts].close, ts)
             s == SymbolOf[u]
         IN \/ x.positions = bk.positions
            \/ \E h : Exited(bk.positions, x.positions, s, h)
<1> DEFINE s == SymbolOf[u]
           close == candles[u][ts].close
           held == OpenFor(bk.positions, s)
           h == CHOOSE e \in held : TRUE
           p == bk.positions[h]
           x == EvaluateExit(bk, s, close, ts)
<1>0. bk \in Book /\ ts \in Int
  BY DEF Core, Stored, Stamps
<1>1. ASSUME held # {}, NEW reason \in Reasons, NEW price \in Int,
             x = CloseAt(bk, h, price, reason, ts)
      PROVE  Exited(bk.positions, x.positions, s, h)
  <2>1. h \in held /\ h \in Decisions /\ IsOpen(bk.positions, h)
    BY <1>1 DEF OpenFor
  <2> HIDE DEF h, x
  <2>2. /\ \A e \in Decisions : e # h => x.positions[e] = bk.positions[e]
        /\ x.positions[h] \in PositionRow
        /\ x.positions[h].status = "CLOSED"
    BY <1>0, <1>1, <2>1, CloseAtFacts
  <2> QED BY <2>1, <2>2, NullAssumption DEF Exited, IsClosed
<1>2. CASE held = {}
  BY <1>2 DEF EvaluateExit
<1>3. CASE held # {} /\ StopHit(p, close)
  <2>1. p \in PositionRow /\ p.sl \in Int
    BY <1>0, <1>3 DEF OpenFor, IsOpen, Book, StopHit, PositionRow, Optional
  <2>2. x = CloseAt(bk, h, p.sl, "stop_loss", ts)
    BY <1>3 DEF EvaluateExit
  <2> HIDE DEF x, p
  <2> QED BY <1>1, <1>3, <2>1, <2>2 DEF Reasons, x
<1>4. CASE held # {} /\ ~ StopHit(p, close) /\ TargetHit(p, close)
  <2>1. p \in PositionRow /\ p.tp \in Int
    BY <1>0, <1>4 DEF OpenFor, IsOpen, Book, TargetHit, PositionRow, Optional
  <2>2. x = CloseAt(bk, h, p.tp, "take_profit", ts)
    BY <1>4 DEF EvaluateExit
  <2> HIDE DEF x, p
  <2> QED BY <1>1, <1>4, <2>1, <2>2 DEF Reasons, x
<1>5. CASE held # {} /\ ~ StopHit(p, close) /\ ~ TargetHit(p, close)
  BY <1>5 DEF EvaluateExit
<1> QED BY <1>2, <1>3, <1>4, <1>5

----------------------------------------------------------------------------
(* From table changes to steps of the slots.                               *)

\* The slots of the mapping are those of the current table.
LEMMA SlotsOfTable ==
  /\ {[order |-> d, side |-> positions[d].side] : d \in OpenRows} = HeldIn(positions)
  /\ {d \in Decisions : IsClosed(positions, d)} = PastIn(positions)
  /\ \A s : Slots!InSlot(s) = SlotIn(positions, s)
<1>1. {[order |-> d, side |-> positions[d].side] : d \in OpenRows} = HeldIn(positions)
  BY DEF OpenRows, HeldIn, PositionOf
<1>2. \A x \in HeldIn(positions) : x.order \in Decisions
  BY DEF HeldIn, PositionOf
<1>3. \A s : Slots!InSlot(s) = SlotIn(positions, s)
  BY <1>1, <1>2 DEF Slots!InSlot, SlotIn
<1> QED BY <1>1, <1>3 DEF PastIn

\* The state after the step, likewise.
LEMMA NextSlotsOfTable ==
  /\ {[order |-> d, side |-> positions[d].side] : d \in OpenRows}' = HeldIn(positions')
  /\ {d \in Decisions : IsClosed(positions, d)}' = PastIn(positions')
<1>1. {[order |-> d, side |-> positions[d].side] : d \in OpenRows}' = HeldIn(positions')
  BY DEF OpenRows, HeldIn, PositionOf, IsOpen
<1> QED BY <1>1 DEF PastIn, IsClosed

\* An exit alone is a Leave.
LEMMA ExitIsLeave ==
  ASSUME positions \in Tables, positions' \in Tables, OneOpen(positions),
         NEW s, NEW h, Exited(positions, positions', s, h)
  PROVE  Slots!Next
<1>1. /\ HeldIn(positions') = HeldIn(positions) \ SlotIn(positions, s)
      /\ PastIn(positions') = PastIn(positions) \cup {h}
      /\ SlotIn(positions, s) = {PositionOf(positions, h)}
  BY ExitedSets
<1>2. h \in Decisions /\ [d \in Decisions |-> DecisionSymbol(d)][h] = s
  BY DEF Exited, OpenFor
<1>3. Slots!OrdersOf(SlotIn(positions, s)) = {h}
  BY <1>1 DEF Slots!OrdersOf, PositionOf
<1>4. Slots!Leave(s)
  BY <1>1, <1>3, SlotsOfTable, NextSlotsOfTable DEF Slots!Leave
<1> QED BY <1>2, <1>4 DEF Slots!Next

\* An entry, and the exit of its own bar if there is one, is a Take or a
\* TakeAndLeave.
LEMMA EntryIsTake ==
  ASSUME positions \in Tables, NEW P \in Tables, positions' \in Tables,
         OneOpen(positions), OneOpen(P), NEW s, NEW d, NEW h,
         EnteredFree(positions, P, s, d) \/ EnteredFlip(positions, P, s, d, h),
         \/ positions' = P
         \/ \E g : Exited(P, positions', s, g)
  PROVE  Slots!Next
<1> DEFINE slot == SlotIn(positions, s)
           side == P[d].side
<1>1. /\ d \in Decisions /\ side \in Sides /\ DecisionSymbol(d) = s
      /\ d \notin PastIn(positions)
      /\ \A x \in HeldIn(positions) : x.order # d
      /\ \A x \in slot : x.side # side
      /\ HeldIn(P) = (HeldIn(positions) \ slot) \cup {PositionOf(P, d)}
      /\ PastIn(P) = PastIn(positions) \cup {x.order : x \in slot}
  BY EnteredSets
<1>2. [e \in Decisions |-> DecisionSymbol(e)][d] = s
  BY <1>1
<1>3. Slots!Fresh(d) /\ Slots!Available(s, side)
  BY <1>1, SlotsOfTable DEF Slots!Fresh, Slots!Available, Slots!OrdersOf
<1>4. Slots!OrdersOf(slot) = {x.order : x \in slot}
  BY DEF Slots!OrdersOf
<1>5. CASE positions' = P
  <2>1. Slots!Take(d, side)
    BY <1>1, <1>2, <1>3, <1>4, <1>5, SlotsOfTable, NextSlotsOfTable
       DEF Slots!Take, PositionOf
  <2> QED BY <1>1, <2>1 DEF Slots!Next
<1>6. ASSUME NEW g, Exited(P, positions', s, g)
      PROVE  Slots!Next
  <2>1. d \in OpenFor(P, s)
    BY <1>1 DEF EnteredFree, EnteredFlip, OpenFor
  <2>2. g = d
    BY <1>6, <2>1 DEF Exited, OpenFor, OneOpen
  <2>3. /\ HeldIn(positions') = HeldIn(P) \ {PositionOf(P, d)}
        /\ PastIn(positions') = PastIn(P) \cup {d}
    BY <1>6, <2>2, ExitedSets
  <2>4. PositionOf(P, d) \notin HeldIn(positions)
    BY <1>1 DEF PositionOf
  <2>5. HeldIn(positions') = HeldIn(positions) \ slot
    BY <1>1, <2>3, <2>4
  <2>6. Slots!TakeAndLeave(d, side)
    BY <1>1, <1>2, <1>3, <1>4, <2>3, <2>5, SlotsOfTable, NextSlotsOfTable
       DEF Slots!TakeAndLeave
  <2> QED BY <1>1, <2>6 DEF Slots!Next
<1> QED BY <1>5, <1>6

\* One unit-bar transaction serves one slot or none.
LEMMA ProcessBarServesSlot ==
  ASSUME IInv, ProcessBar
  PROVE  [Slots!Next]_(Slots!slots)
<1> DEFINE sym == SymbolOf[unit]
<1>0. PICK ts \in window :
        LET bar    == candles[unit][ts]
            filled == FillAtOpen(RestoreState, unit, ts, bar.open)
            final  == EvaluateExit(filled, sym, bar.close, ts)
        IN positions' = final.positions
  BY DEF ProcessBar
<1> DEFINE bar == candles[unit][ts]
           filled == FillAtOpen(RestoreState, unit, ts, bar.open)
           final == EvaluateExit(filled, sym, bar.close, ts)
<1>1. /\ TypeOK
      /\ unit \in Units
      /\ ts \in Stored(unit)
      /\ \A d \in cands : FillStamp(d) \in window => IsPending(orders, d)
  BY DEF IInv, ProcessBar, CandidatesStayPending, TypeOK
<1>2. /\ RestoreState.orders = orders
      /\ RestoreState.positions = positions
      /\ Core(RestoreState)
      /\ FlipsDone(RestoreState.positions)
  BY <1>1, RestoreIsBook DEF IInv, TablesOK, Core
<1>3. \A d \in cands : FillStamp(d) = ts /\ d[1] = unit
                         => IsPending(RestoreState.orders, d)
  BY <1>0, <1>1, <1>2
<1>4. Core(filled)
  BY <1>1, <1>2, <1>3, FillAtOpenKeeps
<1>5. \/ filled.positions = positions
      \/ \E d : EnteredFree(positions, filled.positions, sym, d)
      \/ \E d, h : EnteredFlip(positions, filled.positions, sym, d, h)
  BY <1>1, <1>2, <1>3, FillAtOpenSlot
<1> HIDE DEF filled
<1>6. \/ final.positions = filled.positions
      \/ \E h : Exited(filled.positions, final.positions, sym, h)
  BY <1>1, <1>4, EvaluateExitSlot
<1>7. positions' = final.positions
  BY <1>0 DEF filled
<1>8. /\ positions \in Tables /\ OneOpen(positions)
      /\ filled.positions \in Tables /\ OneOpen(filled.positions)
      /\ positions' \in Tables
  <2>1. IInv'
    BY ProcessBarKeeps
  <2> QED BY <1>4, <2>1 DEF IInv, TypeOK, TablesOK, Core, Book, Tables
<1> HIDE DEF final, sym
<1>9. CASE filled.positions = positions
  <2>1. CASE positions' = positions
    BY <2>1 DEF Slots!slots, OpenRows, IsOpen, IsClosed
  <2>2. CASE \E h : Exited(positions, positions', sym, h)
    BY <2>2, <1>8, ExitIsLeave
  <2> QED BY <1>6, <1>7, <1>9, <2>1, <2>2
<1>10. CASE \/ \E d : EnteredFree(positions, filled.positions, sym, d)
            \/ \E d, h : EnteredFlip(positions, filled.positions, sym, d, h)
  BY <1>6, <1>7, <1>8, <1>10, EntryIsTake
<1> QED BY <1>5, <1>9, <1>10

\* Every step that leaves the positions table alone stutters.
LEMMA OtherStepsStutter ==
  ASSUME UNCHANGED positions
  PROVE  UNCHANGED Slots!slots
BY DEF Slots!slots, OpenRows, IsOpen, IsClosed

\* The refinement: however passes fail, are repeated or overlap with new bars
\* and decisions, the positions table moves as the slots allow.
THEOREM LedgerImplementsSlots == Spec => ImplementsSlots
<1>1. Init => Slots!Init
  BY DEF Init, Slots!Init, OpenRows, IsOpen, IsClosed
<1>2. IInv /\ [Next]_vars => [Slots!Next]_(Slots!slots)
  <2> SUFFICES ASSUME IInv, [Next]_vars
               PROVE  [Slots!Next]_(Slots!slots)
    OBVIOUS
  <2>1. CASE ProcessBar
    BY <2>1, ProcessBarServesSlot
  <2>2. ASSUME UNCHANGED positions
        PROVE  UNCHANGED Slots!slots
    BY <2>2, OtherStepsStutter
  <2>3. CASE ~ ProcessBar
    <3>1. UNCHANGED positions
      BY <2>3 DEF Next, Lifecycle, Tick, StoreBar, Decide, Discover, StartUnit,
                  ExpirySweep, UnitFails, SweepFails, Crash, Fail, vars, tables
    <3> QED BY <2>2, <3>1
  <2> QED BY <2>1, <2>3
<1> QED BY <1>1, <1>2, Invariance, PTL DEF Spec, ImplementsSlots, Slots!Spec

----------------------------------------------------------------------------
(* The read side.                                                          *)

\* A position of the first count stays a row of the table, so that its order is
\* FILLED by the time of the second one.  The decisions taken are finitely many,
\* which bounds the open positions.
ReaderInv ==
  /\ IInv
  /\ IsFiniteSet(decided)
  /\ rpc \in {"snapshot", "positions", "orders"}
  /\ got = [EmptySummary EXCEPT !.as_of = got.as_of, !.open = got.open]
  /\ \A d \in got.open : d \in Decisions /\ positions[d] # NULL
  /\ NothingCountedTwice

\* An order whose position exists is not counted as PENDING.
LEMMA FilledIsNotPending ==
  ASSUME IInv, NEW d \in Decisions, positions[d] # NULL
  PROVE  d \notin Pending
BY DEF IInv, TablesOK, Linked, Pending, IsPending

\* A step of the ledger decides at most one more bucket.
LEMMA DecidedStaysFinite ==
  ASSUME IsFiniteSet(decided), [Next]_vars
  PROVE  IsFiniteSet(decided')
<1>1. CASE UNCHANGED decided
  BY <1>1
<1>2. ASSUME NEW d \in Decisions, NEW br \in Brackets, Decide(d, br)
      PROVE  IsFiniteSet(decided')
  <2>1. decided' = decided \cup {d}
    BY <1>2 DEF Decide
  <2> QED BY <2>1, FS_AddElement
<1>3. UNCHANGED decided \/ \E d \in Decisions, br \in Brackets : Decide(d, br)
  BY DEF Next, vars, tables, Tick, StoreBar, Lifecycle, Discover, StartUnit, ProcessBar,
         ExpirySweep, UnitFails, SweepFails, Crash, Fail
<1> QED BY <1>1, <1>2, <1>3

\* A row of the positions table stays there.
LEMMA PositionStays ==
  ASSUME IInv, [Next]_vars, NEW d \in Decisions, positions[d] # NULL
  PROVE  positions'[d] # NULL
<1>1. Kept(orders, positions, orders', positions')
  BY NextKeeps
<1>2. positions \in [Decisions -> PositionRow \cup {NULL}]
  BY DEF IInv, TypeOK
<1>3. IsOpen(positions, d) \/ IsClosed(positions, d)
  BY <1>2, OpenOrClosed
<1> QED BY <1>1, <1>3 DEF Kept, IsClosed

\* The invariant of the summaries.
THEOREM ReaderInvariance == PortfolioSpec => []ReaderInv
<1>1. PortfolioInit => ReaderInv
  <2> SUFFICES ASSUME PortfolioInit PROVE ReaderInv
    OBVIOUS
  <2>1. IInv /\ decided = {}
    BY InitEstablishes DEF PortfolioInit, Init
  <2>2. IsFiniteSet(decided)
    BY <2>1, FS_EmptySet
  <2> QED BY <2>1, <2>2 DEF PortfolioInit, ReaderInv, EmptySummary, NothingCountedTwice
<1>2. ReaderInv /\ [PortfolioNext]_<<vars, reader>> => ReaderInv'
  <2> SUFFICES ASSUME ReaderInv, [PortfolioNext]_<<vars, reader>> PROVE ReaderInv'
    OBVIOUS
  <2>0. IInv /\ IsFiniteSet(decided)
    BY DEF ReaderInv
  <2>1. ASSUME [Next]_vars PROVE IInv' /\ IsFiniteSet(decided)'
    BY <2>0, <2>1, NextKeeps, DecidedStaysFinite
  <2>2. ASSUME [Next]_vars, UNCHANGED <<rpc, got, shown>> PROVE ReaderInv'
    <3>1. \A d \in got.open : d \in Decisions /\ positions'[d] # NULL
      BY <2>0, <2>2, PositionStays DEF ReaderInv
    <3> QED BY <2>1, <2>2, <3>1 DEF ReaderInv, EmptySummary, NothingCountedTwice
  <2>3. CASE LedgerStep
    BY <2>2, <2>3 DEF LedgerStep
  <2>4. CASE UNCHANGED <<vars, reader>>
    BY <2>2, <2>4 DEF reader
  <2>5. CASE ReadSnapshot
    <3>1. UNCHANGED vars /\ UNCHANGED positions
      BY <2>5 DEF ReadSnapshot, vars, tables
    <3>2. CASE snapshot = NULL
      <4>1. rpc' = rpc /\ got' = got /\ shown' = EmptySummary
        BY <2>5, <3>2 DEF ReadSnapshot
      <4> QED BY <2>1, <3>1, <4>1 DEF ReaderInv, EmptySummary, NothingCountedTwice
    <3>3. CASE snapshot # NULL
      <4>1. /\ got' = [EmptySummary EXCEPT !.as_of = snapshot.ts]
            /\ rpc' = "positions" /\ shown' = shown
        BY <2>5, <3>3 DEF ReadSnapshot
      <4> QED BY <2>1, <3>1, <4>1 DEF ReaderInv, EmptySummary, NothingCountedTwice
    <3> QED BY <3>2, <3>3
  <2>6. CASE ReadCounts("positions")
    <3>1. UNCHANGED vars /\ UNCHANGED positions
      BY <2>6 DEF ReadCounts, vars, tables
    <3>2. got' = [got EXCEPT !.open = Open] /\ rpc' = "orders" /\ shown' = shown
      BY <2>6 DEF ReadCounts
    <3>3. \A d \in Open : d \in Decisions /\ positions[d] # NULL
      BY DEF Open, IsOpen
    <3> QED BY <2>1, <3>1, <3>2, <3>3 DEF ReaderInv, EmptySummary, NothingCountedTwice
  <2>7. CASE ReadCounts("orders")
    <3>1. UNCHANGED vars /\ UNCHANGED positions
      BY <2>7 DEF ReadCounts, vars, tables
    <3>2. shown' = [got EXCEPT !.pending = Pending] /\ got' = EmptySummary /\ rpc' = "snapshot"
      BY <2>7 DEF ReadCounts
    <3>3. got.open \cap Pending = {}
      BY <2>0, FilledIsNotPending DEF ReaderInv
    <3>4. shown'.open = got.open /\ shown'.pending = Pending
      BY <3>2 DEF ReaderInv, EmptySummary
    <3>5. NothingCountedTwice'
      BY <3>3, <3>4 DEF NothingCountedTwice
    <3> QED BY <2>1, <3>1, <3>2, <3>5 DEF ReaderInv, EmptySummary
  <2> QED BY <2>3, <2>4, <2>5, <2>6, <2>7 DEF PortfolioNext
<1> QED BY <1>1, <1>2, PTL DEF PortfolioSpec

\* However a pass interleaves with its queries, a summary counts no order that
\* is filled meanwhile as order and position; and a page of OPEN positions that
\* is long enough for them has them all, whatever was entered and closed later.
THEOREM SummarySound == PortfolioSpec => []SummaryIsSound
<1>1. ReaderInv => SummaryIsSound
  <2> SUFFICES ASSUME ReaderInv, Cardinality(Open) <= PageLimit,
                      NEW S \in ListPositions("OPEN", PageLimit)
               PROVE  S = Open
    BY DEF ReaderInv, SummaryIsSound, OpenAreListed
  <2>1. Open \subseteq decided
    BY DEF ReaderInv, IInv, OrdersDecided, TablesOK, Linked, Open, IsOpen
  <2>2. IsFiniteSet(Open)
    BY <2>1, FS_Subset DEF ReaderInv
  <2>3. Listed("OPEN") = Open
    BY DEF Listed, Open, IsOpen
  <2>4. S \subseteq Open /\ (Cardinality(S) = PageLimit \/ S = Open)
    BY <2>3 DEF ListPositions, Newest
  <2>5. IsFiniteSet(S) /\ Cardinality(S) <= Cardinality(Open)
    BY <2>2, <2>4, FS_Subset
  <2>6. Cardinality(S) \in Nat /\ Cardinality(Open) \in Nat
    BY <2>2, <2>5, FS_CardinalityType
  <2>7. CASE Cardinality(S) = PageLimit
    <3>1. Cardinality(S) = Cardinality(Open)
      BY <2>5, <2>6, <2>7
    <3> QED BY <2>2, <2>4, <3>1, FS_Subset
  <2> QED BY <2>4, <2>7
<1> QED BY <1>1, ReaderInvariance, PTL
=============================================================================
