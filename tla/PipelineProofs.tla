--------------------------- MODULE PipelineProofs ---------------------------
(***************************************************************************)
(* The stages from market data to decisions, for every value of their      *)
(* constants: first each of them by itself, then as parts of Pipeline.     *)
(***************************************************************************)
EXTENDS Pipeline, Integers, Sequences, FiniteSetTheorems, WellFoundedInduction, TLAPS

Is(p) == part = p

\* A step of one part is a step of the others that changes nothing of theirs, so
\* that every behaviour of Pipeline is one of each stage.
LEMMA OtherPartsWait ==
  ASSUME [PipelineNext]_allVars
  PROVE  /\ [(part = "live" /\ Live!Next) \/ (part = "backfill" /\ Backfill!Next)]_ingestVars
         /\ [AgentsOf!Next]_agentVars
         /\ [ContentOf!Next]_contentVars
         /\ reading' = reading
         /\ [Readers!Next]_readerVars
         /\ [\/ part = "spacing" /\ Spacing!Next
             \/ part = "ledger" /\ Ledger!Next]_engineVars
         /\ [\/ part = "prices" /\ PricedRun!Next
             \/ part = "coverage" /\ GappyRun!Next]_runVars
         /\ part' = part
<1>1. CASE UNCHANGED allVars
  BY <1>1 DEF allVars
<1>2. CASE Only({"live", "backfill"}) /\ part = "live" /\ Live!Next
  BY <1>2 DEF Only
<1>3. CASE Only({"live", "backfill"}) /\ part = "backfill" /\ Backfill!Next
  BY <1>3 DEF Only
<1>4. CASE Only({"agents"}) /\ AgentsOf!Next
  BY <1>4 DEF Only
<1>5. CASE Only({"content"}) /\ ContentOf!Next
  BY <1>5 DEF Only
<1>6. CASE Only({"votes"})
  BY <1>6 DEF Only
<1>7. CASE Only({"readers"}) /\ Readers!Next
  BY <1>7 DEF Only
<1>8. CASE Only({"fusion", "risk"})
  BY <1>8 DEF Only
<1>9. CASE Only({"spacing", "ledger"}) /\ part = "spacing" /\ Spacing!Next
  BY <1>9 DEF Only
<1>10. CASE Only({"spacing", "ledger"}) /\ part = "ledger" /\ Ledger!Next
  BY <1>10 DEF Only
<1>11. CASE Only({"prices", "coverage"}) /\ part = "prices" /\ PricedRun!Next
  BY <1>11 DEF Only
<1>12. CASE Only({"prices", "coverage"}) /\ part = "coverage" /\ GappyRun!Next
  BY <1>12 DEF Only
<1> QED
  BY <1>1, <1>2, <1>3, <1>4, <1>5, <1>6, <1>7, <1>8, <1>9, <1>10, <1>11, <1>12
  DEF PipelineNext

----------------------------------------------------------------------------
(* News and the calendar.                                                  *)

\* A source was polled successfully for the first time before the last time, and
\* not in the future.
PollTimes ==
  /\ contentNow \in Nat /\ contentNow <= ContentSetup.MaxTime
  /\ contentRows \in [ContentSetup.Items -> BOOLEAN \cup {NULL}]
  /\ ok \in [ContentOf!Sources -> Nat \cup {NULL}]
  /\ first \in [ContentOf!Sources -> Nat \cup {NULL}]
  /\ gap \in [ContentOf!Sources -> Nat]
  /\ \A src \in ContentOf!Sources :
       IF ok[src] = NULL THEN first[src] = NULL
       ELSE first[src] # NULL /\ first[src] <= ok[src] /\ ok[src] <= contentNow

LEMMA ContentInit ==
  ASSUME ContentOf!ContentAssumption, ContentOf!Init
  PROVE  PollTimes /\ ContentOf!NothingSlipsThrough
BY DEF ContentOf!ContentAssumption, ContentOf!Init, PollTimes, ContentOf!NothingSlipsThrough

\* A successful poll stores what its window has, and what fell between two polls
\* that are no further apart than the lookback was in the window of one of them.
LEMMA ContentPoll ==
  ASSUME ContentOf!ContentAssumption, PollTimes, ContentOf!NothingSlipsThrough,
         NEW src \in ContentOf!Sources, ContentOf!Poll(src)
  PROVE  PollTimes' /\ ContentOf!NothingSlipsThrough'
<1> USE DEF ContentOf!ContentAssumption
<1>1. /\ contentRows' = ContentOf!Inserted(src) /\ contentNow' = contentNow
      /\ ok' = [ok EXCEPT ![src] = contentNow]
      /\ first' = [first EXCEPT ![src] = IF @ = NULL THEN contentNow ELSE @]
      /\ gap' = [gap EXCEPT ![src] =
                   IF ok[src] # NULL /\ contentNow - ok[src] > @ THEN contentNow - ok[src] ELSE @]
  BY DEF ContentOf!Poll
<1>2. contentRows' \in [ContentSetup.Items -> BOOLEAN \cup {NULL}]
  BY <1>1 DEF ContentOf!Inserted, PollTimes
<1>3. PollTimes'
  BY <1>1, <1>2 DEF PollTimes
<1>4. ASSUME NEW x \in ContentSetup.Items,
             LET y == ContentSetup.Source[x] IN
               /\ ok'[y] # NULL /\ gap'[y] <= ContentSetup.Lookback[y]
               /\ ContentSetup.At[x] >= first'[y] - ContentSetup.Lookback[y]
               /\ ContentSetup.At[x] < ok'[y]
      PROVE  contentRows'[x] # NULL
  <2>1. contentRows[x] # NULL => contentRows'[x] # NULL
    BY <1>1 DEF ContentOf!Inserted
  <2>2. CASE ContentSetup.Source[x] # src
    <3>1. LET y == ContentSetup.Source[x]
          IN ok'[y] = ok[y] /\ first'[y] = first[y] /\ gap'[y] = gap[y]
      BY <1>1, <2>2 DEF PollTimes
    <3> QED BY <1>4, <2>1, <3>1 DEF ContentOf!NothingSlipsThrough
  <2>3. CASE ContentSetup.Source[x] = src
    <3>1. /\ ok'[src] = contentNow
          /\ first'[src] = IF first[src] = NULL THEN contentNow ELSE first[src]
          /\ gap'[src] = IF ok[src] # NULL /\ contentNow - ok[src] > gap[src]
                         THEN contentNow - ok[src] ELSE gap[src]
      BY <1>1 DEF PollTimes
    <3>2. ASSUME ContentSetup.At[x] >= contentNow - ContentSetup.Lookback[src]
          PROVE  contentRows'[x] # NULL
      <4>1. ContentSetup.At[x] \in ContentOf!Window(src)
        BY <1>4, <2>3, <3>1, <3>2 DEF ContentOf!Window, PollTimes
      <4>2. x \in ContentOf!Fetched(src)
        BY <4>1, <2>3 DEF ContentOf!Fetched
      <4> DEFINE released == ContentSetup.Released[x] <= contentNow
      <4>3. contentRows'[x] = IF contentRows[x] = NULL THEN released ELSE contentRows[x]
        BY <1>1, <4>2 DEF ContentOf!Inserted
      <4>4. released \in BOOLEAN /\ NULL \notin BOOLEAN
        OBVIOUS
      <4> HIDE DEF released
      <4> QED BY <4>3, <4>4
    <3>3. CASE ok[src] = NULL
      <4>1. first'[src] = contentNow
        BY <3>1, <3>3 DEF PollTimes
      <4> QED BY <1>4, <2>3, <3>2, <4>1
    <3>4. CASE ok[src] # NULL /\ ContentSetup.At[x] < ok[src]
      <4>1. first'[src] = first[src] /\ gap[src] <= gap'[src]
        BY <3>1, <3>4 DEF PollTimes
      <4>2. gap[src] <= ContentSetup.Lookback[src]
        BY <1>4, <2>3, <4>1, <1>3 DEF PollTimes
      <4> QED BY <1>4, <2>1, <2>3, <3>4, <4>1, <4>2 DEF ContentOf!NothingSlipsThrough
    <3>5. CASE ok[src] # NULL /\ ContentSetup.At[x] >= ok[src]
      <4>1. contentNow - ok[src] <= ContentSetup.Lookback[src]
        BY <1>4, <2>3, <3>1, <3>5 DEF PollTimes
      <4> QED BY <3>2, <3>5, <4>1 DEF PollTimes
    <3> QED BY <3>3, <3>4, <3>5 DEF PollTimes
  <2> QED BY <2>2, <2>3
<1> QED BY <1>3, <1>4 DEF ContentOf!NothingSlipsThrough

LEMMA ContentStep ==
  ASSUME ContentOf!ContentAssumption, PollTimes, ContentOf!NothingSlipsThrough,
         [ContentOf!Next]_contentVars
  PROVE  PollTimes' /\ ContentOf!NothingSlipsThrough'
<1>1. CASE UNCHANGED <<contentRows, ok, first, gap>> /\ contentNow' \in Nat
           /\ contentNow <= contentNow' /\ contentNow' <= ContentSetup.MaxTime
  BY <1>1 DEF PollTimes, ContentOf!NothingSlipsThrough
<1>2. CASE UNCHANGED contentVars
  BY <1>1, <1>2 DEF contentVars, PollTimes
<1>3. CASE ContentOf!Tick
  BY <1>1, <1>3 DEF ContentOf!Tick, ContentOf!history, PollTimes, ContentOf!ContentAssumption
<1>4. CASE ContentOf!Wake \/ ContentOf!Restart
  BY <1>1, <1>4 DEF ContentOf!Wake, ContentOf!Restart, ContentOf!history, PollTimes
<1>5. ASSUME NEW src \in ContentOf!Sources, ContentOf!Degrade(src) \/ ContentOf!Dies(src)
      PROVE  PollTimes' /\ ContentOf!NothingSlipsThrough'
  BY <1>1, <1>5 DEF ContentOf!Degrade, ContentOf!Dies, ContentOf!history, PollTimes
<1> QED BY <1>2, <1>3, <1>4, <1>5, ContentPoll DEF ContentOf!Next

\* However polls fail, degrade and end the worker, a story or event is stored by
\* the first successful poll after its time, unless the successful polls were
\* further apart than the lookback.
THEOREM PipelineContent ==
  ASSUME ContentOf!ContentAssumption PROVE PipelineSpec => []NothingSlipsThrough
<1>1. PipelineInit => PollTimes /\ ContentOf!NothingSlipsThrough
  BY ContentInit DEF PipelineInit
<1>2. PollTimes /\ ContentOf!NothingSlipsThrough /\ [PipelineNext]_allVars
        => PollTimes' /\ ContentOf!NothingSlipsThrough'
  BY OtherPartsWait, ContentStep
<1>3. ContentOf!NothingSlipsThrough => NothingSlipsThrough
  BY DEF NothingSlipsThrough
<1> QED BY <1>1, <1>2, <1>3, PTL DEF PipelineSpec

----------------------------------------------------------------------------
(* The broker of a simulated run.                                          *)

Trades ==
  [sym : PricedRun!SymbolSet, side : PricedRun!Sides, entered : Nat, entry : Int, exited : Nat,
   exit : Int, reason : {"signal", "stop_loss", "take_profit"}]

RunTypes ==
  /\ runPhase \in {"create", "context", "fine", "save", "failed", "end"}
  /\ symbolNo \in 1 .. Len(PricesSetup.Symbols)
  /\ barNo \in Nat /\ step \in 1 .. 4
  /\ pos \in [PricedRun!SymbolSet -> PricedRun!Positions \cup {NULL}]
  /\ fill \in [PricedRun!SymbolSet -> PricedRun!Fills \cup {NULL}]
  /\ trades \in Seq(Trades)

\* Before the fine timeframe nothing has been traded.
Untraded ==
  runPhase \in {"create", "context"} =>
    /\ \A y \in PricedRun!SymbolSet : pos[y] = NULL /\ fill[y] = NULL
    /\ trades = <<>> /\ step = 1 /\ (runPhase = "create" => symbolNo = 1 /\ barNo = 0)

\* A symbol whose turn is to come has not been traded.
Ahead ==
  \A n \in DOMAIN PricesSetup.Symbols : n > symbolNo =>
    /\ pos[PricesSetup.Symbols[n]] = NULL /\ fill[PricesSetup.Symbols[n]] = NULL
    /\ \A m \in DOMAIN trades : trades[m].sym # PricesSetup.Symbols[n]

\* The symbol at hand: a bar is read in step 1; a fill waits from the decision to
\* the next open and fits the position; nothing of it is later than this bar.
AtHand(y) ==
  /\ barNo <= PricesSetup.Bars
  /\ step # 1 => barNo < PricesSetup.Bars /\ bar \in [open : Int, close : Int]
  /\ fill[y] # NULL =>
       /\ \/ step = 1 /\ fill[y].at = barNo - 1 /\ barNo < PricesSetup.Bars
          \/ step = 4 /\ fill[y].at = barNo /\ barNo + 1 < PricesSetup.Bars
       /\ fill[y].close <=> pos[y] # NULL
       /\ pos[y] # NULL => pos[y].side = -fill[y].dir
  /\ pos[y] # NULL => pos[y].at <= barNo
  /\ \A m \in DOMAIN trades : trades[m].sym = y => trades[m].exited <= barNo

BrokerInv ==
  /\ RunTypes /\ Untraded
  /\ runPhase = "fine" => Ahead /\ AtHand(PricedRun!s)
  /\ PricedRun!EntryFollowsDecision /\ PricedRun!InsideThresholds /\ PricedRun!TradesDoNotOverlap

RunAssumption == PricedRun!BacktestAssumption /\ PricedRun!DistinctSymbols

LEMMA SymbolAtHand ==
  ASSUME RunAssumption, RunTypes
  PROVE  /\ PricedRun!s \in PricedRun!SymbolSet
         /\ DOMAIN PricesSetup.Symbols = 1 .. Len(PricesSetup.Symbols)
         /\ Len(PricesSetup.Symbols) \in Nat \ {0}
         /\ \A n \in DOMAIN PricesSetup.Symbols :
              /\ PricesSetup.Symbols[n] \in PricedRun!SymbolSet
              /\ PricesSetup.Symbols[n] = PricedRun!s => n = symbolNo
<1>1. PricesSetup.Symbols \in Seq(PricedRun!SymbolSet) /\ PricesSetup.Symbols # <<>>
  BY DEF RunAssumption, PricedRun!BacktestAssumption
<1>2. DOMAIN PricesSetup.Symbols = 1 .. Len(PricesSetup.Symbols)
      /\ Len(PricesSetup.Symbols) \in Nat \ {0}
  BY <1>1
<1>3. symbolNo \in DOMAIN PricesSetup.Symbols
  BY <1>2 DEF RunTypes
<1>4. \A n \in DOMAIN PricesSetup.Symbols : PricesSetup.Symbols[n] \in PricedRun!SymbolSet
  BY DEF PricedRun!SymbolSet
<1> QED BY <1>2, <1>3, <1>4 DEF PricedRun!s, RunAssumption, PricedRun!DistinctSymbols

LEMMA RunInit == ASSUME RunAssumption, PricedRun!Init PROVE BrokerInv
<1>1. /\ runPhase = "create" /\ symbolNo = 1 /\ barNo = 0 /\ step = 1 /\ trades = <<>>
      /\ pos = [t \in PricedRun!SymbolSet |-> NULL] /\ fill = [t \in PricedRun!SymbolSet |-> NULL]
  BY DEF PricedRun!Init, PricedRun!None
<1>2. Len(PricesSetup.Symbols) \in Nat \ {0}
  BY DEF RunAssumption, PricedRun!BacktestAssumption
<1>3. RunTypes
  BY <1>1, <1>2 DEF RunTypes
<1>4. PricedRun!TradesDoNotOverlap
  BY <1>1 DEF PricedRun!TradesDoNotOverlap
<1> QED
  BY <1>1, <1>3, <1>4
  DEF BrokerInv, Untraded, PricedRun!EntryFollowsDecision, PricedRun!InsideThresholds

\* The run is somewhere else than with the bars of a symbol.
LEMMA RunElsewhere ==
  ASSUME RunAssumption, BrokerInv,
         UNCHANGED <<step, bar, pos, fill, trades>>,
         PricedRun!Create \/ PricedRun!ContextBar \/ PricedRun!ContextDone
         \/ PricedRun!Save \/ PricedRun!MarkFailed \/ PricedRun!Raises \/ PricedRun!Dies
  PROVE  BrokerInv'
<1>0. PricedRun!EntryFollowsDecision' /\ PricedRun!TradesDoNotOverlap'
  BY DEF BrokerInv, PricedRun!EntryFollowsDecision, PricedRun!TradesDoNotOverlap
<1>1. ASSUME runPhase \in {"create", "context"}, runPhase' \in {"context", "fine"},
             symbolNo' \in 1 .. Len(PricesSetup.Symbols), barNo' \in Nat,
             runPhase' = "fine" => barNo' = 0
      PROVE  BrokerInv'
  <2>1. /\ \A y \in PricedRun!SymbolSet : pos'[y] = NULL /\ fill'[y] = NULL
        /\ trades' = <<>> /\ step' = 1
    BY <1>1 DEF BrokerInv, Untraded
  <2>2. RunTypes' /\ Untraded'
    BY <1>1, <2>1 DEF BrokerInv, RunTypes, Untraded
  <2>3. PricedRun!s' \in PricedRun!SymbolSet
        /\ \A n \in DOMAIN PricesSetup.Symbols : PricesSetup.Symbols[n] \in PricedRun!SymbolSet
    BY <1>1, SymbolAtHand DEF BrokerInv, PricedRun!s, PricedRun!SymbolSet
  <2>4. Ahead'
    BY <2>1, <2>3 DEF Ahead
  <2>5. runPhase' = "fine" => AtHand(PricedRun!s)'
    <3> SUFFICES ASSUME barNo' = 0 PROVE AtHand(PricedRun!s)'
      BY <1>1
    <3>1. PricesSetup.Bars \in Nat
      BY DEF RunAssumption, PricedRun!BacktestAssumption
    <3> DEFINE y == PricedRun!s'
    <3>2. pos'[y] = NULL /\ fill'[y] = NULL /\ \A m \in DOMAIN trades' : FALSE
      BY <2>1, <2>3
    <3> QED BY <2>1, <3>1, <3>2 DEF AtHand
  <2>6. PricedRun!InsideThresholds'
    BY <2>1 DEF PricedRun!InsideThresholds
  <2> QED BY <1>0, <2>2, <2>4, <2>5, <2>6 DEF BrokerInv
<1>2. ASSUME runPhase' \in {"save", "failed", "end"}, UNCHANGED <<symbolNo, barNo>>
      PROVE  BrokerInv'
  <2>1. RunTypes' /\ Untraded' /\ PricedRun!InsideThresholds'
    BY <1>2 DEF BrokerInv, RunTypes, Untraded, PricedRun!InsideThresholds
  <2> QED BY <1>0, <1>2, <2>1 DEF BrokerInv
<1>3. CASE PricedRun!Create
  BY <1>1, <1>3 DEF PricedRun!Create, PricedRun!loops, BrokerInv, RunTypes, Untraded
<1>4. CASE PricedRun!ContextBar
  BY <1>1, <1>4 DEF PricedRun!ContextBar, BrokerInv, RunTypes
<1>5. CASE PricedRun!ContextDone
  <2>1. Len(PricesSetup.Symbols) \in Nat \ {0} /\ symbolNo \in 1 .. Len(PricesSetup.Symbols)
    BY SymbolAtHand DEF BrokerInv, RunTypes
  <2>2. symbolNo' \in 1 .. Len(PricesSetup.Symbols) /\ runPhase' \in {"context", "fine"}
        /\ barNo' = 0 /\ runPhase = "context"
    BY <1>5, <2>1 DEF PricedRun!ContextDone
  <2> QED BY <1>1, <2>2
<1>6. CASE PricedRun!Save
  BY <1>2, <1>6 DEF PricedRun!Save, PricedRun!loops
<1>7. CASE PricedRun!MarkFailed \/ PricedRun!Raises \/ PricedRun!Dies
  BY <1>2, <1>7 DEF PricedRun!MarkFailed, PricedRun!Raises, PricedRun!Dies, PricedRun!loops
<1> QED BY <1>3, <1>4, <1>5, <1>6, <1>7

\* A closed position ends after the trades before it, at this bar.
LEMMA ClosingTrade ==
  ASSUME RunAssumption, BrokerInv, runPhase = "fine", pos[PricedRun!s] # NULL,
         NEW price \in Int, NEW reason \in {"signal", "stop_loss", "take_profit"},
         trades' = PricedRun!Close(pos[PricedRun!s], price, reason)
  PROVE  /\ trades' \in Seq(Trades)
         /\ \A m, n \in DOMAIN trades' :
              m < n /\ trades'[m].sym = trades'[n].sym => trades'[m].exited <= trades'[n].entered
         /\ \A m \in DOMAIN trades' :
              IF trades'[m].sym = PricedRun!s THEN trades'[m].exited <= barNo
              ELSE m \in DOMAIN trades /\ trades'[m] = trades[m]
<1> DEFINE y == PricedRun!s
           p == pos[y]
           r == [sym |-> y, side |-> p.side, entered |-> p.at, entry |-> p.entry,
                 exited |-> barNo, exit |-> price, reason |-> reason]
<1>1. y \in PricedRun!SymbolSet /\ p \in PricedRun!Positions /\ barNo \in Nat /\ trades \in Seq(Trades)
  BY SymbolAtHand DEF BrokerInv, RunTypes
<1>2. r \in Trades
  BY <1>1 DEF Trades, PricedRun!Positions
<1>3. trades' = Append(trades, r)
  BY DEF PricedRun!Close
<1>4. r.sym = y /\ r.entered = p.at /\ r.exited = barNo
  OBVIOUS
<1>5. \A m \in DOMAIN trades : trades[m].sym = y => trades[m].exited <= p.at
  BY DEF BrokerInv, PricedRun!TradesDoNotOverlap
<1>6. \A m \in DOMAIN trades : trades[m].sym = y => trades[m].exited <= barNo
  BY DEF BrokerInv, AtHand
<1> HIDE DEF y, p, r
<1>7. /\ trades' \in Seq(Trades) /\ DOMAIN trades' = DOMAIN trades \cup {Len(trades) + 1}
      /\ \A m \in DOMAIN trades : m < Len(trades) + 1 /\ trades'[m] = trades[m]
      /\ trades'[Len(trades) + 1] = r /\ Len(trades) + 1 \notin DOMAIN trades
      /\ DOMAIN trades \subseteq Nat /\ Len(trades) \in Nat
  BY <1>1, <1>2, <1>3
<1>8. ASSUME NEW m \in DOMAIN trades', NEW n \in DOMAIN trades', m < n,
             trades'[m].sym = trades'[n].sym
      PROVE  trades'[m].exited <= trades'[n].entered
  <2>1. m \in DOMAIN trades
    BY <1>7, <1>8
  <2>2. CASE n \in DOMAIN trades
    BY <1>7, <1>8, <2>1, <2>2 DEF BrokerInv, PricedRun!TradesDoNotOverlap
  <2>3. CASE n = Len(trades) + 1
    BY <1>4, <1>5, <1>7, <1>8, <2>1, <2>3
  <2> QED BY <1>7, <2>2, <2>3
<1>9. ASSUME NEW m \in DOMAIN trades'
      PROVE  IF trades'[m].sym = y THEN trades'[m].exited <= barNo
             ELSE m \in DOMAIN trades /\ trades'[m] = trades[m]
  <2>1. CASE m \in DOMAIN trades
    BY <1>6, <1>7, <2>1
  <2>2. CASE m = Len(trades) + 1
    BY <1>1, <1>4, <1>7, <2>2
  <2> QED BY <1>7, <2>1, <2>2
<1> QED BY <1>7, <1>8, <1>9 DEF y

\* The broker changes the position and the fill of the symbol at hand, closes what
\* it held and enters at this bar what was decided on the bar before.
LEMMA BrokerMoves ==
  ASSUME RunAssumption, BrokerInv, runPhase = "fine", UNCHANGED symbolNo,
         NEW q \in PricedRun!Positions \cup {NULL}, pos' = [pos EXCEPT ![PricedRun!s] = q],
         q # NULL => (q.at = q.from + 1 /\ q.at = barNo) \/ (q = pos[PricedRun!s] /\ UNCHANGED trades),
         NEW f \in PricedRun!Fills \cup {NULL}, fill' = [fill EXCEPT ![PricedRun!s] = f],
         \/ UNCHANGED trades
         \/ /\ pos[PricedRun!s] # NULL
            /\ \E price \in Int, reason \in {"signal", "stop_loss", "take_profit"} :
                 trades' = PricedRun!Close(pos[PricedRun!s], price, reason)
  PROVE  /\ pos' \in [PricedRun!SymbolSet -> PricedRun!Positions \cup {NULL}]
         /\ fill' \in [PricedRun!SymbolSet -> PricedRun!Fills \cup {NULL}]
         /\ trades' \in Seq(Trades)
         /\ pos'[PricedRun!s] = q /\ fill'[PricedRun!s] = f
         /\ \A m \in DOMAIN trades' : trades'[m].sym = PricedRun!s => trades'[m].exited <= barNo
         /\ Ahead' /\ PricedRun!EntryFollowsDecision' /\ PricedRun!TradesDoNotOverlap'
<1> DEFINE y == PricedRun!s
<1>0. /\ y \in PricedRun!SymbolSet /\ barNo \in Nat
      /\ pos \in [PricedRun!SymbolSet -> PricedRun!Positions \cup {NULL}]
      /\ fill \in [PricedRun!SymbolSet -> PricedRun!Fills \cup {NULL}]
      /\ trades \in Seq(Trades) /\ Ahead /\ AtHand(y)
      /\ PricedRun!EntryFollowsDecision /\ PricedRun!TradesDoNotOverlap
      /\ symbolNo \in Nat /\ DOMAIN PricesSetup.Symbols \subseteq Nat
      /\ \A n \in DOMAIN PricesSetup.Symbols :
           PricesSetup.Symbols[n] \in PricedRun!SymbolSet
           /\ (n > symbolNo => PricesSetup.Symbols[n] # y)
  BY SymbolAtHand DEF BrokerInv, RunTypes
<1>1. /\ trades' \in Seq(Trades)
      /\ \A m, n \in DOMAIN trades' :
           m < n /\ trades'[m].sym = trades'[n].sym => trades'[m].exited <= trades'[n].entered
      /\ \A m \in DOMAIN trades' :
           /\ trades'[m].sym = y => trades'[m].exited <= barNo
           /\ trades'[m].sym # y => m \in DOMAIN trades /\ trades'[m] = trades[m]
  <2>1. CASE UNCHANGED trades
    BY <1>0, <2>1 DEF AtHand, PricedRun!TradesDoNotOverlap
  <2>2. CASE ~ UNCHANGED trades
    BY <2>2, ClosingTrade
  <2> QED BY <2>1, <2>2
<1> HIDE DEF y
<1>2. /\ pos' = [pos EXCEPT ![y] = q] /\ fill' = [fill EXCEPT ![y] = f]
      /\ q # NULL => (q.at = q.from + 1 /\ q.at = barNo) \/ (q = pos[y] /\ UNCHANGED trades)
  BY DEF y
<1>3. /\ pos' \in [PricedRun!SymbolSet -> PricedRun!Positions \cup {NULL}]
      /\ fill' \in [PricedRun!SymbolSet -> PricedRun!Fills \cup {NULL}]
      /\ pos'[y] = q /\ fill'[y] = f
      /\ \A t \in PricedRun!SymbolSet : t # y => pos'[t] = pos[t] /\ fill'[t] = fill[t]
  <2> DEFINE P == PricedRun!Positions \cup {NULL}
             F == PricedRun!Fills \cup {NULL}
  <2>1. q \in P /\ f \in F
    OBVIOUS
  <2>2. pos \in [PricedRun!SymbolSet -> P] /\ fill \in [PricedRun!SymbolSet -> F]
        /\ y \in PricedRun!SymbolSet
    BY <1>0
  <2> HIDE DEF P, F
  <2>3. pos' \in [PricedRun!SymbolSet -> P] /\ pos'[y] = q
        /\ \A t \in PricedRun!SymbolSet : t # y => pos'[t] = pos[t]
    BY <1>2, <2>1, <2>2
  <2>4. fill' \in [PricedRun!SymbolSet -> F] /\ fill'[y] = f
        /\ \A t \in PricedRun!SymbolSet : t # y => fill'[t] = fill[t]
    BY <1>2, <2>1, <2>2
  <2> QED BY <2>3, <2>4 DEF P, F
<1>4. Ahead'
  BY <1>0, <1>1, <1>3 DEF Ahead
<1>5. PricedRun!EntryFollowsDecision'
  BY <1>0, <1>2, <1>3 DEF PricedRun!EntryFollowsDecision
<1>6. ASSUME NEW m \in DOMAIN trades', pos'[trades'[m].sym] # NULL
      PROVE  trades'[m].exited <= pos'[trades'[m].sym].at
  <2>1. trades'[m].sym \in PricedRun!SymbolSet
    <3>1. trades'[m] \in Trades
      BY <1>1
    <3> QED BY <3>1 DEF Trades
  <2>2. CASE trades'[m].sym # y
    BY <1>0, <1>1, <1>3, <1>6, <2>1, <2>2 DEF PricedRun!TradesDoNotOverlap
  <2>3. CASE trades'[m].sym = y /\ q.at = barNo
    BY <1>1, <1>3, <2>3
  <2>4. CASE trades'[m].sym = y /\ q = pos[y] /\ UNCHANGED trades
    BY <1>0, <1>3, <1>6, <2>4 DEF PricedRun!TradesDoNotOverlap
  <2> QED BY <1>2, <1>3, <1>6, <2>2, <2>3, <2>4
<1>7. PricedRun!TradesDoNotOverlap'
  BY <1>1, <1>6 DEF PricedRun!TradesDoNotOverlap
<1> QED BY <1>1, <1>3, <1>4, <1>5, <1>7 DEF y

LEMMA RunFill == ASSUME RunAssumption, BrokerInv, PricedRun!Fill PROVE BrokerInv'
<1> DEFINE y == PricedRun!s
           act == fill[y]
<1>1. PICK open \in PricesSetup.Prices, close \in PricesSetup.Prices :
        /\ bar' = [open |-> open, close |-> close]
        /\ IF act # NULL THEN PricedRun!ApplyFill(act, open) ELSE UNCHANGED <<pos, trades>>
  BY DEF PricedRun!Fill
<1>2. /\ runPhase = "fine" /\ runPhase' = "fine" /\ step = 1 /\ step' = 2
      /\ barNo < PricesSetup.Bars /\ UNCHANGED <<symbolNo, barNo>>
      /\ fill' = [fill EXCEPT ![y] = NULL]
  BY DEF PricedRun!Fill
<1>3. /\ y \in PricedRun!SymbolSet /\ barNo \in Nat /\ open \in Int /\ close \in Int
      /\ pos \in [PricedRun!SymbolSet -> PricedRun!Positions \cup {NULL}]
      /\ act \in PricedRun!Fills \cup {NULL} /\ pos[y] \in PricedRun!Positions \cup {NULL}
      /\ AtHand(y) /\ PricesSetup.Bars \in Nat
      /\ symbolNo \in 1 .. Len(PricesSetup.Symbols)
  BY <1>2, SymbolAtHand DEF BrokerInv, RunTypes, RunAssumption, PricedRun!BacktestAssumption
<1> DEFINE q == IF act = NULL THEN pos[y]
                ELSE [side |-> act.dir, entry |-> open, at |-> barNo, from |-> act.at,
                      stop |-> act.stop, target |-> act.target]
<1>4. act # NULL => act \in PricedRun!Fills /\ act.at = barNo - 1 /\ (act.close <=> pos[y] # NULL)
  BY <1>2, <1>3 DEF AtHand
<1>5. q \in PricedRun!Positions \cup {NULL}
      /\ (act # NULL => q # NULL /\ q.at = q.from + 1 /\ q.at = barNo)
  <2>1. CASE act = NULL
    BY <1>3, <2>1
  <2>2. CASE act # NULL
    <3>1. q \in PricedRun!Positions
      BY <1>3, <1>4, <2>2 DEF PricedRun!Positions, PricedRun!Fills
    <3>2. NULL \notin PricedRun!Positions
      BY DEF RunAssumption, PricedRun!BacktestAssumption
    <3> QED BY <1>3, <1>4, <2>2, <3>1, <3>2
  <2> QED BY <2>1, <2>2
<1>6. /\ pos' = [pos EXCEPT ![y] = q]
      /\ \/ UNCHANGED trades
         \/ /\ act # NULL /\ pos[y] # NULL
            /\ trades' = PricedRun!Close(pos[y], open, "signal")
      /\ act = NULL => UNCHANGED trades
  <2>1. CASE act = NULL
    BY <1>1, <1>3, <2>1
  <2>2. CASE act # NULL
    BY <1>1, <1>4, <2>2 DEF PricedRun!ApplyFill
  <2> QED BY <2>1, <2>2
<1>7. q # NULL => (q.at = q.from + 1 /\ q.at = barNo) \/ (q = pos[y] /\ UNCHANGED trades)
  BY <1>5, <1>6
<1> HIDE DEF q
<1>8. /\ pos' \in [PricedRun!SymbolSet -> PricedRun!Positions \cup {NULL}]
      /\ fill' \in [PricedRun!SymbolSet -> PricedRun!Fills \cup {NULL}]
      /\ trades' \in Seq(Trades)
      /\ pos'[y] = q /\ fill'[y] = NULL
      /\ \A m \in DOMAIN trades' : trades'[m].sym = y => trades'[m].exited <= barNo
      /\ Ahead' /\ PricedRun!EntryFollowsDecision' /\ PricedRun!TradesDoNotOverlap'
  BY <1>2, <1>3, <1>5, <1>6, <1>7, BrokerMoves
<1>9. q # NULL => q.at <= barNo
  BY <1>3, <1>5 DEF q, AtHand
<1>10. PricedRun!s' = y
  BY <1>2 DEF PricedRun!s
<1> HIDE DEF y, act
<1>11. AtHand(y)'
  BY <1>1, <1>2, <1>3, <1>8, <1>9, <1>10 DEF AtHand, y
<1>12. RunTypes' /\ Untraded' /\ PricedRun!InsideThresholds'
  BY <1>2, <1>3, <1>8 DEF RunTypes, Untraded, PricedRun!InsideThresholds
<1> QED BY <1>8, <1>10, <1>11, <1>12 DEF BrokerInv, y

\* A position that is not closed at this close has it inside its thresholds.
LEMMA SurvivorIsInside ==
  ASSUME NEW p \in PricedRun!Positions, NEW c \in Int,
         ~ PricedRun!Stopped(p, c), ~ PricedRun!Target(p, c)
  PROVE  (c - p.stop) * p.side > 0 /\ (p.target - c) * p.side > 0
<1>1. p.stop \in Int /\ p.target \in Int /\ p.side \in {-1, 1}
  BY DEF PricedRun!Positions, PricedRun!Sides
<1>2. CASE p.side = 1
  BY <1>1, <1>2 DEF PricedRun!Stopped, PricedRun!Target
<1>3. CASE p.side = -1
  BY <1>1, <1>3 DEF PricedRun!Stopped, PricedRun!Target
<1> QED BY <1>1, <1>2, <1>3

LEMMA RunExit == ASSUME RunAssumption, BrokerInv, PricedRun!Exit PROVE BrokerInv'
<1> DEFINE y == PricedRun!s
           p == pos[y]
           stopped == PricedRun!Stopped(p, bar.close)
           reached == PricedRun!Target(p, bar.close)
           hit == p # NULL /\ (stopped \/ reached)
<1>1. /\ runPhase = "fine" /\ runPhase' = "fine" /\ step = 2 /\ step' = 3
      /\ UNCHANGED <<symbolNo, barNo, bar, fill>>
      /\ IF ~hit THEN UNCHANGED <<pos, trades>>
         ELSE /\ trades' = IF stopped THEN PricedRun!Close(p, p.stop, "stop_loss")
                                      ELSE PricedRun!Close(p, p.target, "take_profit")
              /\ pos' = [pos EXCEPT ![y] = NULL]
  BY DEF PricedRun!Exit
<1>2. /\ y \in PricedRun!SymbolSet /\ barNo \in Nat
      /\ pos \in [PricedRun!SymbolSet -> PricedRun!Positions \cup {NULL}]
      /\ fill \in [PricedRun!SymbolSet -> PricedRun!Fills \cup {NULL}]
      /\ p \in PricedRun!Positions \cup {NULL} /\ fill[y] \in PricedRun!Fills \cup {NULL}
      /\ AtHand(y) /\ PricesSetup.Bars \in Nat
      /\ symbolNo \in 1 .. Len(PricesSetup.Symbols)
  BY <1>1, SymbolAtHand DEF BrokerInv, RunTypes, RunAssumption, PricedRun!BacktestAssumption
<1>3. fill[y] = NULL /\ bar.close \in Int
  BY <1>1, <1>2 DEF AtHand
<1> DEFINE q == IF hit THEN NULL ELSE p
<1>4. q \in PricedRun!Positions \cup {NULL}
  BY <1>2
<1>5. /\ pos' = [pos EXCEPT ![y] = q] /\ fill' = [fill EXCEPT ![y] = NULL]
      /\ \/ UNCHANGED trades
         \/ /\ p # NULL
            /\ \E price \in Int, reason \in {"signal", "stop_loss", "take_profit"} :
                 trades' = PricedRun!Close(p, price, reason)
      /\ q # NULL => q = p /\ UNCHANGED trades
  <2>1. fill' = [fill EXCEPT ![y] = NULL]
    BY <1>1, <1>2, <1>3
  <2>2. CASE hit
    <3>1. p.stop \in Int /\ p.target \in Int
      BY <1>2, <2>2 DEF PricedRun!Positions
    <3> QED BY <1>1, <2>1, <2>2, <3>1
  <2>3. CASE ~ hit
    BY <1>1, <1>2, <2>1, <2>3
  <2> QED BY <2>2, <2>3
<1>6. q # NULL => /\ (bar.close - q.stop) * q.side > 0
                  /\ (q.target - bar.close) * q.side > 0
                  /\ q.at <= barNo
  <2> SUFFICES ASSUME q # NULL
               PROVE  /\ (bar.close - q.stop) * q.side > 0
                      /\ (q.target - bar.close) * q.side > 0
                      /\ q.at <= barNo
    OBVIOUS
  <2>1. q = p /\ p # NULL /\ ~ stopped /\ ~ reached /\ p \in PricedRun!Positions
    BY <1>2
  <2>2. p.at <= barNo
    BY <1>2, <2>1 DEF AtHand
  <2>3. (bar.close - p.stop) * p.side > 0 /\ (p.target - bar.close) * p.side > 0
    BY <1>3, <2>1, SurvivorIsInside
  <2> QED BY <2>1, <2>2, <2>3
<1> HIDE DEF q
<1>7. /\ pos' \in [PricedRun!SymbolSet -> PricedRun!Positions \cup {NULL}]
      /\ fill' \in [PricedRun!SymbolSet -> PricedRun!Fills \cup {NULL}]
      /\ trades' \in Seq(Trades)
      /\ pos'[y] = q /\ fill'[y] = NULL
      /\ \A m \in DOMAIN trades' : trades'[m].sym = y => trades'[m].exited <= barNo
      /\ Ahead' /\ PricedRun!EntryFollowsDecision' /\ PricedRun!TradesDoNotOverlap'
  BY <1>1, <1>4, <1>5, BrokerMoves
<1>8. PricedRun!s' = y
  BY <1>1 DEF PricedRun!s
<1> HIDE DEF y, p, hit, stopped, reached
<1>9. AtHand(y)'
  BY <1>1, <1>2, <1>6, <1>7, <1>8 DEF AtHand, y
<1>10. RunTypes' /\ Untraded'
  BY <1>1, <1>2, <1>7 DEF RunTypes, Untraded
<1>11. PricedRun!InsideThresholds'
  BY <1>1, <1>6, <1>7, <1>8 DEF PricedRun!InsideThresholds
<1> QED BY <1>7, <1>8, <1>9, <1>10, <1>11 DEF BrokerInv, y

LEMMA RunDecide == ASSUME RunAssumption, BrokerInv, PricedRun!Decide PROVE BrokerInv'
<1> DEFINE y == PricedRun!s
<1>1. /\ runPhase = "fine" /\ runPhase' = "fine" /\ step = 3 /\ step' = 4
      /\ UNCHANGED <<symbolNo, barNo, bar, pos, trades>>
      /\ UNCHANGED fill \/ \E d \in PricedRun!Sides : fill' = PricedRun!Schedule(d)
  BY DEF PricedRun!Decide
<1>2. /\ y \in PricedRun!SymbolSet /\ barNo \in Nat
      /\ pos \in [PricedRun!SymbolSet -> PricedRun!Positions \cup {NULL}]
      /\ fill \in [PricedRun!SymbolSet -> PricedRun!Fills \cup {NULL}]
      /\ pos[y] \in PricedRun!Positions \cup {NULL}
      /\ AtHand(y) /\ PricesSetup.Bars \in Nat
      /\ symbolNo \in 1 .. Len(PricesSetup.Symbols)
      /\ PricedRun!InsideThresholds
  BY <1>1, SymbolAtHand DEF BrokerInv, RunTypes, RunAssumption, PricedRun!BacktestAssumption
<1>3. fill[y] = NULL /\ bar.close \in Int
  BY <1>1, <1>2 DEF AtHand
<1>4. \E f \in PricedRun!Fills \cup {NULL} :
        /\ fill' = [fill EXCEPT ![y] = f]
        /\ f # NULL => /\ f.at = barNo /\ barNo + 1 < PricesSetup.Bars
                       /\ f.close <=> pos[y] # NULL
                       /\ pos[y] # NULL => pos[y].side = -f.dir
  <2>1. CASE UNCHANGED fill
    BY <1>2, <1>3, <2>1
  <2>2. ASSUME NEW d \in PricedRun!Sides, fill' = PricedRun!Schedule(d), fill' # fill
        PROVE  \E f \in PricedRun!Fills :
                 /\ fill' = [fill EXCEPT ![y] = f]
                 /\ f.at = barNo /\ barNo + 1 < PricesSetup.Bars
                 /\ f.close <=> pos[y] # NULL
                 /\ pos[y] # NULL => pos[y].side = -f.dir
    <3> DEFINE f == [close |-> pos[y] # NULL, dir |-> d, at |-> barNo,
                     stop |-> bar.close - d, target |-> bar.close + 2 * d]
    <3>1. ~ (barNo + 1 >= PricesSetup.Bars) /\ ~ (pos[y] # NULL /\ pos[y].side = d)
          /\ fill' = [fill EXCEPT ![y] = f]
      BY <2>2 DEF PricedRun!Schedule
    <3>2. f \in PricedRun!Fills
      BY <1>2, <1>3 DEF PricedRun!Fills, PricedRun!Sides
    <3>3. pos[y] # NULL => pos[y].side = -d
      <4> SUFFICES ASSUME pos[y] # NULL PROVE pos[y].side = -d
        OBVIOUS
      <4>1. pos[y].side \in {-1, 1} /\ d \in {-1, 1} /\ pos[y].side # d
        BY <1>2, <3>1 DEF PricedRun!Positions, PricedRun!Sides
      <4> QED BY <4>1
    <3>4. barNo + 1 < PricesSetup.Bars
      BY <1>2, <3>1
    <3>5. f.at = barNo /\ (f.close <=> pos[y] # NULL) /\ f.dir = d
      OBVIOUS
    <3> HIDE DEF f
    <3> QED BY <3>1, <3>2, <3>3, <3>4, <3>5
  <2> QED BY <1>1, <2>1, <2>2
<1>5. PICK f \in PricedRun!Fills \cup {NULL} :
        /\ fill' = [fill EXCEPT ![y] = f]
        /\ f # NULL => /\ f.at = barNo /\ barNo + 1 < PricesSetup.Bars
                       /\ f.close <=> pos[y] # NULL
                       /\ pos[y] # NULL => pos[y].side = -f.dir
  BY <1>4
<1>6. pos' = [pos EXCEPT ![y] = pos[y]]
  BY <1>1, <1>2
<1>7. /\ pos' \in [PricedRun!SymbolSet -> PricedRun!Positions \cup {NULL}]
      /\ fill' \in [PricedRun!SymbolSet -> PricedRun!Fills \cup {NULL}]
      /\ trades' \in Seq(Trades)
      /\ fill'[y] = f
      /\ \A m \in DOMAIN trades' : trades'[m].sym = y => trades'[m].exited <= barNo
      /\ Ahead' /\ PricedRun!EntryFollowsDecision' /\ PricedRun!TradesDoNotOverlap'
  BY <1>1, <1>2, <1>5, <1>6, BrokerMoves
<1>8. PricedRun!s' = y
  BY <1>1 DEF PricedRun!s
<1> HIDE DEF y
<1>9. AtHand(y)'
  BY <1>1, <1>2, <1>5, <1>7, <1>8 DEF AtHand, y
<1>10. RunTypes' /\ Untraded'
  BY <1>1, <1>2, <1>7 DEF RunTypes, Untraded
<1>11. PricedRun!InsideThresholds'
  BY <1>1, <1>2, <1>8 DEF PricedRun!InsideThresholds, y
<1> QED BY <1>7, <1>8, <1>9, <1>10, <1>11 DEF BrokerInv, y

LEMMA RunMark == ASSUME RunAssumption, BrokerInv, PricedRun!Mark PROVE BrokerInv'
<1>1. /\ runPhase = "fine" /\ runPhase' = "fine" /\ step = 4 /\ step' = 1 /\ barNo' = barNo + 1
      /\ UNCHANGED <<symbolNo, bar, pos, fill, trades>>
  BY DEF PricedRun!Mark, PricedRun!broker
<1>2. RunTypes' /\ Untraded' /\ Ahead' /\ PricedRun!s' = PricedRun!s
  BY <1>1 DEF BrokerInv, RunTypes, Untraded, Ahead, PricedRun!s
<1>3. PricedRun!EntryFollowsDecision' /\ PricedRun!TradesDoNotOverlap' /\ PricedRun!InsideThresholds'
  BY <1>1
  DEF BrokerInv, PricedRun!EntryFollowsDecision, PricedRun!TradesDoNotOverlap,
      PricedRun!InsideThresholds
<1> DEFINE y == PricedRun!s
<1>4. /\ AtHand(y) /\ barNo \in Nat /\ PricesSetup.Bars \in Nat
      /\ \A m \in DOMAIN trades : trades[m].exited \in Nat
      /\ pos[y] # NULL => pos[y].at \in Nat
  <2>1. \A m \in DOMAIN trades : trades[m] \in Trades
    BY DEF BrokerInv, RunTypes
  <2>2. pos[y] \in PricedRun!Positions \cup {NULL}
    BY SymbolAtHand DEF BrokerInv, RunTypes
  <2> QED
    BY <1>1, <2>1, <2>2
    DEF BrokerInv, RunTypes, RunAssumption, PricedRun!BacktestAssumption, Trades,
        PricedRun!Positions
<1> HIDE DEF y
<1>5. AtHand(y)'
  BY <1>1, <1>2, <1>4 DEF AtHand, y
<1> QED BY <1>1, <1>2, <1>3, <1>5 DEF BrokerInv, y

LEMMA RunCoverage == ASSUME RunAssumption, BrokerInv, PricedRun!Coverage PROVE BrokerInv'
<1>1. /\ runPhase = "fine" /\ step = 1 /\ barNo' = 0
      /\ UNCHANGED <<step, bar, pos, fill, trades>>
      /\ \/ symbolNo < Len(PricesSetup.Symbols) /\ symbolNo' = symbolNo + 1 /\ runPhase' = "fine"
         \/ runPhase' = "save" /\ symbolNo' = symbolNo
  BY DEF PricedRun!Coverage, PricedRun!broker
<1>2. Len(PricesSetup.Symbols) \in Nat /\ symbolNo \in 1 .. Len(PricesSetup.Symbols)
      /\ DOMAIN PricesSetup.Symbols = 1 .. Len(PricesSetup.Symbols) /\ PricesSetup.Bars \in Nat
  BY SymbolAtHand DEF BrokerInv, RunTypes, RunAssumption, PricedRun!BacktestAssumption
<1>3. RunTypes' /\ Untraded'
  BY <1>1, <1>2 DEF BrokerInv, RunTypes, Untraded
<1>4. PricedRun!EntryFollowsDecision' /\ PricedRun!TradesDoNotOverlap' /\ PricedRun!InsideThresholds'
  BY <1>1
  DEF BrokerInv, PricedRun!EntryFollowsDecision, PricedRun!TradesDoNotOverlap,
      PricedRun!InsideThresholds
<1>5. ASSUME runPhase' = "fine" PROVE Ahead' /\ AtHand(PricedRun!s)'
  <2>1. symbolNo' = symbolNo + 1 /\ symbolNo' \in DOMAIN PricesSetup.Symbols /\ Ahead
    BY <1>1, <1>2, <1>5 DEF BrokerInv
  <2>2. Ahead'
    BY <1>1, <1>2, <2>1 DEF Ahead
  <2> DEFINE z == PricesSetup.Symbols[symbolNo']
  <2>3. /\ pos'[z] = NULL /\ fill'[z] = NULL
        /\ \A m \in DOMAIN trades' : trades'[m].sym # z
    BY <1>1, <1>2, <2>1 DEF Ahead
  <2>4. PricedRun!s' = z
    BY DEF PricedRun!s
  <2> HIDE DEF z
  <2>5. AtHand(PricedRun!s)'
    BY <1>1, <1>2, <2>3, <2>4 DEF AtHand
  <2> QED BY <2>2, <2>5
<1> QED BY <1>3, <1>4, <1>5 DEF BrokerInv

LEMMA RunStep == ASSUME RunAssumption, BrokerInv, [PricedRun!Next]_runVars PROVE BrokerInv'
<1>1. CASE UNCHANGED runVars
  <2>1. UNCHANGED <<runPhase, symbolNo, barNo, step, bar, pos, fill, trades>>
    BY <1>1 DEF runVars
  <2>2. RunTypes' /\ Untraded' /\ Ahead' = Ahead /\ AtHand(PricedRun!s)' = AtHand(PricedRun!s)
    BY <2>1 DEF BrokerInv, RunTypes, Untraded, Ahead, AtHand, PricedRun!s
  <2> QED
    BY <2>1, <2>2
    DEF BrokerInv, PricedRun!EntryFollowsDecision, PricedRun!TradesDoNotOverlap,
        PricedRun!InsideThresholds, PricedRun!s
<1>2. CASE PricedRun!Create \/ PricedRun!ContextBar \/ PricedRun!ContextDone
           \/ PricedRun!Save \/ PricedRun!MarkFailed \/ PricedRun!Raises \/ PricedRun!Dies
  <2>1. UNCHANGED <<step, bar, pos, fill, trades>>
    BY <1>2
    DEF PricedRun!Create, PricedRun!ContextBar, PricedRun!ContextDone, PricedRun!Save,
        PricedRun!MarkFailed, PricedRun!Raises, PricedRun!Dies, PricedRun!loops,
        PricedRun!broker
  <2> QED BY <1>2, <2>1, RunElsewhere
<1> QED
  BY <1>1, <1>2, RunFill, RunExit, RunDecide, RunMark, RunCoverage
  DEF PricedRun!Next, PricedRun!Replay

----------------------------------------------------------------------------
(* The report of a simulated run.                                          *)

\* Bars of the symbol at hand that were decided so far.
DecidedBars ==
  LET n == IF step = 4 THEN barNo + 1 ELSE barNo
  IN IF n > CoverageSetup.Warmup THEN n - CoverageSetup.Warmup ELSE 0

ReportTypes ==
  /\ symbolNo \in 1 .. Len(CoverageSetup.Symbols)
  /\ barNo \in Nat /\ step \in 1 .. 4 /\ replays \in Nat /\ missed \in BOOLEAN
  /\ degraded \in [GappyRun!SymbolSet -> BOOLEAN \cup {NULL}]
  /\ results \in BOOLEAN

\* Until its report a symbol has as many replayed signals as decided bars, or one
\* is missing; and nothing is in the tables before the run ends.
ReportInv ==
  /\ ReportTypes
  /\ runPhase \in {"create", "context"} =>
       step = 1 /\ replays = 0 /\ missed = FALSE /\ (runPhase = "create" => barNo = 0)
  /\ runPhase = "fine" => replays <= DecidedBars /\ (missed <=> replays < DecidedBars)
  /\ runPhase # "end" => results = FALSE
  /\ GappyRun!CompletedHasResults /\ GappyRun!DailyIsPast

\* A multiple of a length that has begun is not in the future.
LEMMA WholeLengths ==
  ASSUME NEW n \in Nat, NEW len \in Nat \ {0} PROVE (n \div len) * len <= n /\ (n \div len) \in Int
<1>1. (n \div len) * len <= n
  OBVIOUS
<1>2. (n \div len) \in Int
  OBVIOUS
<1> QED BY <1>1, <1>2

\* The previous day had ended when the bar began.
LEMMA GivenIsPast ==
  ASSUME GappyRun!BacktestAssumption, barNo \in Nat
  PROVE  GappyRun!Given.daily < GappyRun!Given.now
<1> DEFINE R == CoverageSetup.Ratio
<1>1. R \in Nat /\ NULL \notin Int
  BY DEF GappyRun!BacktestAssumption
<1>2. /\ GappyRun!Given.now = barNo + 1
      /\ GappyRun!Given.daily = IF GappyRun!PrevDaily = NULL THEN 0 ELSE (GappyRun!PrevDaily + 1) * R
  BY DEF GappyRun!Given
<1>3. CASE GappyRun!PrevDaily = NULL
  BY <1>2, <1>3
<1>4. CASE GappyRun!PrevDaily # NULL
  <2>1. R # 0 /\ GappyRun!PrevDaily = barNo \div R - 1
    BY <1>4 DEF GappyRun!PrevDaily
  <2>2. (barNo \div R) * R <= barNo /\ (barNo \div R) \in Int
    BY <1>1, <2>1, WholeLengths
  <2> DEFINE d == barNo \div R
  <2>3. GappyRun!Given.daily = (d - 1 + 1) * R
    BY <1>2, <1>4, <2>1
  <2>4. d * R <= barNo /\ d \in Int
    BY <2>2
  <2> HIDE DEF d
  <2>5. d - 1 + 1 = d
    BY <2>4
  <2>6. GappyRun!Given.daily = d * R /\ d * R \in Int
    BY <1>1, <2>3, <2>4, <2>5
  <2> QED BY <1>2, <2>4, <2>6
<1> QED BY <1>3, <1>4

LEMMA ReportInit == ASSUME GappyRun!BacktestAssumption, GappyRun!Init PROVE ReportInv
<1>1. Len(CoverageSetup.Symbols) \in Nat \ {0}
      /\ NULL # "COMPLETED"
  BY DEF GappyRun!BacktestAssumption
<1>2. ReportTypes
  <2>1. degraded \in [GappyRun!SymbolSet -> BOOLEAN \cup {NULL}]
    BY DEF GappyRun!Init, GappyRun!None
  <2>2. symbolNo \in 1 .. Len(CoverageSetup.Symbols) /\ barNo \in Nat /\ step \in 1 .. 4
        /\ replays \in Nat
    BY <1>1 DEF GappyRun!Init
  <2>3. missed \in BOOLEAN /\ results \in BOOLEAN
    BY DEF GappyRun!Init
  <2> QED BY <2>1, <2>2, <2>3 DEF ReportTypes
<1> QED
  BY <1>1, <1>2
  DEF GappyRun!Init, ReportInv, GappyRun!CompletedHasResults, GappyRun!DailyIsPast

LEMMA ReportStep ==
  ASSUME GappyRun!BacktestAssumption, ReportInv, [GappyRun!Next]_runVars
  PROVE  ReportInv' /\ GappyRun!DegradedIsMissing
<1> USE DEF GappyRun!loops, GappyRun!broker, GappyRun!report
<1>0. /\ Len(CoverageSetup.Symbols) \in Nat /\ CoverageSetup.Warmup \in Nat
      /\ CoverageSetup.Bars \in Nat
      /\ NULL \notin {"RUNNING", "COMPLETED", "FAILED"}
      /\ CoverageSetup.Symbols[symbolNo] \in GappyRun!SymbolSet
  <2>1. CoverageSetup.Symbols \in Seq(GappyRun!SymbolSet)
    BY DEF GappyRun!BacktestAssumption
  <2>2. symbolNo \in DOMAIN CoverageSetup.Symbols /\ Len(CoverageSetup.Symbols) \in Nat
    BY <2>1 DEF ReportInv, ReportTypes
  <2> QED BY <2>1, <2>2 DEF GappyRun!BacktestAssumption, GappyRun!SymbolSet
<1>1. CASE UNCHANGED runVars
  <2>1. UNCHANGED <<runPhase, row, results, symbolNo, barNo, step, replays, missed, degraded, given>>
    BY <1>1 DEF runVars
  <2>2. ReportTypes' /\ DecidedBars' = DecidedBars
    BY <2>1 DEF ReportInv, ReportTypes, DecidedBars
  <2> QED
    BY <2>1, <2>2
    DEF ReportInv, GappyRun!CompletedHasResults, GappyRun!DailyIsPast, GappyRun!DegradedIsMissing
<1>2. CASE GappyRun!Create
  BY <1>0, <1>2
  DEF GappyRun!Create, ReportInv, ReportTypes, DecidedBars, GappyRun!CompletedHasResults,
      GappyRun!DailyIsPast, GappyRun!DegradedIsMissing
<1>3. CASE GappyRun!ContextBar
  BY <1>0, <1>3
  DEF GappyRun!ContextBar, ReportInv, ReportTypes, GappyRun!CompletedHasResults,
      GappyRun!DailyIsPast, GappyRun!DegradedIsMissing
<1>4. CASE GappyRun!ContextDone
  BY <1>0, <1>4
  DEF GappyRun!ContextDone, ReportInv, ReportTypes, DecidedBars, GappyRun!CompletedHasResults,
      GappyRun!DailyIsPast, GappyRun!DegradedIsMissing
<1>5. CASE GappyRun!Fill \/ GappyRun!Exit
  <2>1. /\ runPhase = "fine" /\ step # 4 /\ step' \in {2, 3}
        /\ UNCHANGED <<runPhase, row, results, symbolNo, barNo, replays, missed, degraded, given>>
    BY <1>5 DEF GappyRun!Fill, GappyRun!Exit
  <2>2. ReportTypes' /\ DecidedBars' = DecidedBars
    BY <2>1 DEF ReportInv, ReportTypes, DecidedBars
  <2> QED
    BY <2>1, <2>2
    DEF ReportInv, GappyRun!CompletedHasResults, GappyRun!DailyIsPast, GappyRun!DegradedIsMissing
<1>6. CASE GappyRun!Decide
  <2>1. /\ runPhase = "fine" /\ step = 3 /\ step' = 4
        /\ UNCHANGED <<runPhase, row, results, symbolNo, barNo, degraded>>
        /\ UNCHANGED given \/ given' = GappyRun!Given
    BY <1>6 DEF GappyRun!Decide
  <2>2. PICK replayed \in BOOLEAN :
          /\ replays' = IF barNo >= CoverageSetup.Warmup /\ replayed THEN replays + 1 ELSE replays
          /\ missed' = (missed \/ (barNo >= CoverageSetup.Warmup /\ ~replayed))
    BY <1>6 DEF GappyRun!Decide
  <2>3. DecidedBars \in Nat
        /\ DecidedBars' = IF barNo >= CoverageSetup.Warmup THEN DecidedBars + 1 ELSE DecidedBars
    BY <1>0, <2>1 DEF ReportInv, ReportTypes, DecidedBars
  <2>4. ReportTypes'
    BY <2>1, <2>2 DEF ReportInv, ReportTypes
  <2>5. replays' <= DecidedBars' /\ (missed' <=> replays' < DecidedBars')
    <3> DEFINE D == DecidedBars
               E == DecidedBars'
               decides == barNo >= CoverageSetup.Warmup
    <3>1. replays \in Nat /\ replays <= D /\ (missed <=> replays < D)
      BY <2>1 DEF ReportInv, ReportTypes
    <3>2. D \in Nat /\ E = (IF decides THEN D + 1 ELSE D)
      BY <2>3
    <3> HIDE DEF D, E, decides
    <3>3. /\ replays' = IF decides /\ replayed THEN replays + 1 ELSE replays
          /\ missed' <=> (missed \/ (decides /\ ~replayed))
      BY <2>2 DEF decides
    <3>4. replays' <= E /\ (missed' <=> replays' < E)
      BY <3>1, <3>2, <3>3
    <3> QED BY <3>4 DEF E
  <2>6. GappyRun!DailyIsPast'
    <3>1. CASE UNCHANGED given
      BY <3>1 DEF ReportInv, GappyRun!DailyIsPast
    <3>2. CASE given' = GappyRun!Given
      BY <3>2, GivenIsPast DEF ReportInv, ReportTypes, GappyRun!DailyIsPast
    <3> QED BY <2>1, <3>1, <3>2
  <2> QED
    BY <2>1, <2>4, <2>5, <2>6
    DEF ReportInv, GappyRun!CompletedHasResults, GappyRun!DegradedIsMissing
<1>7. CASE GappyRun!Mark
  <2>1. /\ runPhase = "fine" /\ step = 4 /\ step' = 1 /\ barNo' = barNo + 1
        /\ UNCHANGED <<runPhase, row, results, symbolNo, replays, missed, degraded, given>>
    BY <1>7 DEF GappyRun!Mark
  <2>2. ReportTypes' /\ DecidedBars' = DecidedBars
    BY <2>1 DEF ReportInv, ReportTypes, DecidedBars
  <2> QED
    BY <2>1, <2>2
    DEF ReportInv, GappyRun!CompletedHasResults, GappyRun!DailyIsPast, GappyRun!DegradedIsMissing
<1>8. CASE GappyRun!Coverage
  <2> DEFINE lacks == replays < GappyRun!ExpectedBars
             y == CoverageSetup.Symbols[symbolNo]
  <2>1. /\ runPhase = "fine" /\ step = 1 /\ barNo = CoverageSetup.Bars
        /\ degraded' = [degraded EXCEPT ![y] = lacks]
        /\ replays' = 0 /\ missed' = FALSE /\ barNo' = 0 /\ UNCHANGED <<row, results, step, given>>
        /\ \/ symbolNo < Len(CoverageSetup.Symbols) /\ symbolNo' = symbolNo + 1 /\ runPhase' = "fine"
           \/ runPhase' = "save" /\ symbolNo' = symbolNo
    BY <1>8 DEF GappyRun!Coverage, GappyRun!s
  <2>2. lacks <=> missed
    BY <1>0, <2>1 DEF ReportInv, ReportTypes, DecidedBars, GappyRun!ExpectedBars
  <2>3. lacks \in BOOLEAN /\ missed \in BOOLEAN
    BY DEF ReportInv, ReportTypes
  <2> HIDE DEF lacks, y
  <2>4. degraded \in [GappyRun!SymbolSet -> BOOLEAN \cup {NULL}]
    BY DEF ReportInv, ReportTypes
  <2>5. degraded' \in [GappyRun!SymbolSet -> BOOLEAN \cup {NULL}] /\ degraded'[y] = lacks
    BY <1>0, <2>1, <2>3, <2>4 DEF y
  <2>6. degraded'[y] = missed
    BY <2>2, <2>3, <2>5
  <2>7. ReportTypes'
    <3>1. symbolNo' \in 1 .. Len(CoverageSetup.Symbols) /\ barNo' \in Nat /\ step' \in 1 .. 4
          /\ replays' \in Nat
      BY <1>0, <2>1 DEF ReportInv, ReportTypes
    <3>2. missed' \in BOOLEAN /\ results' \in BOOLEAN
      BY <2>1 DEF ReportInv, ReportTypes
    <3> QED BY <2>5, <3>1, <3>2 DEF ReportTypes
  <2>8. DecidedBars' = 0
    BY <1>0, <2>1 DEF DecidedBars
  <2> QED
    BY <2>1, <2>6, <2>7, <2>8
    DEF ReportInv, GappyRun!CompletedHasResults, GappyRun!DailyIsPast, GappyRun!DegradedIsMissing,
        GappyRun!s, y
<1>9. CASE GappyRun!Save \/ GappyRun!MarkFailed \/ GappyRun!Raises \/ GappyRun!Dies
  <2>1. UNCHANGED <<symbolNo, barNo, step, replays, missed, degraded, given>>
        /\ runPhase' \in {"end", "failed"} /\ runPhase # "end"
    BY <1>9 DEF GappyRun!Save, GappyRun!MarkFailed, GappyRun!Raises, GappyRun!Dies
  <2>2. /\ results' \in BOOLEAN /\ (runPhase' # "end" => results' = FALSE)
        /\ (row' = "COMPLETED") <=> results'
    BY <1>9, <2>1
    DEF GappyRun!Save, GappyRun!MarkFailed, GappyRun!Raises, GappyRun!Dies, ReportInv,
        ReportTypes, GappyRun!CompletedHasResults
  <2>3. ReportTypes'
    BY <2>1, <2>2 DEF ReportInv, ReportTypes
  <2> QED
    BY <2>1, <2>2, <2>3
    DEF ReportInv, GappyRun!CompletedHasResults, GappyRun!DailyIsPast, GappyRun!DegradedIsMissing
<1> QED
  BY <1>1, <1>2, <1>3, <1>4, <1>5, <1>6, <1>7, <1>8, <1>9 DEF GappyRun!Next, GappyRun!Replay

\* In a simulated run of distinct symbols a waiting fill fits when it is executed,
\* positions follow their decisions, stay inside their thresholds and do not
\* overlap; the previous day a decision was given had ended, a symbol is degraded
\* exactly when signals were missing, and only completed runs have results.
THEOREM PipelineSimulation ==
  ASSUME PricedRun!BacktestAssumption, PricedRun!DistinctSymbols, GappyRun!BacktestAssumption
  PROVE  PipelineSpec => SimulationIsSound
<1> DEFINE A == Is("prices") => BrokerInv
           B == Is("coverage") => ReportInv
<1>0. RunAssumption
  BY DEF RunAssumption
<1>1. PipelineInit => A /\ B
  BY <1>0, RunInit, ReportInit DEF PipelineInit, Is
<1> DEFINE Exact == part = "coverage" => GappyRun!DegradedIsMissing
<1>2. A /\ B /\ [PipelineNext]_allVars => A' /\ B' /\ [Exact]_runVars
  <2> SUFFICES ASSUME A, B, [PipelineNext]_allVars PROVE A' /\ B' /\ [Exact]_runVars
    OBVIOUS
  <2>1. (Is("prices")' <=> Is("prices")) /\ (Is("coverage")' <=> Is("coverage"))
    BY OtherPartsWait DEF Is
  <2>2. CASE Is("prices")
    <3>1. [PricedRun!Next]_runVars
      BY <2>2, OtherPartsWait DEF Is
    <3> QED BY <1>0, <2>1, <2>2, <3>1, RunStep DEF Is
  <2>3. CASE Is("coverage")
    <3>1. [GappyRun!Next]_runVars
      BY <2>3, OtherPartsWait DEF Is
    <3> QED BY <2>1, <2>3, <3>1, ReportStep DEF Is
  <2> QED BY <2>1, <2>2, <2>3 DEF Is
<1> DEFINE Safe == /\ part = "prices" =>
                        /\ PricedRun!PendingStillFits /\ PricedRun!EntryFollowsDecision
                        /\ PricedRun!InsideThresholds /\ PricedRun!TradesDoNotOverlap
                   /\ part = "coverage" => GappyRun!DailyIsPast /\ GappyRun!CompletedHasResults
<1>3. BrokerInv => PricedRun!PendingStillFits
  BY DEF BrokerInv, AtHand, PricedRun!PendingStillFits
<1>4. A /\ B => Safe
  BY <1>3 DEF BrokerInv, ReportInv, Is
<1> HIDE DEF A, B, Exact, Safe
<1>5. PipelineSpec => []Safe /\ [][Exact]_runVars
  BY <1>1, <1>2, <1>4, PTL DEF PipelineSpec
<1>6. SimulationIsSound <=> []Safe /\ [][Exact]_runVars
  BY DEF SimulationIsSound, Safe, Exact
<1> QED BY <1>5, <1>6

----------------------------------------------------------------------------
(* Ingestion.                                                              *)

LiveProofs == INSTANCE IngestProofs WITH
  Series <- LiveSetup.Series, Universes <- LiveSetup.Universes, History <- LiveSetup.History,
  MaxBars <- LiveSetup.MaxBars, Threshold <- LiveSetup.Threshold,
  Cooldown <- LiveSetup.Cooldown, Second <- LiveSetup.Second, Synthetic <- LiveSetup.Synthetic,
  ProviderGaps <- LiveSetup.ProviderGaps, Jobs <- LiveSetup.Jobs,
  DrainLimit <- LiveSetup.DrainLimit, MaxTime <- LiveSetup.MaxTime,
  MaxJobs <- LiveSetup.MaxJobs, MaxFailures <- LiveSetup.MaxFailures,
  MaxErrors <- LiveSetup.MaxErrors, MaxCrashes <- LiveSetup.MaxCrashes,
  now <- ingestNow, stream <- barStream, pc <- ingestPc, phase <- ingestPhase,
  todo <- ingestTodo, used <- ingestUsed
BackfillProofs == INSTANCE IngestProofs WITH
  Series <- BackfillSetup.Series, Universes <- BackfillSetup.Universes,
  History <- BackfillSetup.History, MaxBars <- BackfillSetup.MaxBars,
  Threshold <- BackfillSetup.Threshold, Cooldown <- BackfillSetup.Cooldown, Second <- BackfillSetup.Second,
  Synthetic <- BackfillSetup.Synthetic, ProviderGaps <- BackfillSetup.ProviderGaps,
  Jobs <- BackfillSetup.Jobs, DrainLimit <- BackfillSetup.DrainLimit, MaxTime <- BackfillSetup.MaxTime,
  MaxJobs <- BackfillSetup.MaxJobs, MaxFailures <- BackfillSetup.MaxFailures,
  MaxErrors <- BackfillSetup.MaxErrors, MaxCrashes <- BackfillSetup.MaxCrashes,
  now <- ingestNow, stream <- barStream, pc <- ingestPc, phase <- ingestPhase,
  todo <- ingestTodo, used <- ingestUsed

\* What IngestProofs is about is the part "live".
LEMMA LiveIsProved ==
  /\ Live!IngestAssumption => LiveProofs!IngestAssumption
  /\ Live!Init => LiveProofs!Init
  /\ [Live!Next]_ingestVars => [LiveProofs!Next]_LiveProofs!vars
  /\ LiveProofs!IngestionIsSound => Live!IngestionIsSound
  /\ LiveProofs!AnnouncedIsStored => Live!AnnouncedIsStored
<1>1. Live!IngestAssumption => LiveProofs!IngestAssumption
  BY DEF Live!IngestAssumption, LiveProofs!IngestAssumption, Live!Breakers,
         LiveProofs!Breakers, Live!Ticks, LiveProofs!Ticks, Live!BreakerStates, LiveProofs!BreakerStates
<1>2. Live!Init => LiveProofs!Init
  BY DEF Live!Init, LiveProofs!Init, Live!Symbols, LiveProofs!Symbols, Live!NewBreaker,
         LiveProofs!NewBreaker
<1>3. Live!Next => LiveProofs!Next
  BY DEF Live!Next, LiveProofs!Next, Live!Work, LiveProofs!Work, Live!IngestSeries,
         LiveProofs!IngestSeries, Live!Tick, LiveProofs!Tick, Live!SetUniverse,
         LiveProofs!SetUniverse, Live!RequestBackfill, LiveProofs!RequestBackfill,
         Live!Finish, LiveProofs!Finish, Live!SkipSeries, LiveProofs!SkipSeries,
         Live!UpToDate, LiveProofs!UpToDate, Live!BeginFetch, LiveProofs!BeginFetch,
         Live!FetchSucceeds, LiveProofs!FetchSucceeds, Live!FetchFails,
         LiveProofs!FetchFails, Live!PersistFailure, LiveProofs!PersistFailure,
         Live!SeriesError, LiveProofs!SeriesError, Live!Store, LiveProofs!Store,
         Live!CacheQuote, LiveProofs!CacheQuote, Live!PublishBar, LiveProofs!PublishBar,
         Live!EndPublish, LiveProofs!EndPublish, Live!StartCycle, LiveProofs!StartCycle,
         Live!EndCycle, LiveProofs!EndCycle, Live!EndBackfill, LiveProofs!EndBackfill,
         Live!Crash, LiveProofs!Crash, Live!Restart, LiveProofs!Restart, Live!Normalized,
         LiveProofs!Normalized, Live!Live, LiveProofs!Live, Live!Current,
         LiveProofs!Current, Live!Align, LiveProofs!Align, Live!Buckets,
         LiveProofs!Buckets, Live!First, LiveProofs!First, Live!Last, LiveProofs!Last,
         Live!Newest, LiveProofs!Newest, Live!Smaller, LiveProofs!Smaller,
         Live!FetchWindow, LiveProofs!FetchWindow, Live!ComputedBars,
         LiveProofs!ComputedBars, Live!LookedUpBars, LiveProofs!LookedUpBars,
         Live!Provided, LiveProofs!Provided, Live!Oldest, LiveProofs!Oldest, Live!memory,
         LiveProofs!memory, Live!tables, LiveProofs!tables, Live!NewBreaker,
         LiveProofs!NewBreaker, Live!Refuses, LiveProofs!Refuses, Live!SecondsUntilProbe, LiveProofs!SecondsUntilProbe,
         Live!Ticks, LiveProofs!Ticks, Live!Admit,
         LiveProofs!Admit, Live!RecordSuccess, LiveProofs!RecordSuccess,
         Live!RecordFailure, LiveProofs!RecordFailure, Live!Load, LiveProofs!Load,
         Live!Aged, LiveProofs!Aged, Live!Cardinality, LiveProofs!Cardinality
<1>4. LiveProofs!IngestionIsSound => Live!IngestionIsSound
  BY DEF Live!IngestionIsSound, LiveProofs!IngestionIsSound, Live!TypeOK,
         LiveProofs!TypeOK, Live!Phases, LiveProofs!Phases, Live!Bounds,
         LiveProofs!Bounds, Live!Items, LiveProofs!Items, Live!Breakers,
         LiveProofs!Breakers, Live!Ticks, LiveProofs!Ticks, Live!BreakerStates, LiveProofs!BreakerStates,
         Live!BreakerConsistent, LiveProofs!BreakerConsistent, Live!OpenSurvivesRestart,
         LiveProofs!OpenSurvivesRestart, Live!OnlyClosedBars, LiveProofs!OnlyClosedBars,
         Live!OutagesAreShort, LiveProofs!OutagesAreShort, Live!NoHoles,
         LiveProofs!NoHoles, Live!Buckets, LiveProofs!Buckets, Live!Align,
         LiveProofs!Align, Live!Symbols, LiveProofs!Symbols
<1>5. LiveProofs!AnnouncedIsStored => Live!AnnouncedIsStored
  BY DEF LiveProofs!AnnouncedIsStored, Live!AnnouncedIsStored
<1> QED
  BY <1>1, <1>2, <1>3, <1>4, <1>5 DEF ingestVars, LiveProofs!vars, LiveProofs!tables, LiveProofs!memory

\* What IngestProofs is about is the part "backfill".
LEMMA BackfillIsProved ==
  /\ Backfill!IngestAssumption => BackfillProofs!IngestAssumption
  /\ Backfill!Init => BackfillProofs!Init
  /\ [Backfill!Next]_ingestVars => [BackfillProofs!Next]_BackfillProofs!vars
  /\ BackfillProofs!IngestionIsSound => Backfill!IngestionIsSound
  /\ BackfillProofs!AnnouncedIsStored => Live!AnnouncedIsStored
<1>1. Backfill!IngestAssumption => BackfillProofs!IngestAssumption
  BY DEF Backfill!IngestAssumption, BackfillProofs!IngestAssumption, Backfill!Breakers,
         BackfillProofs!Breakers, Backfill!Ticks, BackfillProofs!Ticks, Backfill!BreakerStates, BackfillProofs!BreakerStates
<1>2. Backfill!Init => BackfillProofs!Init
  BY DEF Backfill!Init, BackfillProofs!Init, Backfill!Symbols, BackfillProofs!Symbols,
         Backfill!NewBreaker, BackfillProofs!NewBreaker
<1>3. Backfill!Next => BackfillProofs!Next
  BY DEF Backfill!Next, BackfillProofs!Next, Backfill!Work, BackfillProofs!Work,
         Backfill!IngestSeries, BackfillProofs!IngestSeries, Backfill!Tick,
         BackfillProofs!Tick, Backfill!SetUniverse, BackfillProofs!SetUniverse,
         Backfill!RequestBackfill, BackfillProofs!RequestBackfill, Backfill!Finish,
         BackfillProofs!Finish, Backfill!SkipSeries, BackfillProofs!SkipSeries,
         Backfill!UpToDate, BackfillProofs!UpToDate, Backfill!BeginFetch,
         BackfillProofs!BeginFetch, Backfill!FetchSucceeds, BackfillProofs!FetchSucceeds,
         Backfill!FetchFails, BackfillProofs!FetchFails, Backfill!PersistFailure,
         BackfillProofs!PersistFailure, Backfill!SeriesError, BackfillProofs!SeriesError,
         Backfill!Store, BackfillProofs!Store, Backfill!CacheQuote,
         BackfillProofs!CacheQuote, Backfill!PublishBar, BackfillProofs!PublishBar,
         Backfill!EndPublish, BackfillProofs!EndPublish, Backfill!StartCycle,
         BackfillProofs!StartCycle, Backfill!EndCycle, BackfillProofs!EndCycle,
         Backfill!EndBackfill, BackfillProofs!EndBackfill, Backfill!Crash,
         BackfillProofs!Crash, Backfill!Restart, BackfillProofs!Restart,
         Backfill!Normalized, BackfillProofs!Normalized, Backfill!Live,
         BackfillProofs!Live, Backfill!Current, BackfillProofs!Current, Backfill!Align,
         BackfillProofs!Align, Backfill!Buckets, BackfillProofs!Buckets, Backfill!First,
         BackfillProofs!First, Backfill!Last, BackfillProofs!Last, Backfill!Newest,
         BackfillProofs!Newest, Backfill!Smaller, BackfillProofs!Smaller,
         Backfill!FetchWindow, BackfillProofs!FetchWindow, Backfill!ComputedBars,
         BackfillProofs!ComputedBars, Backfill!LookedUpBars, BackfillProofs!LookedUpBars,
         Backfill!Provided, BackfillProofs!Provided, Backfill!Oldest,
         BackfillProofs!Oldest, Backfill!memory, BackfillProofs!memory, Backfill!tables,
         BackfillProofs!tables, Backfill!NewBreaker, BackfillProofs!NewBreaker,
         Backfill!Refuses, BackfillProofs!Refuses, Backfill!SecondsUntilProbe, BackfillProofs!SecondsUntilProbe,
         Backfill!Ticks, BackfillProofs!Ticks, Backfill!Admit, BackfillProofs!Admit,
         Backfill!RecordSuccess, BackfillProofs!RecordSuccess, Backfill!RecordFailure,
         BackfillProofs!RecordFailure, Backfill!Load, BackfillProofs!Load, Backfill!Aged,
         BackfillProofs!Aged, Backfill!Cardinality, BackfillProofs!Cardinality
<1>4. BackfillProofs!IngestionIsSound => Backfill!IngestionIsSound
  BY DEF Backfill!IngestionIsSound, BackfillProofs!IngestionIsSound, Backfill!TypeOK,
         BackfillProofs!TypeOK, Backfill!Phases, BackfillProofs!Phases, Backfill!Bounds,
         BackfillProofs!Bounds, Backfill!Items, BackfillProofs!Items, Backfill!Breakers,
         BackfillProofs!Breakers, Backfill!Ticks, BackfillProofs!Ticks, Backfill!BreakerStates, BackfillProofs!BreakerStates,
         Backfill!BreakerConsistent, BackfillProofs!BreakerConsistent,
         Backfill!OpenSurvivesRestart, BackfillProofs!OpenSurvivesRestart,
         Backfill!OnlyClosedBars, BackfillProofs!OnlyClosedBars, Backfill!OutagesAreShort,
         BackfillProofs!OutagesAreShort, Backfill!NoHoles, BackfillProofs!NoHoles,
         Backfill!Buckets, BackfillProofs!Buckets, Backfill!Align, BackfillProofs!Align,
         Backfill!Symbols, BackfillProofs!Symbols
<1>5. BackfillProofs!AnnouncedIsStored => Live!AnnouncedIsStored
  BY DEF BackfillProofs!AnnouncedIsStored, Live!AnnouncedIsStored
<1> QED
  BY <1>1, <1>2, <1>3, <1>4, <1>5 DEF ingestVars, BackfillProofs!vars, BackfillProofs!tables, BackfillProofs!memory

\* A behaviour of the parts "live" and "backfill" is one of the proved modules.
LEMMA IngestParts ==
  /\ PipelineInit => /\ Is("live") => LiveProofs!Init
                     /\ Is("backfill") => BackfillProofs!Init
  /\ [PipelineNext]_allVars => /\ Is("live") => [LiveProofs!Next]_LiveProofs!vars
                               /\ Is("backfill") => [BackfillProofs!Next]_BackfillProofs!vars
                               /\ Is("live")' <=> Is("live")
                               /\ Is("backfill")' <=> Is("backfill")
<1>1. PipelineInit => /\ Is("live") => LiveProofs!Init
                      /\ Is("backfill") => BackfillProofs!Init
  BY LiveIsProved, BackfillIsProved DEF PipelineInit, Is
<1>2. [PipelineNext]_allVars /\ Is("live") => [LiveProofs!Next]_LiveProofs!vars
  BY OtherPartsWait, LiveIsProved DEF Is
<1>3. [PipelineNext]_allVars /\ Is("backfill") => [BackfillProofs!Next]_BackfillProofs!vars
  BY OtherPartsWait, BackfillIsProved DEF Is
<1>4. [PipelineNext]_allVars => (Is("live")' <=> Is("live")) /\ (Is("backfill")' <=> Is("backfill"))
  BY OtherPartsWait DEF Is
<1> QED BY <1>1, <1>2, <1>3, <1>4

\* Live ingestion leaves no hole and stores closed bars only, and breakers keep
\* their word: see IngestionSound.
THEOREM PipelineIngestion ==
  ASSUME Live!IngestAssumption, Backfill!IngestAssumption
  PROVE  PipelineSpec => []IngestionIsSound
<1>1. LiveProofs!Spec => []LiveProofs!IngestionIsSound
  BY LiveIsProved, LiveProofs!IngestionSound
<1>2. BackfillProofs!Spec => []BackfillProofs!IngestionIsSound
  BY BackfillIsProved, BackfillProofs!IngestionSound
<1>3. (Is("live") => LiveProofs!IngestionIsSound) /\ (Is("backfill") => BackfillProofs!IngestionIsSound)
        => IngestionIsSound
  BY LiveIsProved, BackfillIsProved DEF Is, IngestionIsSound
<1> QED
  BY <1>1, <1>2, <1>3, IngestParts, PTL
  DEF PipelineSpec, LiveProofs!Spec, BackfillProofs!Spec

----------------------------------------------------------------------------
(* The agent worker.                                                       *)

\* Everything announced is stored, and everything in flight was announced.
InFlight ==
  /\ agentStream \in Seq(announced) /\ delivered \subseteq announced
  /\ \A e \in announced : e.symbol \in AgentsSetup.Symbols /\ e.bar \in agentCandles[e.symbol]

\* The worker holds delivered entries, has a place for each, was shown the bar it
\* is about to save and has saved the one it publishes.
InHand ==
  /\ \A x \in selected : x.entry \in delivered /\ x.at \in Nat
  /\ acks \subseteq delivered
  /\ left \subseteq AgentsSetup.Agents
  /\ agentPc \in {"save", "publish"} => selected # {}
  /\ agentPc = "save" => AgentsOf!AtHand.bar \in window
  /\ agentPc = "publish" =>
       \E i \in DOMAIN signalRows : /\ signalRows[i].symbol = AgentsOf!AtHand.symbol
                                    /\ signalRows[i].bar = AgentsOf!AtHand.bar

AgentsInv ==
  /\ agentNow \in 0 .. AgentsSetup.MaxBars
  /\ agentCandles \in [AgentsSetup.Symbols -> SUBSET (0 .. AgentsSetup.MaxBars - 1)]
  /\ \A y \in AgentsSetup.Symbols : \A b \in agentCandles[y] : b < agentNow
  /\ agentPc \in {"idle", "analyze", "save", "publish"}
  /\ \E S : signalRows \in Seq(S)
  /\ InFlight /\ InHand
  /\ AgentsOf!EmittedIsStored /\ AgentsOf!WindowHasBar

\* The entry at hand is one of those selected.
LEMMA CurrentIsSelected ==
  ASSUME selected # {}, \A x \in selected : x.at \in Nat
  PROVE  AgentsOf!Current \in selected
<1> DEFINE T == {x.at : x \in selected}
<1>1. T \in SUBSET Nat /\ T # {}
  OBVIOUS
<1>2. PICK t \in T : \A u \in T : t <= u
  BY <1>1, LiveProofs!LeastExists
<1>3. PICK x \in selected : x.at = t
  BY <1>2
<1>4. \A y \in selected : x.at <= y.at
  BY <1>2, <1>3
<1> QED BY <1>3, <1>4 DEF AgentsOf!Current

\* What is selected of a batch is of the batch, at a place of it.
LEMMA SelectedIsOfBatch ==
  ASSUME NEW S, NEW q \in Seq(S), NEW x \in AgentsOf!Select(q)
  PROVE  x.at \in Nat /\ \E i \in DOMAIN q : x.entry = q[i]
<1>1. PICK y \in AgentsSetup.Symbols :
        \E e \in AgentsOf!NewestOf({q[i] : i \in DOMAIN q}, y) :
          x = [entry |-> e, at |-> AgentsOf!FirstOf(q, y)]
  BY DEF AgentsOf!Select
<1>2. PICK i \in DOMAIN q : q[i].symbol = y /\ x = [entry |-> q[i], at |-> AgentsOf!FirstOf(q, y)]
  BY <1>1 DEF AgentsOf!NewestOf
<1> DEFINE T == {j \in DOMAIN q : q[j].symbol = y}
<1>3. T \in SUBSET Nat /\ T # {}
  BY <1>2
<1>4. PICK j \in T : \A k \in T : j <= k
  BY <1>3, LiveProofs!LeastExists
<1>5. \A k \in 1 .. j - 1 : q[k].symbol # y
  <2> SUFFICES ASSUME NEW k \in 1 .. j - 1, q[k].symbol = y PROVE FALSE
    OBVIOUS
  <2>1. j \in 1 .. Len(q) /\ k \in DOMAIN q
    BY <1>4
  <2> QED BY <2>1, <1>4
<1>6. AgentsOf!FirstOf(q, y) \in DOMAIN q
  BY <1>4, <1>5 DEF AgentsOf!FirstOf
<1> QED BY <1>2, <1>6

LEMMA AgentsCardinality == ASSUME NEW S PROVE AgentsOf!Cardinality(S) = Cardinality(S)
BY DEF AgentsOf!Cardinality, Cardinality, AgentsOf!IsFiniteSet, IsFiniteSet

\* load_candles still reaches every stored bar.
LEMMA LoadedInFull ==
  ASSUME AgentsOf!AgentsAssumption, AgentsOf!HistoryFits, AgentsInv,
         NEW y \in AgentsSetup.Symbols, NEW b \in agentCandles[y]
  PROVE  b \in AgentsOf!LoadCandles(y)
<1> DEFINE T == {c \in agentCandles[y] : c < b}
<1>1. b \in 0 .. AgentsSetup.MaxBars - 1 /\ AgentsSetup.MaxBars \in Nat
      /\ AgentsSetup.Lookback \in Nat /\ AgentsSetup.MaxBars <= AgentsSetup.Lookback
  BY DEF AgentsInv, AgentsOf!AgentsAssumption, AgentsOf!HistoryFits
<1>2. T \subseteq 0 .. b - 1
  BY <1>1 DEF AgentsInv
<1>3. IsFiniteSet(0 .. b - 1) /\ Cardinality(0 .. b - 1) <= b
  <2>1. 0 \in Int /\ b - 1 \in Int
    BY <1>1
  <2>2. Cardinality(0 .. b - 1) = IF 0 > b - 1 THEN 0 ELSE (b - 1) - 0 + 1
    BY <2>1, FS_Interval
  <2>3. IsFiniteSet(0 .. b - 1)
    BY <2>1, FS_Interval
  <2> HIDE DEF T
  <2> QED BY <1>1, <2>2, <2>3
<1>4. Cardinality(T) <= Cardinality(0 .. b - 1) /\ Cardinality(T) \in Nat
      /\ Cardinality(0 .. b - 1) \in Nat
  BY <1>2, <1>3, FS_Subset, FS_CardinalityType
<1>5. Cardinality(T) < AgentsSetup.Lookback
  BY <1>1, <1>3, <1>4
<1> QED BY <1>5, AgentsCardinality DEF AgentsOf!LoadCandles

\* What a step may not disturb: bars stay stored, entries announced, rows written.
LEMMA AgentsKept ==
  ASSUME AgentsOf!AgentsAssumption, AgentsInv, UNCHANGED <<selected, acks, window, left, agentPc>>,
         UNCHANGED <<delivered, signalRows, emitted>>,
         agentNow' \in 0 .. AgentsSetup.MaxBars,
         agentCandles' \in [AgentsSetup.Symbols -> SUBSET (0 .. AgentsSetup.MaxBars - 1)],
         \A y \in AgentsSetup.Symbols : \A b \in agentCandles'[y] : b < agentNow',
         NEW y \in AgentsSetup.Symbols, NEW e, e.symbol = y, e.bar \in agentCandles'[y],
         \A z \in AgentsSetup.Symbols : agentCandles[z] \subseteq agentCandles'[z],
         agentStream' = Append(agentStream, e), announced' = announced \cup {e}
  PROVE  AgentsInv'
<1>1. InFlight'
  <2>1. agentStream \in Seq(announced')
    BY DEF AgentsInv, InFlight
  <2>2. agentStream' \in Seq(announced')
    BY <2>1
  <2> QED BY <2>2 DEF AgentsInv, InFlight
<1>2. InHand'
  BY DEF AgentsInv, InHand, AgentsOf!AtHand, AgentsOf!Current
<1> QED
  BY <1>1, <1>2 DEF AgentsInv, AgentsOf!EmittedIsStored, AgentsOf!WindowHasBar, AgentsOf!Rows

LEMMA AgentsInit == ASSUME AgentsOf!AgentsAssumption, AgentsOf!Init PROVE AgentsInv
BY DEF AgentsOf!AgentsAssumption, AgentsOf!Init, AgentsInv, InFlight, InHand,
       AgentsOf!EmittedIsStored, AgentsOf!WindowHasBar

LEMMA AgentsBars ==
  ASSUME AgentsOf!AgentsAssumption, AgentsInv, AgentsOf!CloseBar \/ AgentsOf!Backfill
  PROVE  AgentsInv'
<1> USE DEF AgentsOf!memory
<1>1. AgentsSetup.MaxBars \in Nat
  BY DEF AgentsOf!AgentsAssumption
<1>2. ASSUME NEW y \in AgentsSetup.Symbols, NEW b \in Nat,
             b < AgentsSetup.MaxBars, agentNow <= agentNow', b < agentNow',
             agentNow' \in 0 .. AgentsSetup.MaxBars,
             agentCandles' = [agentCandles EXCEPT ![y] = @ \cup {b}],
             AgentsOf!Announce(<<AgentsOf!Entry(y, b)>>),
             UNCHANGED <<selected, acks, window, left, agentPc>>,
             UNCHANGED <<delivered, signalRows, emitted>>
      PROVE  AgentsInv'
  <2> DEFINE e == AgentsOf!Entry(y, b)
  <2>1. e.symbol = y /\ e.bar = b
    BY DEF AgentsOf!Entry
  <2>2. agentCandles \in [AgentsSetup.Symbols -> SUBSET (0 .. AgentsSetup.MaxBars - 1)]
    BY DEF AgentsInv
  <2>3. agentCandles' \in [AgentsSetup.Symbols -> SUBSET (0 .. AgentsSetup.MaxBars - 1)]
    BY <1>1, <1>2, <2>2
  <2>4. \A z \in AgentsSetup.Symbols : agentCandles[z] \subseteq agentCandles'[z]
    BY <1>2, <2>2
  <2>5. b \in agentCandles'[y]
    BY <1>2, <2>2
  <2>6. \A z \in AgentsSetup.Symbols : \A c \in agentCandles'[z] : c < agentNow'
    <3> SUFFICES ASSUME NEW z \in AgentsSetup.Symbols, NEW c \in agentCandles'[z]
                 PROVE  c < agentNow'
      OBVIOUS
    <3>1. CASE c = b
      BY <1>2, <3>1
    <3>2. CASE c # b
      <4>1. c \in agentCandles[z]
        BY <1>2, <2>2, <3>2
      <4>2. c < agentNow /\ c \in Int /\ agentNow \in Int
        BY <2>2, <4>1 DEF AgentsInv
      <4> QED BY <1>2, <4>2
    <3> QED BY <3>1, <3>2
  <2>7. agentStream' = Append(agentStream, e) /\ announced' = announced \cup {e}
    <3> HIDE DEF e
    <3>1. agentStream' = agentStream \o <<e>> /\ announced' = announced \cup {e}
      BY <1>2 DEF AgentsOf!Announce, e
    <3> QED BY <3>1 DEF AgentsInv, InFlight
  <2> QED BY <1>2, <2>1, <2>3, <2>4, <2>5, <2>6, <2>7, AgentsKept
<1>3. CASE AgentsOf!CloseBar
  <2>1. PICK y \in AgentsSetup.Symbols :
          /\ agentNow < AgentsSetup.MaxBars
          /\ agentCandles' = [agentCandles EXCEPT ![y] = @ \cup {agentNow}]
          /\ AgentsOf!Announce(<<AgentsOf!Entry(y, agentNow)>>)
          /\ agentNow' = agentNow + 1
          /\ UNCHANGED <<delivered, signalRows, emitted, AgentsOf!memory, agentPc>>
    BY <1>3 DEF AgentsOf!CloseBar
  <2>2. agentNow \in Nat /\ agentNow' \in 0 .. AgentsSetup.MaxBars
    BY <1>1, <2>1 DEF AgentsInv
  <2>3. agentNow <= agentNow' /\ agentNow < agentNow'
    BY <2>1, <2>2
  <2>4. UNCHANGED <<selected, acks, window, left, agentPc, delivered, signalRows, emitted>>
    BY <2>1
  <2> QED BY <1>2, <2>1, <2>2, <2>3, <2>4
<1>4. CASE AgentsOf!Backfill
  <2>1. PICK y \in AgentsSetup.Symbols, b \in 0 .. agentNow - 1 :
          /\ agentCandles' = [agentCandles EXCEPT ![y] = @ \cup {b}]
          /\ AgentsOf!Announce(<<AgentsOf!Entry(y, b)>>)
          /\ UNCHANGED <<agentNow, delivered, signalRows, emitted, AgentsOf!memory, agentPc>>
    BY <1>4 DEF AgentsOf!Backfill
  <2>2. agentNow \in 0 .. AgentsSetup.MaxBars
    BY DEF AgentsInv
  <2>3. b \in Nat /\ b < AgentsSetup.MaxBars /\ b < agentNow' /\ agentNow <= agentNow'
    BY <1>1, <2>1, <2>2
  <2> QED BY <1>2, <2>1, <2>2, <2>3
<1> QED BY <1>3, <1>4

LEMMA AgentsPoll ==
  ASSUME AgentsOf!AgentsAssumption, AgentsInv, AgentsOf!PollOnce PROVE AgentsInv'
<1> DEFINE q == AgentsOf!Batch
           B == {q[i] : i \in DOMAIN q}
<1>1. agentStream \in Seq(announced) /\ AgentsSetup.BatchSize \in Nat
  BY DEF AgentsInv, InFlight, AgentsOf!AgentsAssumption
<1>2. q \in Seq(announced) /\ Len(q) \in Nat
  BY <1>1 DEF AgentsOf!Batch
<1>3. SubSeq(agentStream, Len(q) + 1, Len(agentStream)) \in Seq(announced)
  <2> HIDE DEF q
  <2> QED BY <1>1, <1>2
<1>4. B \subseteq announced
  <2> HIDE DEF q
  <2> QED BY <1>2
<1>5. \A x \in AgentsOf!Select(q) : x.at \in Nat /\ x.entry \in B
  <2> HIDE DEF q
  <2> QED BY <1>2, SelectedIsOfBatch
<1>6. /\ agentStream' \in Seq(announced) /\ delivered' = delivered \cup B
      /\ selected' = AgentsOf!Select(q) /\ acks' \subseteq B
      /\ window' = {} /\ left' = {} /\ agentPc' = "analyze"
      /\ UNCHANGED <<agentNow, agentCandles, announced, signalRows, emitted>>
  BY <1>3 DEF AgentsOf!PollOnce
<1> HIDE DEF q, B
<1>7. InFlight'
  BY <1>4, <1>6 DEF AgentsInv, InFlight
<1>8. InHand'
  BY <1>5, <1>6 DEF AgentsInv, InHand
<1> QED
  BY <1>6, <1>7, <1>8 DEF AgentsInv, AgentsOf!EmittedIsStored, AgentsOf!WindowHasBar, AgentsOf!Rows

LEMMA AgentsAnalyze ==
  ASSUME AgentsOf!AgentsAssumption, AgentsOf!HistoryFits, AgentsInv, AgentsOf!Analyze
  PROVE  AgentsInv'
<1>1. AgentsOf!Current \in selected
  BY CurrentIsSelected DEF AgentsOf!Analyze, AgentsInv, InHand
<1>2. AgentsOf!AtHand \in announced
  BY <1>1 DEF AgentsOf!AtHand, AgentsInv, InHand, InFlight
<1>3. AgentsOf!AtHand.bar \in AgentsOf!LoadCandles(AgentsOf!AtHand.symbol)
  BY <1>2, LoadedInFull DEF AgentsInv, InFlight
<1>4. AgentsOf!AtHand' = AgentsOf!AtHand
  BY DEF AgentsOf!Analyze, AgentsOf!AtHand, AgentsOf!Current
<1>5. InFlight'
  BY DEF AgentsOf!Analyze, AgentsOf!bus, AgentsInv, InFlight
<1>6. InHand'
  BY <1>3, <1>4 DEF AgentsOf!Analyze, AgentsInv, InHand
<1> QED
  BY <1>5, <1>6
  DEF AgentsOf!Analyze, AgentsInv, AgentsOf!EmittedIsStored, AgentsOf!WindowHasBar, AgentsOf!Rows

LEMMA AgentsSave ==
  ASSUME AgentsOf!AgentsAssumption, AgentsInv, AgentsOf!SaveSignals PROVE AgentsInv'
<1> DEFINE e == AgentsOf!AtHand
           r == [symbol |-> e.symbol, bar |-> e.bar, window |-> window]
<1>1. e' = e
  BY DEF AgentsOf!SaveSignals, AgentsOf!AtHand, AgentsOf!Current
<1>2. e.bar \in window /\ agentPc' = "publish" /\ left' = AgentsSetup.Agents
      /\ selected # {}
      /\ UNCHANGED <<agentNow, agentCandles, agentStream, announced, delivered, emitted,
                     selected, acks, window>>
  BY DEF AgentsOf!SaveSignals, AgentsOf!bus, AgentsInv, InHand
<1>3. InFlight'
  BY <1>2 DEF AgentsInv, InFlight
<1> HIDE DEF e
<1>4. CASE signalRows' = signalRows /\ \E i \in AgentsOf!Rows(e.symbol) : signalRows[i].bar = e.bar
  <2>1. InHand'
    BY <1>1, <1>2, <1>4 DEF AgentsInv, InHand, AgentsOf!Rows, e
  <2> QED
    BY <1>2, <1>3, <1>4, <2>1
    DEF AgentsInv, AgentsOf!EmittedIsStored, AgentsOf!WindowHasBar, AgentsOf!Rows
<1>5. CASE signalRows' = Append(signalRows, r)
  <2>1. PICK S : signalRows \in Seq(S)
    BY DEF AgentsInv
  <2>2. signalRows \in Seq(S \cup {r})
    BY <2>1
  <2>3. signalRows' \in Seq(S \cup {r})
    BY <1>5, <2>2
  <2>4. /\ DOMAIN signalRows' = DOMAIN signalRows \cup {Len(signalRows) + 1}
        /\ Len(signalRows) + 1 \notin DOMAIN signalRows
        /\ \A i \in DOMAIN signalRows : signalRows'[i] = signalRows[i]
        /\ signalRows'[Len(signalRows) + 1] = r
    <3> HIDE DEF r
    <3> QED BY <1>5, <2>2
  <2>5. InHand'
    BY <1>1, <1>2, <2>4 DEF AgentsInv, InHand, e
  <2>6. AgentsOf!EmittedIsStored'
    <3> SUFFICES ASSUME NEW v \in emitted
                 PROVE  \E i \in DOMAIN signalRows' :
                          signalRows'[i].symbol = v[2] /\ signalRows'[i].bar = v[3]
      BY <1>2 DEF AgentsOf!EmittedIsStored, AgentsOf!Rows
    <3>1. PICK i \in DOMAIN signalRows : signalRows[i].symbol = v[2] /\ signalRows[i].bar = v[3]
      BY DEF AgentsInv, AgentsOf!EmittedIsStored, AgentsOf!Rows
    <3> QED BY <3>1, <2>4
  <2>7. AgentsOf!WindowHasBar'
    BY <1>2, <2>4 DEF AgentsInv, AgentsOf!WindowHasBar
  <2> QED BY <1>2, <1>3, <2>3, <2>5, <2>6, <2>7 DEF AgentsInv
<1> QED BY <1>4, <1>5 DEF AgentsOf!SaveSignals, e

LEMMA AgentsPublish ==
  ASSUME AgentsInv, AgentsOf!PublishSignal PROVE AgentsInv'
<1> DEFINE e == AgentsOf!AtHand
<1>1. e' = e
  BY DEF AgentsOf!PublishSignal, AgentsOf!AtHand, AgentsOf!Current
<1>2. PICK a \in left : emitted' = emitted \cup {<<a, e.symbol, e.bar>>} /\ left' = left \ {a}
  BY DEF AgentsOf!PublishSignal
<1>3. agentPc = "publish"
      /\ UNCHANGED <<agentNow, agentCandles, agentStream, announced, delivered, signalRows,
                     selected, acks, window, agentPc>>
  BY DEF AgentsOf!PublishSignal, AgentsOf!bus
<1> HIDE DEF e
<1>4. InFlight'
  BY <1>3 DEF AgentsInv, InFlight
<1>5. InHand'
  BY <1>1, <1>2, <1>3 DEF AgentsInv, InHand, e
<1>6. AgentsOf!EmittedIsStored'
  BY <1>2, <1>3 DEF AgentsInv, InHand, AgentsOf!EmittedIsStored, AgentsOf!Rows, e
<1> QED BY <1>3, <1>4, <1>5, <1>6 DEF AgentsInv, AgentsOf!WindowHasBar

\* The worker takes an entry off its list, or starts again.
LEMMA AgentsMoveOn ==
  ASSUME AgentsInv, AgentsOf!EndBar \/ AgentsOf!BarFails \/ AgentsOf!Ack \/ AgentsOf!Crash
  PROVE  AgentsInv'
<1>0. UNCHANGED <<agentNow, agentCandles, agentStream, announced, signalRows, emitted>>
  BY DEF AgentsOf!EndBar, AgentsOf!BarFails, AgentsOf!Ack, AgentsOf!Crash, AgentsOf!bus
<1>1. CASE AgentsOf!EndBar \/ AgentsOf!BarFails
  <2>1. selected # {} /\ UNCHANGED delivered /\ AgentsOf!NextEntry
    BY <1>1 DEF AgentsOf!EndBar, AgentsOf!BarFails, AgentsInv, InHand
  <2>2. AgentsOf!AtHand \in delivered
    BY <2>1, CurrentIsSelected DEF AgentsOf!AtHand, AgentsInv, InHand
  <2>3. InFlight' /\ InHand'
    BY <1>0, <2>1, <2>2 DEF AgentsOf!NextEntry, AgentsInv, InFlight, InHand
  <2> QED
    BY <1>0, <2>1, <2>3
    DEF AgentsOf!NextEntry, AgentsInv, AgentsOf!EmittedIsStored, AgentsOf!WindowHasBar,
        AgentsOf!Rows
<1>2. CASE AgentsOf!Ack \/ AgentsOf!Crash
  <2>1. InFlight' /\ InHand'
    BY <1>0, <1>2 DEF AgentsOf!Ack, AgentsOf!Crash, AgentsInv, InFlight, InHand
  <2> QED
    BY <1>0, <1>2, <2>1
    DEF AgentsOf!Ack, AgentsOf!Crash, AgentsInv, AgentsOf!EmittedIsStored,
        AgentsOf!WindowHasBar, AgentsOf!Rows
<1> QED BY <1>1, <1>2

LEMMA AgentsStep ==
  ASSUME AgentsOf!AgentsAssumption, AgentsOf!HistoryFits, AgentsInv, [AgentsOf!Next]_agentVars
  PROVE  AgentsInv'
<1>1. CASE UNCHANGED agentVars
  <2>1. UNCHANGED <<agentNow, agentCandles, agentStream, announced, delivered, signalRows, emitted,
                    selected, acks, window, left, agentPc>>
    BY <1>1 DEF agentVars
  <2>2. InFlight' /\ InHand'
    <3>1. AgentsOf!AtHand' = AgentsOf!AtHand
      BY <2>1 DEF AgentsOf!AtHand, AgentsOf!Current
    <3> QED BY <2>1, <3>1 DEF AgentsInv, InFlight, InHand
  <2> QED
    BY <2>1, <2>2
    DEF AgentsInv, AgentsOf!EmittedIsStored, AgentsOf!WindowHasBar, AgentsOf!Rows
<1>2. CASE AgentsOf!Next
  BY <1>2, AgentsBars, AgentsPoll, AgentsAnalyze, AgentsSave, AgentsPublish, AgentsMoveOn
  DEF AgentsOf!Next, AgentsOf!Poll
<1> QED BY <1>1, <1>2

\* However often the agent worker dies, is late or fails, a signal.emitted event
\* is about a stored signal, and the agents were shown the bar it is about.
THEOREM AgentsAnnounceStored ==
  ASSUME AgentsOf!AgentsAssumption, AgentsOf!HistoryFits
  PROVE  AgentsOf!Init /\ [][AgentsOf!Next]_agentVars
           => [](AgentsOf!TypeOK /\ AgentsOf!EmittedIsStored /\ AgentsOf!WindowHasBar)
<1>1. AgentsInv => AgentsOf!TypeOK /\ AgentsOf!EmittedIsStored /\ AgentsOf!WindowHasBar
  BY DEF AgentsInv, InHand, AgentsOf!TypeOK
<1> QED BY <1>1, AgentsInit, AgentsStep, PTL

\* bar.closed and signal.emitted events are about what is stored: see
\* AnnouncementsAreStored and AgentsAnnounceStored.
THEOREM PipelineAnnouncements ==
  ASSUME Live!IngestAssumption, Backfill!IngestAssumption,
         AgentsOf!AgentsAssumption, AgentsOf!HistoryFits
  PROVE  PipelineSpec => []AnnouncedIsStored
<1>1. LiveProofs!Spec => []LiveProofs!AnnouncedIsStored
  BY LiveIsProved, LiveProofs!AnnouncementsAreStored
<1>2. BackfillProofs!Spec => []BackfillProofs!AnnouncedIsStored
  BY BackfillIsProved, BackfillProofs!AnnouncementsAreStored
<1>3. PipelineInit => AgentsOf!Init
  BY DEF PipelineInit
<1>4. [PipelineNext]_allVars => [AgentsOf!Next]_agentVars
  BY OtherPartsWait
<1>5. ASSUME Is("live") => LiveProofs!AnnouncedIsStored,
             Is("backfill") => BackfillProofs!AnnouncedIsStored,
             AgentsOf!TypeOK /\ AgentsOf!EmittedIsStored /\ AgentsOf!WindowHasBar
      PROVE  AnnouncedIsStored
  BY <1>5, LiveIsProved, BackfillIsProved DEF Is, AnnouncedIsStored
<1> QED
  BY <1>1, <1>2, <1>3, <1>4, <1>5, IngestParts, AgentsAnnounceStored, PTL
  DEF PipelineSpec, LiveProofs!Spec, BackfillProofs!Spec

----------------------------------------------------------------------------
(* The decision engine.                                                    *)

SpacingProofs == INSTANCE DecisionEngineProofs WITH
  PairOrder <- SpacingSetup.PairOrder, Foreign <- SpacingSetup.Foreign,
  TfOrder <- SpacingSetup.TfOrder, TfLen <- SpacingSetup.TfLen, Basket <- SpacingSetup.Basket,
  Bulletins <- SpacingSetup.Bulletins, Regime <- SpacingSetup.Regime, Atr <- SpacingSetup.Atr,
  Price <- SpacingSetup.Price, Cooldown <- SpacingSetup.Cooldown, DayLen <- SpacingSetup.DayLen,
  Outcomes <- SpacingSetup.Outcomes, EntryCost <- SpacingSetup.EntryCost,
  SnapshotInterval <- SpacingSetup.SnapshotInterval, MaxTime <- SpacingSetup.MaxTime,
  MaxReports <- SpacingSetup.MaxReports, MaxTriggers <- SpacingSetup.MaxTriggers,
  MaxReplays <- SpacingSetup.MaxReplays, MaxFaults <- SpacingSetup.MaxFaults,
  now <- engineNow, todo <- engineTodo, pc <- enginePc, replays <- engineReplays,
  faults <- engineFaults,
  Diffs <- TechnicalSetup.Diffs, DeadZones <- TechnicalSetup.DeadZones,
  Bands <- TechnicalSetup.Bands, PreviousDays <- TechnicalSetup.Days,
  Rsis <- TechnicalSetup.Rsis, Stochs <- TechnicalSetup.Stochs, Adxs <- TechnicalSetup.Adxs,
  Base <- ReadersSetup.Base, Quote <- ReadersSetup.Quote, Events <- ReadersSetup.Events,
  Stories <- ReadersSetup.Stories, MaxInputs <- ReadersSetup.MaxInputs
LedgerProofs == INSTANCE DecisionEngineProofs WITH
  PairOrder <- LedgerSetup.PairOrder, Foreign <- LedgerSetup.Foreign,
  TfOrder <- LedgerSetup.TfOrder, TfLen <- LedgerSetup.TfLen, Basket <- LedgerSetup.Basket,
  Bulletins <- LedgerSetup.Bulletins, Regime <- LedgerSetup.Regime, Atr <- LedgerSetup.Atr,
  Price <- LedgerSetup.Price, Cooldown <- LedgerSetup.Cooldown, DayLen <- LedgerSetup.DayLen,
  Outcomes <- LedgerSetup.Outcomes, EntryCost <- LedgerSetup.EntryCost,
  SnapshotInterval <- LedgerSetup.SnapshotInterval, MaxTime <- LedgerSetup.MaxTime,
  MaxReports <- LedgerSetup.MaxReports, MaxTriggers <- LedgerSetup.MaxTriggers,
  MaxReplays <- LedgerSetup.MaxReplays, MaxFaults <- LedgerSetup.MaxFaults,
  now <- engineNow, todo <- engineTodo, pc <- enginePc, replays <- engineReplays,
  faults <- engineFaults,
  Diffs <- TechnicalSetup.Diffs, DeadZones <- TechnicalSetup.DeadZones,
  Bands <- TechnicalSetup.Bands, PreviousDays <- TechnicalSetup.Days,
  Rsis <- TechnicalSetup.Rsis, Stochs <- TechnicalSetup.Stochs, Adxs <- TechnicalSetup.Adxs,
  Base <- ReadersSetup.Base, Quote <- ReadersSetup.Quote, Events <- ReadersSetup.Events,
  Stories <- ReadersSetup.Stories, MaxInputs <- ReadersSetup.MaxInputs

\* What DecisionEngineProofs is about is the part "spacing".
LEMMA SpacingIsProved ==
  /\ Spacing!EngineAssumption => SpacingProofs!EngineAssumption
  /\ Spacing!Init => SpacingProofs!Init
  /\ [Spacing!Next]_engineVars => [SpacingProofs!Next]_SpacingProofs!vars
  /\ SpacingProofs!TypeOK => Spacing!TypeOK
  /\ SpacingProofs!PapersAreSpaced => Spacing!PapersAreSpaced
<1>1. Spacing!EngineAssumption => SpacingProofs!EngineAssumption
  BY DEF Spacing!DirectionalAgents, SpacingProofs!DirectionalAgents, Spacing!Percent,
      SpacingProofs!Percent, Spacing!Pairs, SpacingProofs!Pairs, Spacing!Len1,
      SpacingProofs!Len1, Spacing!EngineAssumption, SpacingProofs!EngineAssumption,
      Spacing!ToSet, SpacingProofs!ToSet
<1>2. Spacing!Init => SpacingProofs!Init
  BY DEF Spacing!Pairs, SpacingProofs!Pairs, Spacing!Symbols, SpacingProofs!Symbols, Spacing!Days,
      SpacingProofs!Days, Spacing!NoResult, SpacingProofs!NoResult, Spacing!NoPosition,
      SpacingProofs!NoPosition, Spacing!Init, SpacingProofs!Init, Spacing!ToSet,
      SpacingProofs!ToSet
<1>3. ASSUME NEW x, NEW r PROVE Spacing!Fuse(x, r) = SpacingProofs!Fuse(x, r)
  BY DEF Spacing!DirectionalAgents, SpacingProofs!DirectionalAgents, Spacing!WeightsFor,
      SpacingProofs!WeightsFor, Spacing!Voters, SpacingProofs!Voters, Spacing!Vote,
      SpacingProofs!Vote, Spacing!DirectionForScore, SpacingProofs!DirectionForScore,
      Spacing!NoVotes, SpacingProofs!NoVotes, Spacing!Fuse, SpacingProofs!Fuse,
      Spacing!MapThenSumSet, SpacingProofs!MapThenSumSet, Spacing!MapThenFoldSet,
      SpacingProofs!MapThenFoldSet
<1>4. ASSUME NEW f, NEW c PROVE Spacing!ApplyContext(f, c) = SpacingProofs!ApplyContext(f, c)
  BY DEF Spacing!DirectionForScore, SpacingProofs!DirectionForScore, Spacing!ApplyContext,
      SpacingProofs!ApplyContext
<1>5. ASSUME NEW a, NEW b, NEW c, NEW d PROVE Spacing!Assess(a, b, c, d) = SpacingProofs!Assess(a, b, c, d)
  BY DEF Spacing!ComputeSizing, SpacingProofs!ComputeSizing, Spacing!GatesOk,
      SpacingProofs!GatesOk, Spacing!NoSizing, SpacingProofs!NoSizing, Spacing!Assess,
      SpacingProofs!Assess, Spacing!Min, SpacingProofs!Min
<1>6. ASSUME NEW x PROVE Spacing!ComputeDecision(x) = SpacingProofs!ComputeDecision(x)
  BY <1>3, <1>4, <1>5
  DEF Spacing!DirectionalAgents, SpacingProofs!DirectionalAgents, Spacing!AgentFamilies,
      SpacingProofs!AgentFamilies, Spacing!GateNames, SpacingProofs!GateNames, Spacing!NoSizing,
      SpacingProofs!NoSizing, Spacing!FirstFailing, SpacingProofs!FirstFailing,
      Spacing!Coverage, SpacingProofs!Coverage, Spacing!Skip, SpacingProofs!Skip,
      Spacing!Persist, SpacingProofs!Persist, Spacing!ComputeDecision,
      SpacingProofs!ComputeDecision, Spacing!Cardinality, SpacingProofs!Cardinality
<1>7. ASSUME NEW p, NEW s PROVE Spacing!LatestDecision(p, s) = SpacingProofs!LatestDecision(p, s)
  BY DEF Spacing!Len1, SpacingProofs!Len1, Spacing!ValidUntil, SpacingProofs!ValidUntil,
      Spacing!LatestDecision, SpacingProofs!LatestDecision
<1>8. ASSUME NEW p PROVE Spacing!FreshSignals(p) = SpacingProofs!FreshSignals(p)
  BY DEF Spacing!DirectionalAgents, SpacingProofs!DirectionalAgents, Spacing!AgentFamilies,
      SpacingProofs!AgentFamilies, Spacing!Len1, SpacingProofs!Len1, Spacing!FreshUntil,
      SpacingProofs!FreshUntil, Spacing!ReportedBars, SpacingProofs!ReportedBars,
      Spacing!LatestBar, SpacingProofs!LatestBar, Spacing!FreshAgents,
      SpacingProofs!FreshAgents, Spacing!FreshSignals, SpacingProofs!FreshSignals
<1>9. ASSUME NEW p PROVE Spacing!FreshAgents(p) = SpacingProofs!FreshAgents(p)
  BY DEF Spacing!DirectionalAgents, SpacingProofs!DirectionalAgents, Spacing!AgentFamilies,
      SpacingProofs!AgentFamilies, Spacing!Len1, SpacingProofs!Len1, Spacing!FreshUntil,
      SpacingProofs!FreshUntil, Spacing!ReportedBars, SpacingProofs!ReportedBars,
      Spacing!LatestBar, SpacingProofs!LatestBar, Spacing!FreshAgents, SpacingProofs!FreshAgents
<1>10. ASSUME NEW p PROVE Spacing!LatestBar(p) = SpacingProofs!LatestBar(p)
  BY DEF Spacing!ReportedBars, SpacingProofs!ReportedBars, Spacing!LatestBar,
      SpacingProofs!LatestBar
<1>11. ASSUME NEW p PROVE Spacing!ParentContext(p) = SpacingProofs!ParentContext(p)
  BY DEF Spacing!Len1, SpacingProofs!Len1, Spacing!ValidUntil, SpacingProofs!ValidUntil,
      Spacing!LatestDecision, SpacingProofs!LatestDecision, Spacing!Rank, SpacingProofs!Rank,
      Spacing!Parents, SpacingProofs!Parents, Spacing!ParentKey, SpacingProofs!ParentKey,
      Spacing!ParentContext, SpacingProofs!ParentContext, Spacing!Min, SpacingProofs!Min
<1>12. ASSUME NEW s PROVE Spacing!LedgerGate(s) = SpacingProofs!LedgerGate(s)
  BY DEF Spacing!Pairs, SpacingProofs!Pairs, Spacing!Symbols, SpacingProofs!Symbols, Spacing!Account,
      SpacingProofs!Account, Spacing!Loss, SpacingProofs!Loss, Spacing!Touching,
      SpacingProofs!Touching, Spacing!Notional, SpacingProofs!Notional, Spacing!LedgerGate,
      SpacingProofs!LedgerGate, Spacing!MapThenSumSet, SpacingProofs!MapThenSumSet,
      Spacing!MapThenFoldSet, SpacingProofs!MapThenFoldSet, Spacing!ToSet, SpacingProofs!ToSet
<1>13. ASSUME NEW p PROVE Spacing!Inputs(p) = SpacingProofs!Inputs(p)
  BY <1>8, <1>11, <1>12
  DEF Spacing!Inputs, SpacingProofs!Inputs
<1>14. ASSUME NEW p PROVE Spacing!Decided(p) = SpacingProofs!Decided(p)
  BY <1>13, <1>6, <1>7, <1>9, <1>10
  DEF Spacing!NoVotes, SpacingProofs!NoVotes, Spacing!NoSizing, SpacingProofs!NoSizing,
      Spacing!Skip, SpacingProofs!Skip, Spacing!Pairs, SpacingProofs!Pairs, Spacing!About,
      SpacingProofs!About, Spacing!Decided, SpacingProofs!Decided, Spacing!ToSet,
      SpacingProofs!ToSet
<1>15. ASSUME NEW p PROVE Spacing!ParentKey(p) = SpacingProofs!ParentKey(p)
  BY DEF Spacing!Len1, SpacingProofs!Len1, Spacing!ValidUntil, SpacingProofs!ValidUntil,
      Spacing!LatestDecision, SpacingProofs!LatestDecision, Spacing!Rank, SpacingProofs!Rank,
      Spacing!Parents, SpacingProofs!Parents, Spacing!ParentKey, SpacingProofs!ParentKey,
      Spacing!Min, SpacingProofs!Min
<1>16. ASSUME NEW p PROVE Spacing!Parents(p) = SpacingProofs!Parents(p)
  BY DEF Spacing!Len1, SpacingProofs!Len1, Spacing!ValidUntil, SpacingProofs!ValidUntil,
      Spacing!LatestDecision, SpacingProofs!LatestDecision, Spacing!Rank, SpacingProofs!Rank,
      Spacing!Parents, SpacingProofs!Parents
<1>17. ASSUME NEW v PROVE Spacing!Row(v) = SpacingProofs!Row(v)
  BY <1>15, <1>16
  DEF Spacing!Row, SpacingProofs!Row, Spacing!Min, SpacingProofs!Min, Spacing!Cardinality,
      SpacingProofs!Cardinality
<1>18. Spacing!ProcessPair => SpacingProofs!ProcessPair
  BY <1>14, <1>17
  DEF Spacing!SaveDecision, SpacingProofs!SaveDecision, Spacing!NewOrder,
      SpacingProofs!NewOrder, Spacing!SponsorPaperOrder, SpacingProofs!SponsorPaperOrder,
      Spacing!AfterCommit, SpacingProofs!AfterCommit, Spacing!ProcessPair,
      SpacingProofs!ProcessPair
<1>19. ASSUME NEW p, NEW b PROVE Spacing!LifecycleBar(p, b) => SpacingProofs!LifecycleBar(p, b)
  <2>1. Spacing!Account = SpacingProofs!Account
    BY DEF Spacing!Account, SpacingProofs!Account
  <2>2. Spacing!DueOrders(p, b) = SpacingProofs!DueOrders(p, b)
    BY DEF Spacing!DueOrders, SpacingProofs!DueOrders
  <2>3. Spacing!Filled(p, b) = SpacingProofs!Filled(p, b)
    BY <2>2 DEF Spacing!Filled, SpacingProofs!Filled
  <2>4. Spacing!AtOpen(p, b) = SpacingProofs!AtOpen(p, b)
    BY <2>3 DEF Spacing!Len1, SpacingProofs!Len1, Spacing!AtOpen, SpacingProofs!AtOpen
  <2>5. Spacing!Flips(p, b) = SpacingProofs!Flips(p, b)
    BY <2>3 DEF Spacing!Flips, SpacingProofs!Flips
  <2>6. Spacing!Outstanding(p, b) => SpacingProofs!Outstanding(p, b)
    BY DEF Spacing!Len1, SpacingProofs!Len1, Spacing!Anchors, SpacingProofs!Anchors, Spacing!Outstanding,
        SpacingProofs!Outstanding
  <2>7. ASSUME NEW t PROVE Spacing!SnapshotDue(t) = SpacingProofs!SnapshotDue(t)
    BY <2>1 DEF Spacing!SnapshotDue, SpacingProofs!SnapshotDue
  <2>8. ASSUME NEW t, NEW c, NEW e PROVE Spacing!SnapshotOf(t, c, e) = SpacingProofs!SnapshotOf(t, c, e)
    BY <2>1 DEF Spacing!SnapshotOf, SpacingProofs!SnapshotOf
  <2>9. Spacing!OrdersAfter(p, b) = SpacingProofs!OrdersAfter(p, b)
    BY DEF Spacing!DueOrders, SpacingProofs!DueOrders, Spacing!Filled, SpacingProofs!Filled,
        Spacing!OrdersAfter, SpacingProofs!OrdersAfter
  <2>10. ASSUME NEW e PROVE Spacing!PositionAfter(p, b, e) = SpacingProofs!PositionAfter(p, b, e)
    BY <2>4 DEF Spacing!NoPosition, SpacingProofs!NoPosition, Spacing!PositionAfter,
        SpacingProofs!PositionAfter
  <2>11. ASSUME NEW f, NEW o, NEW e PROVE Spacing!Booked(p, b, f, o, e) = SpacingProofs!Booked(p, b, f, o, e)
    BY <2>5 DEF Spacing!Booked, SpacingProofs!Booked
  <2>12. ASSUME NEW n PROVE Spacing!CashAfter(p, b, n) = SpacingProofs!CashAfter(p, b, n)
    BY <2>1, <2>3 DEF Spacing!CashAfter, SpacingProofs!CashAfter
  <2>13. ASSUME NEW c, NEW e PROVE Spacing!SnapshotsAfter(p, b, c, e) = SpacingProofs!SnapshotsAfter(p, b, c, e)
    BY <2>4, <2>7, <2>8 DEF Spacing!Len1, SpacingProofs!Len1, Spacing!SnapshotsAfter, SpacingProofs!SnapshotsAfter
  <2>14. ASSUME NEW f, NEW o, NEW e, Spacing!Settles(p, b, f, o, e) PROVE SpacingProofs!Settles(p, b, f, o, e)
    <3> DEFINE n == Spacing!Booked(p, b, f, o, e)
               c == Spacing!CashAfter(p, b, n)
               q == c + (IF Spacing!AtOpen(p, b).side # 0 /\ ~e THEN o ELSE 0)
    <3>1. SpacingProofs!Booked(p, b, f, o, e) = n
      BY <2>11
    <3>2. SpacingProofs!CashAfter(p, b, n) = c
      BY <2>12
    <3>3. c + (IF SpacingProofs!AtOpen(p, b).side # 0 /\ ~e THEN o ELSE 0) = q
      BY <2>4
    <3>4. SpacingProofs!SnapshotsAfter(p, b, c, q) = Spacing!SnapshotsAfter(p, b, c, q)
      BY <2>13
    <3>5. /\ e => Spacing!AtOpen(p, b).side # 0 /\ <<p, b>> \notin Spacing!AtOpen(p, b).held
          /\ q > 0
          /\ position' = [position EXCEPT ![p[1]] = Spacing!PositionAfter(p, b, e)]
          /\ realized' = [realized EXCEPT ![(b * Spacing!Len1(p)) \div SpacingSetup.DayLen] = @ + n]
          /\ snapshots' = Spacing!SnapshotsAfter(p, b, c, q)
      BY <2>14 DEF Spacing!Settles
    <3> HIDE DEF n, c, q
    <3>6. e => SpacingProofs!AtOpen(p, b).side # 0 /\ <<p, b>> \notin SpacingProofs!AtOpen(p, b).held
      BY <2>4, <3>5
    <3>7. position' = [position EXCEPT ![p[1]] = SpacingProofs!PositionAfter(p, b, e)]
      BY <2>10, <3>5
    <3>8. realized' = [realized EXCEPT ![(b * SpacingProofs!Len1(p)) \div SpacingSetup.DayLen] = @ + n]
      BY <3>5 DEF Spacing!Len1, SpacingProofs!Len1
    <3>9. snapshots' = SpacingProofs!SnapshotsAfter(p, b, c, q)
      BY <3>4, <3>5
    <3> QED
      BY <3>1, <3>2, <3>3, <3>5, <3>6, <3>7, <3>8, <3>9 DEF SpacingProofs!Settles
  <2> QED
    BY <2>6, <2>9, <2>14
    DEF Spacing!store, SpacingProofs!store, Spacing!work, SpacingProofs!work, Spacing!LifecycleBar,
        SpacingProofs!LifecycleBar
<1>20. Spacing!Environment => SpacingProofs!Environment
  BY <1>19
  DEF Spacing!Pairs, SpacingProofs!Pairs, Spacing!Buckets, SpacingProofs!Buckets, Spacing!Len1,
      SpacingProofs!Len1, Spacing!store, SpacingProofs!store, Spacing!ledger, SpacingProofs!ledger,
      Spacing!work, SpacingProofs!work, Spacing!AgentsReport, SpacingProofs!AgentsReport,
      Spacing!ReplayDecision, SpacingProofs!ReplayDecision, Spacing!LifecycleCancels,
      SpacingProofs!LifecycleCancels, Spacing!Tick, SpacingProofs!Tick, Spacing!Environment,
      SpacingProofs!Environment, Spacing!ToSet, SpacingProofs!ToSet, Spacing!Cardinality,
      SpacingProofs!Cardinality
<1>21. Spacing!Loop => SpacingProofs!Loop
  BY DEF Spacing!store, SpacingProofs!store, Spacing!ledger, SpacingProofs!ledger,
      Spacing!NoResult, SpacingProofs!NoResult, Spacing!Poll, SpacingProofs!Poll,
      Spacing!EndBatch, SpacingProofs!EndBatch, Spacing!EmitDecision,
      SpacingProofs!EmitDecision, Spacing!EmitRiskBrakeAlert, SpacingProofs!EmitRiskBrakeAlert,
      Spacing!Restart, SpacingProofs!Restart, Spacing!Loop, SpacingProofs!Loop,
      Spacing!MapThenFoldSet, SpacingProofs!MapThenFoldSet, Spacing!ToSet, SpacingProofs!ToSet,
      Spacing!FoldLeft, SpacingProofs!FoldLeft, Spacing!Max, SpacingProofs!Max
<1>22. Spacing!Faults => SpacingProofs!Faults
  BY DEF Spacing!store, SpacingProofs!store, Spacing!ledger, SpacingProofs!ledger,
      Spacing!NoResult, SpacingProofs!NoResult, Spacing!Stopped, SpacingProofs!Stopped,
      Spacing!Raises, SpacingProofs!Raises, Spacing!ProcessFails, SpacingProofs!ProcessFails,
      Spacing!EmitFails, SpacingProofs!EmitFails, Spacing!Crash, SpacingProofs!Crash,
      Spacing!Faults, SpacingProofs!Faults
<1>23. Spacing!ScanAll => SpacingProofs!ScanAll
  BY DEF Spacing!store, SpacingProofs!store, Spacing!ledger, SpacingProofs!ledger, Spacing!ScanAll,
      SpacingProofs!ScanAll
<1>24. Spacing!Next => SpacingProofs!Next
  BY <1>20, <1>21, <1>18, <1>23, <1>22
  DEF Spacing!Next, SpacingProofs!Next
<1>25. SpacingProofs!TypeOK => Spacing!TypeOK
  BY DEF Spacing!Pairs, SpacingProofs!Pairs, Spacing!Buckets, SpacingProofs!Buckets, Spacing!Keys,
      SpacingProofs!Keys, Spacing!TypeOK, SpacingProofs!TypeOK, Spacing!ToSet,
      SpacingProofs!ToSet
<1>26. SpacingProofs!PapersAreSpaced => Spacing!PapersAreSpaced
  BY DEF Spacing!PapersAreSpaced, SpacingProofs!PapersAreSpaced
<1> QED
  BY <1>1, <1>2, <1>24, <1>25, <1>26
  DEF engineVars, SpacingProofs!vars, SpacingProofs!store, SpacingProofs!ledger, SpacingProofs!work

\* What DecisionEngineProofs is about is the part "ledger".
LEMMA LedgerIsProved ==
  /\ Ledger!EngineAssumption => LedgerProofs!EngineAssumption
  /\ Ledger!Init => LedgerProofs!Init
  /\ [Ledger!Next]_engineVars => [LedgerProofs!Next]_LedgerProofs!vars
  /\ LedgerProofs!TypeOK => Ledger!TypeOK
  /\ LedgerProofs!LossesStopPaper => Ledger!LossesStopPaper
  /\ LedgerProofs!OneOrderPerDecision => Ledger!OneOrderPerDecision
<1>1. Ledger!EngineAssumption => LedgerProofs!EngineAssumption
  BY DEF Ledger!DirectionalAgents, LedgerProofs!DirectionalAgents, Ledger!Percent,
      LedgerProofs!Percent, Ledger!Pairs, LedgerProofs!Pairs, Ledger!Len1, LedgerProofs!Len1,
      Ledger!EngineAssumption, LedgerProofs!EngineAssumption, Ledger!ToSet, LedgerProofs!ToSet
<1>2. Ledger!Init => LedgerProofs!Init
  BY DEF Ledger!Pairs, LedgerProofs!Pairs, Ledger!Symbols, LedgerProofs!Symbols, Ledger!Days,
      LedgerProofs!Days, Ledger!NoResult, LedgerProofs!NoResult, Ledger!NoPosition,
      LedgerProofs!NoPosition, Ledger!Init, LedgerProofs!Init, Ledger!ToSet, LedgerProofs!ToSet
<1>3. ASSUME NEW x, NEW r PROVE Ledger!Fuse(x, r) = LedgerProofs!Fuse(x, r)
  BY DEF Ledger!DirectionalAgents, LedgerProofs!DirectionalAgents, Ledger!WeightsFor,
      LedgerProofs!WeightsFor, Ledger!Voters, LedgerProofs!Voters, Ledger!Vote,
      LedgerProofs!Vote, Ledger!DirectionForScore, LedgerProofs!DirectionForScore,
      Ledger!NoVotes, LedgerProofs!NoVotes, Ledger!Fuse, LedgerProofs!Fuse,
      Ledger!MapThenSumSet, LedgerProofs!MapThenSumSet, Ledger!MapThenFoldSet,
      LedgerProofs!MapThenFoldSet
<1>4. ASSUME NEW f, NEW c PROVE Ledger!ApplyContext(f, c) = LedgerProofs!ApplyContext(f, c)
  BY DEF Ledger!DirectionForScore, LedgerProofs!DirectionForScore, Ledger!ApplyContext,
      LedgerProofs!ApplyContext
<1>5. ASSUME NEW a, NEW b, NEW c, NEW d PROVE Ledger!Assess(a, b, c, d) = LedgerProofs!Assess(a, b, c, d)
  BY DEF Ledger!ComputeSizing, LedgerProofs!ComputeSizing, Ledger!GatesOk, LedgerProofs!GatesOk,
      Ledger!NoSizing, LedgerProofs!NoSizing, Ledger!Assess, LedgerProofs!Assess, Ledger!Min,
      LedgerProofs!Min
<1>6. ASSUME NEW x PROVE Ledger!ComputeDecision(x) = LedgerProofs!ComputeDecision(x)
  BY <1>3, <1>4, <1>5
  DEF Ledger!DirectionalAgents, LedgerProofs!DirectionalAgents, Ledger!AgentFamilies,
      LedgerProofs!AgentFamilies, Ledger!GateNames, LedgerProofs!GateNames, Ledger!NoSizing,
      LedgerProofs!NoSizing, Ledger!FirstFailing, LedgerProofs!FirstFailing, Ledger!Coverage,
      LedgerProofs!Coverage, Ledger!Skip, LedgerProofs!Skip, Ledger!Persist,
      LedgerProofs!Persist, Ledger!ComputeDecision, LedgerProofs!ComputeDecision,
      Ledger!Cardinality, LedgerProofs!Cardinality
<1>7. ASSUME NEW p, NEW s PROVE Ledger!LatestDecision(p, s) = LedgerProofs!LatestDecision(p, s)
  BY DEF Ledger!Len1, LedgerProofs!Len1, Ledger!ValidUntil, LedgerProofs!ValidUntil,
      Ledger!LatestDecision, LedgerProofs!LatestDecision
<1>8. ASSUME NEW p PROVE Ledger!FreshSignals(p) = LedgerProofs!FreshSignals(p)
  BY DEF Ledger!DirectionalAgents, LedgerProofs!DirectionalAgents, Ledger!AgentFamilies,
      LedgerProofs!AgentFamilies, Ledger!Len1, LedgerProofs!Len1, Ledger!FreshUntil,
      LedgerProofs!FreshUntil, Ledger!ReportedBars, LedgerProofs!ReportedBars, Ledger!LatestBar,
      LedgerProofs!LatestBar, Ledger!FreshAgents, LedgerProofs!FreshAgents, Ledger!FreshSignals,
      LedgerProofs!FreshSignals
<1>9. ASSUME NEW p PROVE Ledger!FreshAgents(p) = LedgerProofs!FreshAgents(p)
  BY DEF Ledger!DirectionalAgents, LedgerProofs!DirectionalAgents, Ledger!AgentFamilies,
      LedgerProofs!AgentFamilies, Ledger!Len1, LedgerProofs!Len1, Ledger!FreshUntil,
      LedgerProofs!FreshUntil, Ledger!ReportedBars, LedgerProofs!ReportedBars, Ledger!LatestBar,
      LedgerProofs!LatestBar, Ledger!FreshAgents, LedgerProofs!FreshAgents
<1>10. ASSUME NEW p PROVE Ledger!LatestBar(p) = LedgerProofs!LatestBar(p)
  BY DEF Ledger!ReportedBars, LedgerProofs!ReportedBars, Ledger!LatestBar, LedgerProofs!LatestBar
<1>11. ASSUME NEW p PROVE Ledger!ParentContext(p) = LedgerProofs!ParentContext(p)
  BY DEF Ledger!Len1, LedgerProofs!Len1, Ledger!ValidUntil, LedgerProofs!ValidUntil,
      Ledger!LatestDecision, LedgerProofs!LatestDecision, Ledger!Rank, LedgerProofs!Rank,
      Ledger!Parents, LedgerProofs!Parents, Ledger!ParentKey, LedgerProofs!ParentKey,
      Ledger!ParentContext, LedgerProofs!ParentContext, Ledger!Min, LedgerProofs!Min
<1>12. ASSUME NEW s PROVE Ledger!LedgerGate(s) = LedgerProofs!LedgerGate(s)
  BY DEF Ledger!Pairs, LedgerProofs!Pairs, Ledger!Symbols, LedgerProofs!Symbols, Ledger!Account,
      LedgerProofs!Account, Ledger!Loss, LedgerProofs!Loss, Ledger!Touching, LedgerProofs!Touching,
      Ledger!Notional, LedgerProofs!Notional, Ledger!LedgerGate, LedgerProofs!LedgerGate,
      Ledger!MapThenSumSet, LedgerProofs!MapThenSumSet, Ledger!MapThenFoldSet,
      LedgerProofs!MapThenFoldSet, Ledger!ToSet, LedgerProofs!ToSet
<1>13. ASSUME NEW p PROVE Ledger!Inputs(p) = LedgerProofs!Inputs(p)
  BY <1>8, <1>11, <1>12
  DEF Ledger!Inputs, LedgerProofs!Inputs
<1>14. ASSUME NEW p PROVE Ledger!Decided(p) = LedgerProofs!Decided(p)
  BY <1>13, <1>6, <1>7, <1>9, <1>10
  DEF Ledger!NoVotes, LedgerProofs!NoVotes, Ledger!NoSizing, LedgerProofs!NoSizing, Ledger!Skip,
      LedgerProofs!Skip, Ledger!Pairs, LedgerProofs!Pairs, Ledger!About, LedgerProofs!About,
      Ledger!Decided, LedgerProofs!Decided, Ledger!ToSet, LedgerProofs!ToSet
<1>15. ASSUME NEW p PROVE Ledger!ParentKey(p) = LedgerProofs!ParentKey(p)
  BY DEF Ledger!Len1, LedgerProofs!Len1, Ledger!ValidUntil, LedgerProofs!ValidUntil,
      Ledger!LatestDecision, LedgerProofs!LatestDecision, Ledger!Rank, LedgerProofs!Rank,
      Ledger!Parents, LedgerProofs!Parents, Ledger!ParentKey, LedgerProofs!ParentKey,
      Ledger!Min, LedgerProofs!Min
<1>16. ASSUME NEW p PROVE Ledger!Parents(p) = LedgerProofs!Parents(p)
  BY DEF Ledger!Len1, LedgerProofs!Len1, Ledger!ValidUntil, LedgerProofs!ValidUntil,
      Ledger!LatestDecision, LedgerProofs!LatestDecision, Ledger!Rank, LedgerProofs!Rank,
      Ledger!Parents, LedgerProofs!Parents
<1>17. ASSUME NEW v PROVE Ledger!Row(v) = LedgerProofs!Row(v)
  BY <1>15, <1>16
  DEF Ledger!Row, LedgerProofs!Row, Ledger!Min, LedgerProofs!Min, Ledger!Cardinality,
      LedgerProofs!Cardinality
<1>18. Ledger!ProcessPair => LedgerProofs!ProcessPair
  BY <1>14, <1>17
  DEF Ledger!SaveDecision, LedgerProofs!SaveDecision, Ledger!NewOrder, LedgerProofs!NewOrder,
      Ledger!SponsorPaperOrder, LedgerProofs!SponsorPaperOrder, Ledger!AfterCommit,
      LedgerProofs!AfterCommit, Ledger!ProcessPair, LedgerProofs!ProcessPair
<1>19. ASSUME NEW p, NEW b PROVE Ledger!LifecycleBar(p, b) => LedgerProofs!LifecycleBar(p, b)
  <2>1. Ledger!Account = LedgerProofs!Account
    BY DEF Ledger!Account, LedgerProofs!Account
  <2>2. Ledger!DueOrders(p, b) = LedgerProofs!DueOrders(p, b)
    BY DEF Ledger!DueOrders, LedgerProofs!DueOrders
  <2>3. Ledger!Filled(p, b) = LedgerProofs!Filled(p, b)
    BY <2>2 DEF Ledger!Filled, LedgerProofs!Filled
  <2>4. Ledger!AtOpen(p, b) = LedgerProofs!AtOpen(p, b)
    BY <2>3 DEF Ledger!Len1, LedgerProofs!Len1, Ledger!AtOpen, LedgerProofs!AtOpen
  <2>5. Ledger!Flips(p, b) = LedgerProofs!Flips(p, b)
    BY <2>3 DEF Ledger!Flips, LedgerProofs!Flips
  <2>6. Ledger!Outstanding(p, b) => LedgerProofs!Outstanding(p, b)
    BY DEF Ledger!Len1, LedgerProofs!Len1, Ledger!Anchors, LedgerProofs!Anchors, Ledger!Outstanding,
        LedgerProofs!Outstanding
  <2>7. ASSUME NEW t PROVE Ledger!SnapshotDue(t) = LedgerProofs!SnapshotDue(t)
    BY <2>1 DEF Ledger!SnapshotDue, LedgerProofs!SnapshotDue
  <2>8. ASSUME NEW t, NEW c, NEW e PROVE Ledger!SnapshotOf(t, c, e) = LedgerProofs!SnapshotOf(t, c, e)
    BY <2>1 DEF Ledger!SnapshotOf, LedgerProofs!SnapshotOf
  <2>9. Ledger!OrdersAfter(p, b) = LedgerProofs!OrdersAfter(p, b)
    BY DEF Ledger!DueOrders, LedgerProofs!DueOrders, Ledger!Filled, LedgerProofs!Filled,
        Ledger!OrdersAfter, LedgerProofs!OrdersAfter
  <2>10. ASSUME NEW e PROVE Ledger!PositionAfter(p, b, e) = LedgerProofs!PositionAfter(p, b, e)
    BY <2>4 DEF Ledger!NoPosition, LedgerProofs!NoPosition, Ledger!PositionAfter, LedgerProofs!PositionAfter
  <2>11. ASSUME NEW f, NEW o, NEW e PROVE Ledger!Booked(p, b, f, o, e) = LedgerProofs!Booked(p, b, f, o, e)
    BY <2>5 DEF Ledger!Booked, LedgerProofs!Booked
  <2>12. ASSUME NEW n PROVE Ledger!CashAfter(p, b, n) = LedgerProofs!CashAfter(p, b, n)
    BY <2>1, <2>3 DEF Ledger!CashAfter, LedgerProofs!CashAfter
  <2>13. ASSUME NEW c, NEW e PROVE Ledger!SnapshotsAfter(p, b, c, e) = LedgerProofs!SnapshotsAfter(p, b, c, e)
    BY <2>4, <2>7, <2>8 DEF Ledger!Len1, LedgerProofs!Len1, Ledger!SnapshotsAfter, LedgerProofs!SnapshotsAfter
  <2>14. ASSUME NEW f, NEW o, NEW e, Ledger!Settles(p, b, f, o, e) PROVE LedgerProofs!Settles(p, b, f, o, e)
    <3> DEFINE n == Ledger!Booked(p, b, f, o, e)
               c == Ledger!CashAfter(p, b, n)
               q == c + (IF Ledger!AtOpen(p, b).side # 0 /\ ~e THEN o ELSE 0)
    <3>1. LedgerProofs!Booked(p, b, f, o, e) = n
      BY <2>11
    <3>2. LedgerProofs!CashAfter(p, b, n) = c
      BY <2>12
    <3>3. c + (IF LedgerProofs!AtOpen(p, b).side # 0 /\ ~e THEN o ELSE 0) = q
      BY <2>4
    <3>4. LedgerProofs!SnapshotsAfter(p, b, c, q) = Ledger!SnapshotsAfter(p, b, c, q)
      BY <2>13
    <3>5. /\ e => Ledger!AtOpen(p, b).side # 0 /\ <<p, b>> \notin Ledger!AtOpen(p, b).held
          /\ q > 0
          /\ position' = [position EXCEPT ![p[1]] = Ledger!PositionAfter(p, b, e)]
          /\ realized' = [realized EXCEPT ![(b * Ledger!Len1(p)) \div LedgerSetup.DayLen] = @ + n]
          /\ snapshots' = Ledger!SnapshotsAfter(p, b, c, q)
      BY <2>14 DEF Ledger!Settles
    <3> HIDE DEF n, c, q
    <3>6. e => LedgerProofs!AtOpen(p, b).side # 0 /\ <<p, b>> \notin LedgerProofs!AtOpen(p, b).held
      BY <2>4, <3>5
    <3>7. position' = [position EXCEPT ![p[1]] = LedgerProofs!PositionAfter(p, b, e)]
      BY <2>10, <3>5
    <3>8. realized' = [realized EXCEPT ![(b * LedgerProofs!Len1(p)) \div LedgerSetup.DayLen] = @ + n]
      BY <3>5 DEF Ledger!Len1, LedgerProofs!Len1
    <3>9. snapshots' = LedgerProofs!SnapshotsAfter(p, b, c, q)
      BY <3>4, <3>5
    <3> QED
      BY <3>1, <3>2, <3>3, <3>5, <3>6, <3>7, <3>8, <3>9 DEF LedgerProofs!Settles
  <2> QED
    BY <2>6, <2>9, <2>14
    DEF Ledger!store, LedgerProofs!store, Ledger!work, LedgerProofs!work, Ledger!LifecycleBar,
        LedgerProofs!LifecycleBar
<1>20. Ledger!Environment => LedgerProofs!Environment
  BY <1>19
  DEF Ledger!Pairs, LedgerProofs!Pairs, Ledger!Buckets, LedgerProofs!Buckets, Ledger!Len1,
      LedgerProofs!Len1, Ledger!store, LedgerProofs!store, Ledger!ledger, LedgerProofs!ledger,
      Ledger!work, LedgerProofs!work, Ledger!AgentsReport, LedgerProofs!AgentsReport,
      Ledger!ReplayDecision, LedgerProofs!ReplayDecision, Ledger!LifecycleCancels,
      LedgerProofs!LifecycleCancels, Ledger!Tick, LedgerProofs!Tick, Ledger!Environment,
      LedgerProofs!Environment, Ledger!ToSet, LedgerProofs!ToSet, Ledger!Cardinality,
      LedgerProofs!Cardinality
<1>21. Ledger!Loop => LedgerProofs!Loop
  BY DEF Ledger!store, LedgerProofs!store, Ledger!ledger, LedgerProofs!ledger, Ledger!NoResult,
      LedgerProofs!NoResult, Ledger!Poll, LedgerProofs!Poll, Ledger!EndBatch,
      LedgerProofs!EndBatch, Ledger!EmitDecision, LedgerProofs!EmitDecision,
      Ledger!EmitRiskBrakeAlert, LedgerProofs!EmitRiskBrakeAlert, Ledger!Restart,
      LedgerProofs!Restart, Ledger!Loop, LedgerProofs!Loop, Ledger!MapThenFoldSet,
      LedgerProofs!MapThenFoldSet, Ledger!ToSet, LedgerProofs!ToSet, Ledger!FoldLeft,
      LedgerProofs!FoldLeft, Ledger!Max, LedgerProofs!Max
<1>22. Ledger!Faults => LedgerProofs!Faults
  BY DEF Ledger!store, LedgerProofs!store, Ledger!ledger, LedgerProofs!ledger, Ledger!NoResult,
      LedgerProofs!NoResult, Ledger!Stopped, LedgerProofs!Stopped, Ledger!Raises,
      LedgerProofs!Raises, Ledger!ProcessFails, LedgerProofs!ProcessFails, Ledger!EmitFails,
      LedgerProofs!EmitFails, Ledger!Crash, LedgerProofs!Crash, Ledger!Faults,
      LedgerProofs!Faults
<1>23. Ledger!ScanAll => LedgerProofs!ScanAll
  BY DEF Ledger!store, LedgerProofs!store, Ledger!ledger, LedgerProofs!ledger, Ledger!ScanAll,
      LedgerProofs!ScanAll
<1>24. Ledger!Next => LedgerProofs!Next
  BY <1>20, <1>21, <1>18, <1>23, <1>22
  DEF Ledger!Next, LedgerProofs!Next
<1>25. LedgerProofs!TypeOK => Ledger!TypeOK
  BY DEF Ledger!Pairs, LedgerProofs!Pairs, Ledger!Buckets, LedgerProofs!Buckets, Ledger!Keys,
      LedgerProofs!Keys, Ledger!TypeOK, LedgerProofs!TypeOK, Ledger!ToSet, LedgerProofs!ToSet
<1>26. LedgerProofs!LossesStopPaper => Ledger!LossesStopPaper
  BY DEF Ledger!Loss, LedgerProofs!Loss, Ledger!EquityAt, LedgerProofs!EquityAt,
      Ledger!LossesStopPaper, LedgerProofs!LossesStopPaper
<1>27. LedgerProofs!OneOrderPerDecision => Ledger!OneOrderPerDecision
  BY DEF Ledger!OneOrderPerDecision, LedgerProofs!OneOrderPerDecision
<1> QED
  BY <1>1, <1>2, <1>24, <1>25, <1>26, <1>27
  DEF engineVars, LedgerProofs!vars, LedgerProofs!store, LedgerProofs!ledger, LedgerProofs!work

\* What the ledger part and the spacing part keep from step to step.
LedgerKept == LedgerProofs!OrderRecords /\ LedgerProofs!OneOrderPerDecision

\* The first writer of a key wins.
LEMMA PartDecisionsStay ==
  ASSUME [(part = "spacing" /\ Spacing!Next) \/ (part = "ledger" /\ Ledger!Next)]_engineVars
  PROVE  \A k \in DOMAIN decisions : k \in DOMAIN decisions' /\ decisions'[k] = decisions[k]
<1>1. CASE UNCHANGED decisions
  BY <1>1
<1>2. CASE [Spacing!Next]_engineVars
  <2>1. SpacingProofs!Next \/ UNCHANGED decisions
    BY <1>2, SpacingIsProved DEF SpacingProofs!vars, SpacingProofs!store
  <2> QED
    BY <1>1, <2>1, SpacingProofs!DecisionsStay,
       WeightsAssumption, ThresholdAssumption, ContextAssumption, ParamsAssumption
    DEF DirectionalAgents, SpacingProofs!DirectionalAgents, Percent, SpacingProofs!Percent
<1>3. CASE [Ledger!Next]_engineVars
  <2>1. LedgerProofs!Next \/ UNCHANGED decisions
    BY <1>3, LedgerIsProved DEF LedgerProofs!vars, LedgerProofs!store
  <2> QED
    BY <1>1, <2>1, LedgerProofs!DecisionsStay,
       WeightsAssumption, ThresholdAssumption, ContextAssumption, ParamsAssumption
    DEF DirectionalAgents, LedgerProofs!DirectionalAgents, Percent, LedgerProofs!Percent
<1> QED BY <1>1, <1>2, <1>3 DEF engineVars

\* However triggers, scans, replays and restarts repeat a bar, it is decided once,
\* its decision never changes and has one order, and with a cooldown two PAPER
\* decisions of a pair are further apart than it.
THEOREM PipelineDecisions ==
  ASSUME Spacing!EngineAssumption, SpacingSetup.Cooldown > 0
  PROVE  PipelineSpec => DecidedOnce
<1> DEFINE A == Is("ledger") => LedgerKept
           B == Is("spacing") => SpacingProofs!SpacingInv
<1>1. PipelineInit => A /\ B
  <2> SUFFICES ASSUME PipelineInit PROVE A /\ B
    OBVIOUS
  <2>1. Is("ledger") => LedgerProofs!Init
    BY LedgerIsProved DEF PipelineInit, Is
  <2>2. A
    BY <2>1, LedgerProofs!OrdersInit,
       WeightsAssumption, ThresholdAssumption, ContextAssumption, ParamsAssumption
    DEF LedgerKept, DirectionalAgents, LedgerProofs!DirectionalAgents, Percent, LedgerProofs!Percent
  <2>3. Is("spacing") => SpacingProofs!Init
    BY SpacingIsProved DEF PipelineInit, Is
  <2>4. B
    BY <2>3, SpacingProofs!SpacingInit,
       WeightsAssumption, ThresholdAssumption, ContextAssumption, ParamsAssumption
    DEF DirectionalAgents, SpacingProofs!DirectionalAgents, Percent, SpacingProofs!Percent
  <2> QED BY <2>2, <2>4
<1>2. A /\ B /\ [PipelineNext]_allVars => A' /\ B'
  <2> SUFFICES ASSUME A, B, [PipelineNext]_allVars PROVE A' /\ B'
    OBVIOUS
  <2>1. (Is("ledger")' <=> Is("ledger")) /\ (Is("spacing")' <=> Is("spacing"))
    BY OtherPartsWait DEF Is
  <2>2. CASE Is("ledger")
    <3>1. [Ledger!Next]_engineVars
      BY <2>2, OtherPartsWait DEF Is
    <3>2. [LedgerProofs!Next]_LedgerProofs!vars
      BY <3>1, LedgerIsProved
    <3>3. LedgerKept'
      BY <2>2, <3>2, LedgerProofs!OrdersStep,
         WeightsAssumption, ThresholdAssumption, ContextAssumption, ParamsAssumption
      DEF LedgerKept, DirectionalAgents, LedgerProofs!DirectionalAgents, Percent, LedgerProofs!Percent
    <3> QED BY <2>1, <2>2, <3>3 DEF Is
  <2>3. CASE Is("spacing")
    <3>1. [Spacing!Next]_engineVars
      BY <2>3, OtherPartsWait DEF Is
    <3>2. [SpacingProofs!Next]_SpacingProofs!vars /\ SpacingProofs!EngineAssumption
      BY <3>1, SpacingIsProved
    <3>3. SpacingProofs!SpacingInv'
      BY <2>3, <3>2, SpacingProofs!SpacingStep,
         WeightsAssumption, ThresholdAssumption, ContextAssumption, ParamsAssumption
      DEF DirectionalAgents, SpacingProofs!DirectionalAgents, Percent, SpacingProofs!Percent
    <3> QED BY <2>1, <2>3, <3>3 DEF Is
  <2> QED BY <2>1, <2>2, <2>3
<1> DEFINE Safe == /\ part = "ledger" => Ledger!OneOrderPerDecision
                   /\ part = "spacing" => Spacing!PapersAreSpaced
           Kept == \A k \in DOMAIN decisions : k \in DOMAIN decisions' /\ decisions'[k] = decisions[k]
<1>3. A /\ B => Safe
  BY LedgerIsProved, SpacingIsProved DEF LedgerKept, SpacingProofs!SpacingInv, Is
<1>4. [PipelineNext]_allVars => [Kept]_Ledger!vars
  BY OtherPartsWait, PartDecisionsStay
<1> HIDE DEF A, B, Kept, Safe
<1>5. PipelineSpec => []Safe /\ [][Kept]_Ledger!vars
  BY <1>1, <1>2, <1>3, <1>4, PTL DEF PipelineSpec
<1>6. DecidedOnce <=> []Safe /\ Ledger!DecisionIsFinal
  BY DEF DecidedOnce, Safe
<1>7. Ledger!DecisionIsFinal <=> [][Kept]_Ledger!vars
  BY DEF Ledger!DecisionIsFinal, Kept
<1> QED BY <1>5, <1>6, <1>7

----------------------------------------------------------------------------
(* What a verdict promises.                                                *)

Total(w, S) == MapThenSumSet(LAMBDA a : w[a], S)

\* Fusion and risk of the verdict are those of the engine.
LEMMA VerdictIsProved ==
  ASSUME NEW x, NEW r, NEW f, NEW c, NEW d, NEW w, NEW S
  PROVE  /\ Fuse(x, r) = SpacingProofs!Fuse(x, r)
         /\ ApplyContext(f, c) = SpacingProofs!ApplyContext(f, c)
         /\ ComputeDecision(d) = SpacingProofs!ComputeDecision(d)
         /\ Total(w, S) = SpacingProofs!Sum(w, S) /\ WeightsFor(r) = SpacingProofs!WeightsFor(r)
         /\ Voters(x) = SpacingProofs!Voters(x)
<1>1. ASSUME NEW y, NEW s PROVE Fuse(y, s) = SpacingProofs!Fuse(y, s)
  BY DEF DirectionalAgents, SpacingProofs!DirectionalAgents, WeightsFor, SpacingProofs!WeightsFor,
      Voters, SpacingProofs!Voters, Vote, SpacingProofs!Vote, DirectionForScore,
      SpacingProofs!DirectionForScore, NoVotes, SpacingProofs!NoVotes, Fuse, SpacingProofs!Fuse,
      MapThenSumSet, SpacingProofs!MapThenSumSet, MapThenFoldSet, SpacingProofs!MapThenFoldSet
<1>2. ASSUME NEW g, NEW e PROVE ApplyContext(g, e) = SpacingProofs!ApplyContext(g, e)
  BY DEF DirectionForScore, SpacingProofs!DirectionForScore, ApplyContext,
      SpacingProofs!ApplyContext
<1>3. ASSUME NEW a, NEW b, NEW p, NEW q PROVE Assess(a, b, p, q) = SpacingProofs!Assess(a, b, p, q)
  BY DEF ComputeSizing, SpacingProofs!ComputeSizing, GatesOk, SpacingProofs!GatesOk, NoSizing,
      SpacingProofs!NoSizing, Assess, SpacingProofs!Assess, Min, SpacingProofs!Min
<1>4. ComputeDecision(d) = SpacingProofs!ComputeDecision(d)
  BY <1>1, <1>2, <1>3
  DEF DirectionalAgents, SpacingProofs!DirectionalAgents, AgentFamilies,
      SpacingProofs!AgentFamilies, GateNames, SpacingProofs!GateNames, NoSizing,
      SpacingProofs!NoSizing, FirstFailing, SpacingProofs!FirstFailing, Coverage,
      SpacingProofs!Coverage, Skip, SpacingProofs!Skip, Persist, SpacingProofs!Persist,
      ComputeDecision, SpacingProofs!ComputeDecision, Cardinality, SpacingProofs!Cardinality
<1>5. Total(w, S) = SpacingProofs!Sum(w, S)
  BY DEF Total, SpacingProofs!Sum, MapThenSumSet, SpacingProofs!MapThenSumSet, MapThenFoldSet,
      SpacingProofs!MapThenFoldSet
<1>6. WeightsFor(r) = SpacingProofs!WeightsFor(r) /\ Voters(x) = SpacingProofs!Voters(x)
  BY DEF WeightsFor, SpacingProofs!WeightsFor, Voters, SpacingProofs!Voters, DirectionalAgents,
      SpacingProofs!DirectionalAgents
<1> QED BY <1>1, <1>2, <1>4, <1>5, <1>6

\* The inputs are well-formed.
InputRecord ==
  in = [signals |-> in.signals, regime |-> in.regime, context |-> in.context, atr |-> in.atr,
        price |-> in.price, gate |-> in.gate]
InputsInv == SpacingProofs!InputOk(in) /\ InputRecord

\* The properties of a verdict, from those of fusion and risk.
LEMMA VerdictHolds ==
  ASSUME InputsInv
  PROVE  ScoreIsAMean /\ ContextNeverReverses /\ PaperIsBackedByVotes /\ PaperIsRiskValidated
<1>0. /\ SpacingProofs!InputOk(in)
      /\ \A a \in DOMAIN in.signals : in.signals[a] \in SpacingProofs!VoteRecords
      /\ in.context \in SpacingProofs!VoteRecords
  BY DEF InputsInv, SpacingProofs!InputOk
<1> DEFINE F == SpacingProofs!Fuse(in.signals, in.regime)
           H == SpacingProofs!ApplyContext(F, in.context)
           O == SpacingProofs!ComputeDecision(in)
<1>1. Fused = F /\ Final = H /\ Outcome = O
  BY VerdictIsProved DEF Fused, Final, Outcome
<1>2. ScoreIsAMean
  <2> DEFINE cast == {SpacingProofs!Vote(in.signals, a) : a \in F.voters}
  <2>1. cast # {} => F.num >= SpacingProofs!Min(cast) * F.den /\ F.num <= SpacingProofs!Max(cast) * F.den
    BY <1>0, SpacingProofs!MeanOfVotes,
       WeightsAssumption, ThresholdAssumption, ContextAssumption,
       ParamsAssumption
    DEF DirectionalAgents, SpacingProofs!DirectionalAgents, Percent, SpacingProofs!Percent
  <2>2. {Vote(in.signals, a) : a \in Fused.voters} = cast
    BY <1>1 DEF Vote, SpacingProofs!Vote
  <2>3. Min(cast) = SpacingProofs!Min(cast) /\ Max(cast) = SpacingProofs!Max(cast)
    BY DEF Min, Max, SpacingProofs!Min, SpacingProofs!Max
  <2> HIDE DEF cast, F
  <2> QED BY <1>1, <2>1, <2>2, <2>3 DEF ScoreIsAMean
<1>3. /\ F.dir * H.dir # -1 /\ H.voters = SpacingProofs!Voters(in.signals)
  BY <1>0, SpacingProofs!FinalFacts,
     WeightsAssumption, ThresholdAssumption, ContextAssumption,
     ParamsAssumption
  DEF DirectionalAgents, SpacingProofs!DirectionalAgents, Percent, SpacingProofs!Percent
<1>4. ContextNeverReverses
  BY <1>1, <1>3 DEF ContextNeverReverses
<1>5. PaperIsBackedByVotes
  <2> DEFINE w == WeightsFor(in.regime)
             for == {a \in Final.voters : in.signals[a].dir = Final.dir}
  <2>1. PaperIsBackedByVotes <=>
          (Outcome.status = "PAPER" => 100 * Total(w, for) >= AgreementMin * Total(w, Final.voters))
    BY DEF PaperIsBackedByVotes, Total
  <2>2. SUFFICES ASSUME Outcome.status = "PAPER"
                 PROVE  100 * Total(w, for) >= AgreementMin * Total(w, Final.voters)
    BY <2>1
  <2>3. 100 * SpacingProofs!Sum(SpacingProofs!WeightsFor(in.regime), SpacingProofs!Aligned(in.signals, H.dir))
          >= AgreementMin * SpacingProofs!Sum(SpacingProofs!WeightsFor(in.regime), H.voters)
    BY <1>0, <1>1, <2>2, SpacingProofs!BackedByVotes,
       WeightsAssumption, ThresholdAssumption, ContextAssumption,
       ParamsAssumption
    DEF DirectionalAgents, SpacingProofs!DirectionalAgents, Percent, SpacingProofs!Percent
  <2>4. for = SpacingProofs!Aligned(in.signals, H.dir)
    BY <1>1, <1>3 DEF SpacingProofs!Aligned
  <2>5. w = SpacingProofs!WeightsFor(in.regime)
    BY VerdictIsProved
  <2> HIDE DEF w, for, H
  <2>6. Total(w, for) = SpacingProofs!Sum(w, for) /\ Total(w, Final.voters) = SpacingProofs!Sum(w, Final.voters)
    BY VerdictIsProved
  <2> QED BY <1>1, <2>3, <2>4, <2>5, <2>6
<1>6. PaperIsRiskValidated
  <2> SUFFICES ASSUME O.status = "PAPER" PROVE PaperIsRiskValidated
    BY <1>1 DEF PaperIsRiskValidated
  <2>1. LET z == O.sizing
        IN /\ 4 * CoverageMin <= 100 * SpacingProofs!Cardinality(DOMAIN in.signals)
           /\ in.atr > 0 /\ in.price > 0 /\ Params.enabled
           /\ in.gate.exposure + Params.risk <= Params.exposure
           /\ in.gate.triggered => in.gate.correlation + Params.risk <= Params.correlation
           /\ in.gate.dailyLoss + Params.risk <= Params.dailyLoss
           /\ in.gate.drawdown + Params.risk <= Params.drawdown
           /\ 100 * Params.tp >= Params.minRR * Params.sl
           /\ 100 * z.units * Params.sl * in.atr <= Params.risk * Params.equity
           /\ 100 * z.units * in.price <= Params.exposure * Params.equity
    BY <1>0, SpacingProofs!RiskValidated,
       WeightsAssumption, ThresholdAssumption, ContextAssumption,
       ParamsAssumption
    DEF DirectionalAgents, SpacingProofs!DirectionalAgents, Percent, SpacingProofs!Percent
  <2>2. SpacingProofs!Cardinality(DOMAIN in.signals) = Cardinality(DOMAIN in.signals)
    BY DEF SpacingProofs!Cardinality, Cardinality
  <2> HIDE DEF O
  <2> QED BY <1>1, <2>1, <2>2 DEF PaperIsRiskValidated
<1> QED BY <1>2, <1>4, <1>5, <1>6

InputRecordOf(d) ==
  d = [signals |-> d.signals, regime |-> d.regime, context |-> d.context, atr |-> d.atr,
       price |-> d.price, gate |-> d.gate]

\* An input of agents, a context and market data is well-formed.
LEMMA InputIsOk ==
  ASSUME NEW A \in SUBSET DirectionalAgents, NEW v \in [A -> SpacingProofs!VoteRecords],
         NEW R \in SUBSET {"regime"}, NEW r, NEW c \in SpacingProofs!VoteRecords,
         NEW a \in Nat, NEW p \in Nat, NEW g
  PROVE  LET d == [signals |-> [x \in A \cup R |->
                                  IF x = "regime" THEN [dir |-> 0, conf |-> 100] ELSE v[x]],
                   regime |-> r, context |-> c, atr |-> a, price |-> p, gate |-> g]
         IN SpacingProofs!InputOk(d) /\ InputRecordOf(d)
<1> DEFINE s == [x \in A \cup R |-> IF x = "regime" THEN [dir |-> 0, conf |-> 100] ELSE v[x]]
           d == [signals |-> s, regime |-> r, context |-> c, atr |-> a, price |-> p, gate |-> g]
<1>1. DOMAIN s \subseteq SpacingProofs!AgentFamilies
  BY DEF DirectionalAgents, SpacingProofs!DirectionalAgents, SpacingProofs!AgentFamilies
<1>2. \A x \in DOMAIN s : s[x] \in SpacingProofs!VoteRecords
  <2>1. [dir |-> 0, conf |-> 100] \in SpacingProofs!VoteRecords
    BY DEF SpacingProofs!VoteRecords, SpacingProofs!Percent
  <2>2. \A x \in A \cup R : x # "regime" => x \in A
    OBVIOUS
  <2> QED BY <2>1, <2>2
<1>3. SpacingProofs!InputOk(d) /\ InputRecordOf(d)
  <2> HIDE DEF s
  <2>1. /\ d.signals = s /\ d.regime = r /\ d.context = c /\ d.atr = a /\ d.price = p /\ d.gate = g
    OBVIOUS
  <2> HIDE DEF d
  <2>2. SpacingProofs!InputOk(d)
    BY <1>1, <1>2, <2>1 DEF SpacingProofs!InputOk
  <2> QED BY <2>1, <2>2 DEF InputRecordOf, d
<1> QED BY <1>3

LEMMA InputsAreOk ==
  ASSUME InputsAssumption, NEW d \in DecisionInputs
  PROVE  SpacingProofs!InputOk(d) /\ InputRecordOf(d)
<1>0. PICK v \in UNION {[A -> Votes] : A \in SUBSET DirectionalAgents}, r \in DOMAIN Weights,
           c \in Contexts, k \in RiskInputs :
        d = [signals |-> SignalsOf(v, r # "unknown"), regime |-> r, context |-> c,
             atr |-> k.atr, price |-> k.price, gate |-> k.gate]
  BY DEF DecisionInputs
<1>1. PICK A \in SUBSET DirectionalAgents : v \in [A -> Votes]
  OBVIOUS
<1> DEFINE R == IF r # "unknown" THEN {"regime"} ELSE {}
<1>2. SignalsOf(v, r # "unknown")
        = [x \in A \cup R |-> IF x = "regime" THEN [dir |-> 0, conf |-> 100] ELSE v[x]]
  BY <1>1 DEF SignalsOf, RegimeSignal
<1>3. /\ v \in [A -> SpacingProofs!VoteRecords] /\ c \in SpacingProofs!VoteRecords
      /\ k.atr \in Nat /\ k.price \in Nat /\ R \in SUBSET {"regime"}
  <2>1. Votes \cup Contexts \subseteq SpacingProofs!VoteRecords
    BY DEF InputsAssumption, SpacingProofs!VoteRecords, SpacingProofs!Percent, Percent
  <2>2. v \in [A -> SpacingProofs!VoteRecords] /\ c \in SpacingProofs!VoteRecords
    BY <1>1, <2>1
  <2>3. k.atr \in Nat /\ k.price \in Nat
    BY DEF InputsAssumption
  <2> QED BY <2>2, <2>3
<1> HIDE DEF R
<1> QED BY <1>0, <1>1, <1>2, <1>3, InputIsOk

LEMMA RiskInputsAreOk ==
  ASSUME Risks!InputsAssumption, NEW d \in Risks!DecisionInputs
  PROVE  SpacingProofs!InputOk(d) /\ InputRecordOf(d)
<1>0. PICK v \in UNION {[A -> RiskVotes] : A \in SUBSET Risks!DirectionalAgents}, r \in DOMAIN Weights,
           c \in RiskContexts, k \in GateInputs :
        d = [signals |-> Risks!SignalsOf(v, r # "unknown"), regime |-> r, context |-> c,
             atr |-> k.atr, price |-> k.price, gate |-> k.gate]
  BY DEF Risks!DecisionInputs
<1>1. PICK A \in SUBSET Risks!DirectionalAgents : v \in [A -> RiskVotes]
  OBVIOUS
<1> DEFINE R == IF r # "unknown" THEN {"regime"} ELSE {}
<1>2. Risks!SignalsOf(v, r # "unknown")
        = [x \in A \cup R |-> IF x = "regime" THEN [dir |-> 0, conf |-> 100] ELSE v[x]]
  BY <1>1 DEF Risks!SignalsOf, Risks!RegimeSignal
<1>3. /\ v \in [A -> SpacingProofs!VoteRecords] /\ c \in SpacingProofs!VoteRecords
      /\ k.atr \in Nat /\ k.price \in Nat /\ R \in SUBSET {"regime"}
      /\ A \in SUBSET DirectionalAgents
  <2>1. RiskVotes \cup RiskContexts \subseteq SpacingProofs!VoteRecords
    BY DEF Risks!InputsAssumption, SpacingProofs!VoteRecords, SpacingProofs!Percent, Risks!Percent
  <2>2. v \in [A -> SpacingProofs!VoteRecords] /\ c \in SpacingProofs!VoteRecords
    BY <1>1, <2>1
  <2>3. k.atr \in Nat /\ k.price \in Nat
    BY DEF Risks!InputsAssumption
  <2>4. A \in SUBSET DirectionalAgents
    BY DEF Risks!DirectionalAgents, DirectionalAgents
  <2> QED BY <2>2, <2>3, <2>4
<1> HIDE DEF R
<1> QED BY <1>0, <1>1, <1>2, <1>3, InputIsOk

\* There is an input without signals.
LEMMA UnaskedIsInput == ASSUME InputsAssumption PROVE Unasked \in DecisionInputs
<1> DEFINE v == [x \in {} |-> 0]
<1>1. v \in [{} -> Votes] /\ "unknown" \in DOMAIN Weights
  BY WeightsAssumption
<1>2. PICK c \in Contexts, k \in RiskInputs : TRUE
  BY DEF InputsAssumption
<1> DEFINE d == [signals |-> SignalsOf(v, "unknown" # "unknown"), regime |-> "unknown", context |-> c,
                 atr |-> k.atr, price |-> k.price, gate |-> k.gate]
<1>3. d \in DecisionInputs
  <2>1. {} \in SUBSET DirectionalAgents
    OBVIOUS
  <2>2. v \in UNION {[A -> Votes] : A \in SUBSET DirectionalAgents}
    <3> HIDE DEF v
    <3> QED BY <1>1, <2>1
  <2>3. \E u \in UNION {[A -> Votes] : A \in SUBSET DirectionalAgents}, r \in DOMAIN Weights,
           q \in Contexts, l \in RiskInputs :
          d = [signals |-> SignalsOf(u, r # "unknown"), regime |-> r, context |-> q,
               atr |-> l.atr, price |-> l.price, gate |-> l.gate]
    <3>1. /\ v \in UNION {[A -> Votes] : A \in SUBSET DirectionalAgents}
          /\ "unknown" \in DOMAIN Weights /\ c \in Contexts /\ k \in RiskInputs
      BY <1>1, <1>2, <2>2
    <3> HIDE DEF v
    <3> USE <3>1
    <3> WITNESS v \in UNION {[A -> Votes] : A \in SUBSET DirectionalAgents}, "unknown" \in DOMAIN Weights,
                c \in Contexts, k \in RiskInputs
    <3> QED OBVIOUS
  <2> HIDE DEF d
  <2> QED BY <2>3 DEF DecisionInputs
<1>4. DOMAIN d.signals = {}
  BY DEF SignalsOf
<1> HIDE DEF d
<1> QED BY <1>3, <1>4 DEF Unasked

LEMMA InputsInit ==
  ASSUME InputsAssumption, Risks!InputsAssumption, PipelineInit PROVE InputsInv
<1>1. in \in DecisionInputs \/ in \in Risks!DecisionInputs
  BY UnaskedIsInput DEF PipelineInit, Init, Risks!Init
<1> QED BY <1>1, InputsAreOk, RiskInputsAreOk DEF InputsInv, InputRecord, InputRecordOf

\* A new vote or context is as well-formed as the first.
LEMMA InputsStep ==
  ASSUME InputsAssumption, Risks!InputsAssumption, InputsInv, [PipelineNext]_allVars
  PROVE  InputsInv'
<1> DEFINE Ok == SpacingProofs!VoteRecords
<1>1. CASE UNCHANGED in
  BY <1>1 DEF InputsInv, InputRecord
<1>2. ASSUME NEW a \in DirectionalAgents, NEW v \in Ok,
             in' = [in EXCEPT !.signals = [b \in DOMAIN in.signals \cup {a} |->
                                             IF b = a THEN v ELSE in.signals[b]]]
      PROVE  InputsInv'
  <2> DEFINE s == [b \in DOMAIN in.signals \cup {a} |-> IF b = a THEN v ELSE in.signals[b]]
  <2>1. /\ DOMAIN s \subseteq SpacingProofs!AgentFamilies
        /\ \A b \in DOMAIN s : s[b] \in Ok
    BY DEF InputsInv, SpacingProofs!InputOk, DirectionalAgents, SpacingProofs!DirectionalAgents,
           SpacingProofs!AgentFamilies
  <2> HIDE DEF s
  <2>2. in' = [signals |-> s, regime |-> in.regime, context |-> in.context, atr |-> in.atr,
               price |-> in.price, gate |-> in.gate]
    BY <1>2 DEF InputsInv, InputRecord, s
  <2> QED BY <2>1, <2>2 DEF InputsInv, InputRecord, SpacingProofs!InputOk
<1>3. ASSUME NEW c \in Ok, in' = [in EXCEPT !.context = c] PROVE InputsInv'
  <2>1. in' = [signals |-> in.signals, regime |-> in.regime, context |-> c, atr |-> in.atr,
               price |-> in.price, gate |-> in.gate]
    BY <1>3 DEF InputsInv, InputRecord
  <2> QED BY <2>1 DEF InputsInv, InputRecord, SpacingProofs!InputOk
<1>4. /\ Votes \subseteq Ok /\ Contexts \subseteq Ok /\ RiskVotes \subseteq Ok /\ RiskContexts \subseteq Ok
      /\ Risks!DirectionalAgents = DirectionalAgents
  BY DEF InputsAssumption, Risks!InputsAssumption, SpacingProofs!VoteRecords, SpacingProofs!Percent,
         Risks!Percent, Percent, Risks!DirectionalAgents, DirectionalAgents
<1>5. Next \/ Risks!Next \/ UNCHANGED in
  BY DEF PipelineNext, Only, allVars, vars
<1>6. CASE Next
  BY <1>2, <1>3, <1>4, <1>6 DEF Next, Revote, Recontext
<1>7. CASE Risks!Next
  BY <1>2, <1>3, <1>4, <1>7 DEF Risks!Next, Risks!Revote, Risks!Recontext
<1> QED BY <1>1, <1>5, <1>6, <1>7

\* Moving a vote up moves no direction down.
LEMMA VotesPull ==
  ASSUME InputsInv, InputsInv'
  PROVE  LET A == Voters(in.signals)
         IN  (/\ A = Voters(in'.signals) /\ in.regime = in'.regime /\ in.context = in'.context
              /\ \A a \in A : Vote(in.signals, a) <= Vote(in'.signals, a))
             => ApplyContext(Fuse(in.signals, in.regime), in.context).dir
                  <= ApplyContext(Fuse(in'.signals, in'.regime), in'.context).dir
<1> SUFFICES ASSUME Voters(in.signals) = Voters(in'.signals), in.regime = in'.regime,
                    in.context = in'.context,
                    \A a \in Voters(in.signals) : Vote(in.signals, a) <= Vote(in'.signals, a)
             PROVE  ApplyContext(Fuse(in.signals, in.regime), in.context).dir
                      <= ApplyContext(Fuse(in'.signals, in'.regime), in'.context).dir
  OBVIOUS
<1>1. /\ \A a \in DOMAIN in.signals : in.signals[a] \in SpacingProofs!VoteRecords
      /\ \A a \in DOMAIN in'.signals : in'.signals[a] \in SpacingProofs!VoteRecords
      /\ in.context \in SpacingProofs!VoteRecords
  BY DEF InputsInv, SpacingProofs!InputOk
<1>2. ASSUME NEW y, NEW a PROVE Vote(y, a) = SpacingProofs!Vote(y, a)
  BY DEF Vote, SpacingProofs!Vote
<1>3. /\ SpacingProofs!Voters(in.signals) = SpacingProofs!Voters(in'.signals)
      /\ \A a \in SpacingProofs!Voters(in.signals) :
           SpacingProofs!Vote(in.signals, a) <= SpacingProofs!Vote(in'.signals, a)
  BY <1>2, VerdictIsProved
<1>4. SpacingProofs!ApplyContext(SpacingProofs!Fuse(in.signals, in.regime), in.context).dir
        <= SpacingProofs!ApplyContext(SpacingProofs!Fuse(in'.signals, in.regime), in.context).dir
  BY <1>1, <1>3, SpacingProofs!DirectionMonotone,
     WeightsAssumption, ThresholdAssumption, ContextAssumption, ParamsAssumption
  DEF DirectionalAgents, SpacingProofs!DirectionalAgents, Percent, SpacingProofs!Percent
<1> QED BY <1>4, VerdictIsProved

\* A PAPER verdict is backed by enough votes of its direction, which the context did
\* not reverse, passed the five gates, and none is stored while the day has lost its cap
\* or once the account fell by the drawdown cap; the score is a mean of the votes, and votes pull their way (compute_decision).
THEOREM PipelinePaper ==
  ASSUME InputsAssumption, Risks!InputsAssumption,
         Spacing!EngineAssumption, Ledger!EngineAssumption, Params.risk > 0
  PROVE  PipelineSpec => PaperIsEarned
<1> DEFINE A == Is("spacing") => SpacingProofs!EngineInv
           B == Is("ledger") => LedgerProofs!EngineInv
<1>1. PipelineInit => InputsInv /\ A /\ B
  <2> SUFFICES ASSUME PipelineInit PROVE InputsInv /\ A /\ B
    OBVIOUS
  <2>1. Is("spacing") => SpacingProofs!Init
    BY SpacingIsProved DEF PipelineInit, Is
  <2>2. A
    BY <2>1, SpacingIsProved, SpacingProofs!EngineInit,
       WeightsAssumption, ThresholdAssumption, ContextAssumption, ParamsAssumption
    DEF DirectionalAgents, SpacingProofs!DirectionalAgents, Percent, SpacingProofs!Percent
  <2>3. Is("ledger") => LedgerProofs!Init
    BY LedgerIsProved DEF PipelineInit, Is
  <2>4. B
    BY <2>3, LedgerIsProved, LedgerProofs!EngineInit,
       WeightsAssumption, ThresholdAssumption, ContextAssumption, ParamsAssumption
    DEF DirectionalAgents, LedgerProofs!DirectionalAgents, Percent, LedgerProofs!Percent
  <2> QED BY <2>2, <2>4, InputsInit
<1>2. InputsInv /\ A /\ B /\ [PipelineNext]_allVars => InputsInv' /\ A' /\ B'
  <2> SUFFICES ASSUME InputsInv, A, B, [PipelineNext]_allVars PROVE InputsInv' /\ A' /\ B'
    OBVIOUS
  <2>1. (Is("ledger")' <=> Is("ledger")) /\ (Is("spacing")' <=> Is("spacing"))
    BY OtherPartsWait DEF Is
  <2>2. ASSUME Is("spacing") PROVE SpacingProofs!EngineInv'
    <3>1. [Spacing!Next]_engineVars
      BY <2>2, OtherPartsWait DEF Is
    <3>2. [SpacingProofs!Next]_SpacingProofs!vars /\ SpacingProofs!EngineAssumption
      BY <3>1, SpacingIsProved
    <3> QED
      BY <2>2, <3>2, SpacingProofs!EngineStep,
         WeightsAssumption, ThresholdAssumption, ContextAssumption, ParamsAssumption
      DEF DirectionalAgents, SpacingProofs!DirectionalAgents, Percent, SpacingProofs!Percent
  <2>3. ASSUME Is("ledger") PROVE LedgerProofs!EngineInv'
    <3>1. [Ledger!Next]_engineVars
      BY <2>3, OtherPartsWait DEF Is
    <3>2. [LedgerProofs!Next]_LedgerProofs!vars /\ LedgerProofs!EngineAssumption
      BY <3>1, LedgerIsProved
    <3> QED
      BY <2>3, <3>2, LedgerProofs!EngineStep,
         WeightsAssumption, ThresholdAssumption, ContextAssumption, ParamsAssumption
      DEF DirectionalAgents, LedgerProofs!DirectionalAgents, Percent, LedgerProofs!Percent
  <2> QED BY <2>1, <2>2, <2>3, InputsStep
<1> DEFINE Verdicts == ScoreIsAMean /\ ContextNeverReverses /\ PaperIsBackedByVotes /\ PaperIsRiskValidated
           Safe == /\ Verdicts
                   /\ part = "spacing" => Spacing!TypeOK
                   /\ part = "ledger" => Ledger!TypeOK /\ Ledger!LossesStopPaper
           Pull == LET V == Voters(in.signals)
                   IN  (/\ V = Voters(in'.signals) /\ in.regime = in'.regime /\ in.context = in'.context
                        /\ \A a \in V : Vote(in.signals, a) <= Vote(in'.signals, a))
                       => ApplyContext(Fuse(in.signals, in.regime), in.context).dir
                            <= ApplyContext(Fuse(in'.signals, in'.regime), in'.context).dir
<1>3. InputsInv /\ A /\ B => Safe
  <2>1. A => (part = "spacing" => Spacing!TypeOK)
    BY SpacingIsProved DEF SpacingProofs!EngineInv, Is
  <2>2. B => (part = "ledger" => Ledger!TypeOK /\ Ledger!LossesStopPaper)
    BY LedgerIsProved DEF LedgerProofs!EngineInv, Is
  <2>3. InputsInv => Verdicts
    BY VerdictHolds
  <2> HIDE DEF A, B, Verdicts
  <2> QED BY <2>1, <2>2, <2>3
<1>4. InputsInv /\ InputsInv' => Pull
  <2> SUFFICES ASSUME InputsInv, InputsInv' PROVE Pull
    OBVIOUS
  <2> QED BY VotesPull
<1>5. PaperIsEarned <=> []Safe /\ VotesPullTheirWay
  BY DEF PaperIsEarned, Safe, Verdicts
<1>6. VotesPullTheirWay <=> [][Pull]_vars
  BY DEF VotesPullTheirWay, Pull
<1> HIDE DEF A, B, Pull, Safe
<1>7. PipelineSpec => []Safe /\ [][Pull]_vars
  BY <1>1, <1>2, <1>3, <1>4, PTL DEF PipelineSpec
<1> QED BY <1>5, <1>6, <1>7

----------------------------------------------------------------------------
(* The agents.                                                             *)

\* The technical agent of the proofs about the engine is the part "votes".
LEMMA TechnicalIsProved ==
  /\ Technical!TechnicalAssumption => SpacingProofs!Technical!TechnicalAssumption
  /\ Technical!Readings = SpacingProofs!Technical!Readings
  /\ SpacingProofs!Technical!MirrorImage => Technical!MirrorImage
  /\ SpacingProofs!Technical!ScoreIsAFraction => Technical!ScoreIsAFraction
  /\ SpacingProofs!Technical!WeakTrendIsDamped => Technical!WeakTrendIsDamped
<1>1. Technical!TechnicalAssumption => SpacingProofs!Technical!TechnicalAssumption
  BY DEF Technical!TechnicalAssumption, SpacingProofs!Technical!TechnicalAssumption
<1>2. Technical!Readings = SpacingProofs!Technical!Readings
  BY DEF Technical!Readings, SpacingProofs!Technical!Readings
<1>3. ASSUME NEW r PROVE Technical!VotesOf(r) = SpacingProofs!Technical!VotesOf(r)
  BY DEF Technical!SignDeadzone, SpacingProofs!Technical!SignDeadzone, Technical!RsiMidline,
     SpacingProofs!Technical!RsiMidline, Technical!RsiExtreme,
     SpacingProofs!Technical!RsiExtreme, Technical!Breakout, SpacingProofs!Technical!Breakout,
     Technical!StochVote, SpacingProofs!Technical!StochVote, Technical!PivotVote,
     SpacingProofs!Technical!PivotVote, Technical!VotesOf, SpacingProofs!Technical!VotesOf
<1>4. ASSUME NEW r PROVE Technical!Score(r) = SpacingProofs!Technical!Score(r)
  BY <1>3, Zenon DEF Technical!Score, SpacingProofs!Technical!Score, Technical!Gate,
     SpacingProofs!Technical!Gate, Technical!MapThenSumSet,
     SpacingProofs!Technical!MapThenSumSet, Technical!MapThenFoldSet,
     SpacingProofs!Technical!MapThenFoldSet
<1>5. ASSUME NEW r PROVE Technical!Signal(r) = SpacingProofs!Technical!Signal(r)
  BY <1>4 DEF Technical!Signal, SpacingProofs!Technical!Signal, Technical!Abs,
     SpacingProofs!Technical!Abs
<1>6. ASSUME NEW r PROVE Technical!Mirror(r) = SpacingProofs!Technical!Mirror(r)
  BY DEF Technical!Mirror, SpacingProofs!Technical!Mirror, Technical!MirrorBand,
     SpacingProofs!Technical!MirrorBand, Technical!MirrorDay, SpacingProofs!Technical!MirrorDay
<1>7. SpacingProofs!Technical!MirrorImage => Technical!MirrorImage
  BY <1>5, <1>6 DEF Technical!MirrorImage, SpacingProofs!Technical!MirrorImage, Technical!Tie,
     SpacingProofs!Technical!Tie
<1>8. SpacingProofs!Technical!ScoreIsAFraction => Technical!ScoreIsAFraction
  BY <1>4 DEF Technical!ScoreIsAFraction, SpacingProofs!Technical!ScoreIsAFraction, Technical!Abs,
     SpacingProofs!Technical!Abs
<1>9. SpacingProofs!Technical!WeakTrendIsDamped => Technical!WeakTrendIsDamped
  BY <1>3, <1>5 DEF Technical!WeakTrendIsDamped, SpacingProofs!Technical!WeakTrendIsDamped
<1> QED BY <1>1, <1>2, <1>7, <1>8, <1>9

\* And its readers of content are the part "readers".
LEMMA ReadersAreProved ==
  /\ Readers!ReadersAssumption => SpacingProofs!Readers!ReadersAssumption
  /\ SpacingProofs!Readers!PairIsSymmetric => Readers!PairIsSymmetric
  /\ SpacingProofs!Readers!ConfidenceIsAFraction => Readers!ConfidenceIsAFraction
  /\ SpacingProofs!Readers!OwnPairIsNeutral => Readers!OwnPairIsNeutral
<1>1. Readers!ReadersAssumption => SpacingProofs!Readers!ReadersAssumption
  BY DEF Readers!ReadersAssumption, SpacingProofs!Readers!ReadersAssumption, Readers!Importance,
     SpacingProofs!Readers!Importance
<1>2. ASSUME NEW es, NEW c PROVE Readers!Bias(es, c) = SpacingProofs!Readers!Bias(es, c)
  BY Zenon DEF Readers!Bias, SpacingProofs!Readers!Bias, Readers!Importance,
     SpacingProofs!Readers!Importance, Readers!MapThenSumSet,
     SpacingProofs!Readers!MapThenSumSet, Readers!MapThenFoldSet,
     SpacingProofs!Readers!MapThenFoldSet
<1>3. ASSUME NEW es PROVE Readers!MaxImpact(es) = SpacingProofs!Readers!MaxImpact(es)
  BY DEF Readers!MaxImpact, SpacingProofs!Readers!MaxImpact, Readers!ImpactOf,
     SpacingProofs!Readers!ImpactOf, Readers!HalfWindow, SpacingProofs!Readers!HalfWindow,
     Readers!Max, SpacingProofs!Readers!Max
<1>4. ASSUME NEW es PROVE Readers!Fundamental(es) = SpacingProofs!Readers!Fundamental(es)
  BY <1>2, <1>3 DEF Readers!Fundamental, SpacingProofs!Readers!Fundamental, Readers!Differential,
     SpacingProofs!Readers!Differential, Readers!Minus, SpacingProofs!Readers!Minus,
     Readers!Flat, SpacingProofs!Readers!Flat, Readers!Abs, SpacingProofs!Readers!Abs,
     Readers!Confidence, SpacingProofs!Readers!Confidence, Readers!AtMostOne,
     SpacingProofs!Readers!AtMostOne, Readers!HalfWindow, SpacingProofs!Readers!HalfWindow
<1>5. ASSUME NEW ns, NEW c PROVE Readers!Aggregate(ns, c) = SpacingProofs!Readers!Aggregate(ns, c)
  BY DEF Readers!Aggregate, SpacingProofs!Readers!Aggregate, Readers!Touches,
     SpacingProofs!Readers!Touches, Readers!Kept, SpacingProofs!Readers!Kept,
     Readers!MapThenSumSet, SpacingProofs!Readers!MapThenSumSet, Readers!MapThenFoldSet,
     SpacingProofs!Readers!MapThenFoldSet
<1>6. ASSUME NEW ns PROVE Readers!Sentiment(ns) = SpacingProofs!Readers!Sentiment(ns)
  <2>1. Readers!SentimentDiff(ns) = SpacingProofs!Readers!SentimentDiff(ns)
    BY <1>5 DEF Readers!SentimentDiff, SpacingProofs!Readers!SentimentDiff, Readers!Minus,
       SpacingProofs!Readers!Minus
  <2>2. Readers!MapThenSumSet(LAMBDA n : ns[n].weight, DOMAIN ns)
          = SpacingProofs!Readers!MapThenSumSet(LAMBDA n : ns[n].weight, DOMAIN ns)
    BY Zenon DEF Readers!MapThenSumSet, SpacingProofs!Readers!MapThenSumSet,
       Readers!MapThenFoldSet, SpacingProofs!Readers!MapThenFoldSet
  <2> QED
    BY <2>1, <2>2 DEF Readers!Sentiment, SpacingProofs!Readers!Sentiment, Readers!AtMostOne,
       SpacingProofs!Readers!AtMostOne, Readers!Abs, SpacingProofs!Readers!Abs, Readers!Flat,
       SpacingProofs!Readers!Flat
<1>7. ASSUME NEW s
      PROVE  /\ Readers!SwapEvents(s) = SpacingProofs!Readers!SwapEvents(s)
             /\ Readers!SwapNews(s) = SpacingProofs!Readers!SwapNews(s)
  BY DEF Readers!SwapEvents, SpacingProofs!Readers!SwapEvents, Readers!SwapNews,
     SpacingProofs!Readers!SwapNews, Readers!SwapCur, SpacingProofs!Readers!SwapCur
<1>8. SpacingProofs!Readers!PairIsSymmetric => Readers!PairIsSymmetric
  BY <1>4, <1>6, <1>7 DEF Readers!PairIsSymmetric, SpacingProofs!Readers!PairIsSymmetric, Readers!Opposite,
     SpacingProofs!Readers!Opposite, Readers!Same, SpacingProofs!Readers!Same
<1>9. SpacingProofs!Readers!ConfidenceIsAFraction => Readers!ConfidenceIsAFraction
  BY <1>4, <1>6 DEF Readers!ConfidenceIsAFraction, SpacingProofs!Readers!ConfidenceIsAFraction
<1>10. SpacingProofs!Readers!OwnPairIsNeutral => Readers!OwnPairIsNeutral
  BY <1>6 DEF Readers!OwnPairIsNeutral, SpacingProofs!Readers!OwnPairIsNeutral
<1> QED BY <1>1, <1>8, <1>9, <1>10

\* The agents have no bias and their scores and confidences are fractions, whatever the
\* indicators, the events and the stories: see TechnicalAgentIsFair and
\* ContentAgentsAreFair.
THEOREM PipelineAgents ==
  ASSUME Technical!TechnicalAssumption, Readers!ReadersAssumption
  PROVE  PipelineSpec => []AgentsAreUnbiased
<1> DEFINE A == Is("votes") => reading \in Technical!Readings
           B == loaded \in Seq(ReadersSetup.Events) /\ news \in Seq(ReadersSetup.Stories)
<1>1. PipelineInit => A /\ B
  BY DEF PipelineInit, Is, Technical!Init, Readers!Init
<1>2. A /\ B /\ [PipelineNext]_allVars => A' /\ B'
  <2> SUFFICES ASSUME A, B, [PipelineNext]_allVars PROVE A' /\ B'
    OBVIOUS
  <2>1. reading' = reading /\ part' = part /\ [Readers!Next]_readerVars
    BY OtherPartsWait
  <2>2. B'
    <3>1. CASE Readers!MoreEvents
      BY <3>1 DEF Readers!MoreEvents
    <3>2. CASE Readers!MoreNews
      BY <3>2 DEF Readers!MoreNews
    <3>3. CASE UNCHANGED readerVars
      BY <3>3 DEF readerVars
    <3> QED BY <2>1, <3>1, <3>2, <3>3 DEF Readers!Next
  <2> QED BY <2>1, <2>2 DEF Is, Technical!Readings
<1>3. A /\ B => AgentsAreUnbiased
  <2> SUFFICES ASSUME A, B PROVE AgentsAreUnbiased
    OBVIOUS
  <2>1. ASSUME Is("votes")
        PROVE  Technical!MirrorImage /\ Technical!ScoreIsAFraction /\ Technical!WeakTrendIsDamped
    <3>1. SpacingProofs!Technical!TechnicalAssumption /\ reading \in SpacingProofs!Technical!Readings
      BY <2>1, TechnicalIsProved
    <3>2. /\ SpacingProofs!Technical!MirrorImage /\ SpacingProofs!Technical!ScoreIsAFraction
          /\ SpacingProofs!Technical!WeakTrendIsDamped
      BY <3>1, SpacingProofs!MirrorIsOpposite, SpacingProofs!ScoreIsBounded,
         WeightsAssumption, ThresholdAssumption, ContextAssumption, ParamsAssumption
      DEF DirectionalAgents, SpacingProofs!DirectionalAgents, Percent, SpacingProofs!Percent
    <3> QED BY <3>2, TechnicalIsProved
  <2>2. Readers!PairIsSymmetric /\ Readers!ConfidenceIsAFraction /\ Readers!OwnPairIsNeutral
    <3>1. /\ SpacingProofs!Readers!PairIsSymmetric /\ SpacingProofs!Readers!ConfidenceIsAFraction
          /\ SpacingProofs!Readers!OwnPairIsNeutral
      BY ReadersAreProved, SpacingProofs!ReadersAreFair,
         WeightsAssumption, ThresholdAssumption, ContextAssumption, ParamsAssumption
      DEF DirectionalAgents, SpacingProofs!DirectionalAgents, Percent, SpacingProofs!Percent
    <3> QED BY <3>1, ReadersAreProved
  <2> QED BY <2>1, <2>2 DEF AgentsAreUnbiased, Is
<1> HIDE DEF A, B
<1> QED BY <1>1, <1>2, <1>3, PTL DEF PipelineSpec
=============================================================================
