--------------------------- MODULE ContentAgents ---------------------------
(***************************************************************************)
(* The two agents that read content:                                       *)
(*                                                                         *)
(*   backend/app/agents/fundamental.py               surprises, event risk *)
(*   backend/app/llm/fallback/calendar_proximity.py  the risk of an event  *)
(*   backend/app/agents/sentiment.py                 scored headlines      *)
(*                                                                         *)
(* for one pair.  An event is [cur, sign, imp, dist]: its currency, the    *)
(* sign of actual minus forecast, its importance, its distance in minutes. *)
(* A story is [score, weight, pairs]: its lexicon score, its decayed       *)
(* weight, the pairs it lists.  Numbers are fractions <<num, den>> with a  *)
(* positive den; the code's rounding to four digits is left out.           *)
(***************************************************************************)
EXTENDS Integers, Sequences, FiniteSets, FiniteSetsExt

CONSTANTS
  Base, Quote,   \* the currencies of the pair
  Events,        \* events that may be loaded
  Stories,       \* stories that may be loaded
  MaxInputs      \* bound: inputs of an agent

VARIABLES
  events,  \* ctx.meta["events"]
  news     \* ctx.meta["news"]

vars == <<events, news>>

Init == events = <<>> /\ news = <<>>

\* The content worker stores one more item within the agents' window.
MoreEvents == Len(events) < MaxInputs /\ \E e \in Events : events' = Append(events, e) /\ UNCHANGED news
MoreNews   == Len(news) < MaxInputs /\ \E x \in Stories : news' = Append(news, x) /\ UNCHANGED events

Next == MoreEvents \/ MoreNews
Spec == Init /\ [][Next]_vars

----------------------------------------------------------------------------
Abs(n) == IF n < 0 THEN -n ELSE n
Minus(a, b) == <<a[1] * b[2] - b[1] * a[2], a[2] * b[2]>>

\* _IMPORTANCE_IMPACT, in tenths.
Importance == [low |-> 2, medium |-> 5, high |-> 8]
HalfWindow == 90    \* _IMPACT_WINDOW_MIN

\* Currencies and listed pairs are arbitrary; a decayed weight is positive.
ReadersAssumption ==
  /\ \A e \in Events :
       e \in [cur : {e.cur}, sign : {-1, 0, 1}, imp : DOMAIN Importance, dist : Nat]
  /\ \A x \in Stories :
       /\ x \in [score : Int, weight : Nat \ {0}, pairs : {x.pairs}]
       /\ x.pairs \in Seq({x.pairs[k] : k \in DOMAIN x.pairs})

\* event_impact as _max_impact calls it: one window for every importance; the
\* peak is at the event, zero at the end of the window.
ImpactOf(e) == IF e.dist > HalfWindow THEN 0 ELSE HalfWindow - e.dist

\* _max_impact, in ninetieths.
MaxImpact(es) == Max({0} \cup {ImpactOf(es[n]) : n \in DOMAIN es})

\* _currency_bias: the mean sign of the currency's surprises, by importance.
Bias(es, cur) ==
  LET of == {n \in DOMAIN es : es[n].cur = cur /\ es[n].sign # 0}
      w(n) == Importance[es[n].imp]
  IN IF of = {} THEN <<0, 1>>
     ELSE <<MapThenSumSet(LAMBDA n : es[n].sign * w(n), of), MapThenSumSet(w, of)>>

\* Mutant: the quote currency adds to the base.
DifferentialSum(es) == Minus(Bias(es, Base), Minus(<<0, 1>>, Bias(es, Quote)))

Differential(es) == Minus(Bias(es, Base), Bias(es, Quote))

Flat(conf) == [dir |-> 0, conf |-> conf]
AtMostOne(c) == IF c[1] > c[2] THEN <<1, 1>> ELSE c

\* Mutant: the confidence is not capped.
ConfidenceUncapped(d, n, impact) ==
  LET few == IF n > 6 THEN 6 ELSE n
      raw == <<12 * d[2] + 30 * Abs(d[1]) + few * d[2], 60 * d[2]>>
  IN IF 2 * impact >= HalfWindow THEN <<4 * raw[1], 5 * raw[2]>> ELSE raw

\* 0.2 + 0.5 * |d| + 0.1 * min(1, n / 6), damped near an event, at most 1.
Confidence(d, n, impact) ==
  LET few == IF n > 6 THEN 6 ELSE n
      raw == <<12 * d[2] + 30 * Abs(d[1]) + few * d[2], 60 * d[2]>>
  IN AtMostOne(IF 2 * impact >= HalfWindow THEN <<4 * raw[1], 5 * raw[2]>> ELSE raw)

\* FundamentalAgent._decide: flat without events, within 0.85 of an event's
\* peak, and for a difference below a quarter.
Fundamental(es) ==
  LET d == Differential(es)
      impact == MaxImpact(es)
  IN CASE es = <<>>                      -> Flat(<<0, 1>>)
       [] 100 * impact >= 85 * HalfWindow -> Flat(<<1, 10>>)
       [] 4 * Abs(d[1]) < d[2]           -> Flat(<<0, 1>>)
       [] OTHER -> [dir |-> IF d[1] > 0 THEN 1 ELSE -1, conf |-> Confidence(d, Len(es), impact)]

----------------------------------------------------------------------------
\* _score_items keeps the first pair a story lists.
Kept(x) == IF x.pairs = <<>> THEN {} ELSE {x.pairs[1]}

\* Mutant: only the first currency of a pair is touched.
TouchesFirst(x, cur) == \E p \in Kept(x) : cur = p[1]

\* _has_currency
Touches(x, cur) == \E p \in Kept(x) : cur = p[1] \/ cur = p[2]

\* _currency_aggregate: the weighted mean score of the stories that touch cur.
Aggregate(ns, cur) ==
  LET of == {n \in DOMAIN ns : Touches(ns[n], cur)}
  IN IF of = {} THEN <<0, 1>>
     ELSE <<MapThenSumSet(LAMBDA n : ns[n].score * ns[n].weight, of),
            MapThenSumSet(LAMBDA n : ns[n].weight, of)>>

SentimentDiff(ns) == Minus(Aggregate(ns, Base), Aggregate(ns, Quote))

\* SentimentAgent._decide: 0.15 + 0.5 * min(1, |d|) + 0.05 per weighted story,
\* at most 0.8; flat within 0.12.
Sentiment(ns) ==
  LET d == SentimentDiff(ns)
      m == AtMostOne(<<Abs(d[1]), d[2]>>)
      count == MapThenSumSet(LAMBDA n : ns[n].weight, DOMAIN ns)
      raw == <<15 * m[2] + 50 * m[1] + 5 * count * m[2], 100 * m[2]>>
  IN IF 100 * Abs(d[1]) <= 12 * d[2] THEN Flat(<<0, 1>>)
     ELSE [dir |-> IF d[1] > 0 THEN 1 ELSE -1,
           conf |-> IF 10 * raw[1] > 8 * raw[2] THEN <<8, 10>> ELSE raw]

----------------------------------------------------------------------------
(* Properties. *)

SwapCur(c) == IF c = Base THEN Quote ELSE IF c = Quote THEN Base ELSE c
SwapEvents(es) == [n \in DOMAIN es |-> [es[n] EXCEPT !.cur = SwapCur(@)]]
SwapNews(ns) ==
  [n \in DOMAIN ns |->
     [ns[n] EXCEPT !.pairs = [k \in DOMAIN @ |-> <<SwapCur(@[k][1]), SwapCur(@[k][2])>>]]]
Same(a, b) == a[1] * b[2] = b[1] * a[2]
Opposite(a, b) == a.dir = -b.dir /\ Same(a.conf, b.conf)

\* Both agents judge the differential of two currencies: with the roles of the
\* currencies exchanged they say the opposite, with the same confidence.
PairIsSymmetric ==
  /\ Opposite(Fundamental(events), Fundamental(SwapEvents(events)))
  /\ Opposite(Sentiment(news), Sentiment(SwapNews(news)))

\* Two opposite surprises add up to more than one: the confidence still is one
\* AgentSignal accepts.
ConfidenceIsAFraction ==
  \A c \in {Fundamental(events).conf, Sentiment(news).conf} : c[1] >= 0 /\ c[1] <= c[2]

\* Stories that list the pair first touch both of its currencies alike: however
\* one-sided, they say nothing about the pair.
OwnPairIsNeutral ==
  (\A n \in DOMAIN news : news[n].pairs # <<>> =>
     {news[n].pairs[1][1], news[n].pairs[1][2]} = {Base, Quote}) => Sentiment(news).dir = 0

\* Not guaranteed by the code (README, "Known deviations").
\* calendar_proximity.py: event_impact has no bearing when "importance is
\* low"; an event of low importance does not change the risk.
LowEventsAreNoRisk ==
  MaxImpact(events) = MaxImpact(SelectSeq(events, LAMBDA e : e.imp # "low"))

\* Not guaranteed by the code (README, "Known deviations").
\* sentiment.py: "a currency is touched if it is part of any pair listed for
\* the item".
AnyListedPairCounts ==
  \A n \in DOMAIN news, cur \in {Base, Quote} :
    Touches(news[n], cur) <=>
      \E k \in DOMAIN news[n].pairs : cur \in {news[n].pairs[k][1], news[n].pairs[k][2]}

=============================================================================
