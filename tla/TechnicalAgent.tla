-------------------------- MODULE TechnicalAgent --------------------------
(***************************************************************************)
(* The confluence score of the technical agent:                            *)
(*                                                                         *)
(*   backend/app/agents/technical.py                                       *)
(*   backend/app/agents/indicators.py   floor_pivots                       *)
(*                                                                         *)
(* The agent is a function of the last values of its indicators; the state *)
(* is one such reading.  Prices are relative to the close, which is 0;     *)
(* RSI and stochastic are in tenths of a point.  NULL is an indicator that *)
(* has no value yet (None).                                                *)
(***************************************************************************)
EXTENDS Integers, FiniteSets, FiniteSetsExt

CONSTANTS
  NULL,
  Diffs,     \* EMA 9 - EMA 21, close - SMA 50 and the MACD histogram
  DeadZones, \* 5% of the ATR, 0 while there is none
  Bands,     \* NULL, or [upper, lower]: Bollinger, and the Donchian of the bar before
  Days,      \* NULL, or the [high, low, close] of the previous day
  Rsis, Stochs,  \* Stochs: NULL, or [k, d]
  Adxs

\* An upper band is not below the lower one (mean and deviation; extremes of a
\* window), and a missing value is told apart from a value.
TechnicalAssumption ==
  /\ NULL \notin Int /\ NULL \notin [upper : Int, lower : Int]
  /\ NULL \notin [high : Int, low : Int, close : Int] /\ NULL \notin [k : Int, d : Int]
  /\ Diffs \subseteq Int /\ DeadZones \subseteq Nat
  /\ \A b \in Bands : b = NULL \/ (b \in [upper : Int, lower : Int] /\ b.lower <= b.upper)
  /\ \A d \in Days : d = NULL \/ d \in [high : Int, low : Int, close : Int]
  /\ \A s \in Stochs : s = NULL \/ s \in [k : Int, d : Int]
  /\ Rsis \subseteq Int \cup {NULL} /\ Adxs \subseteq Int \cup {NULL}

VARIABLE x   \* the reading

Readings ==
  [ema : Diffs, sma : Diffs, macd : Diffs, dead : DeadZones, bb : Bands, don : Bands,
   day : Days, rsi : Rsis, stoch : Stochs, adx : Adxs]

Init == x \in Readings
Next == UNCHANGED x
Spec == Init /\ [][Next]_x

----------------------------------------------------------------------------
(* The votes: 1 bullish, -1 bearish, 0 neutral. *)

SignDeadzone(v, dead) == IF v > dead THEN 1 ELSE IF v < -dead THEN -1 ELSE 0

RsiMidline(r) == IF r = NULL \/ r = 500 THEN 0 ELSE IF r > 500 THEN 1 ELSE -1

\* Mutant: the overbought bound is strict.
RsiExtremeStrict(r) == IF r = NULL THEN 0 ELSE IF r > 700 THEN -1 ELSE IF r <= 300 THEN 1 ELSE 0

\* Mutant: extremes follow the move instead of fading it.
RsiExtremeFollows(r) == IF r = NULL THEN 0 ELSE IF r >= 700 THEN 1 ELSE IF r <= 300 THEN -1 ELSE 0

\* _rsi_extreme: mean reversion.
RsiExtreme(r) == IF r = NULL THEN 0 ELSE IF r >= 700 THEN -1 ELSE IF r <= 300 THEN 1 ELSE 0

\* _breakout, with the close at 0: the upper side is tested first.
Breakout(b) == IF b = NULL THEN 0 ELSE IF 0 >= b.upper THEN 1 ELSE IF 0 <= b.lower THEN -1 ELSE 0

\* _stoch_vote
StochVote(s) ==
  IF s = NULL THEN 0
  ELSE IF s.k > s.d /\ s.k < 800 THEN 1
  ELSE IF s.k < s.d /\ s.k > 200 THEN -1 ELSE 0

\* _pivot_vote: close above (high + low + close) / 3.
PivotVote(d) == IF d = NULL THEN 0 ELSE IF 0 > d.high + d.low + d.close THEN 1 ELSE -1

----------------------------------------------------------------------------
\* Weights in hundredths; gated votes follow a trend.
VotesOf(r) ==
  { [name |-> "ema_cross",          weight |-> 18, gated |-> TRUE,  vote |-> SignDeadzone(r.ema, r.dead)],
    [name |-> "close_vs_sma50",     weight |-> 12, gated |-> TRUE,  vote |-> SignDeadzone(r.sma, r.dead)],
    [name |-> "macd_histogram",     weight |-> 15, gated |-> TRUE,  vote |-> SignDeadzone(r.macd, r.dead)],
    [name |-> "rsi_midline",        weight |-> 8,  gated |-> FALSE, vote |-> RsiMidline(r.rsi)],
    [name |-> "rsi_extreme",        weight |-> 12, gated |-> FALSE, vote |-> RsiExtreme(r.rsi)],
    [name |-> "bollinger_breakout", weight |-> 10, gated |-> FALSE, vote |-> Breakout(r.bb)],
    [name |-> "stochastic",         weight |-> 10, gated |-> FALSE, vote |-> StochVote(r.stoch)],
    [name |-> "donchian_breakout",  weight |-> 12, gated |-> TRUE,  vote |-> Breakout(r.don)],
    [name |-> "pivot_position",     weight |-> 10, gated |-> FALSE, vote |-> PivotVote(r.day)] }

\* Mutant: a weak trend leaves the gate open.
GateOpen(adx) == 50

\* max(0.3, adx / 25) below an ADX of 25, in fiftieths.
Gate(adx) ==
  IF adx = NULL \/ adx >= 25 THEN 50 ELSE IF 2 * adx < 15 THEN 15 ELSE 2 * adx

\* In five-thousandths.
Score(r) ==
  MapThenSumSet(LAMBDA v : v.weight * v.vote * (IF v.gated THEN Gate(r.adx) ELSE 50), VotesOf(r))

Abs(n) == IF n < 0 THEN -n ELSE n

\* 0.15 is 750; the confidence is capped at 0.99.
Signal(r) ==
  LET s == Score(r)
  IN [dir  |-> IF s >= 750 THEN 1 ELSE IF s <= -750 THEN -1 ELSE 0,
      conf |-> IF Abs(s) > 4950 THEN 4950 ELSE Abs(s)]

----------------------------------------------------------------------------
(* Properties. *)

MirrorBand(b) == IF b = NULL THEN NULL ELSE [upper |-> -b.lower, lower |-> -b.upper]
MirrorDay(d)  == IF d = NULL THEN NULL ELSE [high |-> -d.low, low |-> -d.high, close |-> -d.close]
Mirror(r) ==
  [r EXCEPT !.ema = -@, !.sma = -@, !.macd = -@, !.bb = MirrorBand(@), !.don = MirrorBand(@),
            !.day = MirrorDay(@), !.rsi = IF @ = NULL THEN NULL ELSE 1000 - @,
            !.stoch = IF @ = NULL THEN NULL ELSE [k |-> 1000 - @.k, d |-> 1000 - @.d]]

\* A band of no width at the close, or a close at the pivot: _breakout then
\* votes up and _pivot_vote down, whichever way the market is held.
Tie(r) ==
  \/ \E b \in {r.bb, r.don} : b # NULL /\ b.upper = 0 /\ b.lower = 0
  \/ r.day # NULL /\ r.day.high + r.day.low + r.day.close = 0

\* The nine votes have no bias: the mirror image of a market gets the opposite
\* direction with the same confidence, but for ties.
MirrorImage ==
  ~Tie(x) => LET a == Signal(x)
                 b == Signal(Mirror(x))
             IN a.dir = -b.dir /\ a.conf = b.conf

\* The weights add up to 1.07, yet no market scores beyond 1: the two RSI
\* votes are opposed whenever the second one votes.
ScoreIsAFraction == Abs(Score(x)) <= 5000

\* Trend followers alone have no say where there is no trend: without a trend
\* (ADX below 20) and without any other vote, they do not reach the confidence
\* of 0.5 that they reach with one.
WeakTrendIsDamped ==
  (x.adx # NULL /\ x.adx < 20 /\ \A v \in VotesOf(x) : ~v.gated => v.vote = 0)
     => Signal(x).conf < 2500

\* Not guaranteed by the code (README, "Known deviations").
\* technical.py: "Stochastic requires %K/%D separation > 0.5 points".
StochIsSeparated == x.stoch # NULL /\ Abs(x.stoch.k - x.stoch.d) <= 5 => StochVote(x.stoch) = 0

=============================================================================
