---------------------------------- MODULE Fusion ----------------------------------
(***************************************************************************)
(* Signal fusion (backend/app/decisions/fusion.py): the directional agents'  *)
(* votes are combined, with weights that the market regime selects, into one *)
(* score, and a larger timeframe's decision may nudge it.                     *)
(*                                                                         *)
(* A direction is its sign (LONG 1, FLAT 0, SHORT -1).  Confidences, weights  *)
(* and thresholds are percentages.  A score is a fraction num / den with a    *)
(* positive den, so that the renormalisation of the weights is exact; the     *)
(* code's rounding to six digits is left out.                                 *)
(***************************************************************************)
EXTENDS Integers, FiniteSets, FiniteSetsExt

CONSTANTS
    Weights,        \* regime |-> (directional agent |-> weight in percent)
    Threshold,      \* the score from which a direction is taken, in percent
    ContextWeight   \* the influence of the larger timeframe, in percent

\* The agents that vote; the regime agent only selects the weights.
DirectionalAgents == {"technical", "fundamental", "sentiment"}

\* "unknown" is the row used for a regime without one of its own.
ASSUME WeightsAssumption ==
    "unknown" \in DOMAIN Weights /\ \A r \in DOMAIN Weights : Weights[r] \in [DirectionalAgents -> 1..100]
ASSUME ThresholdAssumption == Threshold \in 0..100 /\ ContextWeight \in 0..100
\* The influence of the context is smaller than the distance between the two thresholds, as it
\* is with the defaults (15 against 2 * 15).
ASSUME ContextAssumption == ContextWeight < 2 * Threshold

WeightsFor(regime) == Weights[IF regime \in DOMAIN Weights THEN regime ELSE "unknown"]

\* Signals map the agents that reported to [dir, conf].  FLAT and zero confidence do not vote.
Voters(signals) ==
    {a \in DirectionalAgents \cap DOMAIN signals : signals[a].dir # 0 /\ signals[a].conf > 0}
Vote(signals, a) == signals[a].dir * signals[a].conf

DirectionForScore(num, den) ==
    IF num >= Threshold * den THEN 1
    ELSE IF num <= -(Threshold * den) THEN -1
    ELSE 0

NoVotes == [voters |-> {}, num |-> 0, den |-> 1, dir |-> 0, agree |-> 0, total |-> 1]

\* Mutant: the weights are not renormalised over the agents that voted.
FuseNotRenormalized(signals, regime) ==
    LET voters == Voters(signals)
        w == WeightsFor(regime)
        num == MapThenSumSet(LAMBDA a : w[a] * Vote(signals, a), voters)
        dir == DirectionForScore(num, 100)
        aligned == {a \in voters : signals[a].dir = dir}
    IN  IF voters = {} THEN NoVotes
        ELSE [voters |-> voters, num |-> num, den |-> 100, dir |-> dir,
              agree |-> MapThenSumSet(LAMBDA a : w[a], aligned), total |-> 100]

\* Mutant: the votes lose their sign.
FuseUnsigned(signals, regime) ==
    LET voters == Voters(signals)
        w == WeightsFor(regime)
        den == MapThenSumSet(LAMBDA a : w[a], voters)
        num == MapThenSumSet(LAMBDA a : w[a] * signals[a].conf, voters)
    IN  IF voters = {} THEN NoVotes
        ELSE [voters |-> voters, num |-> num, den |-> den, dir |-> DirectionForScore(num, den),
              agree |-> den, total |-> den]

\* fuse: the weighted mean of the votes, its direction, and the weight of the voters that
\* agree with it (agree of total).
Fuse(signals, regime) ==
    LET voters == Voters(signals)
        w == WeightsFor(regime)
        den == MapThenSumSet(LAMBDA a : w[a], voters)
        num == MapThenSumSet(LAMBDA a : w[a] * Vote(signals, a), voters)
        dir == DirectionForScore(num, den)
        aligned == {a \in voters : signals[a].dir = dir}
    IN  IF voters = {} THEN NoVotes
        ELSE [voters |-> voters, num |-> num, den |-> den, dir |-> dir,
              agree |-> MapThenSumSet(LAMBDA a : w[a], aligned), total |-> den]

\* Mutant: the context counts fully instead of by its weight.
ApplyContextUnweighted(f, context) ==
    LET num == 100 * f.num + 100 * context.dir * context.conf * f.den
        den == 100 * f.den
    IN  IF context.conf <= 0 THEN f
        ELSE [f EXCEPT !.num = num, !.den = den, !.dir = DirectionForScore(num, den)]

\* apply_context: the score is nudged and its direction taken again; voters and agreement stay.
ApplyContext(f, context) ==
    LET num == 100 * f.num + ContextWeight * context.dir * context.conf * f.den
        den == 100 * f.den
    IN  IF context.conf <= 0 THEN f
        ELSE [f EXCEPT !.num = num, !.den = den, !.dir = DirectionForScore(num, den)]
================================================================================
