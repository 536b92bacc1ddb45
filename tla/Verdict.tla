---------------------------------- MODULE Verdict ----------------------------------
(***************************************************************************)
(* What compute_decision promises, over bounded inputs.  The state is one     *)
(* input snapshot (DecisionInputs); a step is the next snapshot of the same   *)
(* pair, in which one agent reports something else or the larger timeframe    *)
(* decided again.                                                            *)
(***************************************************************************)
EXTENDS RiskGate

CONSTANTS
    Votes,          \* the [dir, conf] a directional agent may report
    Contexts,       \* the [dir, conf] of the larger timeframe; conf 0 is no context
    RiskInputs,     \* the [atr, price, gate] of a snapshot
    Hysteresis      \* orch_hysteresis, in percent: a parameter that no code reads

InputsAssumption ==
    /\ Votes \cup Contexts \subseteq [dir : {-1, 0, 1}, conf : Percent] /\ Contexts # {}
    /\ RiskInputs # {} /\ \A k \in RiskInputs : {k.atr, k.price} \subseteq Nat

VARIABLE in         \* the inputs of the decision
vars == <<in>>

RegimeSignal == [dir |-> 0, conf |-> 100]
SignalsOf(votes, withRegime) ==
    [a \in DOMAIN votes \cup (IF withRegime THEN {"regime"} ELSE {}) |->
        IF a = "regime" THEN RegimeSignal ELSE votes[a]]

\* The inputs that decide() bundles.  Without the regime agent the regime is unknown.
DecisionInputs ==
    {[signals |-> SignalsOf(v, r # "unknown"), regime |-> r, context |-> c,
      atr |-> k.atr, price |-> k.price, gate |-> k.gate] :
        v \in UNION {[A -> Votes] : A \in SUBSET DirectionalAgents},
        r \in DOMAIN Weights, c \in Contexts, k \in RiskInputs}

Init == in \in DecisionInputs

\* One directional agent reports something new.
Revote == \E a \in DirectionalAgents, v \in Votes :
    in' = [in EXCEPT !.signals = [b \in DOMAIN in.signals \cup {a} |-> IF b = a THEN v ELSE in.signals[b]]]
Recontext == \E c \in Contexts : in' = [in EXCEPT !.context = c]

Next == Revote \/ Recontext
Spec == Init /\ [][Next]_vars

Fused == Fuse(in.signals, in.regime)
Final == ApplyContext(Fused, in.context)
Outcome == ComputeDecision(in)

-----------------------------------------------------------------------------------
\* The score is a mean: it lies between the lowest and the highest vote, whichever agents voted
\* (_renormalized in fuse).
ScoreIsAMean ==
    LET cast == {Vote(in.signals, a) : a \in Fused.voters}
    IN  cast # {} => /\ Fused.num >= Min(cast) * Fused.den
                     /\ Fused.num <= Max(cast) * Fused.den

\* A voter that moves up cannot move the direction down, as long as the same agents vote under
\* the same regime and context (fuse, direction_for_score).
VotesPullTheirWay ==
    [][LET A == Voters(in.signals)
       IN  (/\ A = Voters(in'.signals) /\ in.regime = in'.regime /\ in.context = in'.context
            /\ \A a \in A : Vote(in.signals, a) <= Vote(in'.signals, a))
           => ApplyContext(Fuse(in.signals, in.regime), in.context).dir
                <= ApplyContext(Fuse(in'.signals, in'.regime), in'.context).dir]_vars

\* The larger timeframe may strengthen, create or cancel a direction and never turns one into its
\* opposite (apply_context: "modest, safe").
ContextNeverReverses == Fused.dir * Final.dir # -1

\* A paper intent is backed by the voters themselves: the agreement was computed before the
\* context moved the score, and still the share of the weight that votes for the final direction
\* reaches the minimum (apply_context keeps the old agreement).
PaperIsBackedByVotes ==
    LET for == {a \in Final.voters : in.signals[a].dir = Final.dir}
        w == WeightsFor(in.regime)
    IN  Outcome.status = "PAPER" =>
            100 * MapThenSumSet(LAMBDA a : w[a], for)
                >= AgreementMin * MapThenSumSet(LAMBDA a : w[a], Final.voters)

\* Fail closed: a paper intent has enough agents, can be sized, leaves every gate room for one
\* more trade, and its size keeps the money at risk and the notional within their shares of the
\* equity (assess, compute_sizing, compute_decision).
PaperIsRiskValidated ==
    Outcome.status = "PAPER" =>
        /\ 4 * CoverageMin <= 100 * Cardinality(DOMAIN in.signals)
        /\ in.atr > 0 /\ in.price > 0 /\ Params.enabled
        /\ in.gate.exposure + Params.risk <= Params.exposure
        /\ in.gate.triggered => in.gate.correlation + Params.risk <= Params.correlation
        /\ in.gate.dailyLoss + Params.risk <= Params.dailyLoss
        /\ in.gate.drawdown + Params.risk <= Params.drawdown
        /\ 100 * Params.tp >= Params.minRR * Params.sl
        /\ 100 * Outcome.sizing.units * Params.sl * in.atr <= Params.risk * Params.equity
        /\ 100 * Outcome.sizing.units * in.price <= Params.exposure * Params.equity

-----------------------------------------------------------------------------------
\* Not guaranteed by the code (README, "Known deviations").
\* fusion.py: agreement is the "weighted fraction of voting agents that align with the fused
\* direction".  A decision whose direction the context changed carries the old agreement.
AgreementIsOfDirection ==
    LET w == WeightsFor(in.regime)
    IN  Outcome.action = "PERSIST" =>
            Outcome.fused.agree = MapThenSumSet(LAMBDA a : w[a],
                                    {a \in Final.voters : in.signals[a].dir = Final.dir})

\* Not guaranteed by the code (README, "Known deviations").
\* fusion.py: the threshold comes "with a small hysteresis so near-threshold scores don't flip
\* every bar": a direction changes only when the score moved by more than the hysteresis.
SmallMovesDoNotFlip ==
    [][LET f == Fuse(in.signals, in.regime)
           g == Fuse(in'.signals, in'.regime)
       IN  (f.dir # g.dir /\ f.voters # {} /\ g.voters # {})
           => \/ f.num * g.den - g.num * f.den > Hysteresis * f.den * g.den
              \/ g.num * f.den - f.num * g.den > Hysteresis * f.den * g.den]_vars

\* Not guaranteed by the code (README, "Known deviations").
\* config.py: "Max % of account equity risked per trade".  The recorded share multiplies the
\* notional, not the units, by the stop distance.
RecordedRiskWithinMax ==
    Outcome.status = "PAPER" => 100 * Outcome.sizing.riskAmount <= Params.risk * Params.equity
================================================================================
