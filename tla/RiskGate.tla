--------------------------------- MODULE RiskGate ---------------------------------
(***************************************************************************)
(* The risk agent (backend/app/decisions/risk.py) and the pure part of the    *)
(* engine (compute_decision of engine.py): size a candidate position, check   *)
(* the five gates, and turn fused signals into a verdict.                     *)
(*                                                                         *)
(* Prices, units and money are integers and ratios percentages; a quantity    *)
(* the code cannot obtain (None) is 0, which the code treats alike.  Divisions *)
(* that the code rounds to six digits are rounded down.                       *)
(***************************************************************************)
EXTENDS Fusion

CONSTANTS
    Params,         \* the risk parameters, see ParamsAssumption
    CoverageMin,    \* the least share of reporting agents, in percent
    AgreementMin    \* the least agreement for a paper intent, in percent

Percent == 0..100
ASSUME ParamsAssumption ==
    /\ Params \in [risk : Percent, exposure : Percent, dailyLoss : Percent, drawdown : Percent,
                   correlation : Percent, sl : Nat \ {0}, tp : Nat \ {0}, minRR : Nat,
                   equity : Nat \ {0}, enabled : BOOLEAN]
    /\ CoverageMin \in Percent /\ AgreementMin \in Percent

AgentFamilies == DirectionalAgents \cup {"regime"}
GateNames == <<"rr", "exposure", "correlation", "daily_loss", "drawdown">>

\* compute_sizing: stop and target from the ATR; the smaller of the size that risks the allowed
\* share of the equity and the size that uses up the exposure cap.  rr is in percent;
\* riskAmount is what risk_pct_account records, times the equity.
ComputeSizing(price, atr, dir) ==
    LET distance == Params.sl * atr
        byRisk == (Params.equity * Params.risk) \div (100 * distance)
        byExposure == (Params.equity * Params.exposure) \div (100 * price)
        units == Min({byRisk, byExposure})
    IN  [units |-> units, stop |-> price - dir * distance, target |-> price + dir * Params.tp * atr,
         rr |-> (100 * Params.tp) \div Params.sl, riskAmount |-> units * price * distance]

\* A gate is a record [exposure, correlation, triggered, dailyLoss, drawdown]: what is already used.
GatesOk(gate, sizing) ==
    [rr          |-> sizing.rr >= Params.minRR,
     exposure    |-> gate.exposure + Params.risk <= Params.exposure,
     correlation |-> ~gate.triggered \/ gate.correlation + Params.risk <= Params.correlation,
     daily_loss  |-> gate.dailyLoss + Params.risk <= Params.dailyLoss,
     drawdown    |-> gate.drawdown + Params.risk <= Params.drawdown]

NoSizing == [units |-> 0, stop |-> 0, target |-> 0, rr |-> 0, riskAmount |-> 0]

\* assess, for a direction other than FLAT (compute_decision asks for no other).
Assess(dir, atr, price, gate) ==
    LET canSize == atr > 0 /\ price > 0
        sizing == IF canSize THEN ComputeSizing(price, atr, dir) ELSE NoSizing
        ok == IF canSize THEN GatesOk(gate, sizing) ELSE [g \in DOMAIN GatesOk(gate, sizing) |-> FALSE]
        passed == \A g \in DOMAIN ok : ok[g]
    IN  [passed |-> passed, paper |-> passed /\ Params.enabled, ok |-> ok, sizing |-> sizing]

\* The gate that is named as the veto: the first that failed, in the code's order.
FirstFailing(ok) ==
    GateNames[CHOOSE i \in 1..5 : ~ok[GateNames[i]] /\ \A j \in 1..(i - 1) : ok[GateNames[j]]]

Coverage(signals) == (100 * Cardinality(DOMAIN signals \cap AgentFamilies)) \div 4

Skip(reason, fused) ==
    [action |-> "SKIP", status |-> "none", veto |-> reason, fused |-> fused, sizing |-> NoSizing]
Persist(status, veto, fused, risk) ==
    [action |-> "PERSIST", status |-> status, veto |-> veto, fused |-> fused, sizing |-> risk.sizing]

\* Mutant: what passes the risk gates is paper, whether the agents agree or not.
ComputeDecisionAgreementLast(in) ==
    LET fused == ApplyContext(Fuse(in.signals, in.regime), in.context)
        risk == Assess(fused.dir, in.atr, in.price, in.gate)
    IN  IF fused.voters = {} THEN Skip("no_directional_votes", fused)
        ELSE IF Coverage(in.signals) < CoverageMin THEN Skip("insufficient_coverage", fused)
        ELSE IF fused.dir = 0 THEN Skip("weak_flat", fused)
        ELSE IF risk.paper THEN Persist("PAPER", "none", fused, risk)
        ELSE Persist("BLOCKED", "risk", fused, risk)

\* compute_decision: skip what has no votes, too few agents or no direction; otherwise the
\* verdict is ANALYSIS (low agreement, or risk gating switched off), PAPER or BLOCKED.
\* A context of confidence 0 stands for no context.
ComputeDecision(in) ==
    LET fused == ApplyContext(Fuse(in.signals, in.regime), in.context)
        risk == Assess(fused.dir, in.atr, in.price, in.gate)
        disagree == 100 * fused.agree < AgreementMin * fused.total
    IN  IF fused.voters = {} THEN Skip("no_directional_votes", fused)
        ELSE IF Coverage(in.signals) < CoverageMin THEN Skip("insufficient_coverage", fused)
        ELSE IF fused.dir = 0 THEN Skip("weak_flat", fused)
        ELSE IF disagree THEN Persist("ANALYSIS", "low_agreement", fused, risk)
        ELSE IF risk.paper THEN Persist("PAPER", "none", fused, risk)
        ELSE IF risk.passed THEN Persist("ANALYSIS", "risk_disabled", fused, risk)
        ELSE Persist("BLOCKED", FirstFailing(risk.ok), fused, risk)
================================================================================
