----------------------------- MODULE LlmBudget -----------------------------
(***************************************************************************)
(* The daily budget of the language-model client:                          *)
(*                                                                         *)
(*   backend/app/llm/client.py        DailyBudgetBreaker                   *)
(*   backend/app/llm/opencode_zen.py  complete, the budget alert           *)
(*                                                                         *)
(* One process.  reserve has no await, so calls that overlap reserve one   *)
(* after the other; a reservation is not given back when the call fails.   *)
(***************************************************************************)
EXTENDS Integers, FiniteSets

CONSTANTS
  NULL,
  Budget,   \* LLM_DAILY_BUDGET_USD
  Costs,    \* estimated costs of a call
  MaxDay    \* bound: days

ASSUME BudgetAssumption == Budget \in Nat /\ Costs \subseteq Nat \ {0} /\ MaxDay \in Nat \ {0}

VARIABLES
  today,    \* the clock
  day,      \* _day: the day _spent belongs to
  spent,    \* _spent
  alerted,  \* _budget_alerted
  alerts,   \* days on which alert.llm_budget was published
  paid,     \* history: paid[d], cost of the calls made on day d
  refused   \* history: [day, cost, paid] of the last refusal, or NULL

vars == <<today, day, spent, alerted, alerts, paid, refused>>

Init ==
  /\ today = 1 /\ day = 0 /\ spent = 0
  /\ alerted = FALSE /\ alerts = {}
  /\ paid = [d \in 1 .. MaxDay |-> 0] /\ refused = NULL

NextDay ==
  /\ today < MaxDay
  /\ today' = today + 1
  /\ UNCHANGED <<day, spent, alerted, alerts, paid, refused>>

\* Mutant: the day is not looked at.
SpentTodayEver == spent

\* _rollover: what was spent counts for its day only.
SpentToday == IF day = today THEN spent ELSE 0

\* enabled and remaining: the rollover is the only effect.
Enabled ==
  /\ Budget > 0
  /\ day' = today /\ spent' = SpentToday
  /\ UNCHANGED <<today, alerted, alerts, paid, refused>>

\* Mutant: the call that crosses the limit is let through.
FitsBefore(cost) == Budget > 0 /\ SpentToday < Budget

\* reserve
Fits(cost) == Budget > 0 /\ SpentToday + cost <= Budget

\* complete, with the reservation granted; the answer may still be an error.
Complete(cost) ==
  /\ Fits(cost)
  /\ day' = today
  /\ spent' = SpentToday + cost
  /\ paid' = [paid EXCEPT ![today] = @ + cost]
  /\ UNCHANGED <<today, alerted, alerts, refused>>

\* complete refused: LLMUnavailable, and an alert the first time.
Refuse(cost) ==
  /\ ~Fits(cost)
  /\ IF Budget > 0 THEN day' = today /\ spent' = SpentToday ELSE UNCHANGED <<day, spent>>
  /\ alerts' = IF alerted THEN alerts ELSE alerts \cup {today}
  /\ alerted' = TRUE
  /\ refused' = [day |-> today, cost |-> cost, paid |-> paid[today]]
  /\ UNCHANGED <<today, paid>>

Next == NextDay \/ Enabled \/ \E c \in Costs : Complete(c) \/ Refuse(c)
Spec == Init /\ [][Next]_vars

----------------------------------------------------------------------------
(* Properties. *)

\* No day costs more than the budget.
WithinBudget == \A d \in 1 .. MaxDay : paid[d] <= Budget

\* A call is refused only if it would exceed what is left of that day's budget.
RefusalIsDue == refused # NULL => refused.paid + refused.cost > Budget

\* The budget is a limit and no more than that: no day costs more, and what it
\* still covers is not refused (DailyBudgetBreaker).
BudgetIsExact == WithinBudget /\ RefusalIsDue

\* Not guaranteed by the code (README, "Known deviations").
\* opencode_zen.py: an alert "once when the daily budget trips": on each day
\* with a refusal.
TripIsAlerted == refused # NULL => refused.day \in alerts

=============================================================================
