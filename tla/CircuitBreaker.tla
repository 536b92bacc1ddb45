--------------------------- MODULE CircuitBreaker ---------------------------
(***************************************************************************)
(* backend/app/data/breaker.py: the breaker every provider call goes       *)
(* through, as functions on its state.  `age' is the time since opened_at  *)
(* in ticks of the clock, saturated at the cooldown (NULL when opened_at   *)
(* is None): past it the code's max(0, ..) yields 0.  The failure counter  *)
(* is saturated at the threshold, with which the code compares it.         *)
(***************************************************************************)
EXTENDS Integers

CONSTANTS
  Threshold,  \* failure_threshold
  Cooldown,   \* cooldown_seconds
  Second,     \* ticks of the clock in a second
  NULL

BreakerStates == {"closed", "open", "half_open"}

\* The cooldown in ticks.
Ticks == Cooldown * Second

Breakers == [state : BreakerStates, failures : 0 .. Threshold, age : 0 .. Ticks \cup {NULL}]

\* CircuitBreaker.__init__
NewBreaker == [state |-> "closed", failures |-> 0, age |-> NULL]

\* seconds_until_probe of an open breaker: whole seconds, what is left of one is cut off.
SecondsUntilProbe(br) == (Ticks - br.age) \div Second

\* before_call raises BreakerOpenError.
Refuses(br) ==
  \/ br.state = "open" /\ br.age # NULL /\ SecondsUntilProbe(br) > 0
  \/ br.state = "half_open"

\* before_call lets the call through: OPEN becomes HALF_OPEN, the call is the probe.
Admit(br) ==
  IF br.state = "open" /\ br.age # NULL THEN [br EXCEPT !.state = "half_open"] ELSE br

RecordSuccess(br) == NewBreaker

\* Mutant: a failed probe counts like any other failure.
RecordFailureForgivingProbe(br) ==
  LET n == IF br.failures < Threshold THEN br.failures + 1 ELSE Threshold
  IN IF n >= Threshold /\ br.state # "half_open"
       THEN [state |-> "open", failures |-> n, age |-> 0]
       ELSE [br EXCEPT !.failures = n]

\* Mutant: opens one failure late.
RecordFailureLate(br) ==
  IF br.state = "half_open" \/ br.failures >= Threshold
    THEN [state |-> "open", failures |-> Threshold, age |-> 0]
    ELSE [br EXCEPT !.failures = @ + 1]

\* record_failure and _open
RecordFailure(br) ==
  LET n == IF br.failures < Threshold THEN br.failures + 1 ELSE Threshold
  IN IF br.state = "half_open" \/ n >= Threshold
       THEN [state |-> "open", failures |-> n, age |-> 0]
       ELSE [br EXCEPT !.failures = n]

\* Mutant: opened_at is not restored.
LoadWithoutTime(row) == [row EXCEPT !.age = NULL]

\* load: the persisted row becomes the breaker of the restarted worker.
Load(row) == row

\* A tick passes for a breaker or a persisted row of it.
Aged(br) == [br EXCEPT !.age = IF @ = NULL \/ @ = Ticks THEN @ ELSE @ + 1]
=============================================================================
