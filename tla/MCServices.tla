----------------------------- MODULE MCServices -----------------------------
(***************************************************************************)
(* A small instance of Services: values for the constants that the         *)
(* configuration cannot write down.                                        *)
(***************************************************************************)
EXTENDS Services

\* Two knobs and the two market fields.  Every value is a set of names.  A
\* knob beyond its bounds is {"beyond"}; a list with "bad" and an empty one are
\* refused; "eurusd" is stored as EURUSD.
TheFields == {"max_exposure", "vol_target", "symbols", "timeframes"}
KindsOfFields == [f \in TheFields |-> IF f \in {"symbols", "timeframes"} THEN "market" ELSE "risk"]
Levels == {{"zero"}, {"low"}, {"high"}, {"beyond"}}
Names  == {{"EURUSD"}, {"eurusd"}, {"bad"}}
Frames == {{"H1"}, {"M5", "H1"}, {}}
Parser ==
  [f \in TheFields |->
     CASE f = "symbols" -> [v \in Names |-> IF v = {"bad"} THEN NULL ELSE {"EURUSD"}]
       [] f = "timeframes" -> [v \in Frames |-> IF v = {} THEN NULL ELSE v]
       [] OTHER -> [v \in Levels |-> IF v = {"beyond"} THEN NULL ELSE v]]
Environments ==
  [f \in TheFields |->
     CASE f = "symbols" -> {{"EURUSD"}}
       [] f = "timeframes" -> {{"H1"}, {"M5", "H1"}}
       [] f = "vol_target" -> {{"low"}, {"beyond"}}
       [] OTHER -> {{"low"}}]
Sent(kind, fs) == [kind |-> kind, set |-> [f \in TheFields |-> IF f \in DOMAIN fs THEN fs[f] ELSE NULL]]
SomeRequests ==
  {Sent("risk", [max_exposure |-> n]) : n \in {{"zero"}, {"high"}, {"beyond"}}}
  \cup {Sent("risk", [vol_target |-> n]) : n \in {{"high"}, {"beyond"}}}
  \cup {Sent("market", [symbols |-> s]) : s \in Names}
  \cup {Sent("market", [timeframes |-> s]) : s \in Frames}
  \cup {Sent("market", [symbols |-> {"eurusd"}, timeframes |-> {"H1"}])}
BothKinds == [a \in Admins |-> {"risk", "market"}]
OneKind == [a \in Admins |-> IF a = "ann" THEN {"risk"} ELSE {"market"}]

Symbols == <<"EURUSD", "GBPUSD">>
BarLengths == <<1, 1>>
TwoBars == {[open |-> 2, close |-> 2], [open |-> 3, close |-> 1]}
OneBracket == {[side |-> "LONG", sl |-> 1, tp |-> 3]}

ASSUME
  /\ Tab!SessionsAssumption /\ Browser!SessionsAssumption /\ Feed!LiveAssumption
  /\ Alerts!AlertsAssumption /\ Alerts!EntriesCanBeSaved
  /\ Worker!HeartbeatAssumption /\ Worker!OneWorkerInTime
  /\ Limiter!LimiterAssumption
  /\ Shared!SettingsAssumption /\ Separate!SettingsAssumption
  /\ Summary!UnitsAssumption /\ Summary!RowsAssumption
  /\ Summary!NumbersAssumption /\ Summary!NullAssumption

\* The parts "tab" and "separate" are what their names say, so that what needs
\* one request at a time, or one admin for each kind of request, is checked.
ASSUME Tab!OneAtATime /\ Separate!OneAdminPerKind
=============================================================================
