------------------------------ MODULE Services ------------------------------
(***************************************************************************)
(* The services around the trading pipeline, side by side: a behaviour is  *)
(* one of the component named by part, while the variables of the others   *)
(* keep their initial values.  A component whose properties need two       *)
(* instances is two parts over the same variables.                         *)
(*                                                                         *)
(*   "budget"              LlmBudget                                       *)
(*   "alerts"              AlertWorker                                     *)
(*   "worker"              Heartbeat                                       *)
(*   "feed"                LiveStream                                      *)
(*   "tab", "tabs"         Sessions: one set of tabs and another           *)
(*   "limiter"             RateLimiter                                     *)
(*   "shared", "separate"  RuntimeSettings: one assignment of the kinds of *)
(*                         request to the admins, and another              *)
(*   "portfolio"           Portfolio over PaperLedger                      *)
(*                                                                         *)
(* A constant means what it means in its component; where two components   *)
(* use the same name for different things it has a prefix here.            *)
(***************************************************************************)
EXTENDS LlmBudget

CONSTANTS
  Admins, MaxCrashes,                                           \* of several components
  Pairs, Shapes, BatchSize, AlertLen, AlertTime, MaxAlerts, MaxCommitFailures,
    MaxAckFailures,                                             \* AlertWorker
  Instances, Overlap, Period, MinTtl, MaxCycle, RoundTrip, MaxStops, MaxHangs,
    MaxOutages,                                                 \* Heartbeat
  Topics, Permitted, Wanted, Count, FeedLen, MaxBreaks,         \* LiveStream
  Users, OneTab, TwoTabs, MaxTokens, MaxLosses, TabUpdates, TabsUpdates,  \* Sessions
  Keys, Limit, Window, Second, LimiterTime,                     \* RateLimiter
  Fields, KindOf, Requests, Parse, EnvValues, SharedKinds, SharedRequests, SharedRestarts,
    SeparateKinds, SeparateRequests, SeparateRestarts,          \* RuntimeSettings
  Units, SymbolOf, TfSeconds, Bars, Brackets, Cost, StartEquity, MaxBars, SnapshotInterval,
    Backfill, LedgerTime, MaxDecisions, MaxFailures, PageLimit  \* Portfolio

VARIABLES
  part,
  alertNow, born, raised, alertStream, alertPending, acked, alertRows, batch, tx, aborted,
    alertAcks, alertPc, alertUsed,
  beatKey, beatPc, beatSince, beatTouched, stopped, outage, gauge, beatUsed,
  log, valid, tickets, page, held, socket, inbox, topics, cursors, out, frames, asked, base,
    breaks,
  users, tokens, cookie, request, caught, authAudit, authUsed,
  limiterNow, hits, allowed, advice,
  env, settingRows, req, seen, settingAudit, settingTouched, requests, restarts,
  clock, candles, decided, orders, positions, snapshot, pc, queue, unit, cands, window,
    failures, rpc, got, shown, idle

Alerts == INSTANCE AlertWorker WITH
  MaxLen <- AlertLen, MaxTime <- AlertTime,
  now <- alertNow, stream <- alertStream, pending <- alertPending, rows <- alertRows,
  acks <- alertAcks, pc <- alertPc, used <- alertUsed

Worker == INSTANCE Heartbeat WITH
  key <- beatKey, pc <- beatPc, since <- beatSince, touched <- beatTouched, used <- beatUsed

Feed == INSTANCE LiveStream WITH
  MaxLen <- FeedLen, MaxFaults <- MaxBreaks,
  pc <- socket, since <- cursors, got <- frames, faults <- breaks

Tab == INSTANCE Sessions WITH
  Tabs <- OneTab, MaxUpdates <- TabUpdates, audit <- authAudit, used <- authUsed
Browser == INSTANCE Sessions WITH
  Tabs <- TwoTabs, MaxUpdates <- TabsUpdates, audit <- authAudit, used <- authUsed

Limiter == INSTANCE RateLimiter WITH MaxTime <- LimiterTime, now <- limiterNow

Shared == INSTANCE RuntimeSettings WITH
  KindsOf <- SharedKinds, MaxRequests <- SharedRequests, MaxRestarts <- SharedRestarts,
  rows <- settingRows, audit <- settingAudit, touched <- settingTouched
Separate == INSTANCE RuntimeSettings WITH
  KindsOf <- SeparateKinds, MaxRequests <- SeparateRequests, MaxRestarts <- SeparateRestarts,
  rows <- settingRows, audit <- settingAudit, touched <- settingTouched

Summary == INSTANCE Portfolio WITH MaxTime <- LedgerTime

----------------------------------------------------------------------------
alertVars ==
  <<alertNow, born, raised, alertStream, alertPending, acked, alertRows, batch, tx, aborted,
    alertAcks, alertPc, alertUsed>>
beatVars == <<beatKey, beatPc, beatSince, beatTouched, stopped, outage, gauge, beatUsed>>
feedVars ==
  <<log, valid, tickets, page, held, socket, inbox, topics, cursors, out, frames, asked, base,
    breaks>>
authVars == <<users, tokens, cookie, request, caught, authAudit, authUsed>>
limiterVars == <<limiterNow, hits, allowed, advice>>
settingVars == <<env, settingRows, req, seen, settingAudit, settingTouched, requests, restarts>>
ledgerVars ==
  <<clock, candles, decided, orders, positions, snapshot, pc, queue, unit, cands, window,
    failures, rpc, got, shown, idle>>
allVars ==
  <<part, vars, alertVars, beatVars, feedVars, authVars, limiterVars, settingVars, ledgerVars>>

ServicesInit ==
  /\ part \in {"budget", "alerts", "worker", "feed", "tab", "tabs", "limiter", "shared",
               "separate", "portfolio"}
  /\ Init /\ Alerts!Init /\ Worker!Init /\ Feed!Init /\ Limiter!Init
  /\ (part # "tabs" /\ Tab!Init) \/ (part = "tabs" /\ Browser!Init)
  /\ Shared!Init
  /\ part \notin {"shared", "separate"} => env = [f \in Fields |-> CHOOSE v \in EnvValues[f] : TRUE]
  /\ Summary!PortfolioInit

\* A step of the parts ps leaves the variables of the others alone.
Only(ps) ==
  /\ part \in ps /\ UNCHANGED part
  /\ "budget" \notin ps => UNCHANGED vars
  /\ "alerts" \notin ps => UNCHANGED alertVars
  /\ "worker" \notin ps => UNCHANGED beatVars
  /\ "feed" \notin ps => UNCHANGED feedVars
  /\ "tabs" \notin ps => UNCHANGED authVars
  /\ "limiter" \notin ps => UNCHANGED limiterVars
  /\ "shared" \notin ps => UNCHANGED settingVars
  /\ "portfolio" \notin ps => UNCHANGED ledgerVars

ServicesNext ==
  \/ Only({"budget"}) /\ Next
  \/ Only({"alerts"}) /\ Alerts!Next
  \/ Only({"worker"}) /\ Worker!Next
  \/ Only({"feed"}) /\ Feed!Next
  \/ Only({"tab", "tabs"}) /\ part = "tab" /\ Tab!Next
  \/ Only({"tab", "tabs"}) /\ part = "tabs" /\ Browser!Next
  \/ Only({"limiter"}) /\ Limiter!Next
  \/ Only({"shared", "separate"}) /\ part = "shared" /\ Shared!Next
  \/ Only({"shared", "separate"}) /\ part = "separate" /\ Separate!Next
  \/ Only({"portfolio"}) /\ Summary!PortfolioNext

ServicesSpec == ServicesInit /\ [][ServicesNext]_allVars

----------------------------------------------------------------------------
(* Properties: those of the services, each for the parts it is about. *)

\* An alert that alert_worker acknowledged on the stream has its row, collapsing
\* redelivered alerts (event_id) never collapses two staleness alerts, and an
\* alert stays acknowledged by the admin who acknowledged it first.
AlertsAreKept == Alerts!AlertsAreKept

\* A worker that goes through its loop is reported up (heartbeat_ttl_for_loop).
HealthyIsUp == part = "worker" => Worker!TypeOK /\ Worker!HealthyIsUp

\* A socket sends the events of a topic in stream order, none twice, and none
\* between its first cursor and its present one is missing (_pump).
FeedIsExact == part = "feed" => Feed!FeedIsExact

\* In every interleaving of two tabs a token family keeps its owner, a token
\* with a successor is revoked and somebody keeps the admin role.  With one
\* request at a time a family has one token that can be used, and a family in
\* which reuse was detected stays dead (refresh, update_user).
SessionsAreSafe ==
  /\ part = "tab" => Tab!SessionsAreSafe
  /\ part = "tabs" => Browser!SessionsAreSafe

\* No window of the limiter, wherever it begins, lets through too many calls; a
\* caller that waits as long as the 429 said (retry_after) is let through, and
\* one that waits less is not.
LimiterIsExact == part = "limiter" => Limiter!LimiterIsExact

\* A risk knob in use is within its bounds or is the environment's own.  If no
\* two admins send requests of the same kind, a request changes no value in use
\* that it does not send ("Omitted fields stay unchanged") and the last audit
\* record of a kind tells the values in use.
SettingsAreSafe ==
  /\ [](part = "shared" => Shared!SettingsInUse)
  /\ [](part = "separate" => Separate!SettingsInUse)
  /\ [][part = "separate" => Separate!KeepsOmitted]_settingVars

\* A summary never counts an order that is filled meanwhile as order and
\* position, and a page of OPEN positions has them all, however many later ones
\* are closed (load_portfolio_summary, list_positions).
SummaryIsSound == part = "portfolio" => Summary!SummaryIsSound
=============================================================================
