-------------------------- MODULE RuntimeSettings --------------------------
(***************************************************************************)
(* The settings an admin changes at runtime (table system_settings):       *)
(*                                                                         *)
(*   backend/app/data/risk_config.py     risk knobs, all in one row        *)
(*   backend/app/data/market_config.py   symbols and timeframes, a row each*)
(*   backend/app/api/v1/risk.py, admin.py  PUT /params, /market-config     *)
(*   backend/app/db/session.py           get_db: commit when it went well  *)
(*                                                                         *)
(* A request reads the rows, computes the new ones and writes them in one  *)
(* transaction without a lock; requests of several admins interleave.      *)
(***************************************************************************)
EXTENDS Integers

CONSTANTS
  NULL,
  Admins,
  Fields,      \* the knobs, and "symbols" and "timeframes"
  KindOf,      \* KindOf[f]: "risk" or "market"
  Requests,    \* [kind, set]: set[f] is the value sent for f, or NULL
  KindsOf,     \* KindsOf[a]: the kinds of request an admin sends
  Parse,       \* Parse[f][v]: v in its stored form, or NULL if not acceptable
  EnvValues,   \* EnvValues[f]: values the environment may give
  MaxRequests, \* bound: requests
  MaxRestarts  \* bound: deployments with another environment

RowOf(f) == IF KindOf[f] = "risk" THEN "risk.params" ELSE f
Rows     == {RowOf(f) : f \in Fields}
FieldsOf(kind) == {f \in Fields : KindOf[f] = kind}

\* What parses is stored in a form that parses to itself (a float within its
\* bounds; a list of symbols or timeframes in upper case without repetition),
\* and the environment holds such values or, for a knob, refused ones.
SettingsAssumption ==
  /\ "risk.params" \notin Fields
  /\ KindOf \in [Fields -> {"risk", "market"}]
  /\ \A f \in Fields :
       /\ \A v \in DOMAIN Parse[f] :
            Parse[f][v] # NULL => /\ Parse[f][v] \in DOMAIN Parse[f]
                                  /\ Parse[f][Parse[f][v]] = Parse[f][v]
       /\ EnvValues[f] \subseteq {v \in DOMAIN Parse[f] : Parse[f][v] \in {v, NULL}}
  /\ \A r \in Requests :
       /\ r.kind \in {"risk", "market"}
       /\ \A f \in Fields : r.set[f] \in DOMAIN Parse[f] \cup {NULL}
  /\ NULL \notin Requests
  /\ \A row \in Rows :
       NULL \notin [{f \in Fields : RowOf(f) = row} -> UNION {DOMAIN Parse[f] : f \in Fields}]

VARIABLES
  env,      \* the Settings of the running processes
  rows,     \* rows[r]: NULL, or the value of each field of the row
  req,      \* req[a]: the request of a under way, or NULL
  seen,     \* seen[a]: the rows as its session loaded them
  audit,    \* audit[kind]: the resolved values of its last audit record, or NULL
  touched,  \* history: fields an admin has set
  requests, restarts

vars == <<env, rows, req, seen, audit, touched, requests, restarts>>

----------------------------------------------------------------------------
\* Mutant: a stored value is taken as it is.
LoadUnchecked(R, f) == IF R[RowOf(f)] = NULL THEN env[f] ELSE R[RowOf(f)][f]

\* load_risk_params and get_market_config: the row beats the environment; a
\* knob out of its bounds degrades to the environment's.
Load(R, f) ==
  IF R[RowOf(f)] = NULL THEN env[f]
  ELSE LET v == R[RowOf(f)][f]
       IN IF KindOf[f] = "market" THEN v
          ELSE IF Parse[f][v] = NULL THEN env[f] ELSE Parse[f][v]

Resolved == [f \in Fields |-> Load(rows, f)]

\* normalize_symbols and normalize_timeframes raise for the whole request.
Refused(r) == r.kind = "market" /\ \E f \in Fields : r.set[f] # NULL /\ Parse[f][r.set[f]] = NULL

\* Mutant: fields that are not sent go back to the environment's values.
NewValueReset(R, r, f) ==
  IF r.set[f] # NULL /\ Parse[f][r.set[f]] # NULL THEN Parse[f][r.set[f]] ELSE env[f]

\* Mutant: a knob out of its bounds is stored.
NewValueUnchecked(R, r, f) == IF r.set[f] = NULL THEN Load(R, f) ELSE r.set[f]

\* set_risk_params and set_market_config: what was sent if acceptable, else
\* the value resolved from the rows as loaded.
NewValue(R, r, f) ==
  IF r.set[f] # NULL /\ Parse[f][r.set[f]] # NULL THEN Parse[f][r.set[f]] ELSE Load(R, f)

NewRow(R, r, row) == [f \in {g \in Fields : RowOf(g) = row} |-> NewValue(R, r, f)]

----------------------------------------------------------------------------
Init ==
  /\ env \in [Fields -> UNION {EnvValues[f] : f \in Fields}]
  /\ \A f \in Fields : env[f] \in EnvValues[f]
  /\ rows = [r \in Rows |-> NULL]
  /\ req = [a \in Admins |-> NULL] /\ seen = [a \in Admins |-> NULL]
  /\ audit = [k \in {"risk", "market"} |-> NULL]
  /\ touched = {} /\ requests = 0 /\ restarts = 0

\* A request begins: its session loads the rows.
Begin(a, r) ==
  /\ req[a] = NULL /\ requests < MaxRequests
  /\ r.kind \in KindsOf[a]
  /\ req' = [req EXCEPT ![a] = r]
  /\ seen' = [seen EXCEPT ![a] = rows]
  /\ requests' = requests + 1
  /\ UNCHANGED <<env, rows, audit, touched, restarts>>

Done(a) ==
  /\ req' = [req EXCEPT ![a] = NULL]
  /\ seen' = [seen EXCEPT ![a] = NULL]

RowsOf(kind) == {RowOf(f) : f \in FieldsOf(kind)}

\* The row was inserted by another request meanwhile.
Collides(a) == \E r \in RowsOf(req[a].kind) : seen[a][r] = NULL /\ rows[r] # NULL

\* The flush and the commit.  A row that was there is written only if its
\* value differs from the one loaded.
Commit(a) ==
  /\ req[a] # NULL /\ ~Refused(req[a]) /\ ~Collides(a)
  /\ rows' = [r \in Rows |->
       IF r \in RowsOf(req[a].kind) /\ NewRow(seen[a], req[a], r) # seen[a][r]
       THEN NewRow(seen[a], req[a], r) ELSE rows[r]]
  /\ audit' = [audit EXCEPT ![req[a].kind] =
       [f \in FieldsOf(req[a].kind) |-> NewValue(seen[a], req[a], f)]]
  /\ touched' = touched \cup {f \in Fields : req[a].set[f] # NULL}
  /\ Done(a)
  /\ UNCHANGED <<env, requests, restarts>>

\* 400, or 500 after a primary key that is there already: rolled back.
Reject(a) ==
  /\ req[a] # NULL
  /\ Refused(req[a]) \/ Collides(a)
  /\ Done(a)
  /\ UNCHANGED <<env, rows, audit, touched, requests, restarts>>

\* A deployment with another environment; requests under way are lost.
Restart ==
  /\ restarts < MaxRestarts
  /\ restarts' = restarts + 1
  /\ \E f \in Fields : \E v \in EnvValues[f] : env' = [env EXCEPT ![f] = v]
  /\ req' = [a \in Admins |-> NULL]
  /\ seen' = [a \in Admins |-> NULL]
  /\ UNCHANGED <<rows, audit, touched, requests>>

Next ==
  \/ \E a \in Admins : (\E r \in Requests : Begin(a, r)) \/ Commit(a) \/ Reject(a)
  \/ Restart

Spec == Init /\ [][Next]_vars

----------------------------------------------------------------------------
(* Properties. *)

\* risk_config.py: whatever was stored, under whatever environment, a risk
\* knob in use is within its bounds or is the environment's own.
KnobsAreSafe ==
  \A f \in FieldsOf("risk") : Resolved[f] = env[f] \/ Parse[f][Resolved[f]] # NULL

\* risk.py: "Omitted fields stay", admin.py: "Omitted fields stay unchanged":
\* a request changes no value in use that it does not send.
KeepsOmitted ==
  \A a \in Admins : Commit(a) =>
    \A f \in Fields : req[a].set[f] = NULL => Resolved'[f] = Resolved[f]
OmittedStays == [][KeepsOmitted]_vars

\* The last audit record of a kind tells the values in use, until the next
\* deployment.
AuditIsInUse ==
  restarts = 0 => \A k \in {"risk", "market"} :
    audit[k] # NULL => \A f \in FieldsOf(k) : Resolved[f] = audit[k][f]

\* No two admins send requests of the same kind.
OneAdminPerKind == \A a, b \in Admins : a # b => KindsOf[a] \cap KindsOf[b] = {}

\* What holds whoever sends requests, and what holds if they do not overlap.
SettingsInUse == KnobsAreSafe /\ (OneAdminPerKind => AuditIsInUse)
SettingsAreSafe == []SettingsInUse /\ [][OneAdminPerKind => KeepsOmitted]_vars

\* Not guaranteed by the code (README, "Known deviations").
\* risk_config.py: "Defaults come from environment Settings; admins may
\* override individual knobs": what no admin has set follows the environment.
DefaultsFollow == \A f \in Fields \ touched : Resolved[f] = env[f]

=============================================================================
