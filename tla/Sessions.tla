------------------------------ MODULE Sessions ------------------------------
(***************************************************************************)
(* Accounts, token families and the requests that work on them:            *)
(*                                                                         *)
(*   backend/app/services/auth_service.py  register, login, rotate, revoke *)
(*   backend/app/core/security.py          decode_token, role_at_least     *)
(*   backend/app/api/v1/auth.py            the endpoints and the cookie    *)
(*   backend/app/api/v1/users.py           update_user                     *)
(*   backend/app/api/deps.py               get_current_user, require_role  *)
(*                                                                         *)
(* A refresh reads in one step and commits in another; refreshes of        *)
(* several tabs of the same browser may be between the two at the same     *)
(* time, and a response may be lost.  The other requests are one step: of  *)
(* registrations and of changes by admins, one is handled at a time.       *)
(* Cryptography is external: a token is known by its id, and is presented  *)
(* by the browser it was sent to.                                          *)
(***************************************************************************)
EXTENDS Naturals, FiniteSets

CONSTANTS
  NULL,
  Users,          \* e-mail addresses
  Tabs,           \* concurrent requests of the one browser
  MaxTokens,      \* bound: refresh tokens issued
  MaxLosses,      \* bound: responses lost
  MaxUpdates      \* bound: changes by an admin

SessionsAssumption ==
  /\ {MaxTokens, MaxLosses, MaxUpdates} \subseteq Nat
  /\ NULL \notin Nat \cup [role : {"viewer", "trader", "admin"}, active : BOOLEAN]

Roles == {"viewer", "trader", "admin"}

\* ROLE_RANK
Rank == [r \in Roles |-> CASE r = "viewer" -> 0 [] r = "trader" -> 1 [] r = "admin" -> 2]

\* role_at_least
RoleAtLeast(role, required) == Rank[role] >= Rank[required]

VARIABLES
  users,    \* users[u]: [role, active] or NULL before registration
  tokens,   \* refresh_tokens: id -> [user, family, revoked, expired, by]
  cookie,   \* the refresh cookie of the browser: a token id or NULL
  request,  \* request[t]: what the tab has read and not committed
  caught,   \* history: families in which reuse was detected
  audit,    \* history: kinds of audit entries committed
  used      \* what the bounds count

vars == <<users, tokens, cookie, request, caught, audit, used>>

Issued   == DOMAIN tokens
Idle     == [op |-> "none"]
NewId    == Cardinality(Issued) + 1
Live(i)  == ~ tokens[i].revoked /\ ~ tokens[i].expired
Family(i) == {j \in Issued : tokens[j].family = tokens[i].family}

----------------------------------------------------------------------------

Init ==
  /\ users = [u \in Users |-> NULL]
  /\ tokens = [i \in {} |-> NULL]
  /\ cookie = NULL
  /\ request = [t \in Tabs |-> Idle]
  /\ caught = {} /\ audit = {}
  /\ used = [losses |-> 0, updates |-> 0]

\* The first account is an admin, later ones are viewers.
RoleFor == IF \A u \in Users : users[u] = NULL THEN "admin" ELSE "viewer"

\* register_user: the address is free; the unique index settles a race for it.
Register ==
  \E u \in Users :
    /\ users[u] = NULL
    /\ users' = [users EXCEPT ![u] = [role |-> RoleFor, active |-> TRUE]]
    /\ audit' = audit \cup {"USER_REGISTERED"}
    /\ UNCHANGED <<tokens, cookie, request, caught, used>>

\* Mutant: a login continues the family of the login before it.
IssueWrongFamily(u, family, by) ==
  [user |-> u, family |-> IF family > 1 THEN family - 1 ELSE family, by |-> by,
   revoked |-> FALSE, expired |-> FALSE]

\* issue_token_pair: a new row, in the family given or in one of its own.
\* `by' is the token it was rotated from.
Issue(u, family, by) ==
  [user |-> u, family |-> family, by |-> by, revoked |-> FALSE, expired |-> FALSE]

Add(i, row) == [j \in Issued \cup {i} |-> IF j = i THEN row ELSE tokens[j]]

\* The browser gets the response, or it is lost on the way.
Deliver(i) ==
  \/ /\ cookie' = i /\ UNCHANGED used
  \/ /\ used.losses < MaxLosses
     /\ used' = [used EXCEPT !.losses = @ + 1]
     /\ UNCHANGED cookie

\* login: authenticate_user and issue_token_pair with a fresh family.
Login(t) ==
  /\ request[t] = Idle
  /\ NewId <= MaxTokens
  /\ \E u \in Users :
       /\ users[u] # NULL /\ users[u].active
       /\ tokens' = Add(NewId, Issue(u, NewId, NULL))
       /\ Deliver(NewId)
  /\ audit' = audit \cup {"LOGIN_SUCCEEDED"}
  /\ UNCHANGED <<users, request, caught>>

\* authenticate_user refuses: the audit entry is committed before the error.
LoginFails(t) ==
  /\ request[t] = Idle
  /\ \E u \in Users : ~ (users[u] # NULL /\ users[u].active)
  /\ audit' = audit \cup {"LOGIN_FAILED"}
  /\ UNCHANGED <<users, tokens, cookie, request, caught, used>>

\* decode_token accepts the token the tab presents.
Presents(t, i) == request[t] = Idle /\ i = cookie /\ i \in Issued /\ ~ tokens[i].expired

\* rotate_refresh up to its writes: the row is live and its account active.
RotateRead(t) ==
  \E i \in Issued :
    /\ Presents(t, i) /\ ~ tokens[i].revoked
    /\ users[tokens[i].user].active
    /\ request' = [request EXCEPT ![t] = [op |-> "rotate", id |-> i]]
    /\ UNCHANGED <<users, tokens, cookie, caught, audit, used>>

\* Mutant: the old token is not revoked.
RotateCommitKeeping(t) ==
  /\ request[t].op = "rotate" /\ NewId <= MaxTokens
  /\ LET i == request[t].id
     IN tokens' = Add(NewId, Issue(tokens[i].user, tokens[i].family, i))
  /\ Deliver(NewId)
  /\ request' = [request EXCEPT ![t] = Idle]
  /\ audit' = audit \cup {"TOKEN_REFRESHED"}
  /\ UNCHANGED <<users, caught>>

\* The commit of rotate_refresh: the new row, and revoked_at of the old one.
RotateCommit(t) ==
  /\ request[t].op = "rotate" /\ NewId <= MaxTokens
  /\ LET i == request[t].id
         row == Issue(tokens[i].user, tokens[i].family, i)
     IN tokens' = [Add(NewId, row) EXCEPT ![i].revoked = TRUE]
  /\ Deliver(NewId)
  /\ request' = [request EXCEPT ![t] = Idle]
  /\ audit' = audit \cup {"TOKEN_REFRESHED"}
  /\ UNCHANGED <<users, caught>>

\* Mutant: the request layer rolls the revocation back with the error.
RotateReusedRolledBack(t) ==
  \E i \in Issued :
    /\ Presents(t, i) /\ tokens[i].revoked
    /\ caught' = caught \cup {tokens[i].family}
    /\ UNCHANGED <<users, tokens, cookie, request, audit, used>>

\* rotate_refresh with a revoked token: revoke_family and the audit entry are
\* committed before the error is raised.
RotateReused(t) ==
  \E i \in Issued :
    /\ Presents(t, i) /\ tokens[i].revoked
    /\ tokens' = [j \in Issued |-> IF j \in Family(i) THEN [tokens[j] EXCEPT !.revoked = TRUE]
                                   ELSE tokens[j]]
    /\ caught' = caught \cup {tokens[i].family}
    /\ audit' = audit \cup {"TOKEN_REUSE_DETECTED"}
    /\ UNCHANGED <<users, cookie, request, used>>

\* logout: get_current_user needs an active account; then revoke_refresh, and
\* the cookie is deleted.
Logout(t) ==
  \E i \in Issued :
    /\ Presents(t, i) /\ users[tokens[i].user].active
    /\ tokens' = [tokens EXCEPT ![i].revoked = TRUE]
    /\ cookie' = NULL
    /\ audit' = IF tokens[i].revoked THEN audit ELSE audit \cup {"LOGGED_OUT"}
    /\ UNCHANGED <<users, request, caught, used>>

\* The exp of a refresh token passes.
Expire ==
  \E i \in Issued :
    /\ ~ tokens[i].expired
    /\ tokens' = [tokens EXCEPT ![i].expired = TRUE]
    /\ UNCHANGED <<users, cookie, request, caught, audit, used>>

\* Mutant: admins may change their own role.
UpdateUserOwnRole ==
  \E admin, u \in Users, role \in Roles, active \in BOOLEAN :
    /\ used.updates < MaxUpdates
    /\ users[admin] # NULL /\ users[admin].active /\ RoleAtLeast(users[admin].role, "admin")
    /\ users[u] # NULL
    /\ users' = [users EXCEPT ![u] = [role |-> role, active |-> active]]
    /\ used' = [used EXCEPT !.updates = @ + 1]
    /\ audit' = audit \cup {"USER_UPDATED"}
    /\ UNCHANGED <<tokens, cookie, request, caught>>

\* PATCH /users/{id}: an active admin, who does not change the own role.
UpdateUser ==
  \E admin, u \in Users, role \in Roles, active \in BOOLEAN :
    /\ used.updates < MaxUpdates
    /\ users[admin] # NULL /\ users[admin].active /\ RoleAtLeast(users[admin].role, "admin")
    /\ users[u] # NULL
    /\ u = admin => role = users[admin].role
    /\ users' = [users EXCEPT ![u] = [role |-> role, active |-> active]]
    /\ used' = [used EXCEPT !.updates = @ + 1]
    /\ audit' = audit \cup {"USER_UPDATED"}
    /\ UNCHANGED <<tokens, cookie, request, caught>>

----------------------------------------------------------------------------

Refresh(t) == RotateRead(t) \/ RotateCommit(t) \/ RotateReused(t)

Next ==
  \/ Register \/ Expire \/ UpdateUser
  \/ \E t \in Tabs : Login(t) \/ LoginFails(t) \/ Refresh(t) \/ Logout(t)

Spec == Init /\ [][Next]_vars

----------------------------------------------------------------------------
(* Properties. *)

UserRow  == [role : Roles, active : BOOLEAN]
TokenRow == [user : Users, family : Issued, by : Issued \cup {NULL}, revoked : BOOLEAN,
             expired : BOOLEAN]

\* The variables have their types; a family belongs to the login that began it.
TypeOK ==
  /\ users \in [Users -> UserRow \cup {NULL}]
  /\ IsFiniteSet(Issued) /\ Issued = 1 .. Cardinality(Issued)
  /\ tokens \in [Issued -> TokenRow]
  /\ cookie \in Issued \cup {NULL}
  /\ request \in [Tabs -> {Idle} \cup [op : {"rotate"}, id : Issued]]

\* A family has one owner, whichever tokens it was rotated through.
FamilyHasOneUser ==
  \A i, j \in Issued : tokens[i].family = tokens[j].family => tokens[i].user = tokens[j].user

\* A token with a successor is revoked, in every interleaving of rotations,
\* logouts and lost responses.
RotatedIsRevoked == \A i \in Issued : tokens[i].by # NULL => tokens[tokens[i].by].revoked

\* With one request at a time a family never has two tokens that can be used.
OneLivePerFamily ==
  \A i, j \in Issued : tokens[i].family = tokens[j].family /\ Live(i) /\ Live(j) => i = j

\* With one request at a time a family in which reuse was detected stays dead.
CaughtIsDead == \A i \in Issued : tokens[i].family \in caught => ~ Live(i)

\* Somebody keeps the admin role, if perhaps disabled, as long as changes by
\* admins are handled one at a time: the first account has it, and an admin does
\* not change the own role (update_user: "Admins cannot change their own role").
AdminRemains ==
  (\E u \in Users : users[u] # NULL)
    => \E u \in Users : users[u] # NULL /\ users[u].role = "admin"

\* What holds in every interleaving of tabs, and what one tab adds.
OneAtATime == \A t, u \in Tabs : t = u

SessionsAreSafe ==
  /\ TypeOK /\ FamilyHasOneUser /\ RotatedIsRevoked /\ AdminRemains
  /\ OneAtATime => OneLivePerFamily /\ CaughtIsDead
=============================================================================
