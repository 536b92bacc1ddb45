---------------------------- MODULE AccountProofs ----------------------------
(***************************************************************************)
(* What administrators answer for: token families and the admin role, for  *)
(* every set of accounts, any number of tabs and every number of tokens;   *)
(* and the settings they change at runtime, for every set of fields,       *)
(* admins and requests and every environment.                              *)
(***************************************************************************)
EXTENDS Sessions, FiniteSetTheorems, TLAPS

CONSTANTS Admins, Fields, KindOf, Requests, KindsOf, Parse, EnvValues, MaxRequests, MaxRestarts

VARIABLES env, settingRows, req, seen, settingAudit, settingTouched, requests, restarts

Settings == INSTANCE RuntimeSettings WITH
  rows <- settingRows, audit <- settingAudit, touched <- settingTouched

\* A reuse is detected in families that exist.
CaughtWereIssued == caught \subseteq Issued

\* Stronger than OneLivePerFamily and CaughtIsDead, and inductive: also an
\* expired token that was not revoked is the only one of its family, and what a
\* tab has read is still so when it commits.
OneUnrevoked ==
  /\ \A i, j \in Issued : tokens[i].family = tokens[j].family
                            /\ ~ tokens[i].revoked /\ ~ tokens[j].revoked => i = j
  /\ \A i \in Issued : tokens[i].family \in caught => tokens[i].revoked
  /\ \A t \in Tabs : request[t] # Idle => ~ tokens[request[t].id].revoked

IInv ==
  /\ TypeOK /\ FamilyHasOneUser /\ RotatedIsRevoked /\ AdminRemains
  /\ CaughtWereIssued
  /\ OneAtATime => OneUnrevoked

----------------------------------------------------------------------------
(* The table of refresh tokens.                                            *)

\* A new token has the next id.
LEMMA NewIdFacts ==
  ASSUME SessionsAssumption, TypeOK
  PROVE  /\ NewId \notin Issued /\ NewId \in Nat /\ NULL \notin Issued
         /\ IsFiniteSet(Issued \cup {NewId})
         /\ Issued \cup {NewId} = 1 .. Cardinality(Issued \cup {NewId})
<1> DEFINE n == Cardinality(Issued)
<1>1. Issued = 1 .. n
  BY DEF TypeOK
<1>2. IsFiniteSet(Issued) /\ n \in Nat
  BY FS_CardinalityType DEF TypeOK
<1>3. NewId = n + 1
  BY DEF NewId
<1> HIDE DEF n
<1>4. Issued \cup {NewId} = 1 .. (n + 1) /\ NewId \notin Issued /\ NewId \in Nat
  BY <1>1, <1>2, <1>3
<1>5. Cardinality(1 .. (n + 1)) = n + 1
  BY <1>2, FS_Interval
<1>6. NULL \notin Issued
  BY <1>1, <1>2 DEF SessionsAssumption
<1> QED BY <1>1, <1>2, <1>4, <1>5, <1>6, FS_AddElement

\* A table that grows by one row keeps its type.
LEMMA GrowthKeepsType ==
  ASSUME SessionsAssumption, TypeOK,
         NEW n, n = NewId,
         Issued' = Issued \cup {n},
         tokens' = [j \in Issued' |-> tokens'[j]],
         \A j \in Issued' : tokens'[j] \in TokenRow',
         users' \in [Users -> UserRow \cup {NULL}],
         cookie' \in Issued' \cup {NULL},
         request' \in [Tabs -> {Idle} \cup [op : {"rotate"}, id : Issued']]
  PROVE  TypeOK'
<1>1. IsFiniteSet(Issued') /\ Issued' = 1 .. Cardinality(Issued')
  BY NewIdFacts
<1>2. tokens' \in [Issued' -> TokenRow']
  OBVIOUS
<1> QED BY <1>1, <1>2 DEF TypeOK, Idle, UserRow, Roles

\* The same for a table whose rows change.
LEMMA SameIdsKeepType ==
  ASSUME TypeOK,
         tokens' = [j \in Issued |-> tokens'[j]],
         \A j \in Issued : tokens'[j] \in TokenRow,
         users' \in [Users -> UserRow \cup {NULL}],
         cookie' \in Issued \cup {NULL},
         request' \in [Tabs -> {Idle} \cup [op : {"rotate"}, id : Issued]]
  PROVE  TypeOK' /\ Issued' = Issued
<1>1. Issued' = Issued
  BY DEF Issued
<1>2. tokens' \in [Issued -> TokenRow] /\ TokenRow' = TokenRow
  BY <1>1 DEF TokenRow
<1> QED BY <1>1, <1>2 DEF TypeOK, Idle, UserRow, Roles

\* Delivered or lost, the browser holds a token that was issued.
LEMMA DeliverKeepsCookie ==
  ASSUME TypeOK, NEW n, Deliver(n)
  PROVE  cookie' \in Issued \cup {n, NULL}
BY DEF TypeOK, Deliver

----------------------------------------------------------------------------
(* The actions.                                                            *)

\* A registration adds a user without tokens.
LEMMA RegisterKeepsIInv ==
  ASSUME SessionsAssumption, IInv, Register
  PROVE  IInv'
<1>1. PICK u \in Users :
        /\ users[u] = NULL
        /\ users' = [users EXCEPT ![u] = [role |-> RoleFor, active |-> TRUE]]
        /\ UNCHANGED <<tokens, cookie, request, caught>>
  BY DEF Register
<1>2. RoleFor \in Roles
  BY DEF RoleFor, Roles
<1>3. users' \in [Users -> UserRow \cup {NULL}]
  BY <1>1, <1>2 DEF IInv, TypeOK, UserRow
<1>4. TypeOK'
  BY <1>1, <1>3 DEF IInv, TypeOK, Issued, TokenRow, Idle, UserRow, Roles
<1>5. AdminRemains'
  <2>0. users \in [Users -> UserRow \cup {NULL}]
    BY DEF IInv, TypeOK
  <2>1. users'[u] = [role |-> RoleFor, active |-> TRUE]
    BY <1>1, <2>0
  <2>2. users'[u] # NULL
    <3>1. users'[u] \in UserRow
      BY <1>2, <2>1 DEF UserRow
    <3> QED BY <3>1 DEF SessionsAssumption, UserRow, Roles
  <2>3. CASE \A w \in Users : users[w] = NULL
    <3>1. RoleFor = "admin"
      BY <2>3 DEF RoleFor
    <3>2. users'[u].role = "admin"
      BY <2>1, <3>1
    <3> QED BY <2>2, <3>2 DEF AdminRemains
  <2>4. CASE \E w \in Users : users[w] # NULL
    <3>1. PICK w \in Users : users[w] # NULL /\ users[w].role = "admin"
      BY <2>4 DEF IInv, AdminRemains
    <3>2. users'[w] = users[w]
      BY <1>1, <3>1, <2>0
    <3> QED BY <3>1, <3>2 DEF AdminRemains
  <2> QED BY <2>3, <2>4
<1>6. FamilyHasOneUser' /\ RotatedIsRevoked' /\ CaughtWereIssued'
  BY <1>1 DEF IInv, FamilyHasOneUser, RotatedIsRevoked, CaughtWereIssued, Issued
<1>7. (OneAtATime => OneUnrevoked)'
  BY <1>1 DEF IInv, OneAtATime, OneUnrevoked, Issued, Idle
<1> QED BY <1>4, <1>5, <1>6, <1>7 DEF IInv

\* An update of a user leaves somebody with the admin role: an admin keeps the own one.
LEMMA UpdateUserKeepsIInv ==
  ASSUME SessionsAssumption, IInv, UpdateUser
  PROVE  IInv'
<1>1. PICK admin \in Users, u \in Users, role \in Roles, active \in BOOLEAN :
        /\ users[admin] # NULL /\ RoleAtLeast(users[admin].role, "admin")
        /\ u = admin => role = users[admin].role
        /\ users' = [users EXCEPT ![u] = [role |-> role, active |-> active]]
        /\ UNCHANGED <<tokens, cookie, request, caught>>
  BY DEF UpdateUser
<1>0. users \in [Users -> UserRow \cup {NULL}]
  BY DEF IInv, TypeOK
<1>2. users[admin].role \in Roles
  BY <1>0, <1>1 DEF UserRow
<1>3. users[admin].role = "admin"
  BY <1>1, <1>2 DEF RoleAtLeast, Rank, Roles
<1>4. users' \in [Users -> UserRow \cup {NULL}]
  BY <1>0, <1>1 DEF UserRow
<1>5. TypeOK'
  BY <1>1, <1>4 DEF IInv, TypeOK, Issued, TokenRow, Idle, UserRow, Roles
<1>6. AdminRemains'
  <2>1. users'[admin] # NULL /\ users'[admin].role = "admin"
    <3>1. CASE u = admin
      <4>1. users'[admin] = [role |-> role, active |-> active]
        BY <1>0, <1>1, <3>1
      <4>2. users'[admin] # NULL
        BY <4>1 DEF SessionsAssumption, Roles
      <4> QED BY <1>1, <1>3, <3>1, <4>1, <4>2
    <3>2. CASE u # admin
      BY <1>0, <1>1, <1>3, <3>2
    <3> QED BY <3>1, <3>2
  <2> QED BY <2>1 DEF AdminRemains
<1>7. FamilyHasOneUser' /\ RotatedIsRevoked' /\ CaughtWereIssued'
  BY <1>1 DEF IInv, FamilyHasOneUser, RotatedIsRevoked, CaughtWereIssued, Issued
<1>8. (OneAtATime => OneUnrevoked)'
  BY <1>1 DEF IInv, OneAtATime, OneUnrevoked, Issued, Idle
<1> QED BY <1>5, <1>6, <1>7, <1>8 DEF IInv

\* Steps that set flags of tokens and leave the accounts alone.
LEMMA FlagsKeepRelations ==
  ASSUME SessionsAssumption, IInv,
         tokens' = [j \in Issued |-> tokens'[j]],
         \A j \in Issued : /\ tokens'[j] \in TokenRow
                           /\ tokens'[j].user = tokens[j].user
                           /\ tokens'[j].family = tokens[j].family
                           /\ tokens'[j].by = tokens[j].by
                           /\ tokens[j].revoked => tokens'[j].revoked,
         cookie' \in {cookie, NULL},
         UNCHANGED <<users, request>>,
         caught' \subseteq Issued
  PROVE  /\ TypeOK' /\ FamilyHasOneUser' /\ RotatedIsRevoked' /\ AdminRemains'
         /\ CaughtWereIssued' /\ Issued' = Issued
<1>1. TypeOK' /\ Issued' = Issued
  BY SameIdsKeepType DEF IInv, TypeOK
<1>2. FamilyHasOneUser'
  BY <1>1 DEF IInv, FamilyHasOneUser
<1>3. RotatedIsRevoked'
  <2>1. \A j \in Issued : tokens[j].by \in Issued \cup {NULL}
    BY DEF IInv, TypeOK, TokenRow
  <2> QED BY <1>1, <2>1 DEF IInv, RotatedIsRevoked
<1>4. AdminRemains' /\ CaughtWereIssued'
  BY <1>1 DEF IInv, AdminRemains, CaughtWereIssued
<1> QED BY <1>1, <1>2, <1>3, <1>4

\* A revocation by a tab: with one tab nothing else is under way.
LEMMA RevocationKeepsOne ==
  ASSUME IInv, NEW t \in Tabs, request[t] = Idle, UNCHANGED request, Issued' = Issued,
         \A j \in Issued : /\ tokens'[j].family = tokens[j].family
                           /\ tokens[j].revoked => tokens'[j].revoked,
         \A j \in Issued : tokens[j].family \in caught' \ caught => tokens'[j].revoked
  PROVE  (OneAtATime => OneUnrevoked)'
<1> SUFFICES ASSUME OneAtATime PROVE OneUnrevoked'
  BY DEF OneAtATime
<1>1. OneUnrevoked /\ \A u \in Tabs : request'[u] = Idle
  BY DEF IInv, OneAtATime
<1>2. \A i, j \in Issued' : tokens'[i].family = tokens'[j].family
                              /\ ~ tokens'[i].revoked /\ ~ tokens'[j].revoked => i = j
  <2> SUFFICES ASSUME NEW i \in Issued, NEW j \in Issued,
                      tokens'[i].family = tokens'[j].family,
                      ~ tokens'[i].revoked, ~ tokens'[j].revoked
               PROVE  i = j
    OBVIOUS
  <2>1. tokens[i].family = tokens[j].family /\ ~ tokens[i].revoked /\ ~ tokens[j].revoked
    OBVIOUS
  <2> QED BY <1>1, <2>1 DEF OneUnrevoked
<1>3. \A i \in Issued' : tokens'[i].family \in caught' => tokens'[i].revoked
  BY <1>1 DEF OneUnrevoked
<1> QED BY <1>1, <1>2, <1>3 DEF OneUnrevoked, Idle

\* A reused token revokes its whole family.
LEMMA RotateReusedKeepsIInv ==
  ASSUME SessionsAssumption, IInv, NEW t \in Tabs, RotateReused(t)
  PROVE  IInv'
<1>1. PICK i \in Issued :
        /\ Presents(t, i) /\ tokens[i].revoked
        /\ tokens' = [j \in Issued |-> IF j \in Family(i) THEN [tokens[j] EXCEPT !.revoked = TRUE]
                                       ELSE tokens[j]]
        /\ caught' = caught \cup {tokens[i].family}
        /\ UNCHANGED <<users, cookie, request>>
  BY DEF RotateReused
<1>2. \A j \in Issued : tokens[j] \in TokenRow
  BY DEF IInv, TypeOK
<1>3. \A j \in Issued : /\ tokens'[j] \in TokenRow
                        /\ tokens'[j].user = tokens[j].user
                        /\ tokens'[j].family = tokens[j].family
                        /\ tokens'[j].by = tokens[j].by
                        /\ tokens[j].revoked => tokens'[j].revoked
                        /\ tokens[j].family = tokens[i].family => tokens'[j].revoked
  BY <1>1, <1>2 DEF Family, TokenRow
<1>4. caught' \subseteq Issued
  BY <1>1, <1>2 DEF IInv, CaughtWereIssued, TokenRow
<1>5. tokens' = [j \in Issued |-> tokens'[j]]
  BY <1>1
<1>6. /\ TypeOK' /\ FamilyHasOneUser' /\ RotatedIsRevoked' /\ AdminRemains'
      /\ CaughtWereIssued' /\ Issued' = Issued
  BY <1>1, <1>3, <1>4, <1>5, FlagsKeepRelations
<1>7. \A j \in Issued : tokens[j].family \in caught' \ caught => tokens'[j].revoked
  BY <1>1, <1>3
<1>8. request[t] = Idle
  BY <1>1 DEF Presents
<1>9. (OneAtATime => OneUnrevoked)'
  BY <1>1, <1>3, <1>6, <1>7, <1>8, RevocationKeepsOne
<1> QED BY <1>6, <1>9 DEF IInv

\* A logout revokes the token it presents.
LEMMA LogoutKeepsIInv ==
  ASSUME SessionsAssumption, IInv, NEW t \in Tabs, Logout(t)
  PROVE  IInv'
<1>1. PICK i \in Issued :
        /\ Presents(t, i)
        /\ tokens' = [tokens EXCEPT ![i].revoked = TRUE]
        /\ cookie' = NULL
        /\ UNCHANGED <<users, request, caught>>
  BY DEF Logout
<1>2. \A j \in Issued : tokens[j] \in TokenRow
  BY DEF IInv, TypeOK
<1>3. \A j \in Issued : tokens'[j] = IF j = i THEN [tokens[j] EXCEPT !.revoked = TRUE] ELSE tokens[j]
  BY <1>1 DEF IInv, TypeOK
<1>4. \A j \in Issued : /\ tokens'[j] \in TokenRow
                        /\ tokens'[j].user = tokens[j].user
                        /\ tokens'[j].family = tokens[j].family
                        /\ tokens'[j].by = tokens[j].by
                        /\ tokens[j].revoked => tokens'[j].revoked
  BY <1>2, <1>3 DEF TokenRow
<1>5. tokens' = [j \in Issued |-> tokens'[j]] /\ caught' \subseteq Issued
  BY <1>1 DEF IInv, TypeOK, CaughtWereIssued
<1>6. /\ TypeOK' /\ FamilyHasOneUser' /\ RotatedIsRevoked' /\ AdminRemains'
      /\ CaughtWereIssued' /\ Issued' = Issued
  BY <1>1, <1>4, <1>5, FlagsKeepRelations
<1>7. \A j \in Issued : tokens[j].family \in caught' \ caught => tokens'[j].revoked
  BY <1>1
<1>8. request[t] = Idle
  BY <1>1 DEF Presents
<1>9. (OneAtATime => OneUnrevoked)'
  BY <1>1, <1>4, <1>6, <1>7, <1>8, RevocationKeepsOne
<1> QED BY <1>6, <1>9 DEF IInv

\* A token expires.
LEMMA ExpireKeepsIInv ==
  ASSUME SessionsAssumption, IInv, Expire
  PROVE  IInv'
<1>1. PICK i \in Issued :
        /\ tokens' = [tokens EXCEPT ![i].expired = TRUE]
        /\ UNCHANGED <<users, cookie, request, caught>>
  BY DEF Expire
<1>2. \A j \in Issued : tokens[j] \in TokenRow
  BY DEF IInv, TypeOK
<1>3. \A j \in Issued : tokens'[j] = IF j = i THEN [tokens[j] EXCEPT !.expired = TRUE] ELSE tokens[j]
  BY <1>1 DEF IInv, TypeOK
<1>4. \A j \in Issued : /\ tokens'[j] \in TokenRow
                        /\ tokens'[j].user = tokens[j].user
                        /\ tokens'[j].family = tokens[j].family
                        /\ tokens'[j].by = tokens[j].by
                        /\ tokens'[j].revoked = tokens[j].revoked
  BY <1>2, <1>3 DEF TokenRow
<1>5. tokens' = [j \in Issued |-> tokens'[j]] /\ caught' \subseteq Issued
  BY <1>1 DEF IInv, TypeOK, CaughtWereIssued
<1>6. /\ TypeOK' /\ FamilyHasOneUser' /\ RotatedIsRevoked' /\ AdminRemains'
      /\ CaughtWereIssued' /\ Issued' = Issued
  BY <1>1, <1>4, <1>5, FlagsKeepRelations
<1>7. (OneAtATime => OneUnrevoked)'
  <2> SUFFICES ASSUME OneAtATime PROVE OneUnrevoked'
    BY DEF OneAtATime
  <2>1. OneUnrevoked
    BY DEF IInv
  <2>2. \A w \in Tabs : request[w] # Idle => request[w].id \in Issued
    BY DEF IInv, TypeOK
  <2> QED BY <1>1, <1>4, <1>6, <2>1, <2>2 DEF OneUnrevoked, Idle
<1> QED BY <1>6, <1>7 DEF IInv

\* A refresh looks its token up and changes nothing.
LEMMA RotateReadKeepsIInv ==
  ASSUME SessionsAssumption, IInv, NEW t \in Tabs, RotateRead(t)
  PROVE  IInv'
<1>1. PICK i \in Issued :
        /\ ~ tokens[i].revoked
        /\ request' = [request EXCEPT ![t] = [op |-> "rotate", id |-> i]]
        /\ UNCHANGED <<users, tokens, cookie, caught>>
  BY DEF RotateRead
<1>2. request \in [Tabs -> {Idle} \cup [op : {"rotate"}, id : Issued]]
  BY DEF IInv, TypeOK
<1>3. request' \in [Tabs -> {Idle} \cup [op : {"rotate"}, id : Issued]]
  BY <1>1, <1>2
<1>4. tokens' = [j \in Issued |-> tokens'[j]] /\ \A j \in Issued : tokens'[j] \in TokenRow
  BY <1>1 DEF IInv, TypeOK
<1>5. TypeOK' /\ Issued' = Issued
  BY <1>1, <1>3, <1>4, SameIdsKeepType DEF IInv, TypeOK
<1>6. FamilyHasOneUser' /\ RotatedIsRevoked' /\ AdminRemains' /\ CaughtWereIssued'
  BY <1>1 DEF IInv, FamilyHasOneUser, RotatedIsRevoked, AdminRemains, CaughtWereIssued, Issued
<1>7. (OneAtATime => OneUnrevoked)'
  <2> SUFFICES ASSUME OneAtATime PROVE OneUnrevoked'
    BY DEF OneAtATime
  <2>1. OneUnrevoked /\ \A u \in Tabs : u = t
    BY DEF IInv, OneAtATime
  <2>2. \A u \in Tabs : ~ tokens'[request'[u].id].revoked
    BY <1>1, <1>2, <2>1
  <2> QED BY <1>1, <1>5, <2>1, <2>2 DEF OneUnrevoked, Idle
<1> QED BY <1>5, <1>6, <1>7 DEF IInv

\* A login begins a new family with one token.
LEMMA LoginKeepsIInv ==
  ASSUME SessionsAssumption, IInv, NEW t \in Tabs, Login(t)
  PROVE  IInv'
<1> DEFINE n == NewId
<1>1. PICK u \in Users :
        /\ tokens' = Add(n, Issue(u, n, NULL))
        /\ Deliver(n)
        /\ request[t] = Idle
        /\ UNCHANGED <<users, request, caught>>
  BY DEF Login
<1>2. n \notin Issued /\ NULL \notin Issued
  BY NewIdFacts DEF IInv
<1> HIDE DEF n
<1>3. \A j \in Issued : tokens[j] \in TokenRow
  BY DEF IInv, TypeOK
<1>4. /\ tokens' = [j \in Issued \cup {n} |-> tokens'[j]]
      /\ tokens'[n] = [user |-> u, family |-> n, by |-> NULL, revoked |-> FALSE, expired |-> FALSE]
      /\ \A j \in Issued : tokens'[j] = tokens[j]
  BY <1>1, <1>2 DEF Add, Issue
<1>5. Issued' = Issued \cup {n}
  BY <1>4 DEF Issued
<1>6. \A j \in Issued' : tokens'[j] \in TokenRow'
  <2>1. TokenRow \subseteq TokenRow' /\ tokens'[n] \in TokenRow'
    BY <1>4, <1>5 DEF TokenRow
  <2> QED BY <1>3, <1>4, <1>5, <2>1
<1>7. cookie' \in Issued' \cup {NULL}
  BY <1>1, <1>5, DeliverKeepsCookie DEF IInv
<1>8. request' \in [Tabs -> {Idle} \cup [op : {"rotate"}, id : Issued']]
  BY <1>1, <1>5 DEF IInv, TypeOK
<1>9. TypeOK'
  BY <1>1, <1>4, <1>5, <1>6, <1>7, <1>8, GrowthKeepsType DEF IInv, TypeOK, n
<1>10. \A j \in Issued : tokens[j].family # n /\ tokens[j].by \in Issued \cup {NULL}
  BY <1>2, <1>3 DEF TokenRow
<1>11. FamilyHasOneUser' /\ RotatedIsRevoked'
  BY <1>2, <1>4, <1>5, <1>10 DEF IInv, FamilyHasOneUser, RotatedIsRevoked
<1>12. AdminRemains' /\ CaughtWereIssued'
  BY <1>1, <1>5 DEF IInv, AdminRemains, CaughtWereIssued
<1>13. (OneAtATime => OneUnrevoked)'
  <2> SUFFICES ASSUME OneAtATime PROVE OneUnrevoked'
    BY DEF OneAtATime
  <2>1. OneUnrevoked /\ \A w \in Tabs : request'[w] = Idle
    BY <1>1 DEF IInv, OneAtATime
  <2>2. \A i, j \in Issued' : tokens'[i].family = tokens'[j].family
                                /\ ~ tokens'[i].revoked /\ ~ tokens'[j].revoked => i = j
    <3> SUFFICES ASSUME NEW i \in Issued', NEW j \in Issued',
                        tokens'[i].family = tokens'[j].family,
                        ~ tokens'[i].revoked, ~ tokens'[j].revoked
                 PROVE  i = j
      OBVIOUS
    <3>1. CASE i \in Issued /\ j \in Issued
      BY <1>4, <2>1, <3>1 DEF OneUnrevoked
    <3>2. CASE i = n \/ j = n
      BY <1>4, <1>5, <1>10, <3>2
    <3> QED BY <1>5, <3>1, <3>2
  <2>3. \A i \in Issued' : tokens'[i].family \in caught' => tokens'[i].revoked
    BY <1>1, <1>2, <1>4, <1>5, <2>1 DEF OneUnrevoked, IInv, CaughtWereIssued
  <2> QED BY <2>1, <2>2, <2>3 DEF OneUnrevoked, Idle
<1> QED BY <1>9, <1>11, <1>12, <1>13 DEF IInv

\* A refresh revokes its token and adds a successor to the family.
LEMMA RotateCommitKeepsIInv ==
  ASSUME SessionsAssumption, IInv, NEW t \in Tabs, RotateCommit(t)
  PROVE  IInv'
<1> DEFINE n == NewId
           i == request[t].id
           row == Issue(tokens[i].user, tokens[i].family, i)
<1>1. /\ request[t].op = "rotate"
      /\ tokens' = [Add(n, row) EXCEPT ![i].revoked = TRUE]
      /\ Deliver(n)
      /\ request' = [request EXCEPT ![t] = Idle]
      /\ UNCHANGED <<users, caught>>
  BY DEF RotateCommit
<1>2. n \notin Issued /\ NULL \notin Issued
  BY NewIdFacts DEF IInv
<1>3. request \in [Tabs -> {Idle} \cup [op : {"rotate"}, id : Issued]]
  BY DEF IInv, TypeOK
<1>4. request[t] # Idle /\ i \in Issued
  BY <1>1, <1>3 DEF Idle
<1> HIDE DEF n, i
<1>5. \A j \in Issued : tokens[j] \in TokenRow
  BY DEF IInv, TypeOK
<1>6. /\ tokens' = [j \in Issued \cup {n} |-> tokens'[j]]
      /\ tokens'[n] = row
      /\ tokens'[i] = [tokens[i] EXCEPT !.revoked = TRUE]
      /\ \A j \in Issued \ {i} : tokens'[j] = tokens[j]
  BY <1>1, <1>2, <1>4 DEF Add
<1>7. Issued' = Issued \cup {n}
  BY <1>6 DEF Issued
<1>8. \A j \in Issued : /\ tokens'[j].user = tokens[j].user
                        /\ tokens'[j].family = tokens[j].family
                        /\ tokens'[j].by = tokens[j].by
                        /\ tokens[j].revoked => tokens'[j].revoked
                        /\ j = i => tokens'[j].revoked
                        /\ tokens'[j] \in TokenRow
  <2>1. ASSUME NEW r \in TokenRow
        PROVE  LET q == [r EXCEPT !.revoked = TRUE]
               IN  /\ q.user = r.user /\ q.family = r.family /\ q.by = r.by
                   /\ q.revoked /\ q \in TokenRow
    BY DEF TokenRow
  <2>2. tokens[i] \in TokenRow
    BY <1>4, <1>5
  <2>3. /\ tokens'[i].user = tokens[i].user /\ tokens'[i].family = tokens[i].family
        /\ tokens'[i].by = tokens[i].by /\ tokens'[i].revoked /\ tokens'[i] \in TokenRow
    BY <1>6, <2>1, <2>2
  <2> QED BY <1>4, <1>5, <1>6, <2>3
<1>9. /\ tokens'[n].user = tokens[i].user /\ tokens'[n].family = tokens[i].family
      /\ tokens'[n].by = i /\ tokens'[n] \in TokenRow
  BY <1>4, <1>5, <1>6 DEF TokenRow, Issue
<1>10. \A j \in Issued' : tokens'[j] \in TokenRow'
  <2>1. TokenRow \subseteq TokenRow'
    BY <1>7 DEF TokenRow
  <2> QED BY <1>7, <1>8, <1>9, <2>1
<1>11. cookie' \in Issued' \cup {NULL}
  BY <1>1, <1>7, DeliverKeepsCookie DEF IInv
<1>12. request' \in [Tabs -> {Idle} \cup [op : {"rotate"}, id : Issued']]
  BY <1>1, <1>3, <1>7
<1>13. TypeOK'
  BY <1>1, <1>6, <1>7, <1>10, <1>11, <1>12, GrowthKeepsType DEF IInv, TypeOK, n
<1>14. FamilyHasOneUser'
  BY <1>4, <1>7, <1>8, <1>9 DEF IInv, FamilyHasOneUser
<1>15. RotatedIsRevoked'
  <2>1. \A j \in Issued : tokens[j].by # NULL => tokens[j].by \in Issued /\ tokens[tokens[j].by].revoked
    BY <1>5 DEF IInv, RotatedIsRevoked, TokenRow
  <2>2. ASSUME NEW j \in Issued', tokens'[j].by # NULL PROVE tokens'[tokens'[j].by].revoked
    <3>1. CASE j \in Issued
      BY <1>8, <2>1, <2>2, <3>1
    <3>2. CASE j = n
      BY <1>4, <1>8, <1>9, <3>2
    <3> QED BY <1>7, <3>1, <3>2
  <2> QED BY <2>2 DEF RotatedIsRevoked
<1>16. AdminRemains' /\ CaughtWereIssued'
  BY <1>1, <1>7 DEF IInv, AdminRemains, CaughtWereIssued
<1>17. (OneAtATime => OneUnrevoked)'
  <2> SUFFICES ASSUME OneAtATime PROVE OneUnrevoked'
    BY DEF OneAtATime
  <2>1. OneUnrevoked /\ \A w \in Tabs : request'[w] = Idle
    BY <1>1, <1>3 DEF IInv, OneAtATime
  <2>2. ~ tokens[i].revoked
    BY <1>4, <2>1 DEF OneUnrevoked, i
  <2>3. \A j, k \in Issued' : tokens'[j].family = tokens'[k].family
                                /\ ~ tokens'[j].revoked /\ ~ tokens'[k].revoked => j = k
    <3>1. \A j, k \in Issued : tokens[j].family = tokens[k].family
                                 /\ ~ tokens[j].revoked /\ ~ tokens[k].revoked => j = k
      BY <2>1 DEF OneUnrevoked
    <3> SUFFICES ASSUME NEW j \in Issued', NEW k \in Issued',
                        tokens'[j].family = tokens'[k].family,
                        ~ tokens'[j].revoked, ~ tokens'[k].revoked
                 PROVE  j = k
      OBVIOUS
    <3>2. \A m \in Issued : ~ tokens'[m].revoked
                            => /\ m # i /\ ~ tokens[m].revoked
                               /\ tokens'[m].family = tokens[m].family
                               /\ tokens[m].family # tokens[i].family
      BY <1>4, <1>8, <2>2, <3>1
    <3> QED BY <1>7, <1>9, <3>1, <3>2
  <2>4. \A j \in Issued' : tokens'[j].family \in caught' => tokens'[j].revoked
    <3>1. \A j \in Issued : tokens[j].family \in caught => tokens[j].revoked
      BY <2>1 DEF OneUnrevoked
    <3>2. tokens'[n].family \notin caught
      BY <1>4, <1>9, <2>2, <3>1
    <3> QED BY <1>1, <1>7, <1>8, <3>1, <3>2
  <2> QED BY <2>1, <2>3, <2>4 DEF OneUnrevoked, Idle
<1> QED BY <1>13, <1>14, <1>15, <1>16, <1>17 DEF IInv

----------------------------------------------------------------------------
(* The theorems.                                                           *)

\* The invariant holds initially and every step of the service keeps it.
THEOREM Invariance ==
  ASSUME SessionsAssumption
  PROVE  Spec => []IInv
<1>1. Init => IInv
  <2> SUFFICES ASSUME Init PROVE IInv
    OBVIOUS
  <2>1. Issued = {}
    BY DEF Init, Issued
  <2>2. IsFiniteSet(Issued) /\ Cardinality(Issued) = 0
    BY <2>1, FS_EmptySet
  <2>3. TypeOK
    BY <2>1, <2>2 DEF Init, TypeOK
  <2> QED BY <2>1, <2>3 DEF Init, IInv, FamilyHasOneUser, RotatedIsRevoked, AdminRemains,
                          CaughtWereIssued, OneUnrevoked
<1>2. IInv /\ [Next]_vars => IInv'
  <2> SUFFICES ASSUME IInv, [Next]_vars PROVE IInv'
    OBVIOUS
  <2>1. CASE Register
    BY <2>1, RegisterKeepsIInv
  <2>2. CASE Expire
    BY <2>2, ExpireKeepsIInv
  <2>3. CASE UpdateUser
    BY <2>3, UpdateUserKeepsIInv
  <2>4. ASSUME NEW t \in Tabs, Login(t) PROVE IInv'
    BY <2>4, LoginKeepsIInv
  <2>5. ASSUME NEW t \in Tabs, RotateRead(t) PROVE IInv'
    BY <2>5, RotateReadKeepsIInv
  <2>6. ASSUME NEW t \in Tabs, RotateCommit(t) PROVE IInv'
    BY <2>6, RotateCommitKeepsIInv
  <2>7. ASSUME NEW t \in Tabs, RotateReused(t) PROVE IInv'
    BY <2>7, RotateReusedKeepsIInv
  <2>8. ASSUME NEW t \in Tabs, Logout(t) PROVE IInv'
    BY <2>8, LogoutKeepsIInv
  <2>9. ASSUME UNCHANGED <<users, tokens, cookie, request, caught>> PROVE IInv'
    BY <2>9 DEF IInv, TypeOK, FamilyHasOneUser, RotatedIsRevoked, AdminRemains,
                CaughtWereIssued, OneAtATime, OneUnrevoked, Issued, TokenRow, UserRow, Roles, Idle
  <2> QED BY <2>1, <2>2, <2>3, <2>4, <2>5, <2>6, <2>7, <2>8, <2>9
          DEF Next, Refresh, LoginFails, vars
<1> QED BY <1>1, <1>2, PTL DEF Spec

\* Whatever registrations, logins, refreshes of several tabs, logouts, lost
\* responses and changes by admins do: a family belongs to one account, a token
\* that was rotated is revoked, and somebody keeps the admin role.  With one
\* request at a time a family has at most one usable token, and one in which
\* reuse was detected has none.
THEOREM SessionsSafe ==
  ASSUME SessionsAssumption
  PROVE  Spec => []SessionsAreSafe
<1>1. IInv => SessionsAreSafe
  BY DEF IInv, SessionsAreSafe, OneUnrevoked, OneLivePerFamily, CaughtIsDead, Live
<1> QED BY <1>1, Invariance, PTL

----------------------------------------------------------------------------
(* The settings.                                                           *)

RowFields(row) == {f \in Fields : Settings!RowOf(f) = row}

\* A knob in the form it is stored in: it parses to itself, or not at all.
Stored(f) == {v \in DOMAIN Parse[f] : Parse[f][v] \in {v, NULL}}

\* A row of the table, with the values of its fields.
SettingRow(row, value) ==
  /\ value = [f \in RowFields(row) |-> value[f]]
  /\ \A f \in RowFields(row) : /\ value[f] \in DOMAIN Parse[f]
                               /\ KindOf[f] = "risk" => value[f] \in Stored(f)

\* The table, or what a session has loaded of it.
SettingTable(R) == \A row \in Settings!Rows : R[row] = NULL \/ SettingRow(row, R[row])

SettingTypes ==
  /\ env = [f \in Fields |-> env[f]] /\ \A f \in Fields : env[f] \in EnvValues[f]
  /\ SettingTable(settingRows)
  /\ req \in [Admins -> Requests \cup {NULL}]
  /\ seen = [a \in Admins |-> seen[a]]
  /\ \A a \in Admins : req[a] # NULL => req[a].kind \in KindsOf[a] /\ SettingTable(seen[a])
  /\ settingAudit = [k \in {"risk", "market"} |-> settingAudit[k]]
  /\ restarts \in Nat

\* What a request has loaded of the rows it writes is what they hold.
SeenIsCurrent ==
  \A a \in Admins : req[a] # NULL =>
    \A row \in Settings!RowsOf(req[a].kind) : seen[a][row] = settingRows[row]

SettingsInv ==
  /\ SettingTypes
  /\ Settings!OneAdminPerKind => SeenIsCurrent /\ Settings!AuditIsInUse

\* A field has a row of its kind, and a row belongs to one kind.
LEMMA RowFacts ==
  ASSUME Settings!SettingsAssumption, NEW f \in Fields
  PROVE  /\ KindOf[f] \in {"risk", "market"} /\ f \in RowFields(Settings!RowOf(f))
         /\ Settings!RowOf(f) \in Settings!Rows
         /\ \A k \in {"risk", "market"} : Settings!RowOf(f) \in Settings!RowsOf(k) <=> k = KindOf[f]
<1>1. KindOf[f] \in {"risk", "market"} /\ "risk.params" \notin Fields
  BY DEF Settings!SettingsAssumption
<1>2. f \in RowFields(Settings!RowOf(f)) /\ Settings!RowOf(f) \in Settings!Rows
  BY DEF RowFields, Settings!Rows
<1>3. ASSUME NEW g \in Fields, Settings!RowOf(f) = Settings!RowOf(g) PROVE KindOf[f] = KindOf[g]
  BY <1>1, <1>3 DEF Settings!SettingsAssumption, Settings!RowOf
<1>4. Settings!RowOf(f) \in Settings!RowsOf(KindOf[f])
  BY DEF Settings!RowsOf, Settings!FieldsOf
<1>5. ASSUME NEW k, Settings!RowOf(f) \in Settings!RowsOf(k) PROVE k = KindOf[f]
  <2>1. PICK g \in Fields : KindOf[g] = k /\ Settings!RowOf(f) = Settings!RowOf(g)
    BY <1>5 DEF Settings!RowsOf, Settings!FieldsOf
  <2> QED BY <1>3, <2>1
<1> QED BY <1>1, <1>2, <1>4, <1>5

\* What is resolved is stored without a change, and a knob is safe: the
\* environment's own, or within its bounds.
LEMMA LoadFacts ==
  ASSUME Settings!SettingsAssumption, SettingTypes, NEW R, SettingTable(R), NEW f \in Fields
  PROVE  LET v == Settings!Load(R, f)
         IN  /\ v \in DOMAIN Parse[f]
             /\ KindOf[f] = "risk" => /\ v \in Stored(f)
                                      /\ v = env[f] \/ Parse[f][v] # NULL
<1> DEFINE row == Settings!RowOf(f)
           v == Settings!Load(R, f)
           w == R[row][f]
<1>1. env[f] \in Stored(f)
  BY DEF SettingTypes, Settings!SettingsAssumption, Stored
<1>2. row \in Settings!Rows /\ f \in RowFields(row) /\ KindOf[f] \in {"risk", "market"}
  BY RowFacts
<1>3. CASE R[row] = NULL
  <2>1. v = env[f]
    BY <1>3 DEF Settings!Load
  <2> QED BY <1>1, <2>1 DEF Stored
<1>4. CASE R[row] # NULL
  <2>1. w \in DOMAIN Parse[f]
    BY <1>2, <1>4 DEF SettingTable, SettingRow
  <2>2. v = IF KindOf[f] = "market" THEN w ELSE IF Parse[f][w] = NULL THEN env[f] ELSE Parse[f][w]
    BY <1>4 DEF Settings!Load
  <2>3. Parse[f][w] # NULL => Parse[f][w] \in DOMAIN Parse[f] /\ Parse[f][Parse[f][w]] = Parse[f][w]
    BY <2>1 DEF Settings!SettingsAssumption
  <2> HIDE DEF w, v
  <2> QED BY <1>1, <1>2, <2>1, <2>2, <2>3 DEF Stored, v
<1> QED BY <1>3, <1>4

\* The same for what a request makes of it.
LEMMA NewValueFacts ==
  ASSUME Settings!SettingsAssumption, SettingTypes, NEW R, SettingTable(R), NEW r \in Requests,
         NEW f \in Fields
  PROVE  LET v == Settings!NewValue(R, r, f)
         IN  /\ v \in DOMAIN Parse[f]
             /\ KindOf[f] = "risk" => /\ v \in Stored(f)
                                      /\ v = env[f] \/ Parse[f][v] # NULL
<1> DEFINE v == Settings!NewValue(R, r, f)
           u == r.set[f]
<1>1. CASE u # NULL /\ Parse[f][u] # NULL
  <2>1. v = Parse[f][u]
    BY <1>1 DEF Settings!NewValue
  <2>2. u \in DOMAIN Parse[f]
    BY <1>1 DEF Settings!SettingsAssumption
  <2>3. Parse[f][u] \in DOMAIN Parse[f] /\ Parse[f][Parse[f][u]] = Parse[f][u]
    BY <1>1, <2>2 DEF Settings!SettingsAssumption
  <2> QED BY <1>1, <2>1, <2>3 DEF Stored
<1>2. CASE ~ (u # NULL /\ Parse[f][u] # NULL)
  <2>1. v = Settings!Load(R, f)
    BY <1>2 DEF Settings!NewValue
  <2> QED BY <2>1, LoadFacts
<1> QED BY <1>1, <1>2

\* A row a request writes.
LEMMA NewRowFacts ==
  ASSUME Settings!SettingsAssumption, SettingTypes, NEW R, SettingTable(R), NEW r \in Requests,
         NEW row \in Settings!Rows
  PROVE  /\ SettingRow(row, Settings!NewRow(R, r, row)) /\ Settings!NewRow(R, r, row) # NULL
         /\ \A f \in RowFields(row) : Settings!NewRow(R, r, row)[f] = Settings!NewValue(R, r, f)
<1> DEFINE n == Settings!NewRow(R, r, row)
<1>1. n = [f \in RowFields(row) |-> Settings!NewValue(R, r, f)]
  BY DEF Settings!NewRow, RowFields
<1>2. \A f \in RowFields(row) : n[f] = Settings!NewValue(R, r, f) /\ f \in Fields
  BY <1>1 DEF RowFields
<1>3. SettingRow(row, n)
  BY <1>1, <1>2, NewValueFacts DEF SettingRow
<1>4. n # NULL
  <2>1. n \in [RowFields(row) -> UNION {DOMAIN Parse[f] : f \in Fields}]
    BY <1>1, <1>2, NewValueFacts
  <2> QED BY <2>1 DEF Settings!SettingsAssumption, RowFields
<1> QED BY <1>2, <1>3, <1>4

\* What a commit leaves in the table, whoever else commits.
LEMMA CommitKeepsTable ==
  ASSUME Settings!SettingsAssumption, SettingTypes, NEW a \in Admins, Settings!Commit(a)
  PROVE  /\ SettingTable(settingRows')
         /\ \A row \in Settings!Rows :
                row \notin Settings!RowsOf(req[a].kind) => settingRows'[row] = settingRows[row]
<1>1. /\ req[a] # NULL
      /\ \A row \in Settings!Rows :
           settingRows'[row] =
             IF /\ row \in Settings!RowsOf(req[a].kind)
                /\ Settings!NewRow(seen[a], req[a], row) # seen[a][row]
             THEN Settings!NewRow(seen[a], req[a], row) ELSE settingRows[row]
  BY DEF Settings!Commit
<1>2. req[a] \in Requests /\ SettingTable(seen[a]) /\ SettingTable(settingRows)
  BY <1>1 DEF SettingTypes
<1>3. \A row \in Settings!Rows : SettingRow(row, Settings!NewRow(seen[a], req[a], row))
  BY <1>2, NewRowFacts
<1>4. ASSUME NEW row \in Settings!Rows
      PROVE  settingRows'[row] = NULL \/ SettingRow(row, settingRows'[row])
  <2>1. CASE settingRows'[row] = settingRows[row]
    BY <1>2, <2>1 DEF SettingTable
  <2>2. CASE settingRows'[row] = Settings!NewRow(seen[a], req[a], row)
    BY <1>3, <2>2
  <2> QED BY <1>1, <2>1, <2>2
<1>5. SettingTable(settingRows')
  BY <1>4 DEF SettingTable
<1> QED BY <1>1, <1>5

\* What is in use after a commit of a request that has seen the table as it is:
\* of its kind what it computed, of the other kind what was in use before.
LEMMA CommitEffect ==
  ASSUME Settings!SettingsAssumption, SettingTypes, NEW a \in Admins, Settings!Commit(a),
         \A row \in Settings!RowsOf(req[a].kind) : seen[a][row] = settingRows[row],
         NEW f \in Fields
  PROVE  /\ KindOf[f] = req[a].kind
              => Settings!Load(settingRows', f) = Settings!NewValue(seen[a], req[a], f)
         /\ KindOf[f] # req[a].kind => Settings!Load(settingRows', f) = Settings!Load(settingRows, f)
         /\ KindOf[f] = req[a].kind => Settings!Load(seen[a], f) = Settings!Load(settingRows, f)
<1> DEFINE row == Settings!RowOf(f)
           n == Settings!NewRow(seen[a], req[a], row)
           v == Settings!NewValue(seen[a], req[a], f)
<1>1. /\ req[a] # NULL
      /\ \A q \in Settings!Rows :
           settingRows'[q] = IF /\ q \in Settings!RowsOf(req[a].kind)
                         /\ Settings!NewRow(seen[a], req[a], q) # seen[a][q]
                      THEN Settings!NewRow(seen[a], req[a], q) ELSE settingRows[q]
  BY DEF Settings!Commit
<1>2. req[a] \in Requests /\ SettingTable(seen[a])
  BY <1>1 DEF SettingTypes
<1>3. req[a].kind \in {"risk", "market"}
  BY <1>2 DEF Settings!SettingsAssumption
<1>4. /\ row \in Settings!Rows /\ f \in RowFields(row) /\ KindOf[f] \in {"risk", "market"}
      /\ row \in Settings!RowsOf(req[a].kind) <=> req[a].kind = KindOf[f]
  BY <1>3, RowFacts
<1>5. CASE KindOf[f] # req[a].kind
  <2>1. settingRows'[row] = settingRows[row]
    BY <1>1, <1>4, <1>5
  <2> QED BY <1>5, <2>1 DEF Settings!Load
<1>6. CASE KindOf[f] = req[a].kind
  <2>1. seen[a][row] = settingRows[row]
    BY <1>4, <1>6
  <2>2. settingRows'[row] = n
    BY <1>1, <1>4, <1>6, <2>1
  <2>3. n # NULL /\ n[f] = v
    BY <1>2, <1>4, NewRowFacts
  <2>4. KindOf[f] = "risk" => Parse[f][v] \in {v, NULL} /\ (v = env[f] \/ Parse[f][v] # NULL)
    BY <1>2, NewValueFacts DEF Stored
  <2> HIDE DEF n, v
  <2>5. settingRows'[row] # NULL /\ settingRows'[row][f] = v
    BY <2>2, <2>3
  <2>6. Settings!Load(settingRows', f) = v
    BY <1>4, <2>4, <2>5 DEF Settings!Load
  <2>7. Settings!Load(seen[a], f) = Settings!Load(settingRows, f)
    BY <2>1 DEF Settings!Load
  <2> QED BY <1>6, <2>6, <2>7 DEF v
<1> QED BY <1>5, <1>6

\* Of two requests under way, one is not of the kind of the other.
LEMMA KindsDiffer ==
  ASSUME SettingTypes, Settings!OneAdminPerKind, NEW a \in Admins, NEW b \in Admins, a # b,
         req[a] # NULL, req[b] # NULL
  PROVE  req[a].kind # req[b].kind
<1>1. req[a].kind \in KindsOf[a] /\ req[b].kind \in KindsOf[b]
  BY DEF SettingTypes
<1> QED BY <1>1 DEF Settings!OneAdminPerKind

\* A request commits: the table stays well-formed, what the others of another kind
\* have seen stays current, and the audit record tells what is in use.
LEMMA CommitKeepsSettingsInv ==
  ASSUME Settings!SettingsAssumption, SettingsInv, NEW a \in Admins, Settings!Commit(a)
  PROVE  SettingsInv'
<1> DEFINE k == req[a].kind
<1>1. /\ req[a] # NULL
      /\ settingAudit' = [settingAudit EXCEPT ![k] =
           [f \in Settings!FieldsOf(k) |-> Settings!NewValue(seen[a], req[a], f)]]
      /\ req' = [req EXCEPT ![a] = NULL]
      /\ seen' = [seen EXCEPT ![a] = NULL]
      /\ UNCHANGED <<env, restarts>>
  BY DEF Settings!Commit, Settings!Done
<1>2. SettingTypes
  BY DEF SettingsInv
<1>3. SettingTable(settingRows')
  BY <1>2, CommitKeepsTable
<1>4. req[a] \in Requests /\ k \in {"risk", "market"}
  BY <1>1, <1>2 DEF SettingTypes, Settings!SettingsAssumption
<1>5. /\ req' \in [Admins -> Requests \cup {NULL}] /\ req'[a] = NULL
      /\ \A b \in Admins : b # a => req'[b] = req[b] /\ seen'[b] = seen[b]
      /\ seen' = [b \in Admins |-> seen'[b]]
      /\ settingAudit' = [j \in {"risk", "market"} |-> settingAudit'[j]]
      /\ settingAudit'[k] = [f \in Settings!FieldsOf(k) |-> Settings!NewValue(seen[a], req[a], f)]
      /\ \A j \in {"risk", "market"} : j # k => settingAudit'[j] = settingAudit[j]
  BY <1>1, <1>2, <1>4 DEF SettingTypes
<1>6. SettingTypes'
  <2>1. \A b \in Admins : req'[b] # NULL => req'[b].kind \in KindsOf[b] /\ SettingTable(seen'[b])
    BY <1>2, <1>5 DEF SettingTypes
  <2>2. SettingTable(settingRows)'
    BY <1>3 DEF SettingTable, SettingRow, Stored, Settings!Rows,
            Settings!RowOf, RowFields
  <2>3. \A b \in Admins : req'[b] # NULL => req'[b].kind \in KindsOf[b] /\ SettingTable(seen[b])'
    BY <2>1 DEF SettingTable, SettingRow, Stored, Settings!Rows,
            Settings!RowOf, RowFields
  <2> QED BY <1>1, <1>2, <1>5, <2>2, <2>3 DEF SettingTypes
<1>7. ASSUME Settings!OneAdminPerKind PROVE SeenIsCurrent' /\ Settings!AuditIsInUse'
  <2>1. SeenIsCurrent /\ Settings!AuditIsInUse
    BY <1>7 DEF SettingsInv
  <2>2. \A row \in Settings!RowsOf(k) : seen[a][row] = settingRows[row]
    BY <1>1, <2>1 DEF SeenIsCurrent
  <2>3. SeenIsCurrent'
    <3> SUFFICES ASSUME NEW b \in Admins, req'[b] # NULL,
                        NEW row \in Settings!RowsOf(req'[b].kind)
                 PROVE  seen'[b][row] = settingRows'[row]
      BY DEF SeenIsCurrent, Settings!RowsOf, Settings!FieldsOf, Settings!RowOf
    <3>1. b # a /\ req'[b] = req[b] /\ seen'[b] = seen[b]
      BY <1>5
    <3>2. req[b].kind # k
      BY <1>1, <1>2, <1>7, <3>1, KindsDiffer
    <3>3. seen[b][row] = settingRows[row]
      BY <2>1, <3>1 DEF SeenIsCurrent
    <3>4. PICK f \in Fields : KindOf[f] = req[b].kind /\ row = Settings!RowOf(f)
      BY <3>1 DEF Settings!RowsOf, Settings!FieldsOf
    <3>5. row \in Settings!Rows /\ row \notin Settings!RowsOf(k)
      BY <1>4, <3>2, <3>4, RowFacts
    <3>6. settingRows'[row] = settingRows[row]
      BY <1>2, <3>5, CommitKeepsTable
    <3> QED BY <3>1, <3>3, <3>6
  <2>4. Settings!AuditIsInUse'
    <3> SUFFICES ASSUME restarts' = 0, NEW j \in {"risk", "market"}, settingAudit'[j] # NULL,
                        NEW f \in Settings!FieldsOf(j)
                 PROVE  Settings!Resolved'[f] = settingAudit'[j][f]
      BY DEF Settings!AuditIsInUse, Settings!FieldsOf
    <3>1. f \in Fields /\ KindOf[f] = j
      BY DEF Settings!FieldsOf
    <3>2. Settings!Resolved'[f] = Settings!Load(settingRows', f)
      BY <1>1, <3>1 DEF Settings!Resolved, Settings!Load, Settings!RowOf
    <3>3. CASE j = k
      <4>1. Settings!Load(settingRows', f) = Settings!NewValue(seen[a], req[a], f)
        BY <1>2, <2>2, <3>1, <3>3, CommitEffect
      <4> QED BY <1>5, <3>2, <3>3, <4>1
    <3>4. CASE j # k
      <4>1. Settings!Load(settingRows', f) = Settings!Load(settingRows, f)
        BY <1>2, <2>2, <3>1, <3>4, CommitEffect
      <4>2. Settings!Load(settingRows, f) = settingAudit[j][f]
        <5>1. restarts = 0 /\ settingAudit[j] # NULL
          BY <1>1, <1>5, <3>4
        <5>2. Settings!Resolved[f] = settingAudit[j][f]
          BY <2>1, <5>1 DEF Settings!AuditIsInUse
        <5> QED BY <3>1, <5>2 DEF Settings!Resolved
      <4> QED BY <1>5, <3>2, <3>4, <4>1, <4>2
    <3> QED BY <3>3, <3>4
  <2> QED BY <2>3, <2>4
<1> QED BY <1>6, <1>7 DEF SettingsInv, Settings!OneAdminPerKind

\* Steps that leave the table alone: a request begins, or is refused.
LEMMA RequestKeepsSettingsInv ==
  ASSUME Settings!SettingsAssumption, SettingsInv,
         UNCHANGED <<env, settingRows, settingAudit, restarts>>,
         NEW a \in Admins, NEW r \in Requests \cup {NULL},
         r # NULL => r.kind \in KindsOf[a],
         NEW s, r # NULL => s = settingRows,
         req' = [req EXCEPT ![a] = r], seen' = [seen EXCEPT ![a] = s]
  PROVE  SettingsInv'
<1>1. SettingTypes
  BY DEF SettingsInv
<1>2. /\ req' \in [Admins -> Requests \cup {NULL}]
      /\ seen' = [b \in Admins |-> seen'[b]]
      /\ req'[a] = r /\ seen'[a] = s
      /\ \A b \in Admins : b # a => req'[b] = req[b] /\ seen'[b] = seen[b]
  BY <1>1 DEF SettingTypes
<1>3. \A b \in Admins : req'[b] # NULL => req'[b].kind \in KindsOf[b] /\ SettingTable(seen'[b])
  BY <1>1, <1>2 DEF SettingTypes
<1>4. SettingTypes'
  <2>1. SettingTable(settingRows)'
    BY <1>1 DEF SettingTypes, SettingTable, SettingRow, Stored, Settings!Rows,
            Settings!RowOf, RowFields
  <2>2. \A b \in Admins : req'[b] # NULL => req'[b].kind \in KindsOf[b] /\ SettingTable(seen[b])'
    BY <1>3 DEF SettingTable, SettingRow, Stored, Settings!Rows,
            Settings!RowOf, RowFields
  <2> QED BY <1>1, <1>2, <2>1, <2>2 DEF SettingTypes
<1>5. ASSUME Settings!OneAdminPerKind PROVE SeenIsCurrent' /\ Settings!AuditIsInUse'
  <2>1. SeenIsCurrent /\ Settings!AuditIsInUse
    BY <1>5 DEF SettingsInv
  <2>2. SeenIsCurrent'
    BY <1>2, <2>1 DEF SeenIsCurrent, Settings!RowsOf, Settings!FieldsOf, Settings!RowOf
  <2>3. Settings!AuditIsInUse'
    BY <2>1 DEF Settings!AuditIsInUse, Settings!FieldsOf, Settings!Resolved, Settings!Load, Settings!RowOf
  <2> QED BY <2>2, <2>3
<1> QED BY <1>4, <1>5 DEF SettingsInv, Settings!OneAdminPerKind

\* A deployment changes the environment only, and no request survives it.
LEMMA RestartKeepsSettingsInv ==
  ASSUME Settings!SettingsAssumption, SettingsInv, Settings!Restart
  PROVE  SettingsInv'
<1>0. /\ restarts' = restarts + 1
      /\ req' = [a \in Admins |-> NULL] /\ seen' = [a \in Admins |-> NULL]
      /\ UNCHANGED <<settingRows, settingAudit>>
      /\ \E f \in Fields : \E v \in EnvValues[f] : env' = [env EXCEPT ![f] = v]
  BY DEF Settings!Restart
<1>1. PICK f \in Fields : \E v \in EnvValues[f] : env' = [env EXCEPT ![f] = v]
  BY <1>0
<1>2. env' = [g \in Fields |-> env'[g]] /\ \A g \in Fields : env'[g] \in EnvValues[g]
  BY <1>1 DEF SettingsInv, SettingTypes
<1>3. restarts' \in Nat \ {0}
  BY <1>0 DEF SettingsInv, SettingTypes
<1>4. SettingTable(settingRows)'
  BY <1>0 DEF SettingsInv, SettingTypes, SettingTable, SettingRow, Stored, Settings!Rows,
            Settings!RowOf, RowFields
<1>5. \A a \in Admins : req'[a] = NULL
  BY <1>0
<1>6. SettingTypes'
  BY <1>0, <1>2, <1>3, <1>4, <1>5 DEF SettingsInv, SettingTypes
<1>7. SeenIsCurrent' /\ Settings!AuditIsInUse'
  BY <1>3, <1>5 DEF SeenIsCurrent, Settings!AuditIsInUse
<1> QED BY <1>6, <1>7 DEF SettingsInv

\* The invariant of the settings.
THEOREM SettingsInvariance ==
  ASSUME Settings!SettingsAssumption
  PROVE  Settings!Spec => []SettingsInv
<1>1. Settings!Init => SettingsInv
  <2> SUFFICES ASSUME Settings!Init PROVE SettingsInv
    OBVIOUS
  <2>1. SettingTable(settingRows)
    BY DEF Settings!Init, SettingTable
  <2>2. SettingTypes
    BY <2>1 DEF Settings!Init, SettingTypes
  <2>3. SeenIsCurrent /\ Settings!AuditIsInUse
    BY DEF Settings!Init, SeenIsCurrent, Settings!AuditIsInUse
  <2> QED BY <2>2, <2>3 DEF SettingsInv
<1>2. SettingsInv /\ [Settings!Next]_Settings!vars => SettingsInv'
  <2> SUFFICES ASSUME SettingsInv, [Settings!Next]_Settings!vars PROVE SettingsInv'
    OBVIOUS
  <2>1. ASSUME NEW a \in Admins, NEW r \in Requests, Settings!Begin(a, r) PROVE SettingsInv'
    BY <2>1, RequestKeepsSettingsInv DEF Settings!Begin
  <2>2. ASSUME NEW a \in Admins, Settings!Commit(a) PROVE SettingsInv'
    BY <2>2, CommitKeepsSettingsInv
  <2>3. ASSUME NEW a \in Admins, Settings!Reject(a) PROVE SettingsInv'
    <3>1. /\ req' = [req EXCEPT ![a] = NULL] /\ seen' = [seen EXCEPT ![a] = NULL]
          /\ UNCHANGED <<env, settingRows, settingAudit, restarts>>
      BY <2>3 DEF Settings!Reject, Settings!Done
    <3> QED BY <3>1, RequestKeepsSettingsInv
  <2>4. CASE Settings!Restart
    BY <2>4, RestartKeepsSettingsInv
  <2>5. CASE UNCHANGED Settings!vars
    <3>1. UNCHANGED <<env, settingRows, req, seen, settingAudit, restarts>>
      BY <2>5 DEF Settings!vars
    <3>2. SettingTable(settingRows)' /\ \A b \in Admins : req'[b] # NULL => SettingTable(seen[b])'
      BY <3>1 DEF SettingsInv, SettingTypes, SettingTable, SettingRow, Stored, Settings!Rows,
                  Settings!RowOf, RowFields
    <3>3. SettingTypes'
      BY <3>1, <3>2 DEF SettingsInv, SettingTypes
    <3>4. ASSUME Settings!OneAdminPerKind PROVE SeenIsCurrent' /\ Settings!AuditIsInUse'
      <4>1. SeenIsCurrent /\ Settings!AuditIsInUse
        BY <3>4 DEF SettingsInv
      <4>2. SeenIsCurrent'
        BY <3>1, <4>1 DEF SeenIsCurrent, Settings!RowsOf, Settings!FieldsOf, Settings!RowOf
      <4>3. Settings!AuditIsInUse'
        BY <3>1, <4>1 DEF Settings!AuditIsInUse, Settings!FieldsOf, Settings!Resolved,
                          Settings!Load, Settings!RowOf
      <4> QED BY <4>2, <4>3
    <3> QED BY <3>3, <3>4 DEF SettingsInv, Settings!OneAdminPerKind
  <2> QED BY <2>1, <2>2, <2>3, <2>4, <2>5 DEF Settings!Next
<1> QED BY <1>1, <1>2, PTL DEF Settings!Spec

\* If no two admins send requests of the same kind, a commit changes no value in
\* use that its request does not send.
LEMMA CommitKeepsOmitted ==
  ASSUME Settings!SettingsAssumption, SettingsInv, Settings!OneAdminPerKind
  PROVE  Settings!KeepsOmitted
<1> SUFFICES ASSUME NEW a \in Admins, Settings!Commit(a), NEW f \in Fields, req[a].set[f] = NULL
             PROVE  Settings!Resolved'[f] = Settings!Resolved[f]
  BY DEF Settings!KeepsOmitted
<1>1. SettingTypes /\ req[a] # NULL /\ env' = env
  BY DEF SettingsInv, Settings!Commit
<1>2. \A row \in Settings!RowsOf(req[a].kind) : seen[a][row] = settingRows[row]
  BY <1>1 DEF SettingsInv, SeenIsCurrent
<1>3. Settings!NewValue(seen[a], req[a], f) = Settings!Load(seen[a], f)
  BY DEF Settings!NewValue
<1>4. Settings!Load(settingRows', f) = Settings!Load(settingRows, f)
  BY <1>1, <1>2, <1>3, CommitEffect
<1>5. Settings!Resolved'[f] = Settings!Load(settingRows', f) /\ Settings!Resolved[f] = Settings!Load(settingRows, f)
  BY <1>1 DEF Settings!Resolved, Settings!Load, Settings!RowOf
<1> QED BY <1>4, <1>5

\* Whatever was stored under whatever environment, a risk knob in use is the
\* environment's own or within its bounds.  If no two admins send requests of the
\* same kind, a request changes nothing it does not send, and the last audit
\* record of a kind tells the values in use.
THEOREM SettingsSafe ==
  ASSUME Settings!SettingsAssumption
  PROVE  Settings!Spec => Settings!SettingsAreSafe
<1>1. SettingsInv => Settings!SettingsInUse
  <2> SUFFICES ASSUME SettingsInv PROVE Settings!SettingsInUse
    OBVIOUS
  <2>1. ASSUME NEW f \in Settings!FieldsOf("risk")
        PROVE  Settings!Resolved[f] = env[f] \/ Parse[f][Settings!Resolved[f]] # NULL
    <3>1. f \in Fields /\ KindOf[f] = "risk" /\ Settings!Resolved[f] = Settings!Load(settingRows, f)
      BY DEF Settings!FieldsOf, Settings!Resolved
    <3> QED BY <3>1, LoadFacts DEF SettingsInv, SettingTypes
  <2> QED BY <2>1 DEF Settings!SettingsInUse, Settings!KnobsAreSafe, SettingsInv
<1>2. SettingsInv /\ [Settings!Next]_Settings!vars
        => [Settings!OneAdminPerKind => Settings!KeepsOmitted]_Settings!vars
  BY CommitKeepsOmitted
<1>3. Settings!Spec => []Settings!SettingsInUse
  BY <1>1, SettingsInvariance, PTL
<1>4. Settings!Spec => [][Settings!OneAdminPerKind => Settings!KeepsOmitted]_Settings!vars
  BY <1>2, SettingsInvariance, PTL DEF Settings!Spec
<1> QED BY <1>3, <1>4 DEF Settings!SettingsAreSafe
=============================================================================
