----------------------- MODULE OrchestratorLockProofs -----------------------
(***************************************************************************)
(* The lease is sound for any number of orchestrators, any time to live    *)
(* and any number of restarts.                                             *)
(***************************************************************************)
EXTENDS OrchestratorLock, TLAPS

\* The key is w's, as last confirmed to w.
Owned(w) ==
  /\ key # NULL
  /\ key.token = Token(w)
  /\ key.expires = confirmed[w] + TTL

\* An active orchestrator owns the key, or its confirmation is a lease old.
LeaseInv ==
  \A w \in Workers : Active(w) => Owned(w) \/ confirmed[w] + TTL <= clock

IInv == TypeOK /\ LeaseInv

\* What a change of phase leaves of the locals.
LEMMA GotoFacts ==
  ASSUME TypeOK, NEW w \in Workers, NEW phase \in Phases, Goto(w, phase)
  PROVE  /\ pc' \in [Workers -> Phases]
         /\ started' \in [Workers -> Times]
         /\ wake' \in [Workers -> Nat]
         /\ stop' \in [Workers -> BOOLEAN]
         /\ confirmed' \in [Workers -> Times]
         /\ pc'[w] = phase
         /\ phase \in {"acquired", "work"} => confirmed'[w] = clock
         /\ phase \in {"loop", "renewing"} => confirmed'[w] = confirmed[w]
         /\ \A v \in Workers : v # w => pc'[v] = pc[v] /\ confirmed'[v] = confirmed[v]
<1>0. 0 \in Times /\ clock \in Times /\ clock \in Nat /\ Times \subseteq Nat /\ TTL \in Nat
  BY LockAssumption DEF TypeOK, Times
<1>1. pc' \in [Workers -> Phases] /\ pc'[w] = phase
  BY DEF Goto, TypeOK
<1>2. started' \in [Workers -> Times]
  BY <1>0 DEF Goto, TypeOK
<1>3. wake' \in [Workers -> Nat]
  <2>1. started[w] \in Nat
    BY <1>0 DEF TypeOK
  <2>2. started[w] + RetryWindow \in Nat /\ clock + 1 \in Nat
    BY <1>0, <2>1 DEF RetryWindow
  <2> QED BY <2>2 DEF Goto, TypeOK
<1>4. stop' \in [Workers -> BOOLEAN]
  BY DEF Goto, TypeOK
<1>5. /\ confirmed' \in [Workers -> Times]
      /\ phase \in {"acquired", "work"} => confirmed'[w] = clock
      /\ phase \in {"loop", "renewing"} => confirmed'[w] = confirmed[w]
  BY <1>0 DEF Goto, TypeOK, ActivePhases
<1>6. \A v \in Workers : v # w => pc'[v] = pc[v] /\ confirmed'[v] = confirmed[v]
  BY DEF Goto, TypeOK
<1> QED BY <1>1, <1>2, <1>3, <1>4, <1>5, <1>6

\* Tokens tell processes apart.
LEMMA TokenUnique ==
  ASSUME NEW v \in Workers, NEW w \in Workers, Token(v) = Token(w)
  PROVE  v = w
BY DEF Token

\* A lease w writes is a lock row that is w's.
LEMMA LeaseRow ==
  ASSUME TypeOK, NEW w \in Workers
  PROVE  /\ Lease(w) \in LockRow
         /\ Lease(w) # NULL
         /\ Lease(w).token = Token(w)
         /\ Lease(w).expires = clock + TTL
<1>1. Token(w) \in Tokens
  BY DEF TypeOK, Token, Tokens
<1>2. clock + TTL \in Nat
  BY LockAssumption DEF TypeOK, Times
<1> QED BY <1>1, <1>2, LockNullAssumption DEF Lease, LockRow

\* A step of w that keeps the key, and makes w active only if it was.
LEMMA QuietStep ==
  ASSUME IInv, NEW w \in Workers, NEW phase \in Phases \ {"acquired", "work"},
         Goto(w, phase), UNCHANGED <<clock, key, starts>>,
         phase \in ActivePhases => Active(w)
  PROVE  IInv'
<1>1. /\ pc' \in [Workers -> Phases]
      /\ started' \in [Workers -> Times]
      /\ wake' \in [Workers -> Nat]
      /\ stop' \in [Workers -> BOOLEAN]
      /\ confirmed' \in [Workers -> Times]
      /\ pc'[w] = phase
      /\ phase \in {"loop", "renewing"} => confirmed'[w] = confirmed[w]
      /\ \A v \in Workers : v # w => pc'[v] = pc[v] /\ confirmed'[v] = confirmed[v]
  BY GotoFacts DEF IInv
<1>2. TypeOK'
  BY <1>1 DEF IInv, TypeOK
<1>3. LeaseInv'
  <2> SUFFICES ASSUME NEW v \in Workers, Active(v)'
               PROVE  (Owned(v) \/ confirmed[v] + TTL <= clock)'
    BY DEF LeaseInv
  <2>1. Active(v) /\ confirmed'[v] = confirmed[v]
    BY <1>1 DEF Active, ActivePhases
  <2> QED BY <2>1 DEF IInv, LeaseInv, Owned, Token
<1> QED BY <1>2, <1>3 DEF IInv

\* A step of w that deletes its own lease, or extends it, and ends inactive
\* or freshly confirmed; or that takes a free lock.
LEMMA KeyStep ==
  ASSUME IInv, NEW w \in Workers, NEW phase \in Phases, Goto(w, phase),
         UNCHANGED <<clock, starts>>,
         ~ Live \/ key.token = Token(w),
         \/ key' = Lease(w) /\ (phase \in {"acquired", "work"} \/ phase \notin ActivePhases)
         \/ key' = NULL /\ phase \notin ActivePhases
  PROVE  IInv'
<1>1. /\ pc' \in [Workers -> Phases]
      /\ started' \in [Workers -> Times]
      /\ wake' \in [Workers -> Nat]
      /\ stop' \in [Workers -> BOOLEAN]
      /\ confirmed' \in [Workers -> Times]
      /\ pc'[w] = phase
      /\ phase \in {"acquired", "work"} => confirmed'[w] = clock
      /\ \A v \in Workers : v # w => pc'[v] = pc[v] /\ confirmed'[v] = confirmed[v]
  BY GotoFacts DEF IInv
<1>2. TypeOK'
  BY <1>1, LeaseRow DEF IInv, TypeOK
<1>3. LeaseInv'
  <2> SUFFICES ASSUME NEW v \in Workers, Active(v)'
               PROVE  (Owned(v) \/ confirmed[v] + TTL <= clock)'
    BY DEF LeaseInv
  <2>1. CASE v = w
    <3>1. key' = Lease(w) /\ confirmed'[w] = clock
      BY <1>1, <2>1 DEF Active
    <3>2. Token(w)' = Token(w)
      BY DEF Token
    <3> QED BY <3>1, <3>2, <2>1, LeaseRow DEF Owned, IInv
  <2>2. CASE v # w
    <3>1. Active(v) /\ confirmed'[v] = confirmed[v]
      BY <1>1, <2>2 DEF Active
    <3>2. CASE confirmed[v] + TTL <= clock
      BY <3>1, <3>2
    <3>3. CASE Owned(v)
      <4>1. key.token # Token(w)
        BY <3>3, <2>2, TokenUnique DEF Owned
      <4>2. ~ Live /\ key # NULL /\ key.expires = confirmed[v] + TTL
        BY <4>1, <3>3 DEF Owned
      <4>3. clock \in Nat /\ confirmed[v] + TTL \in Nat
        BY LockAssumption DEF IInv, TypeOK, Times
      <4>4. confirmed[v] + TTL <= clock
        BY <4>2, <4>3 DEF Live
      <4> QED BY <4>4, <3>1
    <3> QED BY <3>1, <3>2, <3>3 DEF IInv, LeaseInv
  <2> QED BY <2>1, <2>2
<1> QED BY <1>2, <1>3 DEF IInv

\* Time passing, a process starting and a shutdown request.
LEMMA EnvironmentKeeps ==
  ASSUME IInv, Tick \/ \E w \in Workers : Start(w) \/ Shutdown(w)
  PROVE  IInv'
<1>1. CASE Tick
  <2>1. TypeOK'
    BY <1>1, LockAssumption DEF IInv, TypeOK, Tick, Times
  <2>2. LeaseInv'
    BY <1>1, LockAssumption DEF IInv, TypeOK, LeaseInv, Tick, Active, Owned, Token, Times
  <2> QED BY <2>1, <2>2 DEF IInv
<1>2. CASE \E w \in Workers : Start(w)
  <2> PICK w \in Workers : Start(w)
    BY <1>2
  <2>1. starts' \in [Workers -> Starts]
    BY LockAssumption DEF Start, IInv, TypeOK, Starts
  <2>2. TypeOK'
    BY <2>1 DEF Start, IInv, TypeOK, Phases, Acquiring
  <2>3. \A v \in Workers : Active(v)' => /\ Active(v)
                                        /\ Token(v)' = Token(v)
    BY DEF Start, IInv, TypeOK, Active, ActivePhases, Token
  <2>4. LeaseInv'
    BY <2>3 DEF Start, IInv, LeaseInv, Owned
  <2> QED BY <2>2, <2>4 DEF IInv
<1>3. CASE \E w \in Workers : Shutdown(w)
  <2>1. TypeOK'
    BY <1>3 DEF Shutdown, IInv, TypeOK
  <2>2. LeaseInv'
    BY <1>3 DEF Shutdown, IInv, LeaseInv, Active, Owned, Token
  <2> QED BY <2>1, <2>2 DEF IInv
<1> QED BY <1>1, <1>2, <1>3

\* Every step keeps the invariant.
LEMMA NextKeeps ==
  ASSUME IInv, [Next]_vars
  PROVE  IInv'
<1> USE DEF Phases, Acquiring, ActivePhases
<1>1. CASE UNCHANGED vars
  <2>1. TypeOK'
    BY <1>1 DEF vars, IInv, TypeOK
  <2>2. LeaseInv'
    BY <1>1 DEF vars, IInv, LeaseInv, Active, Owned, Token
  <2> QED BY <2>1, <2>2 DEF IInv
<1>2. CASE Tick \/ \E w \in Workers : Start(w) \/ Shutdown(w)
  BY <1>2, EnvironmentKeeps
<1>3. ASSUME NEW w \in Workers, AcquireLock(w)
      PROVE  IInv'
  <2>1. CASE Live
    BY <1>3, <2>1, QuietStep DEF AcquireLock
  <2>2. CASE ~ Live
    BY <1>3, <2>2, KeyStep DEF AcquireLock
  <2> QED BY <2>1, <2>2
<1>4. ASSUME NEW w \in Workers, CheckRemaining(w) \/ Wake(w) \/ ReleaseGet(w) \/ Crash(w)
                                  \/ WorkRaises(w)
      PROVE  IInv'
  BY <1>4, QuietStep DEF CheckRemaining, Wake, ReleaseGet, Crash, WorkRaises
<1>5. ASSUME NEW w \in Workers, EnterLoop(w) \/ RenewGet(w) \/ Work(w)
      PROVE  IInv'
  <2>1. Active(w)
    BY <1>5 DEF EnterLoop, RenewGet, Work, Active
  <2> QED BY <1>5, <2>1, QuietStep DEF EnterLoop, RenewGet, Work
<1>6. ASSUME NEW w \in Workers, RenewExec(w)
      PROVE  IInv'
  <2>1. CASE Holds(w)
    BY <1>6, <2>1, KeyStep DEF RenewExec, Holds
  <2>2. CASE ~ Holds(w)
    BY <1>6, <2>2, QuietStep DEF RenewExec
  <2> QED BY <2>1, <2>2
<1>7. ASSUME NEW w \in Workers, RenewRaises(w)
      PROVE  IInv'
  <2>1. CASE UNCHANGED key
    BY <1>7, <2>1, QuietStep DEF RenewRaises
  <2>2. CASE Holds(w) /\ key' = Lease(w)
    BY <1>7, <2>2, KeyStep DEF RenewRaises, Holds
  <2> QED BY <1>7, <2>1, <2>2 DEF RenewRaises
<1>8. ASSUME NEW w \in Workers, ReleaseExec(w)
      PROVE  IInv'
  <2>1. CASE Holds(w)
    BY <1>8, <2>1, KeyStep DEF ReleaseExec, Holds
  <2>2. CASE ~ Holds(w)
    BY <1>8, <2>2, QuietStep DEF ReleaseExec
  <2> QED BY <2>1, <2>2
<1> QED BY <1>1, <1>2, <1>3, <1>4, <1>5, <1>6, <1>7, <1>8 DEF Next, Step

----------------------------------------------------------------------------

\* The invariant holds in every reachable state.
THEOREM Invariance == Spec => []IInv
<1>1. Init => IInv
  <2> SUFFICES ASSUME Init PROVE IInv
    OBVIOUS
  <2>1. TypeOK
    BY LockAssumption DEF Init, TypeOK, Times, Starts, Phases
  <2>2. LeaseInv
    BY DEF Init, LeaseInv, Active, ActivePhases
  <2> QED BY <2>1, <2>2 DEF IInv
<1>2. IInv /\ [Next]_vars => IInv'
  BY NextKeeps
<1> QED BY <1>1, <1>2, PTL DEF Spec

\* The lock row and every process's locals have their types.
THEOREM TypeCorrect == Spec => []TypeOK
<1>1. IInv => TypeOK
  BY DEF IInv
<1> QED BY <1>1, Invariance, PTL

\* For one lease after a confirmed acquisition or renewal the key is really
\* the orchestrator's own.
THEOREM LeaseIsSound == Spec => []LeaseHolds
<1>1. IInv => LeaseHolds
  <2> SUFFICES ASSUME IInv, NEW w \in Workers, Active(w), clock < confirmed[w] + TTL
               PROVE  key # NULL /\ key.token = Token(w) /\ clock < key.expires
    BY DEF LeaseHolds
  <2>1. clock \in Nat /\ confirmed[w] + TTL \in Nat
    BY LockAssumption DEF IInv, TypeOK, Times
  <2> QED BY <2>1 DEF IInv, LeaseInv, Owned
<1> QED BY <1>1, Invariance, PTL

\* No two orchestrators are active on a confirmation younger than the lease.
THEOREM SingleConfirmedOwner == Spec => []OneConfirmedOwner
<1>1. LeaseHolds => OneConfirmedOwner
  BY TokenUnique DEF LeaseHolds, OneConfirmedOwner
<1> QED BY <1>1, LeaseIsSound, PTL

\* A live lease is deleted or moved by its own process only.
THEOREM LeaseTouchedByOwner == Spec => OnlyOwnerTouchesLease
<1>1. IInv /\ [Next]_vars =>
        [Live /\ key' # key =>
           \E w \in Workers : key.token = Token(w) /\ pc'[w] # pc[w]]_vars
  <2> SUFFICES ASSUME IInv, Next, Live, key' # key
               PROVE  \E w \in Workers : key.token = Token(w) /\ pc'[w] # pc[w]
    BY DEF vars
  <2>1. PICK w \in Workers : AcquireLock(w) \/ RenewExec(w) \/ RenewRaises(w) \/ ReleaseExec(w)
    BY DEF Next, Step, Tick, Start, CheckRemaining, Wake, EnterLoop, RenewGet, Work,
           WorkRaises, ReleaseGet, Shutdown, Crash
  <2>2. key.token = Token(w)
    BY <2>1 DEF AcquireLock, RenewExec, RenewRaises, ReleaseExec, Holds
  <2>3. pc'[w] # pc[w]
    BY <2>1 DEF AcquireLock, RenewExec, RenewRaises, ReleaseExec, Goto, IInv, TypeOK
  <2> QED BY <2>2, <2>3
<1> QED BY <1>1, Invariance, PTL DEF Spec, OnlyOwnerTouchesLease

----------------------------------------------------------------------------
(* The retry window.  If the reply to a SET does not keep a process        *)
(* waiting, the lease that refused it is still the one in its way, or was  *)
(* released or renewed, when it looks at the time that remains.            *)

RefusalIsFresh ==
  \A w \in Workers : pc[w] = "refused" => key = NULL \/ clock < key.expires

\* What a step does to the key, and which steps refuse a process.
LEMMA KeyAndRefusals ==
  ASSUME IInv, [Next]_vars
  PROVE  /\ \/ key' = key \/ key' = NULL
            \/ key'.expires = clock + TTL /\ clock' = clock
         /\ \A v \in Workers : pc'[v] = "refused" => pc[v] = "refused" \/ (Live /\ key' = key)
         /\ clock' = clock \/ (Tick /\ pc' = pc)
<1>1. CASE UNCHANGED vars
  BY <1>1 DEF vars
<1>2. CASE Tick
  BY <1>2 DEF Tick
<1>3. ASSUME NEW w \in Workers, Start(w) \/ Shutdown(w)
      PROVE  key' = key /\ clock' = clock /\ \A v \in Workers : pc'[v] = "refused" => pc[v] = "refused"
  BY <1>3 DEF Start, Shutdown, IInv, TypeOK
<1>4. ASSUME NEW w \in Workers, NEW phase \in Phases, Goto(w, phase)
      PROVE  \A v \in Workers : pc'[v] = "refused" => pc[v] = "refused" \/ (v = w /\ phase = "refused")
  BY <1>4 DEF Goto, IInv, TypeOK
<1>5. \A w \in Workers : Lease(w).expires = clock + TTL
  BY DEF Lease
<1>6. ASSUME NEW w \in Workers, AcquireLock(w)
      PROVE  /\ clock' = clock /\ (key' = key \/ key'.expires = clock + TTL)
             /\ \A v \in Workers : pc'[v] = "refused" => pc[v] = "refused" \/ (Live /\ key' = key)
  <2>1. CASE Live /\ Goto(w, "refused") /\ UNCHANGED key
    BY <1>4, <1>6, <2>1 DEF AcquireLock, Phases, Acquiring
  <2>2. CASE ~ Live /\ Goto(w, "acquired") /\ key' = Lease(w)
    BY <1>4, <1>5, <1>6, <2>2 DEF AcquireLock, Phases, ActivePhases
  <2> QED BY <1>6, <2>1, <2>2 DEF AcquireLock
<1>7. ASSUME NEW w \in Workers,
             \/ CheckRemaining(w) \/ Wake(w) \/ EnterLoop(w) \/ RenewGet(w) \/ RenewExec(w)
             \/ Work(w) \/ ReleaseGet(w) \/ ReleaseExec(w) \/ RenewRaises(w) \/ WorkRaises(w)
             \/ Crash(w)
      PROVE  /\ clock' = clock /\ (key' \in {key, NULL} \/ key'.expires = clock + TTL)
             /\ \A v \in Workers : pc'[v] = "refused" => pc[v] = "refused"
  <2>1. clock' = clock /\ (key' \in {key, NULL} \/ key' = Lease(w))
    BY <1>7 DEF CheckRemaining, Wake, EnterLoop, RenewGet, RenewExec, Work, ReleaseGet, ReleaseExec,
                RenewRaises, WorkRaises, Crash
  <2>2. \E phase \in Phases \ {"refused"} : Goto(w, phase)
    BY <1>7 DEF CheckRemaining, Wake, EnterLoop, RenewGet, RenewExec, Work, ReleaseGet, ReleaseExec,
                RenewRaises, WorkRaises, Crash, Phases, Acquiring, ActivePhases
  <2> QED BY <1>4, <1>5, <2>1, <2>2
<1> QED BY <1>1, <1>2, <1>3, <1>6, <1>7 DEF Next, Step

\* A process that gives up met a lease that somebody took or renewed after it
\* had started, so the lease of an owner that died before never keeps it out.
THEOREM RefusalsAreByLiveOwners ==
  ASSUME ~ SlowReplies
  PROVE  Spec => RefusedByLiveOwnerOnly
<1>1. Init => RefusalIsFresh
  BY DEF Init, RefusalIsFresh
<1>2. IInv /\ RefusalIsFresh /\ [Next]_vars => RefusalIsFresh'
  <2> SUFFICES ASSUME IInv, RefusalIsFresh, [Next]_vars, NEW w \in Workers, pc'[w] = "refused",
                      key' # NULL
               PROVE  clock' < key'.expires
    BY DEF RefusalIsFresh
  <2>1. clock \in Nat /\ TTL \in Nat \ {0}
    BY LockAssumption DEF IInv, TypeOK, Times
  <2>2. CASE key' = key
    <3>1. pc[w] = "refused" \/ Live
      BY KeyAndRefusals
    <3>2. clock < key.expires
      BY <2>2, <3>1 DEF RefusalIsFresh, Live
    <3>3. clock' = clock
      BY KeyAndRefusals DEF Tick
    <3> QED BY <2>2, <3>2, <3>3
  <2>3. CASE key'.expires = clock + TTL /\ clock' = clock
    BY <2>1, <2>3
  <2> QED BY <2>2, <2>3, KeyAndRefusals
<1>3. IInv /\ RefusalIsFresh /\ [Next]_vars =>
        [\A w \in Workers :
           pc[w] = "refused" /\ pc'[w] = "down" /\ CheckRemaining(w) /\ ~ stop[w] =>
             key = NULL \/ started[w] + TTL < key.expires]_vars
  <2> SUFFICES ASSUME IInv, RefusalIsFresh, NEW w \in Workers, pc[w] = "refused", pc'[w] = "down",
                      CheckRemaining(w), ~ stop[w], key # NULL
               PROVE  started[w] + TTL < key.expires
    OBVIOUS
  <2>1. started[w] + TTL <= clock
    BY DEF CheckRemaining, Goto, RetryWindow, IInv, TypeOK
  <2>2. clock < key.expires
    BY DEF RefusalIsFresh
  <2>3. clock \in Nat /\ started[w] \in Nat /\ TTL \in Nat /\ key.expires \in Nat
    BY LockAssumption DEF IInv, TypeOK, Times, LockRow
  <2> QED BY <2>1, <2>2, <2>3
<1> QED BY <1>1, <1>2, <1>3, Invariance, PTL DEF Spec, RefusedByLiveOwnerOnly
=============================================================================
