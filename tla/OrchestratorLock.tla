-------------------------- MODULE OrchestratorLock --------------------------
(***************************************************************************)
(* The lease that keeps one orchestrator active:                           *)
(*                                                                         *)
(*   backend/app/workers/orchestrator_worker.py   acquire_lock, renew_lock,*)
(*                                                release_lock             *)
(*   backend/app/workers/orchestrator_runtime.py  run_orchestrator         *)
(*                                                                         *)
(* The lock is one Redis key with a time to live.  Every call to Redis is  *)
(* an await, so time passes and other orchestrators act between the WATCH  *)
(* and GET of a renewal and its MULTI/EXEC; a cycle of work may take any   *)
(* time; a process may be told to stop, or die, anywhere.                  *)
(***************************************************************************)
EXTENDS Integers

CONSTANTS
  Workers,     \* orchestrator processes
  TTL,         \* lock_ttl_seconds
  SlowReplies, \* may time pass between a refused SET and the remaining check
  MaxTime,     \* bound: the last instant of the clock
  MaxStarts,   \* bound: process starts per worker
  NULL

ASSUME LockAssumption ==
  /\ TTL \in Nat \ {0}
  /\ SlowReplies \in BOOLEAN
  /\ MaxTime \in Nat
  /\ MaxStarts \in Nat

VARIABLES
  clock,     \* wall-clock time, of Redis and of the processes
  key,       \* the lock: its owner token and the instant it expires, or NULL
  pc,        \* pc[w]: where run_orchestrator of w is
  starts,    \* starts[w]: processes started, which makes tokens unique
  started,   \* started[w]: when the acquisition began
  wake,      \* wake[w]: when the pause between two attempts ends
  stop,      \* stop[w]: shutdown.should_stop
  confirmed  \* confirmed[w]: when Redis last set or extended w's own lease

vars == <<clock, key, pc, starts, started, wake, stop, confirmed>>

Times  == 0 .. MaxTime
Starts == 0 .. MaxStarts

\* uuid4().hex: unique to a process.  (Every attempt draws a new one, but a
\* refused attempt never stored its token.)
Token(w) == <<w, starts[w]>>
Tokens   == Workers \X Starts

LockRow == [token : Tokens, expires : Nat]

ASSUME LockNullAssumption == NULL \notin LockRow

Acquiring    == {"trying", "refused", "waiting"}
ActivePhases == {"acquired", "loop", "renewing", "work"}
Phases       == {"down", "releasing", "deleting"} \cup Acquiring \cup ActivePhases

\* Past acquire_lock and not yet in the finally block: w takes itself for the
\* owner of the lock.
Active(w) == pc[w] \in ActivePhases

\* Redis: a key past its time to live is gone.
Live == key # NULL /\ clock < key.expires

\* Mutant: any live lock counts as one's own.
HoldsAny(w) == Live

\* What GET answers w.  EXEC runs iff the watched key is untouched since the
\* WATCH; as GET answered w's own token, that is iff it would answer so again
\* (only expiry or the owner itself removes a token).
Holds(w) == Live /\ key.token = Token(w)

\* Mutant: a second too short.
ShortWindow == TTL - 1

\* retry_window in run_orchestrator.
RetryWindow == TTL

Lease(w) == [token |-> Token(w), expires |-> clock + TTL]

\* Move w to a phase, with the locals that live there: the start of the
\* acquisition and the pause while it lasts (wait(min(remaining, 1.0))), the
\* instant of the confirmation while active.  Reaching "acquired" or "work" is
\* being confirmed.  A process that ends takes its locals with it.
Goto(w, phase) ==
  LET end == started[w] + RetryWindow
  IN /\ pc' = [pc EXCEPT ![w] = phase]
     /\ stop' = [stop EXCEPT ![w] = IF phase = "down" THEN FALSE ELSE @]
     /\ started' = [started EXCEPT ![w] = IF phase \in Acquiring THEN @ ELSE 0]
     /\ wake' = [wake EXCEPT ![w] = IF phase # "waiting" THEN 0
                                   ELSE IF clock + 1 < end THEN clock + 1 ELSE end]
     /\ confirmed' = [confirmed EXCEPT ![w] =
                        IF phase \in {"acquired", "work"} THEN clock
                        ELSE IF phase \in ActivePhases THEN @ ELSE 0]

----------------------------------------------------------------------------

Init ==
  /\ clock = 0
  /\ key = NULL
  /\ pc = [w \in Workers |-> "down"]
  /\ starts = [w \in Workers |-> 0]
  /\ started = [w \in Workers |-> 0]
  /\ wake = [w \in Workers |-> 0]
  /\ stop = [w \in Workers |-> FALSE]
  /\ confirmed = [w \in Workers |-> 0]

Tick ==
  /\ clock < MaxTime
  /\ SlowReplies \/ \A w \in Workers : pc[w] # "refused"
  /\ clock' = clock + 1
  /\ UNCHANGED <<key, pc, starts, started, wake, stop, confirmed>>

\* A process starts; every counter of its acquisition is fresh.
Start(w) ==
  /\ pc[w] = "down"
  /\ starts[w] < MaxStarts
  /\ pc' = [pc EXCEPT ![w] = "trying"]
  /\ starts' = [starts EXCEPT ![w] = @ + 1]
  /\ started' = [started EXCEPT ![w] = clock]
  /\ UNCHANGED <<clock, key, wake, stop, confirmed>>

\* Mutant: SET without NX.
AcquireAlways(w) ==
  /\ pc[w] = "trying"
  /\ Goto(w, "acquired")
  /\ key' = Lease(w)
  /\ UNCHANGED <<clock, starts>>

\* acquire_lock: SET key token NX EX ttl.
AcquireLock(w) ==
  /\ pc[w] = "trying"
  /\ \/ Live /\ Goto(w, "refused") /\ UNCHANGED key
     \/ ~ Live /\ Goto(w, "acquired") /\ key' = Lease(w)
  /\ UNCHANGED <<clock, starts>>

\* Head of the retry loop: give up after the window, else pause.
CheckRemaining(w) ==
  /\ pc[w] = "refused"
  /\ Goto(w, IF stop[w] \/ started[w] + RetryWindow <= clock THEN "down" ELSE "waiting")
  /\ UNCHANGED <<clock, key, starts>>

\* The pause ends: shutdown.wait returns at its timeout or at a shutdown.
Wake(w) ==
  /\ pc[w] = "waiting"
  /\ wake[w] <= clock \/ stop[w]
  /\ Goto(w, IF stop[w] THEN "down" ELSE "trying")
  /\ UNCHANGED <<clock, key, starts>>

\* A shutdown seen here returns without releasing the lease just taken.
EnterLoop(w) ==
  /\ pc[w] = "acquired"
  /\ Goto(w, IF stop[w] THEN "down" ELSE "loop")
  /\ UNCHANGED <<clock, key, starts>>

\* Head of the main loop and the WATCH/GET half of renew_lock.
RenewGet(w) ==
  /\ pc[w] = "loop"
  /\ Goto(w, IF ~ stop[w] /\ Holds(w) THEN "renewing" ELSE "releasing")
  /\ UNCHANGED <<clock, key, starts>>

\* Mutant: PEXPIRE without the WATCH, and its result ignored.
RenewUnwatched(w) ==
  /\ pc[w] = "renewing"
  /\ Goto(w, "work")
  /\ key' = IF Live THEN [key EXCEPT !.expires = clock + TTL] ELSE key
  /\ UNCHANGED <<clock, starts>>

\* The MULTI/PEXPIRE/EXEC half: extended, or aborted (WatchError).
RenewExec(w) ==
  /\ pc[w] = "renewing"
  /\ \/ Holds(w) /\ Goto(w, "work") /\ key' = Lease(w)
     \/ ~ Holds(w) /\ Goto(w, "releasing") /\ UNCHANGED key
  /\ UNCHANGED <<clock, starts>>

\* Any other exception of the renewal is ownership not confirmed; the reply
\* to an EXEC that did extend the lease may be what was lost.
RenewRaises(w) ==
  /\ pc[w] \in {"loop", "renewing"}
  /\ Goto(w, "releasing")
  /\ \/ UNCHANGED key
     \/ pc[w] = "renewing" /\ Holds(w) /\ key' = Lease(w)
  /\ UNCHANGED <<clock, starts>>

\* poll_once, process_lifecycle, scan_all and the sleep: as long as they take.
Work(w) ==
  /\ pc[w] = "work"
  /\ Goto(w, "loop")
  /\ UNCHANGED <<clock, key, starts>>

\* scan_all is not guarded: its exception ends the loop.
WorkRaises(w) ==
  /\ pc[w] = "work"
  /\ Goto(w, "releasing")
  /\ UNCHANGED <<clock, key, starts>>

\* release_lock, WATCH/GET half.
ReleaseGet(w) ==
  /\ pc[w] = "releasing"
  /\ Goto(w, IF Holds(w) THEN "deleting" ELSE "down")
  /\ UNCHANGED <<clock, key, starts>>

\* Mutant: DEL without the WATCH.
ReleaseUnwatched(w) ==
  /\ pc[w] = "deleting"
  /\ key' = NULL
  /\ Goto(w, "down")
  /\ UNCHANGED <<clock, starts>>

\* Mutant: the value is blanked instead of the key deleted.
ReleaseByBlanking(w) ==
  /\ pc[w] = "deleting"
  /\ key' = IF Holds(w) THEN [key EXCEPT !.token = NULL] ELSE key
  /\ Goto(w, "down")
  /\ UNCHANGED <<clock, starts>>

\* release_lock, MULTI/DEL/EXEC half.
ReleaseExec(w) ==
  /\ pc[w] = "deleting"
  /\ key' = IF Holds(w) THEN NULL ELSE key
  /\ Goto(w, "down")
  /\ UNCHANGED <<clock, starts>>

\* SIGTERM.
Shutdown(w) ==
  /\ pc[w] # "down"
  /\ ~ stop[w]
  /\ stop' = [stop EXCEPT ![w] = TRUE]
  /\ UNCHANGED <<clock, key, pc, starts, started, wake, confirmed>>

\* The process dies, or an exception of release_lock is swallowed: the lease
\* is left to expire.
Crash(w) ==
  /\ pc[w] # "down"
  /\ Goto(w, "down")
  /\ UNCHANGED <<clock, key, starts>>

\* What a running process does by itself.
Step(w) ==
  \/ AcquireLock(w) \/ CheckRemaining(w) \/ Wake(w) \/ EnterLoop(w)
  \/ RenewGet(w) \/ RenewExec(w) \/ Work(w) \/ ReleaseGet(w) \/ ReleaseExec(w)

Next ==
  \/ Tick
  \/ \E w \in Workers : \/ Start(w) \/ Step(w) \/ RenewRaises(w) \/ WorkRaises(w)
                        \/ Shutdown(w) \/ Crash(w)

Spec == Init /\ [][Next]_vars

\* A process that runs keeps running, and time passes.
FairSpec == Spec /\ WF_vars(Tick) /\ \A w \in Workers : WF_vars(Step(w))

----------------------------------------------------------------------------
(* Properties.                                                             *)

TypeOK ==
  /\ clock \in Times
  /\ key \in LockRow \cup {NULL}
  /\ pc \in [Workers -> Phases]
  /\ starts \in [Workers -> Starts]
  /\ started \in [Workers -> Times]
  /\ wake \in [Workers -> Nat]
  /\ stop \in [Workers -> BOOLEAN]
  /\ confirmed \in [Workers -> Times]

\* The lease is what it says: for TTL seconds after Redis confirmed its last
\* acquisition or renewal, an active orchestrator really owns the key, whoever
\* is releasing, renewing or retrying at the time.
LeaseHolds ==
  \A w \in Workers :
    Active(w) /\ clock < confirmed[w] + TTL =>
      key # NULL /\ key.token = Token(w) /\ clock < key.expires

\* So two orchestrators never both run on a fresh confirmation.
OneConfirmedOwner ==
  \A v, w \in Workers :
    /\ Active(v) /\ clock < confirmed[v] + TTL
    /\ Active(w) /\ clock < confirmed[w] + TTL
    => v = w

\* release_lock and renew_lock never delete or extend a lock another instance
\* took over between their GET and their EXEC: a live lease goes, or moves to
\* another expiry, only by a step of the process that owns it.
OnlyOwnerTouchesLease ==
  [][Live /\ key' # key =>
       \E w \in Workers : key.token = Token(w) /\ pc'[w] # pc[w]]_vars

\* acquire_lock's docstring, orchestrator_worker.py:247-249: two orchestrators
\* never both believe they own the lock.
NeverTwoOwners == \A v, w \in Workers : Active(v) /\ Active(w) => v = w

\* An orchestrator that lost its lease while it worked finds out at its next
\* renewal and stops: two active orchestrators do not stay.
DualActiveEnds ==
  \A v, w \in Workers : v # w =>
    (Active(v) /\ Active(w) ~> ~ (Active(v) /\ Active(w)))

\* run_orchestrator retries for one lease, so the lease of an owner that died
\* before it started never keeps it out: when it gives up, the lease in its way
\* was taken or renewed after it started, or was released at that very instant.
RefusedByLiveOwnerOnly ==
  [][\A w \in Workers :
       pc[w] = "refused" /\ pc'[w] = "down" /\ CheckRemaining(w) /\ ~ stop[w] =>
         key = NULL \/ started[w] + TTL < key.expires]_vars
=============================================================================
