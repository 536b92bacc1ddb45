----------------------------- MODULE Heartbeat -----------------------------
(***************************************************************************)
(* Worker heartbeats:                                                      *)
(*                                                                         *)
(*   backend/app/monitor/heartbeat.py  WorkerHeartbeat, read_worker_health *)
(*   backend/app/api/v1/system.py      _refresh_runtime_gauges             *)
(*   backend/app/core/shutdown.py      ShutdownCoordinator                 *)
(*   backend/app/workers/*_runtime.py  the loop around touch and clear     *)
(*                                                                         *)
(* One role.  Its processes share one Redis hash with a time to live.      *)
(* touch is two commands, HSET and EXPIRE.  Redis may be unreachable for a *)
(* while, and a process may die, hang or be told to stop.                  *)
(***************************************************************************)
EXTENDS Naturals, FiniteSets

CONSTANTS
  NULL,
  Instances,    \* processes of the role
  Overlap,      \* may a process start while another one is there
  Period,       \* seconds the loop sleeps
  MinTtl,       \* heartbeat_ttl_seconds
  MaxCycle,     \* bound: a healthy loop begins its next touch within this time
  RoundTrip,    \* bound: the longest time between HSET and EXPIRE
  MaxStops,     \* bound: SIGTERMs
  MaxCrashes,   \* bound: deaths, and cycles that raise
  MaxHangs,     \* bound: loops that stop making progress
  MaxOutages    \* bound: times Redis is unreachable

\* heartbeat_ttl_for_loop
HeartbeatTtlForLoop(period) ==
  LET loop == 3 * (IF period > 1 THEN period ELSE 1)
  IN IF MinTtl > loop THEN MinTtl ELSE loop

Ttl == HeartbeatTtlForLoop(Period)

HeartbeatAssumption ==
  /\ {Period, MinTtl, MaxCycle, RoundTrip} \subseteq Nat
  /\ NULL \notin Nat \cup [age : Nat, left : Nat \cup {NULL}]

\* One worker at a time, whose cycle fits into the time to live and whose HSET
\* and EXPIRE fall into the same second.
OneWorkerInTime == ~ Overlap /\ RoundTrip = 0 /\ MaxCycle < Ttl

VARIABLES
  key,      \* the hash: [age, left], left NULL when it has no expiry; or NULL
  pc,       \* pc[i]: "off", "hset", "expire", "loop", "clear" or "hung"
  since,    \* since[i]: time since the last touch began
  touched,  \* touched[i]: has a touch of this process ended
  stopped,  \* stopped[i]: told to stop, so not restarted
  outage,   \* is Redis unreachable
  gauge,    \* WORKER_UP of the role
  used      \* what the bounds count

vars == <<key, pc, since, touched, stopped, outage, gauge, used>>

Alive(i) == pc[i] \notin {"off", "hung"}

\* Mutant: a heartbeat that is there counts as up.
HeartbeatStatusByKey(age) == IF age = NULL THEN "down" ELSE "up"

\* heartbeat_status
HeartbeatStatus(age) ==
  CASE age = NULL -> "down"
    [] age # NULL /\ age > Ttl -> "stale"
    [] OTHER -> "up"

\* read_worker_health: the age of the hash, by the time to live it declares.
Status == HeartbeatStatus(IF key = NULL THEN NULL ELSE key.age)

----------------------------------------------------------------------------

Init ==
  /\ key = NULL
  /\ pc = [i \in Instances |-> "off"]
  /\ since = [i \in Instances |-> 0]
  /\ touched = [i \in Instances |-> FALSE]
  /\ stopped = [i \in Instances |-> FALSE]
  /\ outage = FALSE
  /\ gauge = 0
  /\ used = [stops |-> 0, crashes |-> 0, hangs |-> 0, outages |-> 0]

\* Redis counts the key down, and drops it at zero.
Aged(k) ==
  IF k = NULL THEN NULL
  ELSE IF k.left = 1 THEN NULL
  ELSE [age  |-> IF k.age > Ttl THEN k.age ELSE k.age + 1,
        left |-> IF k.left = NULL THEN NULL ELSE k.left - 1]

\* Time passes, never so much that a healthy loop misses its cycle.
Tick ==
  /\ \A i \in Instances :
       Alive(i) => since[i] < (IF pc[i] = "expire" THEN RoundTrip ELSE MaxCycle)
  /\ key' = Aged(key)
  /\ since' = [i \in Instances |-> IF Alive(i) THEN since[i] + 1 ELSE 0]
  /\ UNCHANGED <<pc, touched, stopped, outage, gauge, used>>

\* The container starts, or is restarted, and enters its loop.
Start(i) ==
  /\ pc[i] = "off" /\ ~ stopped[i]
  /\ Overlap \/ \A j \in Instances : pc[j] = "off"
  /\ pc' = [pc EXCEPT ![i] = "hset"]
  /\ since' = [since EXCEPT ![i] = 0]
  /\ UNCHANGED <<key, touched, stopped, outage, gauge, used>>

\* touch: HSET keeps the expiry the key has.
HSet(i) ==
  /\ pc[i] = "hset" /\ ~ outage
  /\ key' = [age |-> 0, left |-> IF key = NULL THEN NULL ELSE key.left]
  /\ pc' = [pc EXCEPT ![i] = "expire"]
  /\ since' = [since EXCEPT ![i] = 0]
  /\ UNCHANGED <<touched, stopped, outage, gauge, used>>

\* Mutant: the expiry is set with the key and not renewed (EXPIRE ... NX).
ExpireOnce(i) ==
  /\ pc[i] = "expire" /\ ~ outage
  /\ key' = IF key # NULL /\ key.left = NULL THEN [key EXCEPT !.left = Ttl] ELSE key
  /\ pc' = [pc EXCEPT ![i] = "loop"]
  /\ touched' = [touched EXCEPT ![i] = TRUE]
  /\ UNCHANGED <<since, stopped, outage, gauge, used>>

\* touch: EXPIRE does nothing to a key that is gone.
Expire(i) ==
  /\ pc[i] = "expire" /\ ~ outage
  /\ key' = IF key = NULL THEN NULL ELSE [key EXCEPT !.left = Ttl]
  /\ pc' = [pc EXCEPT ![i] = "loop"]
  /\ touched' = [touched EXCEPT ![i] = TRUE]
  /\ UNCHANGED <<since, stopped, outage, gauge, used>>

\* Mutant: the loop goes on without a heartbeat, and never tries again.
TouchFailsSilently(i) ==
  /\ outage
  /\ pc[i] \in {"hset", "expire"}
  /\ pc' = [pc EXCEPT ![i] = "hung"]
  /\ UNCHANGED <<key, since, touched, stopped, outage, gauge, used>>

\* touch is outside the loop's try: it takes the process down through finally.
TouchFails(i) ==
  /\ outage
  /\ pc[i] \in {"hset", "expire"}
  /\ pc' = [pc EXCEPT ![i] = "clear"]
  /\ UNCHANGED <<key, since, touched, stopped, outage, gauge, used>>

\* The work of a cycle and the sleep are over.
EndCycle(i) ==
  /\ pc[i] = "loop" /\ ~ stopped[i]
  /\ pc' = [pc EXCEPT ![i] = "hset"]
  /\ UNCHANGED <<key, since, touched, stopped, outage, gauge, used>>

\* SIGTERM: should_stop is set, and read at the top of the loop.
Stop(i) ==
  /\ Alive(i) /\ ~ stopped[i]
  /\ used.stops < MaxStops
  /\ used' = [used EXCEPT !.stops = @ + 1]
  /\ stopped' = [stopped EXCEPT ![i] = TRUE]
  /\ UNCHANGED <<key, pc, since, touched, outage, gauge>>

\* The loop ends.
Leave(i) ==
  /\ pc[i] = "loop" /\ stopped[i]
  /\ pc' = [pc EXCEPT ![i] = "clear"]
  /\ UNCHANGED <<key, since, touched, stopped, outage, gauge, used>>

\* clear: DEL, whatever happens.
Clear(i) ==
  /\ pc[i] = "clear"
  /\ key' = IF outage THEN key ELSE NULL
  /\ pc' = [pc EXCEPT ![i] = "off"]
  /\ touched' = [touched EXCEPT ![i] = FALSE]
  /\ UNCHANGED <<since, stopped, outage, gauge, used>>

Crash(i) ==
  /\ pc[i] # "off"
  /\ used.crashes < MaxCrashes
  /\ used' = [used EXCEPT !.crashes = @ + 1]
  /\ pc' = [pc EXCEPT ![i] = "off"]
  /\ touched' = [touched EXCEPT ![i] = FALSE]
  /\ UNCHANGED <<key, since, stopped, outage, gauge>>

\* An exception of the cycle leaves the loop, and the process, through finally.
CycleRaises(i) ==
  /\ pc[i] = "loop"
  /\ used.crashes < MaxCrashes
  /\ used' = [used EXCEPT !.crashes = @ + 1]
  /\ pc' = [pc EXCEPT ![i] = "clear"]
  /\ UNCHANGED <<key, since, touched, stopped, outage, gauge>>

Hang(i) ==
  /\ pc[i] = "loop"
  /\ used.hangs < MaxHangs
  /\ used' = [used EXCEPT !.hangs = @ + 1]
  /\ pc' = [pc EXCEPT ![i] = "hung"]
  /\ UNCHANGED <<key, since, touched, stopped, outage, gauge>>

RedisFails ==
  /\ ~ outage /\ used.outages < MaxOutages
  /\ used' = [used EXCEPT !.outages = @ + 1]
  /\ outage' = TRUE
  /\ UNCHANGED <<key, pc, since, touched, stopped, gauge>>

RedisReturns ==
  /\ outage
  /\ outage' = FALSE
  /\ UNCHANGED <<key, pc, since, touched, stopped, gauge, used>>

\* GET /metrics: a scrape while Redis is unreachable leaves the gauge alone.
Scrape ==
  /\ ~ outage
  /\ gauge' = IF Status = "up" THEN 1 ELSE 0
  /\ UNCHANGED <<key, pc, since, touched, stopped, outage, used>>

----------------------------------------------------------------------------

Step(i) == Start(i) \/ HSet(i) \/ Expire(i) \/ TouchFails(i) \/ EndCycle(i) \/ Leave(i) \/ Clear(i)

Next ==
  \/ Tick
  \/ \E i \in Instances : Step(i) \/ Stop(i) \/ Crash(i) \/ CycleRaises(i) \/ Hang(i)
  \/ RedisFails \/ RedisReturns
  \/ Scrape

\* Time passes, containers are restarted (restart: unless-stopped), loops go
\* on, an outage ends and Prometheus scrapes.
Fairness ==
  /\ WF_vars(Tick) /\ WF_vars(RedisReturns) /\ WF_vars(Scrape)
  /\ \A i \in Instances : WF_vars(Step(i))

Spec == Init /\ [][Next]_vars /\ Fairness

----------------------------------------------------------------------------
(* Properties. *)

\* The variables have their types, and a key never outlives its time to live.
TypeOK ==
  /\ pc \in [Instances -> {"off", "hset", "expire", "loop", "clear", "hung"}]
  /\ since \in [Instances -> 0 .. MaxCycle]
  /\ key # NULL => /\ key.age \in 0 .. Ttl + 1
                   /\ key.left # NULL => key.left \in 1 .. Ttl
  /\ gauge \in 0 .. 1

\* A worker that goes through its loop is reported up at every instant between
\* its first touch and its end (read_worker_health: "healthy slow-loop workers
\* are never misclassified as stale/down").  This needs OneWorkerInTime: another
\* process of the role clears the key with its own end, and a key that a dead
\* process left may run out between the HSET and the EXPIRE of a first touch.
HealthyIsUp ==
  \A i \in Instances : touched[i] /\ pc[i] \in {"loop", "hset", "expire"} => Status = "up"

\* When every process of the role is dead, hung or stopped and none comes back,
\* the status and the gauge say so in the end, wherever the last one died.
DeadIsNotUp ==
  []<>((Status # "up" /\ gauge = 0) \/ \E i \in Instances : Alive(i))

\* Once crashes and outages are over, the role is up for good: a touch that
\* fails costs a restart, not the worker.
UpForGood == <>[](Status = "up" /\ gauge = 1)

\* Not guaranteed by the code (README, "Known deviations").
\* A killed process is reported down in the end (heartbeat.py: "TTL auto-expiry
\* is what lets a killed process be detected as down").
DeadIsDown ==
  (\A i \in Instances : pc[i] = "off")
    ~> (Status = "down" \/ \E i \in Instances : pc[i] # "off")

\* Not guaranteed by the code (README, "Known deviations").
\* A hung process is reported stale in the end (heartbeat.py: "stale when the
\* key exists but is older than the heartbeat TTL (process hung ...)").
HungIsStale ==
  (\E i \in Instances : pc[i] = "hung") ~> (Status = "stale")

=============================================================================
