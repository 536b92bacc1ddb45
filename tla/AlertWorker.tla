---------------------------- MODULE AlertWorker ----------------------------
(***************************************************************************)
(* Alerts, from the process that raises one to the row an admin signs off: *)
(*                                                                         *)
(*   backend/app/bus/publisher.py           publish_alert                  *)
(*   backend/app/alerts/translate.py        digest_event_id, translate     *)
(*   backend/app/workers/alert_worker.py    AlertWorker.poll_once          *)
(*   backend/app/data/alerts_repository.py  save_alert, ack_alert          *)
(*   backend/app/api/v1/alerts.py           acknowledge_alert              *)
(*                                                                         *)
(* The stream is Redis: a group delivers each entry once (">") and keeps   *)
(* it pending until it is acknowledged.  A batch is saved in one database  *)
(* transaction, and acknowledged entry by entry after the commit.          *)
(***************************************************************************)
EXTENDS Naturals, Sequences, FiniteSets

CONSTANTS
  NULL,
  Pairs,            \* (symbol, timeframe) pairs alerts are about
  Admins,
  Shapes,           \* what an entry may be: "good", "garbled", "unsavable"
  BatchSize,        \* count of poll_once
  MaxLen,           \* STREAM_MAXLEN_APPROX
  MaxTime,          \* bound: the clock
  MaxAlerts,        \* bound: alerts raised
  MaxCrashes,       \* bound: deaths of the alerts worker
  MaxCommitFailures,\* bound: commits that fail
  MaxAckFailures    \* bound: XACKs that fail

AlertsAssumption ==
  /\ {BatchSize, MaxLen, MaxTime, MaxAlerts} \subseteq Nat
  /\ Shapes \subseteq {"good", "garbled", "unsavable"}

VARIABLES
  now,      \* the clock
  born,     \* when the running orchestrator worker was constructed (its _now)
  raised,   \* history: every entry published
  stream,   \* entries the group has not delivered yet, oldest first
  pending,  \* entries delivered and not acknowledged
  acked,    \* history: entries acknowledged
  rows,     \* alert_events: event_id -> who acknowledged the alert, or NULL
  batch,    \* entries of the current batch still to be saved
  tx,       \* event_ids inserted in the open transaction
  aborted,  \* has a statement of the open transaction failed
  acks,     \* entries to acknowledge after the commit
  pc,       \* where the worker is
  used      \* what the bounds count

memory == <<batch, tx, aborted, acks>>
vars   == <<now, born, raised, stream, pending, acked, rows, memory, pc, used>>

Kinds == {"staleness", "risk_brake", "paper"}

\* Mutant: the identity of a staleness alert leaves out its timestamp.
EventIdWithoutTime(e) == <<e.kind, e.pair>>

\* digest_event_id: type, producer, timestamp, symbol and timeframe.
EventId(e) == <<e.kind, e.pair, e.stamp>>

\* What alert_events can hold.
Ids == Kinds \X (Pairs \cup {NULL}) \X (0 .. MaxTime)

----------------------------------------------------------------------------

Init ==
  /\ now = 0 /\ born = 0
  /\ raised = {} /\ stream = <<>> /\ pending = {} /\ acked = {}
  /\ rows = [i \in {} |-> NULL]
  /\ batch = <<>> /\ tx = {} /\ aborted = FALSE /\ acks = <<>>
  /\ pc = "idle"
  /\ used = [crashes |-> 0, commits |-> 0, acks |-> 0]

Tick ==
  /\ now < MaxTime
  /\ now' = now + 1
  /\ UNCHANGED <<born, raised, stream, pending, acked, rows, memory, pc, used>>

\* publish_alert: XADD with MAXLEN, which drops the oldest entries.
Publish(kind, pair, stamp) ==
  \E shape \in Shapes :
    LET e == [kind |-> kind, pair |-> pair, stamp |-> stamp, shape |-> shape,
              occurrence |-> Cardinality(raised) + 1]
        s == Append(stream, e)
    IN /\ Cardinality(raised) < MaxAlerts
       /\ raised' = raised \cup {e}
       /\ stream' = IF Len(s) > MaxLen THEN Tail(s) ELSE s
       /\ UNCHANGED <<now, born, pending, acked, rows, memory, pc, used>>

\* StalenessMonitor._emit_alert: stamped with the instant of the sweep, one
\* alert per series and sweep.
EmitStaleness ==
  \E pair \in Pairs :
    /\ ~ \E e \in raised : e.kind = "staleness" /\ e.pair = pair /\ e.stamp = now
    /\ Publish("staleness", pair, now)

\* OrchestratorWorker._emit_risk_brake_alert: stamped with the worker's _now.
EmitRiskBrake == \E pair \in Pairs : Publish("risk_brake", pair, born)

\* OrchestratorWorker._emit_paper_alert: no symbol, the same stamp.
EmitPaperAlert == Publish("paper", NULL, born)

\* The orchestrator process is started again and builds a new worker.
RestartOrchestrator ==
  /\ born # now
  /\ born' = now
  /\ UNCHANGED <<now, raised, stream, pending, acked, rows, memory, pc, used>>

----------------------------------------------------------------------------
(* One poll of the worker. *)

\* Mutant: entries count as acknowledged as soon as they are read.
ReadNoAck ==
  /\ pc = "idle" /\ stream # <<>>
  /\ LET n == IF Len(stream) < BatchSize THEN Len(stream) ELSE BatchSize
     IN /\ batch' = SubSeq(stream, 1, n)
        /\ acked' = acked \cup {stream[i] : i \in 1 .. n}
        /\ stream' = SubSeq(stream, n + 1, Len(stream))
  /\ tx' = {} /\ aborted' = FALSE /\ acks' = <<>> /\ pc' = "saving"
  /\ UNCHANGED <<now, born, raised, pending, rows, used>>

\* xreadgroup with ">": up to count new entries, which become pending.
Read ==
  /\ pc = "idle" /\ stream # <<>>
  /\ LET n == IF Len(stream) < BatchSize THEN Len(stream) ELSE BatchSize
     IN /\ batch' = SubSeq(stream, 1, n)
        /\ pending' = pending \cup {stream[i] : i \in 1 .. n}
        /\ stream' = SubSeq(stream, n + 1, Len(stream))
  /\ tx' = {} /\ aborted' = FALSE /\ acks' = <<>> /\ pc' = "saving"
  /\ UNCHANGED <<now, born, raised, acked, rows, used>>

\* Mutant: an alert whose pair already has an unsigned alert is not stored.
SaveOncePerPair ==
  /\ pc = "saving" /\ batch # <<>>
  /\ LET e == Head(batch)
     IN /\ batch' = Tail(batch)
        /\ acks' = Append(acks, e)
        /\ aborted' = (aborted \/ e.shape = "unsavable")
        /\ tx' = IF e.shape # "good" \/ aborted
                    \/ \E i \in DOMAIN rows : i[1] = e.kind /\ i[2] = e.pair /\ rows[i] = NULL
                 THEN tx ELSE tx \cup {EventId(e)}
  /\ UNCHANGED <<now, born, raised, stream, pending, acked, rows, pc, used>>

\* The body of the loop over the entries.  A garbled entry is skipped.  A
\* statement that fails aborts the transaction, so every later one fails too;
\* the error is swallowed, and the entry is acknowledged in every case.
Save ==
  /\ pc = "saving" /\ batch # <<>>
  /\ LET e == Head(batch)
     IN /\ batch' = Tail(batch)
        /\ acks' = Append(acks, e)
        /\ aborted' = (aborted \/ e.shape = "unsavable")
        /\ tx' = IF e.shape # "good" \/ aborted THEN tx ELSE tx \cup {EventId(e)}
  /\ UNCHANGED <<now, born, raised, stream, pending, acked, rows, pc, used>>

\* Mutant: a redelivered alert overwrites its row.
InsertReplacing(ids) ==
  [i \in DOMAIN rows \cup ids |-> IF i \in ids THEN NULL ELSE rows[i]]

\* save_alert: ON CONFLICT (event_id) DO NOTHING.
Insert(ids) ==
  [i \in DOMAIN rows \cup ids |-> IF i \in DOMAIN rows THEN rows[i] ELSE NULL]

\* session.commit: an aborted transaction is rolled back without an error.
Commit ==
  /\ pc = "saving" /\ batch = <<>>
  /\ rows' = IF aborted THEN rows ELSE Insert(tx)
  /\ tx' = {} /\ aborted' = FALSE
  /\ pc' = "acking"
  /\ UNCHANGED <<now, born, raised, stream, pending, acked, batch, acks, used>>

\* The commit raises: run_alerts_worker logs it and polls again.
CommitFails ==
  /\ pc = "saving" /\ batch = <<>>
  /\ used.commits < MaxCommitFailures
  /\ used' = [used EXCEPT !.commits = @ + 1]
  /\ tx' = {} /\ aborted' = FALSE /\ acks' = <<>>
  /\ pc' = "idle"
  /\ UNCHANGED <<now, born, raised, stream, pending, acked, rows, batch>>

Ack ==
  /\ pc = "acking" /\ acks # <<>>
  /\ acks' = Tail(acks)
  /\ pending' = pending \ {Head(acks)}
  /\ acked' = acked \cup {Head(acks)}
  /\ UNCHANGED <<now, born, raised, stream, rows, batch, tx, aborted, pc, used>>

\* An XACK that fails is swallowed: the entry stays pending.
AckFails ==
  /\ pc = "acking" /\ acks # <<>>
  /\ used.acks < MaxAckFailures
  /\ used' = [used EXCEPT !.acks = @ + 1]
  /\ acks' = Tail(acks)
  /\ UNCHANGED <<now, born, raised, stream, pending, acked, rows, batch, tx, aborted, pc>>

EndPoll ==
  /\ pc = "acking" /\ acks = <<>>
  /\ pc' = "idle"
  /\ UNCHANGED <<now, born, raised, stream, pending, acked, rows, memory, used>>

\* The process dies and is started again; ensure_group finds the group.
Crash ==
  /\ used.crashes < MaxCrashes
  /\ used' = [used EXCEPT !.crashes = @ + 1]
  /\ batch' = <<>> /\ tx' = {} /\ aborted' = FALSE /\ acks' = <<>>
  /\ pc' = "idle"
  /\ UNCHANGED <<now, born, raised, stream, pending, acked, rows>>

----------------------------------------------------------------------------

\* POST /alerts/{event_id}/ack: only a row nobody has acknowledged is changed.
AckAlert ==
  \E i \in DOMAIN rows, a \in Admins :
    /\ rows[i] = NULL
    /\ rows' = [rows EXCEPT ![i] = a]
    /\ UNCHANGED <<now, born, raised, stream, pending, acked, memory, pc, used>>

----------------------------------------------------------------------------

Poll == Read \/ Save \/ Commit \/ CommitFails \/ Ack \/ AckFails \/ EndPoll

Next ==
  \/ Tick
  \/ EmitStaleness \/ EmitRiskBrake \/ EmitPaperAlert \/ RestartOrchestrator
  \/ Poll
  \/ Crash
  \/ AckAlert

\* The runtime polls forever.
Spec == Init /\ [][Next]_vars /\ WF_vars(Poll)

----------------------------------------------------------------------------
(* Properties. *)

\* The variables have their types, and an entry is pending or acknowledged,
\* never both.
TypeOK ==
  /\ now \in 0 .. MaxTime /\ born \in 0 .. now
  /\ pc \in {"idle", "saving", "acking"}
  /\ DOMAIN rows \subseteq Ids
  /\ \A i \in DOMAIN rows : rows[i] \in Admins \cup {NULL}
  /\ pending \cap acked = {}
  /\ pending \cup acked \subseteq raised
  /\ {batch[i] : i \in DOMAIN batch} \cup {acks[i] : i \in DOMAIN acks} \subseteq pending

\* An entry the worker has acknowledged on alerts.stream, and that could be
\* decoded, has its row in alert_events: an acknowledgement is the point after
\* which Redis may forget the alert ("persisted idempotently, then
\* acknowledged").
AcknowledgedIsStored ==
  \A e \in acked : e.shape # "garbled" => EventId(e) \in DOMAIN rows

\* An alert that is published is stored in the end (alert_worker.py: "On restart
\* the group's pending/0 offset replays un-acked entries for catch-up").
StoredEventually ==
  <>[](\A e \in raised : e.shape = "good" => EventId(e) \in DOMAIN rows)

\* Two staleness alerts that were stored are two rows: collapsing redeliveries
\* never collapses two occurrences.
StalenessIsDistinct ==
  \A e, f \in acked :
    e.kind = "staleness" /\ f.kind = "staleness" /\ EventId(e) = EventId(f) => e = f

\* Not guaranteed by the code (README, "Known deviations").
\* The same for every alert (digest_event_id: "Canonical, collision-safe
\* identity for an alert event").
OccurrencesAreDistinct ==
  \A e, f \in acked : EventId(e) = EventId(f) => e = f

\* An alert stays acknowledged by the admin who acknowledged it first, whatever
\* other admins, redeliveries and crashes do.
AckIsKept ==
  [][\A i \in DOMAIN rows : rows[i] # NULL => i \in DOMAIN rows' /\ rows'[i] = rows[i]]_vars

\* No INSERT fails for what the entry holds.
EntriesCanBeSaved == "unsavable" \notin Shapes

\* What the table of alerts keeps, if every entry that can be decoded can be
\* saved.
AlertsAreKept ==
  /\ [](TypeOK /\ AcknowledgedIsStored /\ StalenessIsDistinct)
  /\ AckIsKept
=============================================================================
