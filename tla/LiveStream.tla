----------------------------- MODULE LiveStream -----------------------------
(***************************************************************************)
(* The live feed, from the event streams to a page:                        *)
(*                                                                         *)
(*   backend/app/ws/tickets.py       one-time tickets                      *)
(*   backend/app/ws/hub.py           cursors over the Redis streams        *)
(*   backend/app/api/v1/realtime.py  the loop of one socket                *)
(*   frontend/src/lib/alerts.ts      AlertsSocket: connect and reconnect   *)
(*                                                                         *)
(* One page with one socket.  A frame the server sends is received; what   *)
(* a broken connection loses is what the server had not sent yet.  Entry i *)
(* of a stream has id i, and id 0 stands for "0-0".                        *)
(***************************************************************************)
EXTENDS Integers, Sequences, FiniteSets

CONSTANTS
  NULL,
  Topics,     \* topics that have a stream (TOPIC_STREAMS)
  Permitted,  \* those the role of the user may subscribe
  Wanted,     \* topics the page asks for
  Count,      \* entries per stream of one XREAD (50)
  MaxLen,     \* bound: entries per stream
  MaxFaults   \* bound: disconnects, Redis errors, expired and failed tickets

\* What the socket's bookkeeping needs of the constants.
LiveAssumption ==
  /\ IsFiniteSet(Topics) /\ Permitted \subseteq Topics
  /\ Count \in Nat \ {0} /\ MaxLen \in Nat
  /\ NULL \notin Int

VARIABLES
  log,     \* log[t]: sequence of "event" and "poison" entries
  valid,   \* tickets in Redis
  tickets, \* number of tickets issued
  page,    \* what the page is doing
  held,    \* the ticket of the url the page opens
  pc,      \* the socket's loop: "none", "loop", "send"
  inbox,   \* control frames on their way to the server
  topics,  \* topics subscribed on this socket
  since,   \* since[t]: the cursor, NULL before the baseline
  out,     \* frames of the last read still to be sent
  got,     \* frames of this socket the page received
  asked,   \* history: asked[t], the head of t when its subscription was handled
  base,    \* history: base[t], the first cursor of t
  faults

server == <<pc, inbox, topics, since, out, got, asked, base>>
vars == <<log, valid, tickets, page, held, server, faults>>

Head0(t) == Len(log[t])
Pages == {"ticket", "opening", "open", "timer", "login"}

NoSocket ==
  /\ pc' = "none" /\ inbox' = <<>> /\ topics' = {} /\ out' = <<>> /\ got' = {}
  /\ since' = [t \in Topics |-> NULL]
  /\ asked' = [t \in Topics |-> NULL]
  /\ base'  = [t \in Topics |-> NULL]

Init ==
  /\ log = [t \in Topics |-> <<>>]
  /\ valid = {} /\ tickets = 0 /\ faults = 0
  /\ page = "ticket" /\ held = NULL
  /\ pc = "none" /\ inbox = <<>> /\ topics = {} /\ out = <<>> /\ got = {}
  /\ since = [t \in Topics |-> NULL]
  /\ asked = [t \in Topics |-> NULL]
  /\ base  = [t \in Topics |-> NULL]

Fault == faults < MaxFaults /\ faults' = faults + 1

----------------------------------------------------------------------------
(* Producers. *)

\* publish_alert, publish_signal, publish_decision.
Publish(t, entry) ==
  /\ Len(log[t]) < MaxLen
  /\ log' = [log EXCEPT ![t] = Append(@, entry)]
  /\ UNCHANGED <<valid, tickets, page, held, server, faults>>

----------------------------------------------------------------------------
(* The page: tickets and reconnection. *)

\* connect: POST /ws/ticket issues a fresh ticket, and the page opens its url.
Ticket ==
  /\ page = "ticket"
  /\ tickets' = tickets + 1
  /\ valid' = valid \cup {tickets'}
  /\ held' = tickets'
  /\ page' = "opening"
  /\ UNCHANGED <<log, server, faults>>

\* The ticket request fails (the page retries) or is refused (it goes to login).
TicketFails ==
  /\ page = "ticket"
  /\ Fault
  /\ page' \in {"timer", "login"}
  /\ UNCHANGED <<log, valid, tickets, held, server>>

\* TICKET_TTL_SECONDS pass before the socket opens.
Expire ==
  /\ valid # {}
  /\ Fault
  /\ \E n \in valid : valid' = valid \ {n}
  /\ UNCHANGED <<log, tickets, page, held, server>>

\* ws_stream up to its loop, for a page of an allowed origin (another is turned
\* away before its ticket is looked at): the ticket is consumed; the page's
\* onopen subscribes.
Accept ==
  /\ page = "opening" /\ held \in valid
  /\ valid' = valid \ {held}
  /\ page' = "open"
  /\ pc' = "loop"
  /\ inbox' = <<Wanted>>
  /\ UNCHANGED <<log, tickets, held, topics, since, out, asked, base, got, faults>>

\* redeem_ticket finds nothing: the socket is closed with WS_AUTH_CLOSE_CODE,
\* and onclose schedules a reconnection.
Reject ==
  /\ page = "opening" /\ held \notin valid
  /\ page' = "timer"
  /\ UNCHANGED <<log, valid, tickets, held, server, faults>>

\* Mutant: the timer reopens the url of the ticket it already has.
ReconnectSameUrl ==
  /\ page = "timer"
  /\ page' = IF held = NULL THEN "ticket" ELSE "opening"
  /\ UNCHANGED <<log, valid, tickets, held, server, faults>>

\* scheduleReconnect's timer: a fresh ticket.
Reconnect ==
  /\ page = "timer"
  /\ page' = "ticket"
  /\ UNCHANGED <<log, valid, tickets, held, server, faults>>

\* The connection breaks; frames not yet sent are lost with the socket's state.
Disconnect ==
  /\ page = "open"
  /\ Fault
  /\ page' = "timer"
  /\ NoSocket
  /\ UNCHANGED <<log, valid, tickets, held>>

----------------------------------------------------------------------------
(* The socket's loop. *)

Unbased == {t \in topics : since[t] = NULL}

\* The baseline of a topic: the head of its stream (current_stream_id).
Baseline(t) ==
  /\ pc = "loop" /\ t \in Unbased
  /\ since' = [since EXCEPT ![t] = Head0(t)]
  /\ base' = [base EXCEPT ![t] = Head0(t)]
  /\ UNCHANGED <<log, valid, tickets, page, held, pc, inbox, topics, out, got, asked, faults>>

\* The same when Redis does not answer: "0-0".
BaselineFails(t) ==
  /\ pc = "loop" /\ t \in Unbased
  /\ Fault
  /\ since' = [since EXCEPT ![t] = 0]
  /\ base' = [base EXCEPT ![t] = 0]
  /\ UNCHANGED <<log, valid, tickets, page, held, pc, inbox, topics, out, got, asked>>

\* The id of the last entry one XREAD returns for t.
UpTo(t) == IF Head0(t) > since[t] + Count THEN since[t] + Count ELSE Head0(t)

\* The entries of t after its cursor that one XREAD returns and that decode.
Decoded(t) == {i \in since[t] + 1 .. UpTo(t) : log[t][i] = "event"}

\* Mutant: the cursor jumps to the head of the stream.
CursorAtHead(t) == Head0(t)

\* Mutant: the cursor stays before a batch of which nothing decodes.
CursorWaitsForEvent(t) == IF Decoded(t) = {} THEN since[t] ELSE UpTo(t)

\* Mutant: the cursor is the last id but one, so that an entry is read twice.
CursorOneBack(t) == IF UpTo(t) > since[t] + 1 THEN UpTo(t) - 1 ELSE UpTo(t)

\* new_since[topic]: the id of the last entry read, whether it decodes or not.
CursorAfter(t) == UpTo(t)

\* The frames of one read.
Frames == UNION {{<<t, i>> : i \in Decoded(t)} : t \in topics}

\* XREAD answers stream by stream, each in the order of its ids; the topics are a
\* Python set, whose order is not specified.
Responses ==
  {r \in [1 .. Cardinality(Frames) -> Frames] :
     /\ \A f \in Frames : \E k \in DOMAIN r : r[k] = f
     /\ \A j, k \in DOMAIN r : j < k /\ r[j][1] = r[k][1] =>
          r[j][2] < r[k][2] /\ \A i \in j .. k : r[i][1] = r[j][1]}

\* read_once
Read ==
  /\ pc = "loop" /\ topics # {} /\ Unbased = {}
  /\ out' \in Responses
  /\ since' = [t \in Topics |-> IF t \in topics THEN CursorAfter(t) ELSE since[t]]
  /\ pc' = "send"
  /\ UNCHANGED <<log, valid, tickets, page, held, inbox, topics, got, asked, base, faults>>

\* read_once when Redis does not answer: nothing is read, the cursor is kept.
ReadFails ==
  /\ pc = "loop" /\ topics # {} /\ Unbased = {}
  /\ Fault
  /\ pc' = "send"
  /\ UNCHANGED <<log, valid, tickets, page, held, inbox, topics, since, out, asked, base, got>>

\* One send_json of an event frame; the page's onEvent keeps it.
Send ==
  /\ pc = "send" /\ out # <<>>
  /\ out' = Tail(out)
  /\ got' = got \cup {out[1]}
  /\ UNCHANGED <<log, valid, tickets, page, held, pc, inbox, topics, since, asked, base, faults>>

\* The point of the loop at which the socket waits for a control frame: the
\* frames of the last read are sent, or nothing is subscribed yet.
AtReceive == \/ pc = "send" /\ out = <<>>
             \/ pc = "loop" /\ topics = {}

\* wait_for(receive) times out.
Idle ==
  /\ AtReceive
  /\ pc' = "loop"
  /\ UNCHANGED <<log, valid, tickets, page, held, inbox, topics, since, out, got, asked, base, faults>>

\* _handle_control: topics that exist and that the role may read are added;
\* the others are reported, which does not undo the addition.
Granted(req) == req \cap Permitted

\* A control frame is handled; "subscribed" or "error" is sent back.
Control ==
  /\ AtReceive /\ inbox # <<>>
  /\ LET new == Granted(inbox[1]) \ topics
     IN /\ topics' = topics \cup new
        /\ asked' = [t \in Topics |-> IF t \in new THEN Head0(t) ELSE asked[t]]
  /\ inbox' = Tail(inbox)
  /\ pc' = "loop"
  /\ UNCHANGED <<log, valid, tickets, page, held, since, out, got, base, faults>>

Page == Ticket \/ Accept \/ Reject \/ Reconnect
Loop == Read \/ Send \/ Idle \/ Control \/ \E t \in Topics : Baseline(t)
Faulty ==
  \/ TicketFails \/ Expire \/ Disconnect \/ ReadFails
  \/ \E t \in Topics : BaselineFails(t)

Next == Page \/ Loop \/ Faulty \/ \E t \in Topics, e \in {"event", "poison"} : Publish(t, e)

Spec == Init /\ [][Next]_vars

\* The page's timers and requests go on, the loop of an open socket runs (each
\* await returns), and a control frame does not time out for ever.
FairSpec ==
  /\ Spec
  /\ WF_vars(Page)
  /\ WF_vars(Read \/ Send \/ \E t \in Topics : Baseline(t))
  /\ WF_vars(Idle) /\ SF_vars(Control)

----------------------------------------------------------------------------
(* Properties. *)

\* Types.
TypeOK ==
  /\ page \in Pages /\ pc \in {"none", "loop", "send"}
  /\ valid \subseteq 1 .. tickets
  /\ topics \subseteq Wanted \cap Permitted
  /\ got \subseteq Topics \X (1 .. MaxLen)
  /\ (pc = "none") <=> (page # "open")
  /\ \A t \in Topics : since[t] # NULL => since[t] \in 0 .. Head0(t)

\* A socket sends the events of a topic in the order of the stream and none
\* twice.
InOrderOnce ==
  \A j \in DOMAIN out :
    /\ \A i \in 1 .. j - 1 : out[i][1] = out[j][1] => out[i][2] < out[j][2]
    /\ \A f \in got : f[1] = out[j][1] => f[2] < out[j][2]

\* No event between the first cursor of a socket and its present one is
\* missing: it reached the page or is about to be sent.
NoHole ==
  \A t \in Topics : since[t] # NULL =>
    \A i \in base[t] + 1 .. since[t] :
      log[t][i] = "event" => <<t, i>> \in got \/ \E k \in DOMAIN out : out[k] = <<t, i>>

\* What a socket sends is exactly what was published between its cursors.
FeedIsExact == TypeOK /\ InOrderOnce /\ NoHole

\* An event that is behind no cursor reaches the page, however many poison
\* entries come before it, unless the connection breaks.
EventReachesPage ==
  \A t \in Topics : \A i \in 1 .. MaxLen :
    (since[t] # NULL /\ i > since[t] /\ i <= Head0(t) /\ log[t][i] = "event")
      ~> (<<t, i>> \in got \/ page # "open")

\* After any finite number of disconnects, expired tickets and failed requests
\* the page is subscribed again to all it may read, or at the login page.
EventuallyLive ==
  <>[](page = "login" \/ (page = "open" /\ topics = Wanted \cap Permitted))

\* Not guaranteed by the code (README, "Known deviations").
\* realtime.py: a topic is baselined so that only events produced after
\* subscription are delivered.
NothingFromBefore ==
  \A i \in DOMAIN out : asked[out[i][1]] # NULL => out[i][2] > asked[out[i][1]]

\* Not guaranteed by the code (README, "Known deviations").
\* realtime.py: a topic is baselined at the moment it is first subscribed.
BaselinedWhenSubscribed ==
  \A t \in Topics : base[t] # NULL => base[t] <= asked[t]

=============================================================================
