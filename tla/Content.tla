------------------------------ MODULE Content ------------------------------
(***************************************************************************)
(* Ingestion of news and of the economic calendar:                         *)
(*                                                                         *)
(*   backend/app/workers/content_runtime.py    the polling loop            *)
(*   backend/app/data/content_repository.py    inserts, first one wins     *)
(*   backend/app/data/content_hash.py          the keys of the inserts     *)
(*   backend/app/data/providers/finnhub_*.py   the providers               *)
(*   backend/app/data/providers/synthetic_content.py  the substitute       *)
(*                                                                         *)
(* An item is a story or a calendar event with a time of its own.  The     *)
(* actual value of an event is published some time after it.  A row is     *)
(* what the first insert of the item's key wrote.                          *)
(***************************************************************************)
EXTENDS Integers, FiniteSets

CONSTANTS
  NULL,
  Items,      \* the items of both sources
  Source,     \* Source[x]: "calendar" or "news"
  At,         \* At[x]: its time
  Released,   \* Released[x]: from when the provider has its actual value
  Lookback,   \* Lookback[src]: how far back a poll asks
  Interval,   \* between two cycles: min(news_poll_seconds, calendar_poll_seconds)
  Before,     \* minutes before an event in which it is a risk (_IMPACT_WINDOW_MIN)
  Slot,       \* length of a slot of the synthetic calendar
  MaxTime,    \* bound: the clock
  MaxFaults   \* bound: provider and database failures

Sources == {"calendar", "news"}

ContentAssumption ==
  /\ Source \in [Items -> Sources]
  /\ At \in [Items -> Nat] /\ Released \in [Items -> Nat]
  /\ Lookback \in [Sources -> Nat]
  /\ {Interval, MaxTime, MaxFaults} \subseteq Nat
  /\ NULL \notin Int \cup BOOLEAN

VARIABLES
  now,
  pc,     \* "sleep", "calendar", "news", or "down"
  due,    \* when the worker wakes up
  rows,   \* rows[x]: NULL, or whether the row has the actual value
  synth,  \* times of the synthetic items stored, by source
  ok,     \* history: ok[src], the last poll of the source that succeeded
  first,  \* history: first[src], the first one
  gap,    \* history: gap[src], the longest time between two of them
  wild,   \* history: a synthetic poll stored an item outside its window
  faults

history == <<ok, first, gap, wild>>
vars == <<now, pc, due, rows, synth, history, faults>>

Init ==
  /\ now = 0 /\ pc = "calendar" /\ due = 0 /\ faults = 0
  /\ rows = [x \in Items |-> NULL]
  /\ synth = [src \in Sources |-> {}]
  /\ ok = [src \in Sources |-> NULL]
  /\ first = [src \in Sources |-> NULL]
  /\ gap = [src \in Sources |-> 0]
  /\ wild = FALSE

Fault == faults < MaxFaults /\ faults' = faults + 1

\* Time passes while the worker sleeps or is down; a cycle takes none.
Tick ==
  /\ now < MaxTime
  /\ pc = "down" \/ (pc = "sleep" /\ now < due)
  /\ now' = now + 1
  /\ UNCHANGED <<pc, due, rows, synth, history, faults>>

Wake ==
  /\ pc = "sleep" /\ now = due
  /\ pc' = "calendar"
  /\ UNCHANGED <<now, due, rows, synth, history, faults>>

\* _cycle polls the calendar, then the news, then the loop sleeps.
Advance(src) ==
  IF src = "calendar" THEN pc' = "news" /\ UNCHANGED due
                      ELSE pc' = "sleep" /\ due' = now + Interval

\* Mutant: a poll asks for what is new since the poll before.
WindowSinceLast(src) == {t \in 0 .. MaxTime : t >= now - Interval /\ t < now}

\* The window of a poll: [now - lookback, now).
Window(src) == {t \in 0 .. MaxTime : t >= now - Lookback[src] /\ t < now}

\* fetch_events and fetch_news: the provider's items within the window.
Fetched(src) == {x \in Items : Source[x] = src /\ At[x] \in Window(src)}

\* Mutant: a poll replaces the rows of its source by its own answer.
InsertedLast(src) ==
  [x \in Items |-> IF Source[x] = src THEN (IF x \in Fetched(src) THEN FALSE ELSE NULL) ELSE rows[x]]

\* save_events and save_news: ON CONFLICT DO NOTHING, so the first insert of
\* an item stays as it was.
Inserted(src) ==
  [x \in Items |-> IF x \in Fetched(src) /\ rows[x] = NULL THEN Released[x] <= now ELSE rows[x]]

\* A poll that the provider answers.
Poll(src) ==
  /\ pc = src
  /\ rows' = Inserted(src)
  /\ ok' = [ok EXCEPT ![src] = now]
  /\ first' = [first EXCEPT ![src] = IF @ = NULL THEN now ELSE @]
  /\ gap' = [gap EXCEPT ![src] =
               IF ok[src] # NULL /\ now - ok[src] > @ THEN now - ok[src] ELSE @]
  /\ Advance(src)
  /\ UNCHANGED <<now, synth, wild, faults>>

\* synthetic_calendar_events: the slots that begin before the end of the
\* window, the first being the one its start lies in; an event lies anywhere
\* in its slot.  synthetic_news_items filters by the window.  These are the
\* times an item may have.
Synthetic(src) ==
  LET since == IF now > Lookback[src] THEN now - Lookback[src] ELSE 0
      slots == {n \in 0 .. MaxTime : n * Slot < now /\ n >= since \div Slot}
  IN IF src = "news" THEN Window(src)
     ELSE UNION {n * Slot .. n * Slot + Slot - 1 : n \in slots}

\* The provider fails (after the client's retries): this cycle stores
\* synthetic items instead; one of them stands for all.  An answer of an
\* unexpected shape is taken for an empty one and stores none.
Degrade(src) ==
  /\ pc = src
  /\ Fault
  /\ \E new \in {{}} \cup {{t} : t \in Synthetic(src)} :
       /\ synth' = [synth EXCEPT ![src] = @ \cup new]
       /\ wild' = (wild \/ ~(new \subseteq Window(src)))
  /\ Advance(src)
  /\ UNCHANGED <<now, rows, ok, first, gap>>

\* A database error ends the worker.
Dies(src) ==
  /\ pc = src
  /\ Fault
  /\ pc' = "down"
  /\ UNCHANGED <<now, due, rows, synth, history>>

\* The supervisor starts it again: the loop begins with a cycle.
Restart ==
  /\ pc = "down"
  /\ pc' = "calendar"
  /\ UNCHANGED <<now, due, rows, synth, history, faults>>

Next ==
  \/ Tick \/ Wake \/ Restart
  \/ \E src \in Sources : Poll(src) \/ Degrade(src) \/ Dies(src)

Spec == Init /\ [][Next]_vars

----------------------------------------------------------------------------
(* Properties. *)

\* However polls fail and the worker dies, an item is stored as soon as a poll
\* succeeds after its time, unless polls failed for longer than the lookback.
NothingSlipsThrough ==
  \A x \in Items : LET src == Source[x] IN
    (/\ ok[src] # NULL /\ gap[src] <= Lookback[src]
     /\ At[x] >= first[src] - Lookback[src] /\ At[x] < ok[src]) => rows[x] # NULL

\* What is stored stays, and as it is: polling a window again changes nothing
\* (replay safety).
RowsAreKept == [][\A x \in Items : rows[x] # NULL => rows'[x] = rows[x]]_vars

\* Not guaranteed by the code (README, "Known deviations").
\* fundamental.py: "a surprise bias from actual-vs-forecast": a poll that
\* answers with the actual value of an event leaves it in the table.
ActualIsStored ==
  \A x \in Items : LET src == Source[x] IN
    (src = "calendar" /\ ok[src] # NULL /\ Released[x] <= ok[src]
       /\ At[x] < ok[src] /\ At[x] >= ok[src] - Lookback[src]) => rows[x] = TRUE

\* Not guaranteed by the code (README, "Known deviations").
\* calendar_proximity.py: impact is non-zero "minutes before/after the event":
\* an event the provider lists is known when its window begins.
RiskWindowIsSeen ==
  \A x \in Items : LET src == Source[x] IN
    (src = "calendar" /\ ok[src] # NULL /\ ok[src] >= At[x] - Before /\ now <= At[x])
      => rows[x] # NULL

\* Not guaranteed by the code (README, "Known deviations").
\* synthetic_content.py: "Deterministic calendar events with since <= ts <
\* until".
SyntheticIsInWindow == ~wild

=============================================================================
