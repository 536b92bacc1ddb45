--------------------------- MODULE ServicesProofs ---------------------------
(***************************************************************************)
(* The services around the trading pipeline, for every value of their      *)
(* constants: first each of them by itself, then as parts of Services.     *)
(***************************************************************************)
EXTENDS Services, Integers, Sequences, FiniteSetTheorems, WellFoundedInduction, TLAPS

----------------------------------------------------------------------------
(* The budget of the language-model client.                                *)

Days == 1 .. MaxDay

Typed ==
  /\ today \in Days
  /\ day \in 0 .. today
  /\ spent \in Nat
  /\ paid \in [Days -> Nat]

\* What the breaker remembers is what its day really cost, and no later day
\* has cost anything: the rollover then loses nothing.
SpentIsPaid ==
  /\ day > 0 => paid[day] = spent
  /\ \A d \in Days : d > day => paid[d] = 0

IInv == Typed /\ SpentIsPaid /\ WithinBudget /\ RefusalIsDue

\* What _rollover finds is what today has cost.
LEMMA SpentTodayIsPaid ==
  ASSUME Typed, SpentIsPaid
  PROVE  SpentToday = paid[today] /\ SpentToday \in Nat
<1>1. /\ today \in Days /\ today \in Int /\ today > 0 /\ paid[today] \in Nat
      /\ day \in Int /\ day <= today
  BY BudgetAssumption DEF Typed, Days
<1>2. CASE day = today
  BY <1>1, <1>2 DEF Typed, SpentIsPaid, SpentToday
<1>3. CASE day # today
  <2>1. today > day
    BY <1>1, <1>3
  <2> QED BY <1>1, <1>3, <2>1 DEF SpentIsPaid, SpentToday
<1> QED BY <1>2, <1>3

\* The rollover alone keeps the invariant.
LEMMA RolloverKeeps ==
  ASSUME IInv, day' = today, spent' = SpentToday, UNCHANGED <<today, paid>>
  PROVE  Typed' /\ SpentIsPaid' /\ WithinBudget'
<1>1. SpentToday = paid[today] /\ SpentToday \in Nat
  BY SpentTodayIsPaid DEF IInv
<1>2. Typed'
  BY <1>1 DEF IInv, Typed, Days
<1>3. SpentIsPaid'
  BY <1>1 DEF IInv, Typed, SpentIsPaid, Days
<1>4. WithinBudget'
  BY DEF IInv, WithinBudget
<1> QED BY <1>2, <1>3, <1>4

\* The inductive invariant holds in every reachable state.
THEOREM BudgetInvariance == Spec => []IInv
<1>1. Init => IInv
  BY BudgetAssumption DEF Init, IInv, Typed, SpentIsPaid, WithinBudget, RefusalIsDue, Days
<1>2. IInv /\ [Next]_vars => IInv'
  <2> SUFFICES ASSUME IInv, [Next]_vars PROVE IInv'
    OBVIOUS
  <2>0. SpentToday = paid[today] /\ SpentToday \in Nat
    BY SpentTodayIsPaid DEF IInv
  <2>1. CASE NextDay
    <3>1. Typed'
      BY <2>1, BudgetAssumption DEF IInv, Typed, Days, NextDay
    <3>2. SpentIsPaid' /\ WithinBudget' /\ RefusalIsDue'
      BY <2>1 DEF IInv, SpentIsPaid, WithinBudget, RefusalIsDue, NextDay
    <3> QED BY <3>1, <3>2 DEF IInv
  <2>2. CASE Enabled
    <3>1. RefusalIsDue'
      BY <2>2 DEF IInv, RefusalIsDue, Enabled
    <3> QED BY <2>2, <3>1, RolloverKeeps DEF IInv, Enabled
  <2>3. ASSUME NEW c \in Costs, Complete(c)
        PROVE  IInv'
    <3>1. /\ c \in Nat /\ today \in Days /\ Budget \in Nat
          /\ paid' = [paid EXCEPT ![today] = paid[today] + c]
          /\ spent' = paid[today] + c /\ day' = today /\ today' = today
          /\ paid[today] + c <= Budget
      BY <2>0, <2>3, BudgetAssumption DEF Complete, Fits, IInv, Typed
    <3>2. Typed'
      BY <3>1 DEF IInv, Typed, Days
    <3>3. SpentIsPaid'
      BY <3>1 DEF IInv, Typed, SpentIsPaid, Days
    <3>4. WithinBudget'
      BY <3>1 DEF IInv, Typed, WithinBudget, Days
    <3>5. RefusalIsDue'
      BY <2>3 DEF IInv, RefusalIsDue, Complete
    <3> QED BY <3>2, <3>3, <3>4, <3>5 DEF IInv
  <2>4. ASSUME NEW c \in Costs, Refuse(c)
        PROVE  IInv'
    <3>1. Typed' /\ SpentIsPaid' /\ WithinBudget'
      <4>1. CASE Budget > 0
        BY <2>4, <4>1, RolloverKeeps DEF Refuse
      <4>2. CASE ~ (Budget > 0)
        BY <2>4, <4>2 DEF Refuse, IInv, Typed, SpentIsPaid, WithinBudget
      <4> QED BY <4>1, <4>2
    <3>2. RefusalIsDue'
      <4>1. c \in Nat /\ c > 0 /\ Budget \in Nat /\ paid[today] + c > Budget
        BY <2>0, <2>4, BudgetAssumption DEF Refuse, Fits
      <4>2. refused' = [day |-> today, cost |-> c, paid |-> paid[today]]
        BY <2>4 DEF Refuse
      <4> QED BY <4>1, <4>2 DEF RefusalIsDue
    <3> QED BY <3>1, <3>2 DEF IInv
  <2>5. CASE UNCHANGED vars
    BY <2>5 DEF vars, IInv, Typed, SpentIsPaid, WithinBudget, RefusalIsDue
  <2> QED BY <2>1, <2>2, <2>3, <2>4, <2>5 DEF Next
<1> QED BY <1>1, <1>2, PTL DEF Spec

\* However calls and midnights interleave, no day costs more than the budget,
\* and no call is refused that the day's budget would have covered.
THEOREM BudgetIsKept == Spec => []BudgetIsExact
<1>1. IInv => BudgetIsExact
  BY DEF IInv, BudgetIsExact
<1> QED BY <1>1, BudgetInvariance, PTL

----------------------------------------------------------------------------
(* Queues without repeated entries.                                        *)

Entries(q)   == {q[i] : i \in 1 .. Len(q)}
NoRepeats(q) == \A i, j \in 1 .. Len(q) : q[i] = q[j] => i = j

\* The tail of a queue has all entries but its head.
LEMMA TailEntries ==
  ASSUME NEW S, NEW q \in Seq(S), q # <<>>, NoRepeats(q)
  PROVE  /\ Tail(q) \in Seq(S) /\ NoRepeats(Tail(q))
         /\ Head(q) \in Entries(q)
         /\ Entries(Tail(q)) = Entries(q) \ {Head(q)}
<1>1. /\ Tail(q) \in Seq(S) /\ Len(q) \in Nat \ {0} /\ Len(Tail(q)) = Len(q) - 1
      /\ \A i \in 1 .. Len(q) - 1 : Tail(q)[i] = q[i + 1]
      /\ Head(q) = q[1]
  OBVIOUS
<1>2. Head(q) \in Entries(q)
  BY <1>1 DEF Entries
<1>3. NoRepeats(Tail(q))
  BY <1>1 DEF NoRepeats
<1>4. Entries(Tail(q)) \subseteq Entries(q) \ {Head(q)}
  BY <1>1 DEF Entries, NoRepeats
<1>5. ASSUME NEW e \in Entries(q), e # Head(q) PROVE e \in Entries(Tail(q))
  <2>1. PICK i \in 1 .. Len(q) : e = q[i]
    BY DEF Entries
  <2>2. i - 1 \in 1 .. Len(q) - 1 /\ Tail(q)[i - 1] = q[i]
    BY <1>1, <1>5, <2>1
  <2> QED BY <1>1, <2>1, <2>2 DEF Entries
<1> QED BY <1>1, <1>2, <1>3, <1>4, <1>5

\* A new entry at the end of a queue.
LEMMA AppendEntries ==
  ASSUME NEW S, NEW q \in Seq(S), NoRepeats(q), NEW e \in S, e \notin Entries(q)
  PROVE  /\ Append(q, e) \in Seq(S) /\ NoRepeats(Append(q, e)) /\ Append(q, e) # <<>>
         /\ Entries(Append(q, e)) = Entries(q) \cup {e}
<1> DEFINE r == Append(q, e)
<1>1. /\ r \in Seq(S) /\ Len(q) \in Nat /\ Len(r) = Len(q) + 1
      /\ \A i \in 1 .. Len(q) : r[i] = q[i]
      /\ r[Len(q) + 1] = e
  OBVIOUS
<1> HIDE DEF r
<1>2. NoRepeats(r)
  BY <1>1 DEF NoRepeats, Entries
<1>3. Entries(r) = Entries(q) \cup {e}
  BY <1>1 DEF Entries
<1> QED BY <1>1, <1>2, <1>3 DEF r

\* A queue cut in two.
LEMMA SplitEntries ==
  ASSUME NEW S, NEW q \in Seq(S), NoRepeats(q), NEW n \in 0 .. Len(q)
  PROVE  LET a == SubSeq(q, 1, n)
             b == SubSeq(q, n + 1, Len(q))
         IN  /\ a \in Seq(S) /\ b \in Seq(S) /\ NoRepeats(a) /\ NoRepeats(b)
             /\ Entries(a) = {q[i] : i \in 1 .. n}
             /\ Entries(a) \cap Entries(b) = {}
             /\ Entries(a) \cup Entries(b) = Entries(q)
<1> DEFINE a == SubSeq(q, 1, n)
           b == SubSeq(q, n + 1, Len(q))
<1>1. /\ a \in Seq(S) /\ Len(a) = n /\ Len(q) \in Nat /\ n \in Nat
      /\ \A i \in 1 .. n : a[i] = q[i]
  OBVIOUS
<1>2. /\ b \in Seq(S) /\ Len(b) = Len(q) - n
      /\ \A i \in 1 .. Len(q) - n : b[i] = q[n + i]
  OBVIOUS
<1> HIDE DEF a, b
<1>3. NoRepeats(a) /\ NoRepeats(b)
  <2>1. NoRepeats(a)
    BY <1>1 DEF NoRepeats
  <2>2. ASSUME NEW i \in 1 .. Len(q) - n, NEW j \in 1 .. Len(q) - n, b[i] = b[j] PROVE i = j
    <3>1. n + i \in 1 .. Len(q) /\ n + j \in 1 .. Len(q)
      BY <1>1
    <3>2. q[n + i] = q[n + j]
      BY <1>2, <2>2
    <3>3. n + i = n + j
      BY <3>1, <3>2 DEF NoRepeats
    <3> QED BY <1>1, <3>3
  <2> QED BY <1>2, <2>1, <2>2 DEF NoRepeats
<1>4. Entries(a) = {q[i] : i \in 1 .. n}
  BY <1>1 DEF Entries
<1>5. Entries(a) \cap Entries(b) = {}
  BY <1>1, <1>2 DEF Entries, NoRepeats
<1>6. Entries(a) \cup Entries(b) \subseteq Entries(q)
  BY <1>1, <1>2 DEF Entries
<1>7. ASSUME NEW i \in 1 .. Len(q) PROVE q[i] \in Entries(a) \cup Entries(b)
  <2>1. CASE i <= n
    BY <1>1, <2>1 DEF Entries
  <2>2. CASE i > n
    <3>1. i - n \in 1 .. Len(q) - n /\ b[i - n] = q[i]
      BY <1>1, <1>2, <2>2
    <3> QED BY <1>2, <3>1 DEF Entries
  <2> QED BY <1>1, <2>1, <2>2
<1>8. Entries(q) \subseteq Entries(a) \cup Entries(b)
  BY <1>7 DEF Entries
<1> QED BY <1>1, <1>2, <1>3, <1>4, <1>5, <1>6, <1>8 DEF a, b

----------------------------------------------------------------------------
(* Alerts.                                                                 *)

\* An entry of alerts.stream.
AlertEntry ==
  [kind : Alerts!Kinds, pair : Pairs \cup {NULL}, stamp : 0 .. alertNow, shape : Shapes,
   occurrence : Nat]

\* The clock, what was published, and the table.
AlertTypes ==
  /\ alertNow \in 0 .. AlertTime /\ born \in 0 .. alertNow
  /\ alertPc \in {"idle", "saving", "acking"}
  /\ IsFiniteSet(raised)
  /\ raised \subseteq AlertEntry
  /\ \A e \in raised : e.occurrence <= Cardinality(raised)
  /\ alertRows = [i \in DOMAIN alertRows |-> alertRows[i]]
  /\ DOMAIN alertRows \subseteq Alerts!Ids
  /\ \A i \in DOMAIN alertRows : alertRows[i] \in Admins \cup {NULL}
  /\ tx \subseteq Alerts!Ids

\* An entry is at one place: still to be delivered, pending or acknowledged; of
\* those pending, to be saved or to be acknowledged.
AlertPlaces ==
  /\ alertStream \in Seq(raised) /\ batch \in Seq(raised) /\ alertAcks \in Seq(raised)
  /\ NoRepeats(alertStream) /\ NoRepeats(batch) /\ NoRepeats(alertAcks)
  /\ alertPending \cup acked \subseteq raised
  /\ alertPending \cap acked = {}
  /\ Entries(alertStream) \cap (alertPending \cup acked) = {}
  /\ Entries(batch) \cup Entries(alertAcks) \subseteq alertPending
  /\ Entries(batch) \cap Entries(alertAcks) = {}

\* What waits for its acknowledgement is in the open transaction, and after the
\* commit in the table.
AlertsOnTheWay ==
  /\ alertPc = "saving" =>
       ~ aborted /\ \A e \in Entries(alertAcks) : e.shape # "garbled" => Alerts!EventId(e) \in tx
  /\ alertPc = "acking" =>
       \A e \in Entries(alertAcks) : e.shape # "garbled" => Alerts!EventId(e) \in DOMAIN alertRows

\* One staleness alert for each series and sweep.
StalenessRaisedOnce ==
  \A e, f \in raised :
    e.kind = "staleness" /\ f.kind = "staleness" /\ e.pair = f.pair /\ e.stamp = f.stamp => e = f

AlertInv ==
  /\ AlertTypes /\ AlertPlaces /\ AlertsOnTheWay /\ StalenessRaisedOnce
  /\ Alerts!AcknowledgedIsStored

\* The constants are naturals.
LEMMA AlertConstants ==
  ASSUME Alerts!AlertsAssumption
  PROVE  BatchSize \in Nat /\ AlertLen \in Nat /\ AlertTime \in Nat
<1>1. {BatchSize, AlertLen, AlertTime, MaxAlerts} \subseteq Nat
  BY DEF Alerts!AlertsAssumption
<1> QED BY <1>1

\* An entry has an identity that alert_events can hold.
LEMMA EntryIds ==
  ASSUME Alerts!AlertsAssumption, AlertTypes, NEW e \in raised
  PROVE  Alerts!EventId(e) \in Alerts!Ids
<1>1. AlertTime \in Nat
  BY AlertConstants
<1>2. /\ e.kind \in Alerts!Kinds /\ e.pair \in Pairs \cup {NULL} /\ e.stamp \in 0 .. alertNow
      /\ alertNow \in 0 .. AlertTime
  BY DEF AlertTypes, AlertEntry
<1>3. e.stamp \in 0 .. AlertTime
  BY <1>1, <1>2
<1> QED BY <1>2, <1>3 DEF Alerts!EventId, Alerts!Ids

\* What is published is new: its occurrence is.
LEMMA PublishKeepsAlertInv ==
  ASSUME Alerts!AlertsAssumption, AlertInv,
         NEW kind \in Alerts!Kinds, NEW pair \in Pairs \cup {NULL}, NEW stamp \in 0 .. alertNow,
         kind = "staleness" => ~ \E e \in raised : e.kind = kind /\ e.pair = pair
           /\ e.stamp = stamp,
         Alerts!Publish(kind, pair, stamp)
  PROVE  AlertInv'
<1>1. PICK shape \in Shapes :
        LET e == [kind |-> kind, pair |-> pair, stamp |-> stamp, shape |-> shape,
                  occurrence |-> Alerts!Cardinality(raised) + 1]
            s == Append(alertStream, e)
        IN /\ raised' = raised \cup {e}
           /\ alertStream' = IF Len(s) > AlertLen THEN Tail(s) ELSE s
           /\ UNCHANGED <<alertNow, born, alertPending, acked, alertRows, batch, tx, aborted,
                          alertAcks, alertPc, alertUsed>>
  BY DEF Alerts!Publish, Alerts!memory
<1> DEFINE c == Cardinality(raised)
           e == [kind |-> kind, pair |-> pair, stamp |-> stamp, shape |-> shape,
                 occurrence |-> c + 1]
           s == Append(alertStream, e)
<1>2. Alerts!Cardinality(raised) = c
  BY DEF Alerts!Cardinality, Cardinality
<1>3. /\ raised' = raised \cup {e}
      /\ alertStream' = IF Len(s) > AlertLen THEN Tail(s) ELSE s
      /\ UNCHANGED <<alertNow, born, alertPending, acked, alertRows, batch, tx, aborted,
                     alertAcks, alertPc, alertUsed>>
  BY <1>1, <1>2
<1>4. c \in Nat /\ \A f \in raised : f.occurrence \in Nat /\ f.occurrence <= c
  BY FS_CardinalityType DEF AlertInv, AlertTypes, AlertEntry
<1>5. /\ e.kind = kind /\ e.pair = pair /\ e.stamp = stamp /\ e.occurrence = c + 1
      /\ e \in AlertEntry
  BY <1>4 DEF AlertEntry
<1> HIDE DEF c, e
<1>6. e \notin raised
  BY <1>4, <1>5
<1>7. IsFiniteSet(raised') /\ Cardinality(raised') = c + 1
  BY <1>3, <1>6, FS_AddElement DEF AlertInv, AlertTypes, c
<1>8. AlertTypes'
  <2>1. raised' \subseteq AlertEntry /\ AlertEntry' = AlertEntry
    BY <1>3, <1>5 DEF AlertInv, AlertTypes, AlertEntry
  <2>2. \A f \in raised' : f.occurrence <= c + 1
    BY <1>3, <1>4, <1>5
  <2> QED BY <1>3, <1>7, <2>1, <2>2 DEF AlertInv, AlertTypes
<1>9. AlertPlaces'
  <2>1. /\ alertStream \in Seq(raised) /\ NoRepeats(alertStream) /\ batch \in Seq(raised)
        /\ alertAcks \in Seq(raised)
        /\ alertPending \cup acked \subseteq raised
        /\ Entries(alertStream) \cap (alertPending \cup acked) = {}
    BY DEF AlertInv, AlertPlaces
  <2>2. raised \subseteq raised' /\ e \in raised'
    BY <1>3
  <2>3. alertStream \in Seq(raised') /\ batch' \in Seq(raised') /\ alertAcks' \in Seq(raised')
    BY <1>3, <2>1, <2>2
  <2>4. Entries(alertStream) \subseteq raised
    BY <2>1 DEF Entries
  <2>5. /\ s \in Seq(raised') /\ NoRepeats(s) /\ s # <<>>
        /\ Entries(s) = Entries(alertStream) \cup {e}
    BY <1>6, <2>1, <2>2, <2>3, <2>4, AppendEntries
  <2> HIDE DEF s
  <2>6. /\ alertStream' \in Seq(raised') /\ NoRepeats(alertStream')
        /\ Entries(alertStream') \subseteq Entries(s)
    BY <1>3, <2>5, TailEntries
  <2>7. Entries(alertStream') \cap (alertPending' \cup acked') = {}
    BY <1>3, <1>6, <2>1, <2>5, <2>6
  <2>8. batch' = batch /\ alertAcks' = alertAcks /\ alertPending' = alertPending /\ acked' = acked
    BY <1>3
  <2>9. alertPending' \cup acked' \subseteq raised'
    BY <2>1, <2>2, <2>8
  <2> QED BY <2>3, <2>6, <2>7, <2>8, <2>9 DEF AlertInv, AlertPlaces
<1>10. AlertsOnTheWay' /\ Alerts!AcknowledgedIsStored'
  BY <1>3 DEF AlertInv, AlertsOnTheWay, Alerts!AcknowledgedIsStored, Entries, Alerts!EventId
<1>11. StalenessRaisedOnce'
  BY <1>3, <1>5 DEF AlertInv, StalenessRaisedOnce
<1> QED BY <1>8, <1>9, <1>10, <1>11 DEF AlertInv

\* A batch moves from the stream to the worker and its pending list.
LEMMA ReadKeepsAlertInv ==
  ASSUME Alerts!AlertsAssumption, AlertInv, Alerts!Read
  PROVE  AlertInv'
<1> DEFINE n == IF Len(alertStream) < BatchSize THEN Len(alertStream) ELSE BatchSize
<1>1. /\ batch' = SubSeq(alertStream, 1, n)
      /\ alertPending' = alertPending \cup {alertStream[i] : i \in 1 .. n}
      /\ alertStream' = SubSeq(alertStream, n + 1, Len(alertStream))
      /\ tx' = {} /\ aborted' = FALSE /\ alertAcks' = <<>> /\ alertPc' = "saving"
      /\ UNCHANGED <<alertNow, born, raised, acked, alertRows>>
  BY DEF Alerts!Read
<1>2. /\ alertStream \in Seq(raised) /\ NoRepeats(alertStream)
      /\ alertPending \cup acked \subseteq raised
      /\ alertPending \cap acked = {}
      /\ Entries(alertStream) \cap (alertPending \cup acked) = {}
  BY DEF AlertInv, AlertPlaces
<1>3. n \in 0 .. Len(alertStream)
  BY <1>2, AlertConstants
<1> HIDE DEF n
<1>4. /\ batch' \in Seq(raised) /\ alertStream' \in Seq(raised) /\ NoRepeats(batch')
      /\ NoRepeats(alertStream')
      /\ alertPending' = alertPending \cup Entries(batch')
      /\ Entries(batch') \cap Entries(alertStream') = {}
      /\ Entries(batch') \cup Entries(alertStream') = Entries(alertStream)
  BY <1>1, <1>2, <1>3, SplitEntries
<1>5. alertAcks' \in Seq(raised) /\ NoRepeats(alertAcks') /\ Entries(alertAcks') = {}
  BY <1>1 DEF NoRepeats, Entries
<1>6. Entries(alertStream) \subseteq raised
  BY <1>2 DEF Entries
<1>7. AlertPlaces'
  <2>1. raised' = raised /\ acked' = acked
    BY <1>1
  <2>2. alertPending' \cup acked' \subseteq raised /\ alertPending' \cap acked' = {}
    BY <1>2, <1>4, <1>6, <2>1
  <2>3. Entries(alertStream') \cap (alertPending' \cup acked') = {}
    BY <1>2, <1>4, <2>1
  <2> QED BY <1>4, <1>5, <2>1, <2>2, <2>3 DEF AlertPlaces
<1>8. AlertTypes'
  BY <1>1 DEF AlertInv, AlertTypes, AlertEntry
<1>9. AlertsOnTheWay'
  BY <1>1, <1>5 DEF AlertsOnTheWay
<1>10. StalenessRaisedOnce' /\ Alerts!AcknowledgedIsStored'
  BY <1>1 DEF AlertInv, StalenessRaisedOnce, Alerts!AcknowledgedIsStored, Alerts!EventId
<1> QED BY <1>7, <1>8, <1>9, <1>10 DEF AlertInv

\* An entry of the batch joins the transaction if it decodes, and is to be acknowledged
\* in every case.
LEMMA SaveKeepsAlertInv ==
  ASSUME Alerts!AlertsAssumption, Alerts!EntriesCanBeSaved, AlertInv, Alerts!Save
  PROVE  AlertInv'
<1> DEFINE e == Head(batch)
<1>1. /\ alertPc = "saving" /\ batch # <<>>
      /\ batch' = Tail(batch) /\ alertAcks' = Append(alertAcks, e)
      /\ aborted' = (aborted \/ e.shape = "unsavable")
      /\ tx' = IF e.shape # "good" \/ aborted THEN tx ELSE tx \cup {Alerts!EventId(e)}
      /\ UNCHANGED <<alertNow, born, raised, alertStream, alertPending, acked, alertRows, alertPc>>
  BY DEF Alerts!Save
<1>2. /\ batch \in Seq(raised) /\ alertAcks \in Seq(raised) /\ NoRepeats(batch)
      /\ NoRepeats(alertAcks)
      /\ Entries(batch) \cup Entries(alertAcks) \subseteq alertPending
      /\ Entries(batch) \cap Entries(alertAcks) = {}
      /\ alertPending \cup acked \subseteq raised
  BY DEF AlertInv, AlertPlaces
<1>3. /\ Tail(batch) \in Seq(raised) /\ NoRepeats(Tail(batch)) /\ e \in Entries(batch)
      /\ Entries(Tail(batch)) = Entries(batch) \ {e}
  BY <1>1, <1>2, TailEntries
<1> HIDE DEF e
<1>4. e \in raised /\ e \notin Entries(alertAcks)
  BY <1>2, <1>3
<1>5. /\ Append(alertAcks, e) \in Seq(raised) /\ NoRepeats(Append(alertAcks, e))
      /\ Entries(Append(alertAcks, e)) = Entries(alertAcks) \cup {e}
  BY <1>2, <1>4, AppendEntries
<1>6. AlertPlaces'
  <2>1. /\ Entries(batch') \cup Entries(alertAcks') \subseteq alertPending
        /\ Entries(batch') \cap Entries(alertAcks') = {}
    BY <1>1, <1>2, <1>3, <1>5
  <2>2. /\ raised' = raised /\ acked' = acked /\ alertPending' = alertPending
        /\ alertStream' = alertStream
        /\ batch' \in Seq(raised) /\ alertAcks' \in Seq(raised) /\ NoRepeats(batch')
        /\ NoRepeats(alertAcks')
    BY <1>1, <1>3, <1>5
  <2> QED BY <2>1, <2>2 DEF AlertInv, AlertPlaces
<1>7. e.shape \in {"good", "garbled"}
  BY <1>4 DEF AlertInv, AlertTypes, AlertEntry, Alerts!AlertsAssumption, Alerts!EntriesCanBeSaved
<1>8. AlertTypes'
  <2>1. tx' \subseteq Alerts!Ids
    BY <1>1, <1>4, EntryIds DEF AlertInv, AlertTypes
  <2> QED BY <1>1, <2>1 DEF AlertInv, AlertTypes, AlertEntry
<1>9. AlertsOnTheWay'
  <2>1. ~ aborted /\ \A f \in Entries(alertAcks) : f.shape # "garbled" => Alerts!EventId(f) \in tx
    BY <1>1 DEF AlertInv, AlertsOnTheWay
  <2>2. ~ aborted' /\ tx \subseteq tx' /\ (e.shape # "garbled" => Alerts!EventId(e) \in tx')
    BY <1>1, <1>7, <2>1
  <2>3. Entries(alertAcks') = Entries(alertAcks) \cup {e} /\ alertPc' = "saving"
    BY <1>1, <1>5
  <2>4. \A f \in Entries(alertAcks') : f.shape # "garbled" => Alerts!EventId(f) \in tx'
    BY <2>1, <2>2, <2>3
  <2> QED BY <2>2, <2>3, <2>4 DEF AlertsOnTheWay, Alerts!EventId
<1>10. StalenessRaisedOnce' /\ Alerts!AcknowledgedIsStored'
  BY <1>1 DEF AlertInv, StalenessRaisedOnce, Alerts!AcknowledgedIsStored, Alerts!EventId
<1> QED BY <1>6, <1>8, <1>9, <1>10 DEF AlertInv

\* ON CONFLICT DO NOTHING: the rows that are there stay, the new ones are added.
LEMMA InsertRows ==
  ASSUME NEW ids
  PROVE  LET r == Alerts!Insert(ids)
         IN  /\ DOMAIN r = DOMAIN alertRows \cup ids
             /\ r = [i \in DOMAIN r |-> r[i]]
             /\ \A i \in DOMAIN alertRows : r[i] = alertRows[i]
             /\ \A i \in ids : i \notin DOMAIN alertRows => r[i] = NULL
BY DEF Alerts!Insert

\* The commit makes rows of the transaction, all entries of which are on the way to
\* be acknowledged.
LEMMA CommitKeepsAlertInv ==
  ASSUME Alerts!AlertsAssumption, AlertInv, Alerts!Commit
  PROVE  AlertInv'
<1>1. /\ alertPc = "saving"
      /\ alertRows' = IF aborted THEN alertRows ELSE Alerts!Insert(tx)
      /\ tx' = {} /\ alertPc' = "acking"
      /\ UNCHANGED <<alertNow, born, raised, alertStream, alertPending, acked, batch, alertAcks>>
  BY DEF Alerts!Commit
<1>2. ~ aborted /\ \A e \in Entries(alertAcks) : e.shape # "garbled" => Alerts!EventId(e) \in tx
  BY <1>1 DEF AlertInv, AlertsOnTheWay
<1>3. /\ DOMAIN alertRows' = DOMAIN alertRows \cup tx
      /\ alertRows' = [i \in DOMAIN alertRows' |-> alertRows'[i]]
      /\ \A i \in DOMAIN alertRows : alertRows'[i] = alertRows[i]
      /\ \A i \in tx : i \notin DOMAIN alertRows => alertRows'[i] = NULL
  BY <1>1, <1>2, InsertRows
<1>4. AlertTypes'
  <2>1. DOMAIN alertRows' \subseteq Alerts!Ids
          /\ \A i \in DOMAIN alertRows' : alertRows'[i] \in Admins \cup {NULL}
    BY <1>3 DEF AlertInv, AlertTypes
  <2> QED BY <1>1, <1>3, <2>1 DEF AlertInv, AlertTypes, AlertEntry
<1>5. AlertPlaces'
  <2>1. /\ raised' = raised /\ acked' = acked /\ alertPending' = alertPending
        /\ alertStream' = alertStream
        /\ batch' = batch /\ alertAcks' = alertAcks
    BY <1>1
  <2> QED BY <2>1 DEF AlertInv, AlertPlaces
<1>6. AlertsOnTheWay'
  BY <1>1, <1>2, <1>3 DEF AlertsOnTheWay, Entries, Alerts!EventId
<1>7. StalenessRaisedOnce' /\ Alerts!AcknowledgedIsStored'
  BY <1>1, <1>3 DEF AlertInv, StalenessRaisedOnce, Alerts!AcknowledgedIsStored, Alerts!EventId
<1> QED BY <1>4, <1>5, <1>6, <1>7 DEF AlertInv

\* An entry is acknowledged on the stream after its row was committed.
LEMMA AckKeepsAlertInv ==
  ASSUME AlertInv, Alerts!Ack \/ Alerts!AckFails
  PROVE  AlertInv'
<1> DEFINE e == Head(alertAcks)
<1>1. /\ alertPc = "acking" /\ alertAcks # <<>> /\ alertAcks' = Tail(alertAcks)
      /\ \/ alertPending' = alertPending \ {e} /\ acked' = acked \cup {e}
         \/ alertPending' = alertPending /\ acked' = acked
      /\ UNCHANGED <<alertNow, born, raised, alertStream, alertRows, batch, tx, aborted, alertPc>>
  BY DEF Alerts!Ack, Alerts!AckFails
<1>2. /\ alertAcks \in Seq(raised) /\ NoRepeats(alertAcks)
      /\ Entries(batch) \cup Entries(alertAcks) \subseteq alertPending
      /\ Entries(batch) \cap Entries(alertAcks) = {}
      /\ alertPending \cup acked \subseteq raised
      /\ alertPending \cap acked = {}
      /\ Entries(alertStream) \cap (alertPending \cup acked) = {}
  BY DEF AlertInv, AlertPlaces
<1>3. /\ alertAcks' \in Seq(raised) /\ NoRepeats(alertAcks') /\ e \in Entries(alertAcks)
      /\ Entries(alertAcks') = Entries(alertAcks) \ {e}
  BY <1>1, <1>2, TailEntries
<1> HIDE DEF e
<1>4. AlertPlaces'
  <2>1. /\ Entries(batch) \cup Entries(alertAcks') \subseteq alertPending'
        /\ Entries(batch) \cap Entries(alertAcks') = {}
        /\ alertPending' \cup acked' \subseteq raised
        /\ alertPending' \cap acked' = {}
        /\ Entries(alertStream) \cap (alertPending' \cup acked') = {}
    BY <1>1, <1>2, <1>3
  <2>2. raised' = raised /\ batch' = batch /\ alertStream' = alertStream
    BY <1>1
  <2> QED BY <1>3, <2>1, <2>2 DEF AlertInv, AlertPlaces
<1>5. AlertTypes'
  BY <1>1 DEF AlertInv, AlertTypes, AlertEntry
<1>6. AlertsOnTheWay'
  BY <1>1, <1>3 DEF AlertInv, AlertsOnTheWay, Alerts!EventId
<1>7. Alerts!AcknowledgedIsStored'
  <2>1. e.shape # "garbled" => Alerts!EventId(e) \in DOMAIN alertRows
    BY <1>1, <1>3 DEF AlertInv, AlertsOnTheWay
  <2> QED BY <1>1, <2>1 DEF AlertInv, Alerts!AcknowledgedIsStored, Alerts!EventId
<1>8. StalenessRaisedOnce'
  BY <1>1 DEF AlertInv, StalenessRaisedOnce
<1> QED BY <1>4, <1>5, <1>6, <1>7, <1>8 DEF AlertInv

\* A poll that ends early, at whatever point: the entries stay pending.
LEMMA AbandonKeepsAlertInv ==
  ASSUME AlertInv, batch' = <<>>, alertAcks' = <<>>, tx' = {}, alertPc' = "idle",
         UNCHANGED <<alertNow, born, raised, alertStream, alertPending, acked, alertRows>>
  PROVE  AlertInv'
<1>1. /\ batch' \in Seq(raised) /\ alertAcks' \in Seq(raised) /\ NoRepeats(batch')
      /\ NoRepeats(alertAcks')
      /\ Entries(batch') = {} /\ Entries(alertAcks') = {}
  BY DEF NoRepeats, Entries
<1>2. AlertPlaces'
  <2>1. raised' = raised /\ acked' = acked /\ alertPending' = alertPending
          /\ alertStream' = alertStream
    OBVIOUS
  <2> QED BY <1>1, <2>1 DEF AlertInv, AlertPlaces
<1>3. AlertTypes'
  BY DEF AlertInv, AlertTypes, AlertEntry
<1>4. AlertsOnTheWay' /\ StalenessRaisedOnce' /\ Alerts!AcknowledgedIsStored'
  BY DEF AlertInv, AlertsOnTheWay, StalenessRaisedOnce, Alerts!AcknowledgedIsStored, Alerts!EventId
<1> QED BY <1>2, <1>3, <1>4 DEF AlertInv

\* An admin acknowledges an alert that nobody has acknowledged.
LEMMA AckAlertKeepsAlertInv ==
  ASSUME AlertInv, Alerts!AckAlert
  PROVE  AlertInv'
<1>1. PICK i \in DOMAIN alertRows, a \in Admins :
        /\ alertRows' = [alertRows EXCEPT ![i] = a]
        /\ UNCHANGED <<alertNow, born, raised, alertStream, alertPending, acked, batch, tx,
                       aborted, alertAcks, alertPc>>
  BY DEF Alerts!AckAlert, Alerts!memory
<1>2. /\ DOMAIN alertRows' = DOMAIN alertRows
           /\ alertRows' = [j \in DOMAIN alertRows' |-> alertRows'[j]]
      /\ \A j \in DOMAIN alertRows : alertRows'[j] = IF j = i THEN a ELSE alertRows[j]
  BY <1>1 DEF AlertInv, AlertTypes
<1>3. AlertTypes'
  <2>1. \A j \in DOMAIN alertRows' : alertRows'[j] \in Admins \cup {NULL}
    BY <1>2 DEF AlertInv, AlertTypes
  <2> QED BY <1>1, <1>2, <2>1 DEF AlertInv, AlertTypes, AlertEntry
<1>4. AlertPlaces'
  <2>1. /\ raised' = raised /\ acked' = acked /\ alertPending' = alertPending
        /\ alertStream' = alertStream
        /\ batch' = batch /\ alertAcks' = alertAcks
    BY <1>1
  <2> QED BY <2>1 DEF AlertInv, AlertPlaces
<1>5. AlertsOnTheWay' /\ StalenessRaisedOnce' /\ Alerts!AcknowledgedIsStored'
  BY <1>1, <1>2 DEF AlertInv, AlertsOnTheWay, StalenessRaisedOnce, Alerts!AcknowledgedIsStored,
                    Alerts!EventId, Entries
<1> QED BY <1>3, <1>4, <1>5 DEF AlertInv

\* The passing of time and a new orchestrator worker.
LEMMA ClockKeepsAlertInv ==
  ASSUME Alerts!AlertsAssumption, AlertInv, Alerts!Tick \/ Alerts!RestartOrchestrator
  PROVE  AlertInv'
<1>1. /\ alertNow' \in {alertNow, alertNow + 1} /\ alertNow' <= AlertTime
      /\ born' \in {born, alertNow}
      /\ UNCHANGED <<raised, alertStream, alertPending, acked, alertRows, batch, tx, aborted,
                     alertAcks, alertPc>>
  BY AlertConstants DEF Alerts!Tick, Alerts!RestartOrchestrator, Alerts!memory, AlertInv, AlertTypes
<1>2. alertNow \in Nat /\ AlertTime \in Nat /\ born \in 0 .. alertNow
  BY AlertConstants DEF AlertInv, AlertTypes
<1>3. alertNow' \in 0 .. AlertTime /\ born' \in 0 .. alertNow'
        /\ 0 .. alertNow \subseteq 0 .. alertNow'
  BY <1>1, <1>2
<1>4. AlertTypes'
  <2>1. raised' \subseteq AlertEntry'
    <3>1. AlertEntry \subseteq AlertEntry'
      BY <1>3 DEF AlertEntry
    <3> QED BY <1>1, <3>1 DEF AlertInv, AlertTypes
  <2>2. Alerts!Ids' = Alerts!Ids
    BY DEF Alerts!Ids, Alerts!Kinds
  <2> QED BY <1>1, <1>3, <2>1, <2>2 DEF AlertInv, AlertTypes
<1>5. AlertPlaces'
  <2>1. /\ raised' = raised /\ acked' = acked /\ alertPending' = alertPending
        /\ alertStream' = alertStream
        /\ batch' = batch /\ alertAcks' = alertAcks
    BY <1>1
  <2> QED BY <2>1 DEF AlertInv, AlertPlaces
<1>6. AlertsOnTheWay' /\ StalenessRaisedOnce' /\ Alerts!AcknowledgedIsStored'
  BY <1>1 DEF AlertInv, AlertsOnTheWay, StalenessRaisedOnce, Alerts!AcknowledgedIsStored,
              Alerts!EventId, Entries
<1> QED BY <1>4, <1>5, <1>6 DEF AlertInv

\* The invariant of the alerts.
THEOREM AlertInvariance ==
  ASSUME Alerts!AlertsAssumption, Alerts!EntriesCanBeSaved
  PROVE  Alerts!Init /\ [][Alerts!Next]_Alerts!vars => []AlertInv
<1>1. Alerts!Init => AlertInv
  <2> SUFFICES ASSUME Alerts!Init PROVE AlertInv
    OBVIOUS
  <2>1. AlertTypes
    <3>1. IsFiniteSet(raised) /\ raised = {}
      BY FS_EmptySet DEF Alerts!Init
    <3>2. alertNow \in 0 .. AlertTime /\ born \in 0 .. alertNow
      BY AlertConstants DEF Alerts!Init
    <3> QED BY <3>1, <3>2 DEF Alerts!Init, AlertTypes
  <2>2. AlertPlaces
    <3>1. NoRepeats(<<>>) /\ Entries(<<>>) = {}
      BY DEF NoRepeats, Entries
    <3> QED BY <3>1 DEF Alerts!Init, AlertPlaces
  <2>3. AlertsOnTheWay /\ StalenessRaisedOnce /\ Alerts!AcknowledgedIsStored
    BY DEF Alerts!Init, AlertsOnTheWay, StalenessRaisedOnce, Alerts!AcknowledgedIsStored
  <2> QED BY <2>1, <2>2, <2>3 DEF AlertInv
<1>2. AlertInv /\ [Alerts!Next]_Alerts!vars => AlertInv'
  <2> SUFFICES ASSUME AlertInv, [Alerts!Next]_Alerts!vars PROVE AlertInv'
    OBVIOUS
  <2>0. born \in 0 .. alertNow /\ alertNow \in 0 .. alertNow
    BY AlertConstants DEF AlertInv, AlertTypes
  <2>1. CASE Alerts!Tick \/ Alerts!RestartOrchestrator
    BY <2>1, ClockKeepsAlertInv
  <2>2. CASE Alerts!EmitStaleness
    <3>1. PICK pair \in Pairs :
            /\ ~ \E e \in raised : e.kind = "staleness" /\ e.pair = pair /\ e.stamp = alertNow
            /\ Alerts!Publish("staleness", pair, alertNow)
      BY <2>2 DEF Alerts!EmitStaleness
    <3> QED BY <2>0, <3>1, PublishKeepsAlertInv DEF Alerts!Kinds
  <2>3. CASE Alerts!EmitRiskBrake
    <3>1. PICK pair \in Pairs : Alerts!Publish("risk_brake", pair, born)
      BY <2>3 DEF Alerts!EmitRiskBrake
    <3> QED BY <2>0, <3>1, PublishKeepsAlertInv DEF Alerts!Kinds
  <2>4. CASE Alerts!EmitPaperAlert
    BY <2>0, <2>4, PublishKeepsAlertInv DEF Alerts!EmitPaperAlert, Alerts!Kinds
  <2>5. CASE Alerts!Read
    BY <2>5, ReadKeepsAlertInv
  <2>6. CASE Alerts!Save
    BY <2>6, SaveKeepsAlertInv
  <2>7. CASE Alerts!Commit
    BY <2>7, CommitKeepsAlertInv
  <2>8. CASE Alerts!CommitFails \/ Alerts!Crash \/ Alerts!EndPoll
    <3>1. CASE Alerts!CommitFails \/ Alerts!Crash
      BY <3>1, AbandonKeepsAlertInv DEF Alerts!CommitFails, Alerts!Crash
    <3>2. CASE Alerts!EndPoll
      <4>1. /\ alertPc' = "idle"
            /\ UNCHANGED <<alertNow, born, raised, alertStream, alertPending, acked, alertRows,
                           batch, tx, alertAcks>>
        BY <3>2 DEF Alerts!EndPoll, Alerts!memory
      <4>2. AlertTypes' /\ AlertPlaces'
        BY <4>1 DEF AlertInv, AlertTypes, AlertEntry, AlertPlaces
      <4>3. AlertsOnTheWay' /\ StalenessRaisedOnce' /\ Alerts!AcknowledgedIsStored'
        BY <4>1 DEF AlertInv, AlertsOnTheWay, StalenessRaisedOnce, Alerts!AcknowledgedIsStored,
                    Alerts!EventId
      <4> QED BY <4>2, <4>3 DEF AlertInv
    <3> QED BY <2>8, <3>1, <3>2
  <2>9. CASE Alerts!Ack \/ Alerts!AckFails
    BY <2>9, AckKeepsAlertInv
  <2>10. CASE Alerts!AckAlert
    BY <2>10, AckAlertKeepsAlertInv
  <2>11. CASE UNCHANGED Alerts!vars
    <3>1. UNCHANGED <<alertNow, born, raised, alertStream, alertPending, acked, alertRows, batch,
                      tx, aborted, alertAcks, alertPc>>
      BY <2>11 DEF Alerts!vars, Alerts!memory
    <3>2. AlertTypes' /\ AlertPlaces'
      BY <3>1 DEF AlertInv, AlertTypes, AlertEntry, AlertPlaces
    <3>3. AlertsOnTheWay' /\ StalenessRaisedOnce' /\ Alerts!AcknowledgedIsStored'
      BY <3>1 DEF AlertInv, AlertsOnTheWay, StalenessRaisedOnce, Alerts!AcknowledgedIsStored,
                  Alerts!EventId
    <3> QED BY <3>2, <3>3 DEF AlertInv
  <2> QED BY <2>1, <2>2, <2>3, <2>4, <2>5, <2>6, <2>7, <2>8, <2>9, <2>10, <2>11
          DEF Alerts!Next, Alerts!Poll
<1> QED BY <1>1, <1>2, PTL

\* A row that an admin has acknowledged is not touched by any step.
LEMMA AcknowledgedRowStays ==
  ASSUME AlertInv, [Alerts!Next]_Alerts!vars
  PROVE  \A i \in DOMAIN alertRows : alertRows[i] # NULL => i \in DOMAIN alertRows'
           /\ alertRows'[i] = alertRows[i]
<1>1. CASE Alerts!Commit
  BY <1>1, InsertRows DEF Alerts!Commit
<1>2. CASE Alerts!AckAlert
  <2>1. PICK i \in DOMAIN alertRows, a \in Admins : alertRows[i] = NULL
               /\ alertRows' = [alertRows EXCEPT ![i] = a]
    BY <1>2 DEF Alerts!AckAlert
  <2> QED BY <2>1 DEF AlertInv, AlertTypes
<1>3. CASE UNCHANGED alertRows
  BY <1>3
<1> QED BY <1>1, <1>2, <1>3
        DEF Alerts!Next, Alerts!Poll, Alerts!Tick, Alerts!RestartOrchestrator, Alerts!EmitStaleness,
            Alerts!EmitRiskBrake, Alerts!EmitPaperAlert, Alerts!Publish, Alerts!Read, Alerts!Save,
            Alerts!CommitFails, Alerts!Ack, Alerts!AckFails, Alerts!EndPoll, Alerts!Crash,
            Alerts!vars

\* Whatever crashes, failed commits and failed acknowledgements do, an entry the
\* worker acknowledged has its row, two staleness alerts are never collapsed to
\* one row, and an alert stays acknowledged by its first admin, for every batch
\* size and length of the stream, if what can be decoded can be saved.
THEOREM AlertsKept ==
  ASSUME Alerts!AlertsAssumption, Alerts!EntriesCanBeSaved
  PROVE  Alerts!Init /\ [][Alerts!Next]_Alerts!vars => Alerts!AlertsAreKept
<1>1. AlertInv => Alerts!TypeOK /\ Alerts!AcknowledgedIsStored /\ Alerts!StalenessIsDistinct
  <2> SUFFICES ASSUME AlertInv
               PROVE  Alerts!TypeOK /\ Alerts!AcknowledgedIsStored /\ Alerts!StalenessIsDistinct
    OBVIOUS
  <2>1. DOMAIN batch = 1 .. Len(batch) /\ DOMAIN alertAcks = 1 .. Len(alertAcks)
    BY DEF AlertInv, AlertPlaces
  <2>2. Alerts!TypeOK
    BY <2>1 DEF AlertInv, AlertTypes, AlertPlaces, Alerts!TypeOK, Entries
  <2>3. Alerts!StalenessIsDistinct
    <3>1. \A e, f \in acked : Alerts!EventId(e) = Alerts!EventId(f) => e.pair = f.pair
            /\ e.stamp = f.stamp
      BY DEF Alerts!EventId
    <3> QED BY <3>1 DEF AlertInv, AlertPlaces, StalenessRaisedOnce, Alerts!StalenessIsDistinct
  <2> QED BY <2>2, <2>3 DEF AlertInv
<1>2. AlertInv /\ [Alerts!Next]_Alerts!vars
        => [\A i \in DOMAIN alertRows : alertRows[i] # NULL => i \in DOMAIN alertRows'
              /\ alertRows'[i] = alertRows[i]]_Alerts!vars
  BY AcknowledgedRowStays
<1>3. Alerts!Init /\ [][Alerts!Next]_Alerts!vars
        => [][\A i \in DOMAIN alertRows :
                alertRows[i] # NULL => i \in DOMAIN alertRows'
                  /\ alertRows'[i] = alertRows[i]]_Alerts!vars
  BY <1>2, AlertInvariance, PTL
<1>4. Alerts!Init /\ [][Alerts!Next]_Alerts!vars
        => [](Alerts!TypeOK /\ Alerts!AcknowledgedIsStored /\ Alerts!StalenessIsDistinct)
  BY <1>1, AlertInvariance, PTL
<1> QED BY <1>3, <1>4 DEF Alerts!AlertsAreKept, Alerts!AckIsKept

----------------------------------------------------------------------------
(* Heartbeats.                                                             *)

WorkerTypes ==
  /\ beatPc \in [Instances -> {"off", "hset", "expire", "loop", "clear", "hung"}]
  /\ beatSince \in [Instances -> 0 .. MaxCycle]
  /\ beatTouched \in [Instances -> BOOLEAN]
  /\ beatKey \in [age : 0 .. Worker!Ttl + 1, left : (1 .. Worker!Ttl) \cup {NULL}] \cup {NULL}
  /\ gauge \in 0 .. 1

OneProcess == \A i, j \in Instances : beatPc[i] # "off" /\ beatPc[j] # "off" => i = j

\* Between HSET and EXPIRE no time passes.
JustSet == \A i \in Instances :
  beatPc[i] = "expire" => beatKey # NULL /\ beatKey.age = 0 /\ beatSince[i] = 0

\* A process that is gone has touched nothing.
OffIsUntouched == \A i \in Instances : beatPc[i] = "off" => ~ beatTouched[i]

\* From its first touch on, the key of a worker is as old as its last touch, and
\* the expiry lies a time to live after it; during a touch, still ahead.
KeyIsFresh ==
  \A i \in Instances : beatTouched[i] /\ beatPc[i] \in {"loop", "hset", "expire"} =>
    /\ beatKey # NULL /\ beatKey.left # NULL
    /\ beatKey.age <= beatSince[i]
    /\ beatPc[i] # "expire" => beatKey.left + beatSince[i] >= Worker!Ttl

WorkerInv == WorkerTypes /\ OneProcess /\ JustSet /\ OffIsUntouched /\ KeyIsFresh

\* The time to live is a number, longer than a cycle.
LEMMA TtlFacts ==
  ASSUME Worker!HeartbeatAssumption, Worker!OneWorkerInTime
  PROVE  /\ Worker!Ttl \in Nat /\ MaxCycle \in Nat /\ MaxCycle < Worker!Ttl
         /\ NULL \notin Nat
<1>1. {Period, MinTtl, MaxCycle, RoundTrip} \subseteq Nat
  BY DEF Worker!HeartbeatAssumption
<1>2. Period \in Nat /\ MinTtl \in Nat /\ MaxCycle \in Nat
  BY <1>1
<1>3. Worker!Ttl \in Nat
  BY <1>2 DEF Worker!Ttl, Worker!HeartbeatTtlForLoop
<1> QED BY <1>2, <1>3 DEF Worker!OneWorkerInTime, Worker!HeartbeatAssumption

\* One second later a key is one second older, until it runs out.
LEMMA AgedFacts ==
  ASSUME Worker!HeartbeatAssumption, Worker!OneWorkerInTime, WorkerTypes,
         beatKey' = Worker!Aged(beatKey)
  PROVE  /\ beatKey' \in [age : 0 .. Worker!Ttl + 1,
                          left : (1 .. Worker!Ttl) \cup {NULL}] \cup {NULL}
         /\ beatKey # NULL /\ beatKey.left # NULL /\ beatKey.left > 1
              => /\ beatKey' # NULL /\ beatKey'.left = beatKey.left - 1 /\ beatKey'.left # NULL
                 /\ beatKey'.age <= beatKey.age + 1
<1>1. Worker!Ttl \in Nat /\ NULL \notin Nat
  BY TtlFacts
<1>2. CASE beatKey = NULL
  BY <1>2 DEF Worker!Aged
<1>3. CASE beatKey # NULL
  <2>1. beatKey.age \in 0 .. Worker!Ttl + 1 /\ beatKey.left \in (1 .. Worker!Ttl) \cup {NULL}
    BY <1>3 DEF WorkerTypes
  <2>2. CASE beatKey.left = 1
    BY <1>1, <1>3, <2>2 DEF Worker!Aged
  <2>3. CASE beatKey.left # 1
    <3> DEFINE a == IF beatKey.age > Worker!Ttl THEN beatKey.age ELSE beatKey.age + 1
               l == IF beatKey.left = NULL THEN NULL ELSE beatKey.left - 1
    <3>1. beatKey' = [age |-> a, left |-> l]
      BY <1>3, <2>3 DEF Worker!Aged
    <3>2. a \in 0 .. Worker!Ttl + 1 /\ a <= beatKey.age + 1
      BY <1>1, <2>1
    <3>3. beatKey.left = NULL => l = NULL
      OBVIOUS
    <3>4. beatKey.left # NULL => l \in 1 .. Worker!Ttl /\ l = beatKey.left - 1
      BY <1>1, <2>1, <2>3
    <3> HIDE DEF a, l
    <3>5. beatKey'.age = a /\ beatKey'.left = l
      BY <3>1
    <3>6. beatKey' \in [age : 0 .. Worker!Ttl + 1, left : (1 .. Worker!Ttl) \cup {NULL}]
      BY <3>1, <3>2, <3>3, <3>4
    <3>7. beatKey' # NULL
      <4>1. a \in Nat /\ l \in Nat \cup {NULL}
        BY <1>1, <3>2, <3>3, <3>4
      <4>2. beatKey' \in [age : Nat, left : Nat \cup {NULL}]
        BY <3>1, <4>1
      <4> QED BY <4>2 DEF Worker!HeartbeatAssumption
    <3>8. beatKey.left # NULL => l # NULL
      BY <1>1, <3>4
    <3> QED BY <3>2, <3>4, <3>5, <3>6, <3>7, <3>8
  <2> QED BY <2>2, <2>3
<1> QED BY <1>2, <1>3

\* Time passes: the key of a process that is in time does not expire.
LEMMA TickKeepsWorkerInv ==
  ASSUME Worker!HeartbeatAssumption, Worker!OneWorkerInTime, WorkerInv, Worker!Tick
  PROVE  WorkerInv'
<1>1. /\ \A i \in Instances :
           Worker!Alive(i) => beatSince[i] < (IF beatPc[i] = "expire" THEN RoundTrip ELSE MaxCycle)
      /\ beatKey' = Worker!Aged(beatKey)
      /\ beatSince' = [i \in Instances |-> IF Worker!Alive(i) THEN beatSince[i] + 1 ELSE 0]
      /\ UNCHANGED <<beatPc, beatTouched, gauge>>
  BY DEF Worker!Tick
<1>2. Worker!Ttl \in Nat /\ MaxCycle \in Nat /\ MaxCycle < Worker!Ttl /\ NULL \notin Nat
  BY TtlFacts
<1>3. \A i \in Instances : beatSince[i] \in 0 .. MaxCycle
  BY DEF WorkerInv, WorkerTypes
<1>4. \A i \in Instances : beatPc[i] # "expire"
  BY <1>1, <1>3 DEF Worker!OneWorkerInTime, Worker!Alive
<1>5. beatSince' \in [Instances -> 0 .. MaxCycle]
  BY <1>1, <1>2, <1>3, <1>4
<1>6. WorkerTypes'
  BY <1>1, <1>5, AgedFacts DEF WorkerInv, WorkerTypes, Worker!Ttl, Worker!HeartbeatTtlForLoop
<1>7. OneProcess' /\ JustSet' /\ OffIsUntouched'
  BY <1>1, <1>4 DEF WorkerInv, OneProcess, JustSet, OffIsUntouched
<1>8. KeyIsFresh'
  <2> SUFFICES ASSUME NEW i \in Instances, beatTouched[i], beatPc[i] \in {"loop", "hset"}
               PROVE  /\ beatKey' # NULL /\ beatKey'.left # NULL
                      /\ beatKey'.age <= beatSince'[i]
                      /\ beatKey'.left + beatSince'[i] >= Worker!Ttl
    BY <1>1, <1>4 DEF KeyIsFresh, Worker!Ttl, Worker!HeartbeatTtlForLoop
  <2>1. /\ beatKey # NULL /\ beatKey.left # NULL /\ beatKey.age <= beatSince[i]
        /\ beatKey.left + beatSince[i] >= Worker!Ttl
    BY <1>4 DEF WorkerInv, KeyIsFresh
  <2>2. beatSince'[i] = beatSince[i] + 1 /\ beatSince[i] < MaxCycle
    BY <1>1, <1>4 DEF Worker!Alive
  <2>3. beatKey.left \in Nat /\ beatKey.age \in Nat
    BY <2>1, <1>2 DEF WorkerInv, WorkerTypes
  <2>4. beatKey.left > 1
    BY <1>2, <1>3, <2>1, <2>2, <2>3
  <2>5. /\ beatKey' # NULL /\ beatKey'.left = beatKey.left - 1 /\ beatKey'.left # NULL
        /\ beatKey'.age <= beatKey.age + 1
    BY <1>1, <2>1, <2>4, AgedFacts DEF WorkerInv
  <2>6. beatKey'.age \in Nat
    BY <1>2, <1>6, <2>5 DEF WorkerTypes, Worker!Ttl, Worker!HeartbeatTtlForLoop
  <2> QED BY <1>2, <1>3, <2>1, <2>2, <2>3, <2>5, <2>6
<1> QED BY <1>6, <1>7, <1>8 DEF WorkerInv

\* Steps of a running process that leave the key alone: it goes on to its next
\* touch, or it leaves the loop.
LEMMA MoveKeepsWorkerInv ==
  ASSUME WorkerInv, NEW i \in Instances, beatPc[i] # "off",
         NEW to \in {"hset", "clear", "hung", "off"},
         beatPc' = [beatPc EXCEPT ![i] = to],
         to = "hset" => beatPc[i] = "loop",
         beatTouched' = IF to = "off" THEN [beatTouched EXCEPT ![i] = FALSE] ELSE beatTouched,
         UNCHANGED <<beatKey, beatSince, gauge>>
  PROVE  WorkerInv'
<1>1. /\ \A j \in Instances : beatPc'[j] = IF j = i THEN to ELSE beatPc[j]
      /\ \A j \in Instances : beatTouched'[j] => beatTouched[j]
      /\ to = "off" => ~ beatTouched'[i]
      /\ beatPc' \in [Instances -> {"off", "hset", "expire", "loop", "clear", "hung"}]
      /\ beatTouched' \in [Instances -> BOOLEAN]
  BY DEF WorkerInv, WorkerTypes
<1>2. WorkerTypes'
  BY <1>1 DEF WorkerInv, WorkerTypes, Worker!Ttl, Worker!HeartbeatTtlForLoop
<1>3. OneProcess' /\ JustSet' /\ OffIsUntouched'
  BY <1>1 DEF WorkerInv, OneProcess, JustSet, OffIsUntouched
<1>4. KeyIsFresh'
  BY <1>1 DEF WorkerInv, KeyIsFresh, Worker!Ttl, Worker!HeartbeatTtlForLoop
<1> QED BY <1>2, <1>3, <1>4 DEF WorkerInv

\* A process starts when no other one runs.
LEMMA StartKeepsWorkerInv ==
  ASSUME Worker!HeartbeatAssumption, Worker!OneWorkerInTime, WorkerInv,
         NEW i \in Instances, Worker!Start(i)
  PROVE  WorkerInv'
<1>1. /\ \A j \in Instances : beatPc[j] = "off"
      /\ beatPc' = [beatPc EXCEPT ![i] = "hset"]
      /\ beatSince' = [beatSince EXCEPT ![i] = 0]
      /\ UNCHANGED <<beatKey, beatTouched, gauge>>
  BY DEF Worker!Start, Worker!OneWorkerInTime
<1>2. MaxCycle \in Nat
  BY TtlFacts
<1>3. WorkerTypes'
  BY <1>1, <1>2 DEF WorkerInv, WorkerTypes, Worker!Ttl, Worker!HeartbeatTtlForLoop
<1>4. \A j \in Instances : ~ beatTouched'[j] /\ beatPc'[j] = IF j = i THEN "hset" ELSE "off"
  BY <1>1 DEF WorkerInv, WorkerTypes, OffIsUntouched
<1>5. OneProcess' /\ JustSet' /\ OffIsUntouched' /\ KeyIsFresh'
  BY <1>4 DEF OneProcess, JustSet, OffIsUntouched, KeyIsFresh
<1> QED BY <1>3, <1>5 DEF WorkerInv

\* The first half of a touch writes the fields of the key.
LEMMA HSetKeepsWorkerInv ==
  ASSUME Worker!HeartbeatAssumption, Worker!OneWorkerInTime, WorkerInv,
         NEW i \in Instances, Worker!HSet(i)
  PROVE  WorkerInv'
<1> DEFINE l == IF beatKey = NULL THEN NULL ELSE beatKey.left
<1>1. /\ beatPc[i] = "hset"
      /\ beatKey' = [age |-> 0, left |-> l]
      /\ beatPc' = [beatPc EXCEPT ![i] = "expire"]
      /\ beatSince' = [beatSince EXCEPT ![i] = 0]
      /\ UNCHANGED <<beatTouched, gauge>>
  BY DEF Worker!HSet
<1>2. MaxCycle \in Nat /\ Worker!Ttl \in Nat /\ NULL \notin Nat
  BY TtlFacts
<1>3. l \in (1 .. Worker!Ttl) \cup {NULL}
  BY DEF WorkerInv, WorkerTypes
<1>4. l # NULL => beatKey # NULL /\ l = beatKey.left
  OBVIOUS
<1>5. beatKey # NULL => l = beatKey.left
  OBVIOUS
<1> HIDE DEF l
<1>6. beatKey'.age = 0 /\ beatKey'.left = l
  BY <1>1
<1>7. beatKey' # NULL
  <2>1. beatKey' \in [age : Nat, left : Nat \cup {NULL}]
    BY <1>1, <1>2, <1>3
  <2> QED BY <2>1 DEF Worker!HeartbeatAssumption
<1>8. WorkerTypes'
  <2>1. beatKey' \in [age : 0 .. Worker!Ttl + 1, left : (1 .. Worker!Ttl) \cup {NULL}]
    BY <1>1, <1>2, <1>3
  <2> QED BY <1>1, <1>2, <2>1 DEF WorkerInv, WorkerTypes, Worker!Ttl, Worker!HeartbeatTtlForLoop
<1>9. \A j \in Instances : beatPc'[j] = (IF j = i THEN "expire" ELSE "off")
                              /\ (j = i => beatSince'[j] = 0)
  BY <1>1 DEF WorkerInv, WorkerTypes, OneProcess
<1>10. OneProcess' /\ JustSet'
  BY <1>6, <1>7, <1>9 DEF OneProcess, JustSet
<1>11. OffIsUntouched'
  BY <1>1, <1>9 DEF WorkerInv, WorkerTypes, OneProcess, OffIsUntouched
<1>12. KeyIsFresh'
  <2>1. beatTouched[i] => l # NULL
    BY <1>1, <1>5 DEF WorkerInv, KeyIsFresh
  <2>2. ASSUME NEW j \in Instances, beatTouched'[j], beatPc'[j] \in {"loop", "hset", "expire"}
        PROVE  beatKey' # NULL /\ beatKey'.left # NULL /\ beatKey'.age <= beatSince'[j]
                 /\ beatPc'[j] = "expire"
    <3>1. j = i
      BY <1>9, <2>2
    <3> QED BY <1>1, <1>6, <1>7, <1>9, <2>1, <2>2, <3>1
  <2> QED BY <2>2 DEF KeyIsFresh
<1> QED BY <1>8, <1>10, <1>11, <1>12 DEF WorkerInv

\* The second half of a touch sets the time to live.
LEMMA ExpireKeepsWorkerInv ==
  ASSUME Worker!HeartbeatAssumption, Worker!OneWorkerInTime, WorkerInv,
         NEW i \in Instances, Worker!Expire(i)
  PROVE  WorkerInv'
<1>1. /\ beatPc[i] = "expire"
      /\ beatKey' = IF beatKey = NULL THEN NULL ELSE [beatKey EXCEPT !.left = Worker!Ttl]
      /\ beatPc' = [beatPc EXCEPT ![i] = "loop"]
      /\ beatTouched' = [beatTouched EXCEPT ![i] = TRUE]
      /\ UNCHANGED <<beatSince, gauge>>
  BY DEF Worker!Expire
<1>2. MaxCycle \in Nat /\ Worker!Ttl \in Nat /\ MaxCycle < Worker!Ttl /\ NULL \notin Nat
  BY TtlFacts
<1>3. beatKey # NULL /\ beatKey.age = 0 /\ beatSince[i] = 0
  BY <1>1 DEF WorkerInv, JustSet
<1>4. beatKey' = [age |-> 0, left |-> Worker!Ttl]
  <2>1. beatKey \in [age : 0 .. Worker!Ttl + 1, left : (1 .. Worker!Ttl) \cup {NULL}]
    BY <1>3 DEF WorkerInv, WorkerTypes
  <2> QED BY <1>1, <1>3, <2>1
<1>5. beatKey'.age = 0 /\ beatKey'.left = Worker!Ttl
  BY <1>4
<1>6. beatKey' # NULL
  <2>1. beatKey' \in [age : Nat, left : Nat \cup {NULL}]
    BY <1>2, <1>4
  <2> QED BY <2>1 DEF Worker!HeartbeatAssumption
<1>7. WorkerTypes'
  <2>1. beatKey' \in [age : 0 .. Worker!Ttl + 1, left : (1 .. Worker!Ttl) \cup {NULL}]
    BY <1>2, <1>4
  <2> QED BY <1>1, <1>2, <2>1 DEF WorkerInv, WorkerTypes, Worker!Ttl, Worker!HeartbeatTtlForLoop
<1>8. \A j \in Instances : beatPc'[j] = (IF j = i THEN "loop" ELSE "off")
                              /\ (j # i => ~ beatTouched'[j])
  BY <1>1 DEF WorkerInv, WorkerTypes, OneProcess, OffIsUntouched
<1>9. OneProcess' /\ JustSet' /\ OffIsUntouched'
  BY <1>8 DEF OneProcess, JustSet, OffIsUntouched
<1>10. KeyIsFresh'
  <2>1. beatKey'.age <= beatSince'[i] /\ beatKey'.left + beatSince'[i] >= Worker!Ttl
          /\ beatKey'.left # NULL
    BY <1>1, <1>2, <1>3, <1>5
  <2> QED BY <1>6, <1>8, <2>1 DEF KeyIsFresh, Worker!Ttl, Worker!HeartbeatTtlForLoop
<1> QED BY <1>7, <1>9, <1>10 DEF WorkerInv

\* A process that stops deletes its key.
LEMMA ClearKeepsWorkerInv ==
  ASSUME WorkerInv, NEW i \in Instances, Worker!Clear(i)
  PROVE  WorkerInv'
<1>1. /\ beatPc[i] = "clear"
      /\ beatKey' \in {beatKey, NULL}
      /\ beatPc' = [beatPc EXCEPT ![i] = "off"]
      /\ beatTouched' = [beatTouched EXCEPT ![i] = FALSE]
      /\ UNCHANGED <<beatSince, gauge>>
  BY DEF Worker!Clear
<1>2. WorkerTypes'
  BY <1>1 DEF WorkerInv, WorkerTypes, Worker!Ttl, Worker!HeartbeatTtlForLoop
<1>3. \A j \in Instances : beatPc'[j] = "off" /\ ~ beatTouched'[j]
  BY <1>1 DEF WorkerInv, WorkerTypes, OneProcess, OffIsUntouched
<1>4. OneProcess' /\ JustSet' /\ OffIsUntouched' /\ KeyIsFresh'
  BY <1>3 DEF OneProcess, JustSet, OffIsUntouched, KeyIsFresh
<1> QED BY <1>2, <1>4 DEF WorkerInv

\* The invariant of the heartbeats.
THEOREM WorkerInvariance ==
  ASSUME Worker!HeartbeatAssumption, Worker!OneWorkerInTime
  PROVE  Worker!Init /\ [][Worker!Next]_Worker!vars => []WorkerInv
<1>1. Worker!Init => WorkerInv
  <2> SUFFICES ASSUME Worker!Init PROVE WorkerInv
    OBVIOUS
  <2>1. WorkerTypes
    BY TtlFacts DEF Worker!Init, WorkerTypes
  <2> QED BY <2>1 DEF Worker!Init, WorkerInv, OneProcess, JustSet, OffIsUntouched, KeyIsFresh
<1>2. WorkerInv /\ [Worker!Next]_Worker!vars => WorkerInv'
  <2> SUFFICES ASSUME WorkerInv, [Worker!Next]_Worker!vars PROVE WorkerInv'
    OBVIOUS
  <2>1. CASE Worker!Tick
    BY <2>1, TickKeepsWorkerInv
  <2>2. ASSUME NEW i \in Instances, Worker!Step(i) PROVE WorkerInv'
    <3>1. CASE Worker!Start(i)
      BY <3>1, StartKeepsWorkerInv
    <3>2. CASE Worker!HSet(i)
      BY <3>2, HSetKeepsWorkerInv
    <3>3. CASE Worker!Expire(i)
      BY <3>3, ExpireKeepsWorkerInv
    <3>4. CASE Worker!TouchFails(i)
      BY <3>4, MoveKeepsWorkerInv DEF Worker!TouchFails
    <3>5. CASE Worker!EndCycle(i)
      BY <3>5, MoveKeepsWorkerInv DEF Worker!EndCycle
    <3>6. CASE Worker!Leave(i)
      BY <3>6, MoveKeepsWorkerInv DEF Worker!Leave
    <3>7. CASE Worker!Clear(i)
      BY <3>7, ClearKeepsWorkerInv
    <3> QED BY <2>2, <3>1, <3>2, <3>3, <3>4, <3>5, <3>6, <3>7 DEF Worker!Step
  <2>8. ASSUME NEW i \in Instances, Worker!CycleRaises(i) PROVE WorkerInv'
    BY <2>8, MoveKeepsWorkerInv DEF Worker!CycleRaises
  <2>3. ASSUME NEW i \in Instances, Worker!Crash(i) PROVE WorkerInv'
    BY <2>3, MoveKeepsWorkerInv DEF Worker!Crash
  <2>4. ASSUME NEW i \in Instances, Worker!Hang(i) PROVE WorkerInv'
    BY <2>4, MoveKeepsWorkerInv DEF Worker!Hang
  <2>5. ASSUME gauge' \in {gauge, 0, 1}, UNCHANGED <<beatKey, beatPc, beatSince, beatTouched>>
        PROVE  WorkerInv'
    BY <2>5 DEF WorkerInv, WorkerTypes, OneProcess, JustSet, OffIsUntouched, KeyIsFresh, Worker!Ttl,
                Worker!HeartbeatTtlForLoop
  <2>6. ASSUME NEW i \in Instances, Worker!Stop(i) PROVE WorkerInv'
    BY <2>5, <2>6 DEF Worker!Stop
  <2>7. CASE Worker!RedisFails \/ Worker!RedisReturns \/ Worker!Scrape \/ UNCHANGED Worker!vars
    BY <2>5, <2>7 DEF Worker!RedisFails, Worker!RedisReturns, Worker!Scrape, Worker!vars
  <2> QED BY <2>1, <2>2, <2>3, <2>4, <2>6, <2>7, <2>8 DEF Worker!Next
<1> QED BY <1>1, <1>2, PTL

\* A worker that goes through its loop is reported up from its first touch to
\* its end, through crashes and hangs of processes before it and outages of
\* Redis, for every period and number of processes, if they do not overlap and
\* a cycle is shorter than the time to live.
THEOREM WorkerIsUp ==
  ASSUME Worker!HeartbeatAssumption, Worker!OneWorkerInTime
  PROVE  Worker!Init /\ [][Worker!Next]_Worker!vars => [](Worker!TypeOK /\ Worker!HealthyIsUp)
<1>1. WorkerInv => Worker!TypeOK /\ Worker!HealthyIsUp
  <2> SUFFICES ASSUME WorkerInv PROVE Worker!TypeOK /\ Worker!HealthyIsUp
    OBVIOUS
  <2>1. Worker!TypeOK
    BY DEF WorkerInv, WorkerTypes, Worker!TypeOK
  <2>2. ASSUME NEW i \in Instances, beatTouched[i], beatPc[i] \in {"loop", "hset", "expire"}
        PROVE  Worker!Status = "up"
    <3>1. /\ Worker!Ttl \in Nat /\ MaxCycle \in Nat /\ MaxCycle < Worker!Ttl /\ NULL \notin Nat
          /\ beatSince[i] \in 0 .. MaxCycle
      BY TtlFacts DEF WorkerInv, WorkerTypes
    <3>2. beatKey # NULL /\ beatKey.age <= beatSince[i]
      BY <2>2 DEF WorkerInv, KeyIsFresh
    <3>3. beatKey.age \in Nat
      BY <3>1, <3>2 DEF WorkerInv, WorkerTypes
    <3>4. beatKey.age # NULL /\ ~ (beatKey.age > Worker!Ttl)
      BY <3>1, <3>2, <3>3
    <3> QED BY <3>2, <3>4 DEF Worker!Status, Worker!HeartbeatStatus
  <2> QED BY <2>1, <2>2 DEF Worker!HealthyIsUp
<1> QED BY <1>1, WorkerInvariance, PTL

----------------------------------------------------------------------------
(* The rate limiter.                                                       *)

\* A set of naturals that is not empty has a least member.
LEMMA LeastMember ==
  ASSUME NEW S \in SUBSET Nat, S # {}
  PROVE  \E x \in S : \A y \in S : x <= y
<1>1. PICK x \in S : \A y \in S : ~ (<<y, x>> \in OpToRel(<,Nat))
  BY WFMin, NatLessThanWellFounded
<1>2. \A y \in S : ~ (y < x)
  BY <1>1 DEF OpToRel
<1> QED BY <1>2

Sorted(w) == \A i, j \in 1 .. Len(w) : i <= j => w[i] <= w[j]

\* Dropping from the left stops at the first hit after the cutoff.
LEMMA ExpiredFacts ==
  ASSUME NEW w \in Seq(Nat), NEW c \in Int
  PROVE  LET d == Limiter!Expired(w, c)
         IN  /\ d \in 0 .. Len(w)
             /\ \A i \in 1 .. d : w[i] <= c
             /\ d < Len(w) => w[d + 1] > c
<1> DEFINE late == {i \in 1 .. Len(w) : w[i] > c}
           P(d) == (\A i \in 1 .. d : w[i] <= c) /\ (d < Len(w) => w[d + 1] > c)
<1>1. Len(w) \in Nat /\ \A i \in 1 .. Len(w) : w[i] \in Nat
  OBVIOUS
<1>2. \E d \in 0 .. Len(w) : P(d)
  <2>1. CASE late = {}
    <3>1. \A i \in 1 .. Len(w) : w[i] <= c
      BY <1>1, <2>1
    <3>2. P(Len(w)) /\ Len(w) \in 0 .. Len(w)
      BY <1>1, <3>1
    <3> QED BY <3>2
  <2>2. CASE late # {}
    <3>1. late \in SUBSET Nat
      BY <1>1
    <3>2. PICK x \in late : \A y \in late : x <= y
      BY <2>2, <3>1, LeastMember
    <3>3. x - 1 \in 0 .. Len(w) /\ w[(x - 1) + 1] > c
      BY <1>1, <3>2
    <3>4. \A i \in 1 .. x - 1 : w[i] <= c
      BY <1>1, <3>2
    <3> QED BY <3>3, <3>4
  <2> QED BY <2>1, <2>2
<1> QED BY <1>2 DEF Limiter!Expired

\* What is left of a sorted window is its end: all hits after the cutoff.
LEMMA InWindowFacts ==
  ASSUME NEW w \in Seq(Nat), Sorted(w), limiterNow \in Nat, Window \in Nat
  PROVE  \E d \in 0 .. Len(w) :
           /\ Limiter!InWindow(w) \in Seq(Nat)
           /\ Len(Limiter!InWindow(w)) = Len(w) - d
           /\ \A i \in 1 .. Len(w) - d : Limiter!InWindow(w)[i] = w[d + i]
                /\ w[d + i] > limiterNow - Window
           /\ \A i \in 1 .. d : w[i] <= limiterNow - Window
<1> DEFINE c == limiterNow - Window
           d == Limiter!Expired(w, c)
<1>1. c \in Int
  OBVIOUS
<1>2. /\ d \in 0 .. Len(w)
      /\ \A i \in 1 .. d : w[i] <= c
      /\ d < Len(w) => w[d + 1] > c
  BY <1>1, ExpiredFacts
<1>3. Limiter!InWindow(w) = SubSeq(w, d + 1, Len(w))
  BY DEF Limiter!InWindow
<1> HIDE DEF d
<1>4. /\ SubSeq(w, d + 1, Len(w)) \in Seq(Nat)
      /\ Len(SubSeq(w, d + 1, Len(w))) = Len(w) - d
      /\ \A i \in 1 .. Len(w) - d : SubSeq(w, d + 1, Len(w))[i] = w[d + i]
  BY <1>2
<1>5. ASSUME NEW i \in 1 .. Len(w) - d PROVE w[d + i] > c
  <2>1. d + 1 \in 1 .. Len(w) /\ d + i \in 1 .. Len(w) /\ d + 1 <= d + i
    BY <1>2
  <2>2. w[d + 1] <= w[d + i]
    BY <2>1 DEF Sorted
  <2>3. w[d + 1] > c /\ w[d + 1] \in Nat /\ w[d + i] \in Nat
    BY <1>2, <2>1
  <2> QED BY <1>1, <2>2, <2>3
<1> QED BY <1>2, <1>3, <1>4, <1>5

\* One key at the instant n, with the calls A let through, the table H and the
\* advice v: the table is the end of A and holds all that is in the window, and
\* in A a call and the one Limit places later are a window apart.
KeyOK(n, A, H, v) ==
  /\ A \in Seq(Nat) /\ Sorted(A) /\ \A i \in 1 .. Len(A) : A[i] <= n
  /\ H \in Seq(Nat) /\ Len(H) <= Len(A) /\ Len(H) <= Limit
  /\ \A i \in 1 .. Len(H) : H[i] = A[(Len(A) - Len(H)) + i]
  /\ \A i \in 1 .. Len(A) - Len(H) : A[i] <= n - Window
  /\ \A i \in 1 .. Len(A) - Limit : A[i] + Window <= A[i + Limit]
  /\ v # NULL => Len(H) = Limit /\ v \in Int
                 /\ H[1] + Window <= v /\ v < H[1] + Window + Second

LimiterInv ==
  /\ limiterNow \in Nat
  /\ hits = [k \in Keys |-> hits[k]] /\ allowed = [k \in Keys |-> allowed[k]]
  /\ advice = [k \in Keys |-> advice[k]]
  /\ \A k \in Keys : KeyOK(limiterNow, allowed[k], hits[k], advice[k])

\* The constants of the limiter.
LEMMA LimiterConstants ==
  ASSUME Limiter!LimiterAssumption
  PROVE  Limit \in Nat \ {0} /\ Window \in Nat \ {0} /\ Second \in Nat \ {0} /\ NULL \notin Nat
<1>1. {Limit, Window, Second} \subseteq Nat \ {0}
  BY DEF Limiter!LimiterAssumption
<1> QED BY <1>1 DEF Limiter!LimiterAssumption

\* Whole seconds rounded up: less than a second too many, and one at least.
LEMMA RoundedUp ==
  ASSUME NEW s \in Nat \ {0}, NEW x \in Nat \ {0}
  PROVE  LET whole == (x + s - 1) \div s
         IN  whole \in Nat /\ 1 <= whole /\ x <= whole * s /\ whole * s < x + s
<1> DEFINE q == (x + s - 1) \div s
           m == (x + s - 1) % s
<1>1. x + s - 1 \in Nat
  OBVIOUS
<1>2. q \in Int /\ m \in 0 .. s - 1 /\ x + s - 1 = s * q + m
  BY <1>1
<1> HIDE DEF q, m
<1>3. s * q = q * s /\ q * s \in Int
  BY <1>2
<1>4. x <= q * s /\ q * s < x + s
  BY <1>2, <1>3
<1>5. CASE q <= 0
  <2>1. q * s <= 0
    BY <1>2, <1>5
  <2> QED BY <1>3, <1>4, <2>1
<1>6. CASE q >= 1
  BY <1>2, <1>4, <1>6 DEF q
<1> QED BY <1>2, <1>5, <1>6

\* The end of a sorted sequence is sorted.
LEMMA TableIsSorted ==
  ASSUME Limiter!LimiterAssumption, NEW n \in Nat, NEW A, NEW H, NEW v, KeyOK(n, A, H, v)
  PROVE  Sorted(H)
<1>1. /\ A \in Seq(Nat) /\ Sorted(A) /\ H \in Seq(Nat) /\ Len(H) <= Len(A)
      /\ \A i \in 1 .. Len(H) : H[i] = A[(Len(A) - Len(H)) + i]
  BY DEF KeyOK
<1> SUFFICES ASSUME NEW i \in 1 .. Len(H), NEW j \in 1 .. Len(H), i <= j
             PROVE  H[i] <= H[j]
  BY DEF Sorted
<1> DEFINE o == Len(A) - Len(H)
<1>2. o + i \in 1 .. Len(A) /\ o + j \in 1 .. Len(A) /\ o + i <= o + j
  BY <1>1
<1>3. A[o + i] <= A[o + j]
  BY <1>1, <1>2 DEF Sorted
<1> QED BY <1>1, <1>3

\* Time passes.
LEMMA LaterIsOK ==
  ASSUME Limiter!LimiterAssumption, NEW n \in Nat, NEW A, NEW H, NEW v, KeyOK(n, A, H, v)
  PROVE  KeyOK(n + 1, A, H, v)
<1>1. Window \in Nat /\ A \in Seq(Nat) /\ H \in Seq(Nat) /\ Len(H) <= Len(A)
  BY LimiterConstants DEF KeyOK
<1>2. \A i \in 1 .. Len(A) : A[i] <= n + 1
  BY <1>1 DEF KeyOK
<1>3. \A i \in 1 .. Len(A) - Len(H) : A[i] <= (n + 1) - Window
  <2> SUFFICES ASSUME NEW i \in 1 .. Len(A) - Len(H) PROVE A[i] <= (n + 1) - Window
    OBVIOUS
  <2>1. A[i] <= n - Window
    BY DEF KeyOK
  <2>2. A[i] \in Nat
    BY <1>1
  <2> QED BY <1>1, <2>1, <2>2
<1> QED BY <1>2, <1>3 DEF KeyOK

\* What check finds after it has dropped the old hits.
LEMMA PrunedIsOK ==
  ASSUME Limiter!LimiterAssumption, limiterNow \in Nat, NEW A, NEW H, NEW v,
         KeyOK(limiterNow, A, H, v)
  PROVE  /\ KeyOK(limiterNow, A, Limiter!InWindow(H), NULL)
         /\ \A i \in 1 .. Len(Limiter!InWindow(H)) : Limiter!InWindow(H)[i] > limiterNow - Window
<1> DEFINE w == Limiter!InWindow(H)
<1>1. Limit \in Nat \ {0} /\ Window \in Nat \ {0}
  BY LimiterConstants
<1>2. /\ A \in Seq(Nat) /\ H \in Seq(Nat) /\ Len(H) <= Len(A) /\ Len(H) <= Limit
      /\ \A i \in 1 .. Len(H) : H[i] = A[(Len(A) - Len(H)) + i]
      /\ \A i \in 1 .. Len(A) - Len(H) : A[i] <= limiterNow - Window
  BY DEF KeyOK
<1>3. Sorted(H)
  BY TableIsSorted
<1>4. PICK d \in 0 .. Len(H) :
        /\ w \in Seq(Nat) /\ Len(w) = Len(H) - d
        /\ \A i \in 1 .. Len(H) - d : w[i] = H[d + i] /\ H[d + i] > limiterNow - Window
        /\ \A i \in 1 .. d : H[i] <= limiterNow - Window
  BY <1>1, <1>2, <1>3, InWindowFacts
<1> HIDE DEF w
<1>5. Len(A) \in Nat /\ Len(H) \in Nat /\ d \in Nat
  BY <1>2, <1>4
<1>6. Len(w) <= Len(A) /\ Len(w) <= Limit
  BY <1>1, <1>2, <1>4, <1>5
<1>7. ASSUME NEW i \in 1 .. Len(w) PROVE w[i] = A[(Len(A) - Len(w)) + i]
  <2>1. d + i \in 1 .. Len(H) /\ (Len(A) - Len(H)) + (d + i) = (Len(A) - Len(w)) + i
    BY <1>4, <1>5
  <2> QED BY <1>2, <1>4, <2>1
<1>8. ASSUME NEW i \in 1 .. Len(A) - Len(w) PROVE A[i] <= limiterNow - Window
  <2>1. CASE i <= Len(A) - Len(H)
    BY <1>2, <1>5, <2>1
  <2>2. CASE i > Len(A) - Len(H)
    <3> DEFINE j == i - (Len(A) - Len(H))
    <3>1. j \in 1 .. d /\ j \in 1 .. Len(H) /\ (Len(A) - Len(H)) + j = i
      BY <1>4, <1>5, <2>2
    <3> HIDE DEF j
    <3>2. H[j] = A[i] /\ H[j] <= limiterNow - Window
      BY <1>2, <1>4, <3>1
    <3> QED BY <3>2
  <2> QED BY <1>5, <1>4, <2>1, <2>2
<1>9. KeyOK(limiterNow, A, w, NULL)
  BY <1>4, <1>6, <1>7, <1>8 DEF KeyOK
<1>10. \A i \in 1 .. Len(w) : w[i] > limiterNow - Window
  BY <1>4
<1> QED BY <1>9, <1>10 DEF w

\* A refusal: the table is full, and the advice is when its oldest hit leaves or
\* less than a second later.
LEMMA RefusalIsOK ==
  ASSUME Limiter!LimiterAssumption, limiterNow \in Nat, NEW A, NEW w, KeyOK(limiterNow, A, w, NULL),
         \A i \in 1 .. Len(w) : w[i] > limiterNow - Window,
         Len(w) >= Limit
  PROVE  KeyOK(limiterNow, A, w, limiterNow + Limiter!RetryAfter(w) * Second)
<1>1. Limit \in Nat \ {0} /\ Window \in Nat \ {0} /\ Second \in Nat \ {0}
  BY LimiterConstants
<1>2. w \in Seq(Nat) /\ Len(w) <= Limit
  BY DEF KeyOK
<1>3. Len(w) = Limit /\ 1 \in 1 .. Len(w)
  BY <1>1, <1>2
<1>4. w[1] \in Nat /\ w[1] > limiterNow - Window
  BY <1>2, <1>3
<1> DEFINE x == w[1] + Window - limiterNow
           whole == (x + Second - 1) \div Second
<1>5. x \in Nat \ {0}
  BY <1>1, <1>4
<1>6. whole \in Nat /\ 1 <= whole /\ x <= whole * Second /\ whole * Second < x + Second
  BY <1>1, <1>5, RoundedUp
<1>7. Limiter!RetryAfter(w) = IF whole > 1 THEN whole ELSE 1
  BY DEF Limiter!RetryAfter
<1> HIDE DEF whole
<1>8. Limiter!RetryAfter(w) = whole /\ whole * Second \in Int
  BY <1>1, <1>6, <1>7
<1>9. /\ limiterNow + whole * Second \in Int
      /\ w[1] + Window <= limiterNow + whole * Second
      /\ limiterNow + whole * Second < w[1] + Window + Second
  BY <1>1, <1>4, <1>6, <1>8
<1> QED BY <1>3, <1>8, <1>9 DEF KeyOK

\* A call let through: its table is not full, so the call Limit places before it
\* has left the window.
LEMMA AdmissionIsOK ==
  ASSUME Limiter!LimiterAssumption, limiterNow \in Nat, NEW A, NEW w, KeyOK(limiterNow, A, w, NULL),
         Len(w) < Limit
  PROVE  KeyOK(limiterNow, Append(A, limiterNow), Append(w, limiterNow), NULL)
<1> DEFINE B == Append(A, limiterNow)
           x == Append(w, limiterNow)
<1>1. Limit \in Nat \ {0} /\ Window \in Nat \ {0}
  BY LimiterConstants
<1>2. /\ A \in Seq(Nat) /\ Sorted(A) /\ w \in Seq(Nat) /\ Len(w) <= Len(A)
      /\ \A i \in 1 .. Len(A) : A[i] <= limiterNow
      /\ \A i \in 1 .. Len(w) : w[i] = A[(Len(A) - Len(w)) + i]
      /\ \A i \in 1 .. Len(A) - Len(w) : A[i] <= limiterNow - Window
      /\ \A i \in 1 .. Len(A) - Limit : A[i] + Window <= A[i + Limit]
  BY DEF KeyOK
<1>3. /\ B \in Seq(Nat) /\ Len(B) = Len(A) + 1 /\ B[Len(A) + 1] = limiterNow
      /\ \A i \in 1 .. Len(A) : B[i] = A[i]
      /\ x \in Seq(Nat) /\ Len(x) = Len(w) + 1 /\ x[Len(w) + 1] = limiterNow
      /\ \A i \in 1 .. Len(w) : x[i] = w[i]
      /\ Len(A) \in Nat /\ Len(w) \in Nat
  BY <1>2
<1> HIDE DEF B, x
<1>4. Sorted(B) /\ \A i \in 1 .. Len(B) : B[i] <= limiterNow
  <2>1. ASSUME NEW i \in 1 .. Len(B) PROVE B[i] <= limiterNow
    <3>1. CASE i \in 1 .. Len(A)
      BY <1>2, <1>3, <3>1
    <3>2. CASE i = Len(A) + 1
      BY <1>3, <3>2
    <3> QED BY <1>3, <3>1, <3>2
  <2>2. ASSUME NEW i \in 1 .. Len(B), NEW j \in 1 .. Len(B), i <= j PROVE B[i] <= B[j]
    <3>1. CASE j = Len(A) + 1
      BY <1>3, <2>1, <3>1
    <3>2. CASE j # Len(A) + 1
      <4>1. i \in 1 .. Len(A) /\ j \in 1 .. Len(A)
        BY <1>3, <2>2, <3>2
      <4> QED BY <1>2, <1>3, <2>2, <4>1 DEF Sorted
    <3> QED BY <3>1, <3>2
  <2> QED BY <2>1, <2>2 DEF Sorted
<1>5. Len(x) <= Len(B) /\ Len(x) <= Limit /\ Len(B) - Len(x) = Len(A) - Len(w)
  BY <1>1, <1>2, <1>3
<1>6. ASSUME NEW i \in 1 .. Len(x) PROVE x[i] = B[(Len(B) - Len(x)) + i]
  <2>1. CASE i \in 1 .. Len(w)
    <3>1. (Len(A) - Len(w)) + i \in 1 .. Len(A)
      BY <1>2, <1>3, <2>1
    <3> QED BY <1>2, <1>3, <1>5, <2>1, <3>1
  <2>2. CASE i = Len(w) + 1
    <3>1. (Len(B) - Len(x)) + i = Len(A) + 1
      BY <1>3, <1>5, <2>2
    <3> QED BY <1>3, <2>2, <3>1
  <2> QED BY <1>3, <2>1, <2>2
<1>7. ASSUME NEW i \in 1 .. Len(B) - Len(x) PROVE B[i] <= limiterNow - Window
  <2>1. i \in 1 .. Len(A) - Len(w) /\ i \in 1 .. Len(A)
    BY <1>3, <1>5
  <2> QED BY <1>2, <1>3, <2>1
<1>8. ASSUME NEW i \in 1 .. Len(B) - Limit PROVE B[i] + Window <= B[i + Limit]
  <2>1. CASE i + Limit <= Len(A)
    <3>1. i \in 1 .. Len(A) - Limit /\ i \in 1 .. Len(A) /\ i + Limit \in 1 .. Len(A)
      BY <1>1, <1>3, <2>1
    <3> QED BY <1>2, <1>3, <3>1
  <2>2. CASE i + Limit > Len(A)
    <3>0. Len(A) \in Nat /\ Len(w) \in Nat /\ Len(B) = Len(A) + 1 /\ Len(w) < Limit
      BY <1>3
    <3>1. i + Limit = Len(A) + 1 /\ i \in 1 .. Len(A) - Len(w) /\ i \in 1 .. Len(A)
      BY <1>1, <2>2, <3>0
    <3>2. B[i] = A[i] /\ A[i] <= limiterNow - Window /\ A[i] \in Nat
      <4>1. B[i] = A[i]
        BY <1>3, <3>1
      <4>2. A[i] <= limiterNow - Window
        BY <1>2, <3>1
      <4>3. A \in Seq(Nat)
        BY <1>2
      <4>4. A[i] \in Nat
        BY <3>1, <4>3
      <4> QED BY <4>1, <4>2, <4>4
    <3>3. B[i + Limit] = limiterNow
      BY <1>3, <3>1
    <3> QED BY <1>1, <3>2, <3>3
  <2> QED BY <1>1, <1>3, <2>1, <2>2
<1> QED BY <1>3, <1>4, <1>5, <1>6, <1>7, <1>8 DEF KeyOK, B, x

\* Check keeps the invariant of the limiter.
LEMMA CheckKeepsLimiterInv ==
  ASSUME Limiter!LimiterAssumption, LimiterInv, NEW k \in Keys, Limiter!Check(k)
  PROVE  LimiterInv'
<1> DEFINE w == Limiter!InWindow(hits[k])
<1>1. \/ /\ Len(w) >= Limit
         /\ hits' = [hits EXCEPT ![k] = w]
         /\ advice' = [advice EXCEPT ![k] = limiterNow + Limiter!RetryAfter(w) * Second]
         /\ UNCHANGED <<limiterNow, allowed>>
      \/ /\ Len(w) < Limit
         /\ hits' = [hits EXCEPT ![k] = Append(w, limiterNow)]
         /\ allowed' = [allowed EXCEPT ![k] = Append(@, limiterNow)]
         /\ advice' = [advice EXCEPT ![k] = NULL]
         /\ UNCHANGED limiterNow
  BY DEF Limiter!Check
<1>2. KeyOK(limiterNow, allowed[k], hits[k], advice[k]) /\ limiterNow \in Nat
  BY DEF LimiterInv
<1>3. KeyOK(limiterNow, allowed[k], w, NULL) /\ \A i \in 1 .. Len(w) : w[i] > limiterNow - Window
  BY <1>2, PrunedIsOK
<1> HIDE DEF w
<1>4. /\ limiterNow' = limiterNow
      /\ hits' = [j \in Keys |-> hits'[j]] /\ allowed' = [j \in Keys |-> allowed'[j]]
      /\ advice' = [j \in Keys |-> advice'[j]]
      /\ \A j \in Keys \ {k} : hits'[j] = hits[j] /\ allowed'[j] = allowed[j]
           /\ advice'[j] = advice[j]
  BY <1>1 DEF LimiterInv
<1>5. KeyOK(limiterNow, allowed'[k], hits'[k], advice'[k])
  <2>1. CASE Len(w) >= Limit /\ hits'[k] = w /\ advice'[k] = limiterNow + Limiter!RetryAfter(w) * Second
             /\ allowed'[k] = allowed[k]
    BY <1>2, <1>3, <2>1, RefusalIsOK
  <2>2. CASE Len(w) < Limit /\ hits'[k] = Append(w, limiterNow) /\ advice'[k] = NULL
             /\ allowed'[k] = Append(allowed[k], limiterNow)
    BY <1>2, <1>3, <2>2, AdmissionIsOK
  <2> QED BY <1>1, <2>1, <2>2 DEF LimiterInv
<1>6. \A j \in Keys : KeyOK(limiterNow, allowed'[j], hits'[j], advice'[j])
  BY <1>4, <1>5 DEF LimiterInv
<1> QED BY <1>2, <1>4, <1>6 DEF LimiterInv

\* The invariant of the limiter.
THEOREM LimiterInvariance ==
  ASSUME Limiter!LimiterAssumption
  PROVE  Limiter!Spec => []LimiterInv
<1>1. Window \in Nat /\ Limit \in Nat
  BY LimiterConstants
<1>2. \A n \in Nat : KeyOK(n, <<>>, <<>>, NULL)
  BY <1>1 DEF KeyOK, Sorted
<1>3. Limiter!Init => LimiterInv
  BY <1>2 DEF Limiter!Init, LimiterInv
<1>4. LimiterInv /\ [Limiter!Next]_Limiter!vars => LimiterInv'
  <2> SUFFICES ASSUME LimiterInv, [Limiter!Next]_Limiter!vars PROVE LimiterInv'
    OBVIOUS
  <2>1. CASE Limiter!Tick
    <3>1. limiterNow' = limiterNow + 1 /\ limiterNow \in Nat /\ UNCHANGED <<hits, allowed, advice>>
      BY <2>1 DEF Limiter!Tick, LimiterInv
    <3>2. \A k \in Keys : KeyOK(limiterNow + 1, allowed[k], hits[k], advice[k])
      BY <3>1, LaterIsOK DEF LimiterInv
    <3> QED BY <3>1, <3>2 DEF LimiterInv
  <2>2. ASSUME NEW k \in Keys, Limiter!Check(k) PROVE LimiterInv'
    BY <2>2, CheckKeepsLimiterInv
  <2>3. ASSUME NEW k \in Keys, Limiter!Reset(k) PROVE LimiterInv'
    BY <1>2, <2>3 DEF Limiter!Reset, LimiterInv
  <2>4. CASE UNCHANGED Limiter!vars
    BY <2>4 DEF Limiter!vars, LimiterInv
  <2> QED BY <2>1, <2>2, <2>3, <2>4 DEF Limiter!Next
<1> QED BY <1>3, <1>4, PTL DEF Limiter!Spec

\* A call and the one Limit places later are a window apart, so no window holds
\* more than Limit of them.
LEMMA SpacedCallsFit ==
  ASSUME Limiter!LimiterAssumption, NEW n \in Nat, NEW A, NEW H, NEW v, KeyOK(n, A, H, v),
         NEW t \in Nat
  PROVE  Cardinality({i \in DOMAIN A : A[i] \in t .. (t + Window - 1)}) <= Limit
<1> DEFINE I == {i \in DOMAIN A : A[i] \in t .. (t + Window - 1)}
<1>1. Limit \in Nat \ {0} /\ Window \in Nat \ {0}
  BY LimiterConstants
<1>2. /\ A \in Seq(Nat) /\ Sorted(A)
      /\ \A i \in 1 .. Len(A) - Limit : A[i] + Window <= A[i + Limit]
  BY DEF KeyOK
<1>3. CASE I = {}
  <2>1. Cardinality(I) = 0
    BY <1>3, FS_EmptySet
  <2> QED BY <1>1, <2>1
<1>4. CASE I # {}
  <2>1. I \in SUBSET Nat
    BY <1>2
  <2>2. PICK a \in I : \A i \in I : a <= i
    BY <1>4, <2>1, LeastMember
  <2>3. ASSUME NEW i \in I PROVE i \in a .. (a + Limit - 1)
    <3>1. /\ a \in 1 .. Len(A) /\ i \in 1 .. Len(A) /\ a <= i /\ Len(A) \in Nat
          /\ A[a] \in Nat /\ A[i] \in Nat /\ A[a] >= t /\ A[i] <= t + Window - 1
      BY <1>1, <1>2, <2>2
    <3>2. CASE i >= a + Limit
      <4>1. a \in 1 .. Len(A) - Limit /\ a + Limit \in 1 .. Len(A) /\ a + Limit <= i
        BY <1>1, <3>1, <3>2
      <4>2. A[a] + Window <= A[a + Limit] /\ A[a + Limit] <= A[i] /\ A[a + Limit] \in Nat
        BY <1>2, <3>1, <4>1 DEF Sorted
      <4> QED BY <1>1, <3>1, <4>2
    <3>3. CASE i < a + Limit
      BY <1>1, <3>1, <3>3
    <3> QED BY <1>1, <3>1, <3>2, <3>3
  <2> HIDE DEF I
  <2>4. a \in Nat
    BY <2>1, <2>2
  <2>5. /\ IsFiniteSet(a .. (a + Limit - 1))
        /\ Cardinality(a .. (a + Limit - 1)) = Limit
    BY <1>1, <2>4, FS_Interval
  <2>6. I \subseteq a .. (a + Limit - 1)
    BY <2>3
  <2>7. Cardinality(I) <= Cardinality(a .. (a + Limit - 1))
    BY <2>5, <2>6, FS_Subset
  <2>8. Cardinality(I) <= Limit
    BY <2>5, <2>7
  <2> QED BY <2>8 DEF I
<1> QED BY <1>3, <1>4

\* For every limit and window: no window, wherever it begins, lets through more
\* calls of a key than the limit; a caller that waits as long as the refusal said
\* is let through, and one that comes back a second earlier is not.
THEOREM LimiterExact ==
  ASSUME Limiter!LimiterAssumption
  PROVE  Limiter!Spec => []Limiter!LimiterIsExact
<1>1. LimiterInv => Limiter!LimiterIsExact
  <2> SUFFICES ASSUME LimiterInv PROVE Limiter!LimiterIsExact
    OBVIOUS
  <2>0. /\ Limit \in Nat \ {0} /\ Window \in Nat \ {0} /\ Second \in Nat \ {0} /\ NULL \notin Nat
        /\ limiterNow \in Nat
    BY LimiterConstants DEF LimiterInv
  <2>1. Limiter!NeverOverLimit
    <3> SUFFICES ASSUME NEW k \in Keys, NEW t \in 0 .. LimiterTime
                 PROVE  Limiter!Cardinality({i \in DOMAIN allowed[k] :
                                               allowed[k][i] \in t .. (t + Window - 1)}) <= Limit
      BY DEF Limiter!NeverOverLimit
    <3>1. \A S : Limiter!Cardinality(S) = Cardinality(S)
      BY DEF Limiter!Cardinality, Cardinality
    <3>2. KeyOK(limiterNow, allowed[k], hits[k], advice[k]) /\ t \in Nat
      BY DEF LimiterInv, Limiter!LimiterAssumption
    <3> QED BY <2>0, <3>1, <3>2, SpacedCallsFit
  <2>2. ASSUME NEW k \in Keys, advice[k] # NULL
        PROVE  /\ limiterNow >= advice[k] => Len(Limiter!InWindow(hits[k])) < Limit
               /\ limiterNow + Second <= advice[k] => Len(Limiter!InWindow(hits[k])) >= Limit
    <3> DEFINE H == hits[k]
    <3>1. KeyOK(limiterNow, allowed[k], H, advice[k])
      BY DEF LimiterInv
    <3>2. /\ H \in Seq(Nat) /\ Len(H) = Limit /\ advice[k] \in Int
          /\ H[1] + Window <= advice[k] /\ advice[k] < H[1] + Window + Second
      BY <2>2, <3>1 DEF KeyOK
    <3>3. Sorted(H)
      BY <2>0, <3>1, TableIsSorted
    <3> HIDE DEF H
    <3>4. PICK d \in 0 .. Len(H) :
            /\ Len(Limiter!InWindow(H)) = Len(H) - d
            /\ \A i \in 1 .. Len(H) - d : H[d + i] > limiterNow - Window
            /\ \A i \in 1 .. d : H[i] <= limiterNow - Window
      BY <2>0, <3>2, <3>3, InWindowFacts
    <3>5. H[1] \in Nat /\ Len(H) \in Nat \ {0}
      BY <2>0, <3>2
    <3>6. CASE d = 0
      <4>1. H[1] > limiterNow - Window
        <5>1. 1 \in 1 .. Len(H) - d /\ d + 1 = 1
          BY <3>5, <3>6
        <5> QED BY <3>4, <5>1
      <4> QED BY <2>0, <3>2, <3>4, <3>5, <3>6, <4>1 DEF H
    <3>7. CASE d > 0
      <4>1. 1 \in 1 .. d
        BY <3>7
      <4>2. H[1] <= limiterNow - Window
        BY <3>4, <4>1
      <4> QED BY <2>0, <3>2, <3>4, <3>5, <3>7, <4>2 DEF H
    <3> QED BY <3>4, <3>6, <3>7
  <2> QED BY <2>1, <2>2 DEF Limiter!LimiterIsExact, Limiter!AdviceIsEnough, Limiter!AdviceIsNeeded
<1> QED BY <1>1, LimiterInvariance, PTL

----------------------------------------------------------------------------
(* The live feed.                                                          *)

FeedTypes ==
  /\ log \in [Topics -> Seq({"event", "poison"})]
  /\ \A t \in Topics : Len(log[t]) <= FeedLen
  /\ tickets \in Nat /\ valid \subseteq 1 .. tickets
  /\ page \in Feed!Pages /\ socket \in {"none", "loop", "send"}
  /\ (socket = "none") <=> (page # "open")
  /\ inbox \in Seq(SUBSET Wanted)
  /\ topics \subseteq Wanted \cap Permitted
  /\ cursors \in [Topics -> Nat \cup {NULL}]
  /\ base \in [Topics -> Nat \cup {NULL}]
  /\ out \in Seq(Topics \X Nat) /\ frames \subseteq Topics \X Nat

\* Nothing is left to send where the loop reads, and a page without a socket has
\* nothing of one.
FeedPlaces ==
  /\ socket # "send" => out = <<>>
  /\ socket = "none" => frames = {} /\ topics = {} /\ \A t \in Topics : cursors[t] = NULL

Cursors ==
  \A t \in Topics : cursors[t] # NULL =>
    base[t] \in Nat /\ base[t] <= cursors[t] /\ cursors[t] <= Len(log[t])

\* What was sent or is to be sent is not beyond the cursor of its topic.
Behind(f) == cursors[f[1]] # NULL /\ 1 <= f[2] /\ f[2] <= cursors[f[1]]
BehindCursor == (\A f \in frames : Behind(f)) /\ \A k \in 1 .. Len(out) : Behind(out[k])

SocketInv == Cursors /\ BehindCursor /\ Feed!InOrderOnce /\ Feed!NoHole
FeedInv == FeedTypes /\ FeedPlaces /\ SocketInv

\* The socket's part is kept by the steps of the page.
LEMMA SocketUntouched ==
  ASSUME FeedTypes, SocketInv, UNCHANGED <<log, cursors, base, out, frames>>
  PROVE  SocketInv'
BY DEF SocketInv, Cursors, BehindCursor, Behind, Feed!InOrderOnce, Feed!NoHole

\* A page that has no socket, or has lost it.
LEMMA NoSocketKeepsFeedInv ==
  ASSUME FeedInv, Feed!NoSocket, page' \in Feed!Pages \ {"open"},
         UNCHANGED <<log, tickets, valid>>
  PROVE  FeedInv'
<1>1. /\ socket' = "none" /\ inbox' = <<>> /\ topics' = {} /\ out' = <<>> /\ frames' = {}
      /\ cursors' = [t \in Topics |-> NULL] /\ base' = [t \in Topics |-> NULL]
  BY DEF Feed!NoSocket
<1>2. FeedTypes'
  BY <1>1 DEF FeedInv, FeedTypes, Feed!Pages
<1>3. FeedPlaces'
  BY <1>1 DEF FeedPlaces
<1>4. Len(out') = 0 /\ DOMAIN out' = {}
  BY <1>1
<1>5. Cursors' /\ BehindCursor' /\ Feed!InOrderOnce' /\ Feed!NoHole'
  BY <1>1, <1>4 DEF Cursors, BehindCursor, Feed!InOrderOnce, Feed!NoHole
<1> QED BY <1>2, <1>3, <1>5 DEF FeedInv, SocketInv

\* The steps of the page that leave the socket alone.
LEMMA PageKeepsFeedInv ==
  ASSUME FeedInv, UNCHANGED <<log, socket, inbox, topics, cursors, out, frames, base>>,
         page' \in Feed!Pages, (page = "open") <=> (page' = "open"),
         tickets' \in Nat, valid' \subseteq 1 .. tickets'
  PROVE  FeedInv'
<1>1. FeedTypes'
  BY DEF FeedInv, FeedTypes
<1>2. FeedPlaces'
  BY DEF FeedInv, FeedPlaces
<1>3. SocketInv'
  BY SocketUntouched DEF FeedInv
<1> QED BY <1>1, <1>2, <1>3 DEF FeedInv

\* An entry is appended to a stream: what was there keeps its id.
LEMMA PublishKeepsFeedInv ==
  ASSUME FeedInv, Feed!LiveAssumption, NEW t \in Topics, NEW e \in {"event", "poison"},
         Feed!Publish(t, e)
  PROVE  FeedInv'
<1>1. /\ Len(log[t]) < FeedLen /\ log' = [log EXCEPT ![t] = Append(log[t], e)]
      /\ UNCHANGED <<valid, tickets, page, socket, inbox, topics, cursors, out, frames, base>>
  BY DEF Feed!Publish, Feed!server
<1>2. log \in [Topics -> Seq({"event", "poison"})]
  BY DEF FeedInv, FeedTypes
<1>3. /\ log[t] \in Seq({"event", "poison"})
      /\ Append(log[t], e) \in Seq({"event", "poison"})
      /\ Len(Append(log[t], e)) = Len(log[t]) + 1
      /\ \A i \in 1 .. Len(log[t]) : Append(log[t], e)[i] = log[t][i]
  BY <1>2
<1>4. /\ log' \in [Topics -> Seq({"event", "poison"})]
      /\ \A u \in Topics : /\ Len(log[u]) <= Len(log'[u])
                           /\ \A i \in 1 .. Len(log[u]) : log'[u][i] = log[u][i]
      /\ \A u \in Topics : u # t => log'[u] = log[u]
      /\ Len(log'[t]) = Len(log[t]) + 1
  BY <1>1, <1>2, <1>3
<1>5. \A u \in Topics : Len(log'[u]) <= FeedLen
  <2> TAKE u \in Topics
  <2>1. Len(log[u]) <= FeedLen /\ Len(log[u]) \in Nat
    BY <1>2 DEF FeedInv, FeedTypes
  <2> QED BY <1>1, <1>4, <2>1 DEF Feed!LiveAssumption
<1>6. FeedTypes'
  BY <1>1, <1>4, <1>5 DEF FeedInv, FeedTypes
<1>7. FeedPlaces'
  BY <1>1 DEF FeedInv, FeedPlaces
<1>8. \A u \in Topics : cursors[u] # NULL =>
        cursors[u] \in Nat /\ base[u] \in Nat /\ base[u] <= cursors[u] /\ cursors[u] <= Len(log[u])
  BY DEF FeedInv, FeedTypes, SocketInv, Cursors
<1>9. Cursors'
  <2> SUFFICES ASSUME NEW u \in Topics, cursors[u] # NULL
               PROVE  base[u] \in Nat /\ base[u] <= cursors[u] /\ cursors[u] <= Len(log'[u])
    BY <1>1 DEF Cursors
  <2>1. Len(log[u]) \in Nat /\ Len(log'[u]) \in Nat
    BY <1>2, <1>4
  <2> QED BY <1>4, <1>8, <2>1
<1>10. BehindCursor' /\ Feed!InOrderOnce'
  BY <1>1 DEF FeedInv, SocketInv, BehindCursor, Behind, Feed!InOrderOnce
<1>11. Feed!NoHole'
  <2> SUFFICES ASSUME NEW u \in Topics, cursors[u] # NULL, NEW i \in base[u] + 1 .. cursors[u],
                      log'[u][i] = "event"
               PROVE  <<u, i>> \in frames \/ \E k \in DOMAIN out : out[k] = <<u, i>>
    BY <1>1 DEF Feed!NoHole
  <2>1. Len(log[u]) \in Nat
    BY <1>2
  <2>2. i \in 1 .. Len(log[u])
    BY <1>8, <2>1
  <2> QED BY <1>4, <2>2 DEF FeedInv, SocketInv, Feed!NoHole
<1> QED BY <1>6, <1>7, <1>9, <1>10, <1>11 DEF FeedInv, SocketInv

\* A socket opens: it starts from nothing.
LEMMA AcceptKeepsFeedInv ==
  ASSUME FeedInv, Feed!Accept
  PROVE  FeedInv'
<1>1. /\ page = "opening" /\ page' = "open" /\ socket' = "loop" /\ valid' = valid \ {held}
      /\ inbox' = <<Wanted>>
      /\ UNCHANGED <<log, tickets, topics, cursors, out, frames, base>>
  BY DEF Feed!Accept
<1>2. socket = "none"
  BY <1>1 DEF FeedInv, FeedTypes
<1>3. <<Wanted>> \in Seq(SUBSET Wanted)
  OBVIOUS
<1>4. FeedTypes'
  BY <1>1, <1>3 DEF FeedInv, FeedTypes, Feed!Pages
<1>5. FeedPlaces'
  BY <1>1, <1>2 DEF FeedInv, FeedPlaces
<1>6. SocketInv'
  BY <1>1, SocketUntouched DEF FeedInv
<1> QED BY <1>4, <1>5, <1>6 DEF FeedInv

\* A topic gets its first cursor, anywhere in its stream: nothing of it was sent
\* on this socket.
LEMMA BaselineKeepsFeedInv ==
  ASSUME FeedInv, NEW t \in topics, NEW n \in Nat, n <= Len(log[t]), Feed!LiveAssumption,
         socket = "loop", cursors[t] = NULL,
         cursors' = [cursors EXCEPT ![t] = n], base' = [base EXCEPT ![t] = n],
         UNCHANGED <<log, valid, tickets, page, socket, inbox, topics, out, frames>>
  PROVE  FeedInv'
<1>1. t \in Topics
  BY DEF FeedInv, FeedTypes, Feed!LiveAssumption
<1>2. /\ cursors' \in [Topics -> Nat \cup {NULL}] /\ base' \in [Topics -> Nat \cup {NULL}]
      /\ cursors'[t] = n /\ base'[t] = n
      /\ \A u \in Topics : u # t => cursors'[u] = cursors[u] /\ base'[u] = base[u]
  BY <1>1 DEF FeedInv, FeedTypes
<1>3. FeedTypes'
  BY <1>2 DEF FeedInv, FeedTypes
<1>4. FeedPlaces'
  BY DEF FeedInv, FeedPlaces
<1>5. Cursors'
  BY <1>2 DEF FeedInv, SocketInv, Cursors
<1>6. out = <<>>
  BY DEF FeedInv, FeedPlaces
<1>7. BehindCursor'
  <2>1. \A f \in frames : f[1] \in Topics /\ f[1] # t /\ Behind(f)
    BY DEF FeedInv, FeedTypes, SocketInv, BehindCursor, Behind
  <2> QED BY <1>2, <1>6, <2>1 DEF BehindCursor, Behind
<1>8. Feed!InOrderOnce'
  BY DEF FeedInv, SocketInv, Feed!InOrderOnce
<1>9. Feed!NoHole'
  <2> SUFFICES ASSUME NEW u \in Topics, cursors'[u] # NULL, NEW i \in base'[u] + 1 .. cursors'[u],
                      log[u][i] = "event"
               PROVE  <<u, i>> \in frames \/ \E k \in DOMAIN out : out[k] = <<u, i>>
    BY DEF Feed!NoHole
  <2>1. u # t
    BY <1>2
  <2> QED BY <1>2, <2>1 DEF FeedInv, SocketInv, Feed!NoHole
<1> QED BY <1>3, <1>4, <1>5, <1>7, <1>8, <1>9 DEF FeedInv, SocketInv

\* The loop goes on between two reads, with what it knows of the streams.
LEMMA LoopKeepsFeedInv ==
  ASSUME FeedInv, UNCHANGED <<log, valid, tickets, page, cursors, base, out, frames>>,
         socket # "none", socket' \in {"loop", "send"}, socket' = "send" \/ out = <<>>,
         inbox' \in Seq(SUBSET Wanted), topics' \subseteq Wanted \cap Permitted
  PROVE  FeedInv'
<1>1. FeedTypes'
  BY DEF FeedInv, FeedTypes
<1>2. FeedPlaces'
  BY DEF FeedInv, FeedPlaces
<1>3. SocketInv'
  BY SocketUntouched DEF FeedInv
<1> QED BY <1>1, <1>2, <1>3 DEF FeedInv

\* A frame moves from the server's list to the page.
LEMMA SendKeepsFeedInv ==
  ASSUME FeedInv, Feed!Send
  PROVE  FeedInv'
<1>1. /\ socket = "send" /\ out # <<>> /\ out' = Tail(out) /\ frames' = frames \cup {out[1]}
      /\ UNCHANGED <<log, valid, tickets, page, socket, inbox, topics, cursors, base>>
  BY DEF Feed!Send
<1>2. out \in Seq(Topics \X Nat)
  BY DEF FeedInv, FeedTypes
<1>3. /\ Len(out) \in Nat \ {0} /\ Len(Tail(out)) = Len(out) - 1
      /\ Tail(out) \in Seq(Topics \X Nat) /\ out[1] \in Topics \X Nat
      /\ \A k \in 1 .. Len(out) - 1 : Tail(out)[k] = out[k + 1]
      /\ DOMAIN out = 1 .. Len(out) /\ DOMAIN Tail(out) = 1 .. Len(out) - 1
  BY <1>1, <1>2
<1>4. FeedTypes'
  BY <1>1, <1>3 DEF FeedInv, FeedTypes
<1>5. FeedPlaces'
  BY <1>1 DEF FeedPlaces
<1>6. Cursors'
  BY <1>1 DEF FeedInv, SocketInv, Cursors
<1>7. BehindCursor'
  <2>1. \A k \in 1 .. Len(out) : Behind(out[k])
    BY DEF FeedInv, SocketInv, BehindCursor
  <2>2. \A k \in 1 .. Len(out) - 1 : k + 1 \in 1 .. Len(out)
    BY <1>3
  <2>3. 1 \in 1 .. Len(out)
    BY <1>3
  <2>4. \A f \in frames' : Behind(f)
    BY <1>1, <2>1, <2>3 DEF FeedInv, SocketInv, BehindCursor
  <2>5. \A k \in 1 .. Len(out') : Behind(out'[k])
    BY <1>1, <1>3, <2>1, <2>2
  <2> QED BY <1>1, <2>4, <2>5 DEF BehindCursor, Behind
<1>8. Feed!InOrderOnce'
  <2> SUFFICES ASSUME NEW j \in 1 .. Len(out) - 1
               PROVE  /\ \A i \in 1 .. j - 1 : out'[i][1] = out'[j][1] => out'[i][2] < out'[j][2]
                      /\ \A f \in frames' : f[1] = out'[j][1] => f[2] < out'[j][2]
    BY <1>1, <1>3 DEF Feed!InOrderOnce
  <2>1. j + 1 \in 1 .. Len(out) /\ out'[j] = out[j + 1]
    BY <1>1, <1>3
  <2>2. /\ \A i \in 1 .. j : out[i][1] = out[j + 1][1] => out[i][2] < out[j + 1][2]
        /\ \A f \in frames : f[1] = out[j + 1][1] => f[2] < out[j + 1][2]
    <3>1. 1 .. (j + 1) - 1 = 1 .. j
      BY <1>3
    <3>2. \A k \in DOMAIN out :
            /\ \A i \in 1 .. k - 1 : out[i][1] = out[k][1] => out[i][2] < out[k][2]
            /\ \A f \in frames : f[1] = out[k][1] => f[2] < out[k][2]
      BY DEF FeedInv, SocketInv, Feed!InOrderOnce
    <3>3. j + 1 \in DOMAIN out
      BY <1>3, <2>1
    <3> QED BY <3>1, <3>2, <3>3
  <2>3. ASSUME NEW i \in 1 .. j - 1
        PROVE  out'[i][1] = out'[j][1] => out'[i][2] < out'[j][2]
    <3>1. i \in 1 .. Len(out) - 1 /\ i + 1 \in 1 .. j
      BY <1>3
    <3>2. out'[i] = out[i + 1]
      BY <1>1, <1>3, <3>1
    <3> QED BY <2>1, <2>2, <3>1, <3>2
  <2>4. 1 \in 1 .. j
    BY <1>3
  <2>5. ASSUME NEW f \in frames', f[1] = out'[j][1] PROVE f[2] < out'[j][2]
    BY <1>1, <2>1, <2>2, <2>4, <2>5
  <2> QED BY <2>3, <2>5
<1>9. Feed!NoHole'
  <2> SUFFICES ASSUME NEW t \in Topics, cursors[t] # NULL, NEW i \in base[t] + 1 .. cursors[t],
                      log[t][i] = "event"
               PROVE  <<t, i>> \in frames' \/ \E k \in DOMAIN out' : out'[k] = <<t, i>>
    BY <1>1 DEF Feed!NoHole
  <2>1. CASE <<t, i>> \in frames
    BY <1>1, <2>1
  <2>2. ASSUME NEW k \in DOMAIN out, out[k] = <<t, i>>
        PROVE  <<t, i>> \in frames' \/ \E j \in DOMAIN out' : out'[j] = <<t, i>>
    <3>1. CASE k = 1
      BY <1>1, <2>2, <3>1
    <3>2. CASE k # 1
      <4>1. k - 1 \in 1 .. Len(out) - 1 /\ (k - 1) + 1 = k
        BY <1>3, <3>2
      <4>2. out'[k - 1] = out[k]
        BY <1>1, <1>3, <4>1
      <4> QED BY <1>1, <1>3, <2>2, <4>1, <4>2
    <3> QED BY <3>1, <3>2
  <2> QED BY <2>1, <2>2 DEF FeedInv, SocketInv, Feed!NoHole
<1> QED BY <1>4, <1>5, <1>6, <1>7, <1>8, <1>9 DEF FeedInv, SocketInv

\* One XREAD returns entries after the cursor and up to the new one.
LEMMA UpToFacts ==
  ASSUME FeedInv, Feed!LiveAssumption, NEW t \in Topics, cursors[t] # NULL
  PROVE  /\ cursors[t] \in Nat /\ Feed!UpTo(t) \in Nat
         /\ cursors[t] <= Feed!UpTo(t) /\ Feed!UpTo(t) <= Len(log[t])
<1>1. cursors[t] \in Nat /\ cursors[t] <= Len(log[t]) /\ Len(log[t]) \in Nat
  BY DEF FeedInv, FeedTypes, SocketInv, Cursors
<1>2. Count \in Nat
  BY DEF Feed!LiveAssumption
<1> QED BY <1>1, <1>2 DEF Feed!UpTo, Feed!Head0

\* The frames of a read are those of the entries between the cursors that decode,
\* and they are finitely many.
LEMMA FramesFacts ==
  ASSUME FeedInv, Feed!LiveAssumption, Feed!Unbased = {}
  PROVE  /\ \A f \in Feed!Frames :
              /\ f \in Topics \X Nat /\ f[1] \in topics
              /\ cursors[f[1]] < f[2] /\ f[2] <= Feed!UpTo(f[1])
         /\ \A t \in topics : \A i \in cursors[t] + 1 .. Feed!UpTo(t) :
              log[t][i] = "event" => <<t, i>> \in Feed!Frames
         /\ IsFiniteSet(Feed!Frames)
<1>1. \A t \in topics : t \in Topics /\ cursors[t] # NULL
  BY DEF Feed!Unbased, FeedInv, FeedTypes, Feed!LiveAssumption
<1>2. ASSUME NEW f \in Feed!Frames
      PROVE  /\ f \in Topics \X Nat /\ f[1] \in topics
             /\ cursors[f[1]] < f[2] /\ f[2] <= Feed!UpTo(f[1])
             /\ f \in Topics \X (1 .. FeedLen)
  <2>1. PICK t \in topics : \E i \in Feed!Decoded(t) : f = <<t, i>>
    BY DEF Feed!Frames
  <2>2. PICK i \in cursors[t] + 1 .. Feed!UpTo(t) : f = <<t, i>>
    BY <2>1 DEF Feed!Decoded
  <2>3. /\ cursors[t] \in Nat /\ Feed!UpTo(t) \in Nat
        /\ cursors[t] <= Feed!UpTo(t) /\ Feed!UpTo(t) <= Len(log[t])
    BY <1>1, UpToFacts
  <2>4. Len(log[t]) \in Nat /\ Len(log[t]) <= FeedLen /\ FeedLen \in Nat
    BY <1>1 DEF FeedInv, FeedTypes, Feed!LiveAssumption
  <2>5. i \in Nat /\ cursors[t] < i /\ i <= Feed!UpTo(t) /\ i \in 1 .. FeedLen
    BY <2>3, <2>4
  <2> QED BY <1>1, <2>2, <2>5
<1>3. \A t \in topics : \A i \in cursors[t] + 1 .. Feed!UpTo(t) :
        log[t][i] = "event" => <<t, i>> \in Feed!Frames
  BY DEF Feed!Frames, Feed!Decoded
<1>4. IsFiniteSet(Topics \X (1 .. FeedLen))
  <2>1. IsFiniteSet(1 .. FeedLen)
    BY FS_Interval DEF Feed!LiveAssumption
  <2>2. IsFiniteSet(Topics)
    BY DEF Feed!LiveAssumption, Feed!IsFiniteSet, IsFiniteSet
  <2> QED BY <2>1, <2>2, FS_Product
<1>5. Feed!Frames \subseteq Topics \X (1 .. FeedLen)
  BY <1>2
<1>6. IsFiniteSet(Feed!Frames)
  BY <1>4, <1>5, FS_Subset
<1> QED BY <1>2, <1>3, <1>6

\* A read answers the frames after the cursors, stream by stream in order.
LEMMA ReadKeepsFeedInv ==
  ASSUME FeedInv, Feed!LiveAssumption, Feed!Read
  PROVE  FeedInv'
<1> DEFINE F == Feed!Frames
<1>1. /\ socket = "loop" /\ Feed!Unbased = {} /\ socket' = "send" /\ out' \in Feed!Responses
      /\ cursors' = [t \in Topics |-> IF t \in topics THEN Feed!UpTo(t) ELSE cursors[t]]
      /\ UNCHANGED <<log, valid, tickets, page, inbox, topics, frames, base>>
  BY DEF Feed!Read, Feed!CursorAfter
<1>2. /\ out = <<>> /\ topics \subseteq Topics /\ \A t \in topics : cursors[t] # NULL
  BY <1>1 DEF FeedInv, FeedPlaces, FeedTypes, Feed!LiveAssumption, Feed!Unbased
<1>3. /\ \A f \in F : /\ f \in Topics \X Nat /\ f[1] \in topics
                      /\ cursors[f[1]] < f[2] /\ f[2] <= Feed!UpTo(f[1])
      /\ \A t \in topics : \A i \in cursors[t] + 1 .. Feed!UpTo(t) :
           log[t][i] = "event" => <<t, i>> \in F
      /\ IsFiniteSet(F)
  BY <1>1, FramesFacts
<1>4. /\ Feed!Cardinality(F) = Cardinality(F) /\ Cardinality(F) \in Nat
  BY <1>3, FS_CardinalityType DEF Feed!Cardinality, Cardinality
<1> HIDE DEF F
<1>5. /\ out' \in [1 .. Cardinality(F) -> F]
      /\ \A f \in F : \E k \in DOMAIN out' : out'[k] = f
      /\ \A j, k \in DOMAIN out' : j < k /\ out'[j][1] = out'[k][1] => out'[j][2] < out'[k][2]
  BY <1>1, <1>4 DEF Feed!Responses, F
<1>6. /\ out' \in Seq(F) /\ Len(out') = Cardinality(F) /\ DOMAIN out' = 1 .. Len(out')
      /\ \A k \in 1 .. Len(out') : out'[k] \in F
  BY <1>4, <1>5
<1>7. \A t \in topics :
        /\ cursors[t] \in Nat /\ cursors'[t] = Feed!UpTo(t) /\ Feed!UpTo(t) \in Nat
        /\ cursors[t] <= Feed!UpTo(t) /\ Feed!UpTo(t) <= Len(log[t])
  BY <1>1, <1>2, UpToFacts
<1>8. /\ cursors' \in [Topics -> Nat \cup {NULL}]
      /\ \A t \in Topics : t \notin topics => cursors'[t] = cursors[t]
      /\ NULL \notin Nat
  <2>1. \A t \in Topics : cursors[t] \in Nat \cup {NULL}
    BY DEF FeedInv, FeedTypes
  <2>2. \A t \in Topics : (IF t \in topics THEN Feed!UpTo(t) ELSE cursors[t]) \in Nat \cup {NULL}
    BY <1>7, <2>1
  <2>3. NULL \notin Nat
    BY DEF Feed!LiveAssumption
  <2> QED BY <1>1, <2>2, <2>3
<1>9. FeedTypes'
  <2>1. out' \in Seq(Topics \X Nat)
    BY <1>3, <1>6
  <2> QED BY <1>1, <1>8, <2>1 DEF FeedInv, FeedTypes
<1>10. FeedPlaces'
  BY <1>1 DEF FeedPlaces
<1>11. Cursors'
  <2> SUFFICES ASSUME NEW t \in Topics, cursors'[t] # NULL
               PROVE  base[t] \in Nat /\ base[t] <= cursors'[t] /\ cursors'[t] <= Len(log[t])
    BY <1>1 DEF Cursors
  <2>1. CASE t \in topics
    <3>1. base[t] \in Nat /\ base[t] <= cursors[t]
      BY <1>2, <2>1 DEF FeedInv, SocketInv, Cursors
    <3> QED BY <1>7, <2>1, <3>1
  <2>2. CASE t \notin topics
    BY <1>8, <2>2 DEF FeedInv, SocketInv, Cursors
  <2> QED BY <2>1, <2>2
<1>12. ASSUME NEW f \in frames
       PROVE  cursors'[f[1]] # NULL /\ 1 <= f[2] /\ f[2] <= cursors'[f[1]] /\ f[2] <= cursors[f[1]]
  <2>1. f \in Topics \X Nat /\ Behind(f)
    BY DEF FeedInv, FeedTypes, SocketInv, BehindCursor
  <2>2. f[1] \in Topics /\ f[2] \in Nat /\ cursors[f[1]] # NULL /\ 1 <= f[2]
          /\ f[2] <= cursors[f[1]]
    BY <2>1 DEF Behind
  <2>3. CASE f[1] \in topics
    BY <1>7, <1>8, <2>2, <2>3
  <2>4. CASE f[1] \notin topics
    BY <1>8, <2>2, <2>4
  <2> QED BY <2>3, <2>4
<1>13. ASSUME NEW k \in 1 .. Len(out')
       PROVE  cursors'[out'[k][1]] # NULL /\ 1 <= out'[k][2] /\ out'[k][2] <= cursors'[out'[k][1]]
  <2>1. out'[k] \in F
    BY <1>6
  <2>2. /\ out'[k][2] \in Nat /\ out'[k][1] \in topics
        /\ cursors[out'[k][1]] < out'[k][2] /\ out'[k][2] <= Feed!UpTo(out'[k][1])
    BY <1>3, <2>1
  <2> QED BY <1>7, <1>8, <2>2
<1>14. BehindCursor'
  BY <1>1, <1>12, <1>13 DEF BehindCursor, Behind
<1>15. Feed!InOrderOnce'
  <2> SUFFICES ASSUME NEW j \in 1 .. Len(out')
               PROVE  /\ \A i \in 1 .. j - 1 : out'[i][1] = out'[j][1] => out'[i][2] < out'[j][2]
                      /\ \A f \in frames : f[1] = out'[j][1] => f[2] < out'[j][2]
    BY <1>1, <1>6 DEF Feed!InOrderOnce
  <2>1. \A i \in 1 .. j - 1 : i \in 1 .. Len(out') /\ i < j
    BY <1>4, <1>6
  <2>2. /\ out'[j][2] \in Nat /\ out'[j][1] \in topics /\ cursors[out'[j][1]] < out'[j][2]
    BY <1>3, <1>6
  <2>3. ASSUME NEW f \in frames, f[1] = out'[j][1] PROVE f[2] < out'[j][2]
    <3>1. f[2] \in Nat /\ f[2] <= cursors[f[1]] /\ cursors[f[1]] \in Nat
      BY <1>7, <1>12, <2>2, <2>3 DEF FeedInv, FeedTypes
    <3> QED BY <2>2, <2>3, <3>1
  <2> QED BY <1>5, <1>6, <2>1, <2>3
<1>16. Feed!NoHole'
  <2> SUFFICES ASSUME NEW t \in Topics, cursors'[t] # NULL, NEW i \in base[t] + 1 .. cursors'[t],
                      log[t][i] = "event"
               PROVE  <<t, i>> \in frames \/ \E k \in DOMAIN out' : out'[k] = <<t, i>>
    BY <1>1 DEF Feed!NoHole
  <2>1. DOMAIN out = {}
    BY <1>2
  <2>2. CASE cursors[t] # NULL /\ i \in base[t] + 1 .. cursors[t]
    BY <2>1, <2>2 DEF FeedInv, SocketInv, Feed!NoHole
  <2>3. CASE t \notin topics
    <3>1. cursors'[t] = cursors[t]
      BY <1>8, <2>3
    <3> QED BY <2>2, <3>1
  <2>4. CASE t \in topics /\ i \notin base[t] + 1 .. cursors[t]
    <3>1. base[t] \in Nat /\ cursors[t] \in Nat /\ cursors'[t] = Feed!UpTo(t)
            /\ Feed!UpTo(t) \in Nat
      BY <1>2, <1>7, <2>4 DEF FeedInv, SocketInv, Cursors
    <3>2. i \in cursors[t] + 1 .. Feed!UpTo(t)
      BY <2>4, <3>1
    <3>3. <<t, i>> \in F
      BY <1>3, <2>4, <3>2
    <3> QED BY <1>5, <3>3
  <2> QED BY <1>2, <2>2, <2>3, <2>4
<1> QED BY <1>9, <1>10, <1>11, <1>14, <1>15, <1>16 DEF FeedInv, SocketInv

\* The invariant of the feed.
THEOREM FeedInvariance ==
  ASSUME Feed!LiveAssumption
  PROVE  Feed!Spec => []FeedInv
<1>1. Feed!Init => FeedInv
  <2> SUFFICES ASSUME Feed!Init PROVE FeedInv
    OBVIOUS
  <2>1. /\ log = [t \in Topics |-> <<>>] /\ tickets = 0 /\ valid = {} /\ page = "ticket"
        /\ socket = "none" /\ inbox = <<>> /\ topics = {} /\ out = <<>> /\ frames = {}
        /\ cursors = [t \in Topics |-> NULL] /\ base = [t \in Topics |-> NULL]
    BY DEF Feed!Init
  <2>2. \A t \in Topics : Len(log[t]) = 0
    BY <2>1
  <2>3. FeedTypes
    BY <2>1, <2>2 DEF FeedTypes, Feed!Pages, Feed!LiveAssumption
  <2>4. FeedPlaces
    BY <2>1 DEF FeedPlaces
  <2>5. Len(out) = 0 /\ DOMAIN out = {}
    BY <2>1
  <2>6. Cursors /\ BehindCursor /\ Feed!InOrderOnce /\ Feed!NoHole
    BY <2>1, <2>5 DEF Cursors, BehindCursor, Feed!InOrderOnce, Feed!NoHole
  <2> QED BY <2>3, <2>4, <2>6 DEF FeedInv, SocketInv
<1>2. FeedInv /\ [Feed!Next]_Feed!vars => FeedInv'
  <2> SUFFICES ASSUME FeedInv, [Feed!Next]_Feed!vars PROVE FeedInv'
    OBVIOUS
  <2>0. tickets \in Nat /\ valid \subseteq 1 .. tickets /\ page \in Feed!Pages /\ FeedTypes
    BY DEF FeedInv, FeedTypes
  <2>1. CASE Feed!Ticket
    <3>1. /\ page = "ticket" /\ page' = "opening"
          /\ tickets' = tickets + 1 /\ valid' = valid \cup {tickets'}
          /\ UNCHANGED <<log, socket, inbox, topics, cursors, out, frames, base>>
      BY <2>1 DEF Feed!Ticket, Feed!server
    <3>2. tickets' \in Nat /\ valid' \subseteq 1 .. tickets'
      BY <2>0, <3>1
    <3> QED BY <3>1, <3>2, PageKeepsFeedInv DEF Feed!Pages
  <2>2. CASE Feed!TicketFails \/ Feed!Expire \/ Feed!Reject \/ Feed!Reconnect
    <3>1. /\ page' \in Feed!Pages /\ ((page = "open") <=> (page' = "open"))
          /\ tickets' = tickets /\ valid' \subseteq valid
          /\ UNCHANGED <<log, socket, inbox, topics, cursors, out, frames, base>>
      BY <2>0, <2>2 DEF Feed!TicketFails, Feed!Expire, Feed!Reject, Feed!Reconnect, Feed!server,
                        Feed!Pages
    <3>2. tickets' \in Nat /\ valid' \subseteq 1 .. tickets'
      BY <2>0, <3>1
    <3> QED BY <3>1, <3>2, PageKeepsFeedInv
  <2>3. CASE Feed!Accept
    BY <2>3, AcceptKeepsFeedInv
  <2>4. CASE Feed!Disconnect
    BY <2>4, NoSocketKeepsFeedInv DEF Feed!Disconnect, Feed!Pages
  <2>5. CASE Feed!Read
    BY <2>5, ReadKeepsFeedInv
  <2>6. CASE Feed!Send
    BY <2>6, SendKeepsFeedInv
  <2>7. CASE Feed!ReadFails \/ Feed!Idle
    <3>1. socket = "loop" => out = <<>>
      BY DEF FeedInv, FeedPlaces
    <3>2. /\ socket # "none" /\ socket' \in {"loop", "send"} /\ (socket' = "send" \/ out = <<>>)
          /\ UNCHANGED <<log, valid, tickets, page, cursors, base, out, frames, inbox, topics>>
      BY <2>7, <3>1 DEF Feed!ReadFails, Feed!Idle, Feed!AtReceive
    <3> QED BY <2>0, <3>2, LoopKeepsFeedInv DEF FeedTypes
  <2>8. CASE Feed!Control
    <3>1. socket = "loop" => out = <<>>
      BY DEF FeedInv, FeedPlaces
    <3>2. /\ socket # "none" /\ socket' = "loop" /\ out = <<>> /\ inbox # <<>>
          /\ inbox' = Tail(inbox)
          /\ topics' = topics \cup (Feed!Granted(inbox[1]) \ topics)
          /\ UNCHANGED <<log, valid, tickets, page, cursors, base, out, frames>>
      BY <2>8, <3>1 DEF Feed!Control, Feed!AtReceive
    <3>3. inbox[1] \in SUBSET Wanted /\ Tail(inbox) \in Seq(SUBSET Wanted)
      BY <2>0, <3>2 DEF FeedTypes
    <3>4. topics' \subseteq Wanted \cap Permitted
      BY <2>0, <3>2, <3>3 DEF FeedTypes, Feed!Granted
    <3> QED BY <3>2, <3>3, <3>4, LoopKeepsFeedInv
  <2>9. ASSUME NEW t \in Topics, Feed!Baseline(t) \/ Feed!BaselineFails(t) PROVE FeedInv'
    <3>1. t \in topics /\ cursors[t] = NULL /\ socket = "loop"
      BY <2>9 DEF Feed!Baseline, Feed!BaselineFails, Feed!Unbased
    <3>2. Len(log[t]) \in Nat
      BY <2>0 DEF FeedTypes
    <3>3. PICK n \in Nat : /\ n <= Len(log[t])
                           /\ cursors' = [cursors EXCEPT ![t] = n] /\ base' = [base EXCEPT ![t] = n]
      BY <2>9, <3>2 DEF Feed!Baseline, Feed!BaselineFails, Feed!Head0
    <3>4. UNCHANGED <<log, valid, tickets, page, socket, inbox, topics, out, frames>>
      BY <2>9 DEF Feed!Baseline, Feed!BaselineFails
    <3> QED BY <3>1, <3>3, <3>4, BaselineKeepsFeedInv
  <2>10. ASSUME NEW t \in Topics, NEW e \in {"event", "poison"}, Feed!Publish(t, e)
         PROVE  FeedInv'
    BY <2>10, PublishKeepsFeedInv
  <2>11. CASE UNCHANGED Feed!vars
    <3>1. UNCHANGED <<log, valid, tickets, page, socket, inbox, topics, cursors, out, frames, base>>
      BY <2>11 DEF Feed!vars, Feed!server
    <3>2. tickets' \in Nat /\ valid' \subseteq 1 .. tickets' /\ page' \in Feed!Pages
      BY <2>0, <3>1
    <3> QED BY <3>1, <3>2, PageKeepsFeedInv
  <2> QED BY <2>1, <2>2, <2>3, <2>4, <2>5, <2>6, <2>7, <2>8, <2>9, <2>10, <2>11
          DEF Feed!Next, Feed!Page, Feed!Loop, Feed!Faulty
<1> QED BY <1>1, <1>2, PTL DEF Feed!Spec

\* However reads, failures, poison entries and publications interleave, a socket
\* sends the events of each topic in stream order and none twice, and every event
\* between its first cursor and its present one reached the page or is next.
THEOREM FeedExact ==
  ASSUME Feed!LiveAssumption
  PROVE  Feed!Spec => []Feed!FeedIsExact
<1>1. FeedInv => Feed!FeedIsExact
  <2> SUFFICES ASSUME FeedInv PROVE Feed!TypeOK
    BY DEF FeedInv, SocketInv, Feed!FeedIsExact
  <2>1. ASSUME NEW t \in Topics, cursors[t] # NULL
        PROVE  cursors[t] \in 0 .. Len(log[t]) /\ Len(log[t]) <= FeedLen
    BY <2>1 DEF FeedInv, FeedTypes, SocketInv, Cursors
  <2>2. ASSUME NEW f \in frames PROVE f \in Topics \X (1 .. FeedLen)
    <3>1. f \in Topics \X Nat /\ cursors[f[1]] # NULL /\ 1 <= f[2] /\ f[2] <= cursors[f[1]]
      BY DEF FeedInv, FeedTypes, SocketInv, BehindCursor, Behind
    <3>2. /\ f[1] \in Topics /\ f[2] \in Nat /\ f = <<f[1], f[2]>>
      BY <3>1
    <3>3. cursors[f[1]] \in 0 .. Len(log[f[1]]) /\ Len(log[f[1]]) <= FeedLen
      BY <2>1, <3>1, <3>2
    <3>4. f[2] \in 1 .. FeedLen
      <4>1. Len(log[f[1]]) \in Nat /\ FeedLen \in Nat
        BY <3>2 DEF FeedInv, FeedTypes, Feed!LiveAssumption
      <4> QED BY <3>1, <3>2, <3>3, <4>1
    <3> QED BY <3>2, <3>4
  <2> QED BY <2>1, <2>2 DEF FeedInv, FeedTypes, Feed!TypeOK, Feed!Head0
<1> QED BY <1>1, FeedInvariance, PTL

----------------------------------------------------------------------------
(* The services as parts of Services.                                      *)

\* A step of one part is a step of the others that changes nothing of theirs, so
\* that every behaviour of Services is one of each component.
LEMMA OtherPartsWait ==
  ASSUME [ServicesNext]_allVars
  PROVE  /\ [Next]_vars
         /\ [Alerts!Next]_alertVars
         /\ [Worker!Next]_beatVars
         /\ [Feed!Next]_feedVars
         /\ [Limiter!Next]_limiterVars
         /\ [Summary!PortfolioNext]_ledgerVars
         /\ [(part = "tab" /\ Tab!Next) \/ (part = "tabs" /\ Browser!Next)]_authVars
         /\ [\/ part = "shared" /\ Shared!Next
             \/ part = "separate" /\ Separate!Next]_settingVars
         /\ part' = part
<1>1. CASE UNCHANGED allVars
  BY <1>1 DEF allVars
<1>2. CASE Only({"budget"}) /\ Next
  BY <1>2 DEF Only
<1>3. CASE Only({"alerts"}) /\ Alerts!Next
  BY <1>3 DEF Only
<1>4. CASE Only({"worker"}) /\ Worker!Next
  BY <1>4 DEF Only
<1>5. CASE Only({"feed"}) /\ Feed!Next
  BY <1>5 DEF Only
<1>6. CASE Only({"tab", "tabs"}) /\ part = "tab" /\ Tab!Next
  BY <1>6 DEF Only
<1>7. CASE Only({"tab", "tabs"}) /\ part = "tabs" /\ Browser!Next
  BY <1>7 DEF Only
<1>8. CASE Only({"limiter"}) /\ Limiter!Next
  BY <1>8 DEF Only
<1>9. CASE Only({"shared", "separate"}) /\ part = "shared" /\ Shared!Next
  BY <1>9 DEF Only
<1>10. CASE Only({"shared", "separate"}) /\ part = "separate" /\ Separate!Next
  BY <1>10 DEF Only
<1>11. CASE Only({"portfolio"}) /\ Summary!PortfolioNext
  BY <1>11 DEF Only
<1> QED
  BY <1>1, <1>2, <1>3, <1>4, <1>5, <1>6, <1>7, <1>8, <1>9, <1>10, <1>11 DEF ServicesNext

\* What a day spends stays within its budget, and a refusal is due: see
\* BudgetIsKept.
THEOREM ServicesBudget == ServicesSpec => []BudgetIsExact
<1>1. ServicesInit => Init
  BY DEF ServicesInit
<1>2. [ServicesNext]_allVars => [Next]_vars
  BY OtherPartsWait
<1> QED BY <1>1, <1>2, BudgetIsKept, PTL DEF ServicesSpec, Spec

\* Alerts are kept in every behaviour of the services: see AlertsKept.
THEOREM ServicesKeepAlerts ==
  ASSUME Alerts!AlertsAssumption, Alerts!EntriesCanBeSaved
  PROVE  ServicesSpec => AlertsAreKept
<1>1. ServicesInit => Alerts!Init
  BY DEF ServicesInit
<1>2. [ServicesNext]_allVars => [Alerts!Next]_Alerts!vars
  BY OtherPartsWait DEF alertVars, Alerts!vars, Alerts!memory
<1>3. Alerts!Init /\ [][Alerts!Next]_Alerts!vars => Alerts!AlertsAreKept
  BY AlertsKept
<1>4. ServicesSpec => Alerts!AlertsAreKept
  BY <1>1, <1>2, <1>3, PTL DEF ServicesSpec
<1> QED BY <1>4 DEF AlertsAreKept

\* A worker that goes through its loop is reported up: see WorkerIsUp.
THEOREM ServicesReportUp ==
  ASSUME Worker!HeartbeatAssumption, Worker!OneWorkerInTime
  PROVE  ServicesSpec => []HealthyIsUp
<1>1. ServicesInit => Worker!Init
  BY DEF ServicesInit
<1>2. [ServicesNext]_allVars => [Worker!Next]_Worker!vars
  BY OtherPartsWait DEF beatVars, Worker!vars
<1>3. Worker!Init /\ [][Worker!Next]_Worker!vars => [](Worker!TypeOK /\ Worker!HealthyIsUp)
  BY WorkerIsUp
<1>4. Worker!TypeOK /\ Worker!HealthyIsUp => HealthyIsUp
  BY DEF HealthyIsUp
<1> QED BY <1>1, <1>2, <1>3, <1>4, PTL DEF ServicesSpec

\* No window of the limiter lets through too many calls, and the 429's advice is
\* right: see LimiterExact.
THEOREM ServicesLimit ==
  ASSUME Limiter!LimiterAssumption
  PROVE  ServicesSpec => []LimiterIsExact
<1>1. ServicesInit => Limiter!Init
  BY DEF ServicesInit
<1>2. [ServicesNext]_allVars => [Limiter!Next]_Limiter!vars
  BY OtherPartsWait DEF limiterVars, Limiter!vars
<1>3. Limiter!Spec => []Limiter!LimiterIsExact
  BY LimiterExact
<1>4. Limiter!LimiterIsExact => LimiterIsExact
  BY DEF LimiterIsExact
<1> QED BY <1>1, <1>2, <1>3, <1>4, PTL DEF ServicesSpec, Limiter!Spec

\* A socket sends a topic's events in order, none twice and none missing: see
\* FeedExact.
THEOREM ServicesFeed ==
  ASSUME Feed!LiveAssumption
  PROVE  ServicesSpec => []FeedIsExact
<1>1. ServicesInit => Feed!Init
  BY DEF ServicesInit
<1>2. [ServicesNext]_allVars => [Feed!Next]_Feed!vars
  BY OtherPartsWait DEF feedVars, Feed!vars, Feed!server
<1>3. Feed!Spec => []Feed!FeedIsExact
  BY FeedExact
<1>4. Feed!FeedIsExact => FeedIsExact
  BY DEF FeedIsExact
<1> QED BY <1>1, <1>2, <1>3, <1>4, PTL DEF ServicesSpec, Feed!Spec

----------------------------------------------------------------------------
(* The parts whose proofs are modules of their own: their instances here   *)
(* say what those of Services say.                                         *)

Is(p) == part = p

TabProofs == INSTANCE AccountProofs WITH
  Tabs <- OneTab, MaxUpdates <- TabUpdates, audit <- authAudit, used <- authUsed,
  KindsOf <- SharedKinds, MaxRequests <- SharedRequests, MaxRestarts <- SharedRestarts
BrowserProofs == INSTANCE AccountProofs WITH
  Tabs <- TwoTabs, MaxUpdates <- TabsUpdates, audit <- authAudit, used <- authUsed,
  KindsOf <- SeparateKinds, MaxRequests <- SeparateRequests, MaxRestarts <- SeparateRestarts

\* The accounts of AccountProofs are those of the part "tab".
LEMMA TabIsProved ==
  /\ Tab!SessionsAssumption => TabProofs!SessionsAssumption
  /\ Tab!Init => TabProofs!Init
  /\ [Tab!Next]_authVars => [TabProofs!Next]_TabProofs!vars
  /\ TabProofs!SessionsAreSafe => Tab!SessionsAreSafe
<1>1. Tab!SessionsAssumption => TabProofs!SessionsAssumption
  BY DEF Tab!SessionsAssumption, TabProofs!SessionsAssumption, Tab!Roles, TabProofs!Roles
<1>2. Tab!Init => TabProofs!Init
  BY DEF Tab!Init, TabProofs!Init, Tab!Idle, TabProofs!Idle
<1>3. Tab!Next => TabProofs!Next
  BY DEF Tab!Next, TabProofs!Next, Tab!Register, TabProofs!Register, Tab!Expire,
         TabProofs!Expire, Tab!UpdateUser, TabProofs!UpdateUser, Tab!Login,
         TabProofs!Login, Tab!LoginFails, TabProofs!LoginFails, Tab!Refresh,
         TabProofs!Refresh, Tab!Logout, TabProofs!Logout, Tab!RotateRead,
         TabProofs!RotateRead, Tab!RotateCommit, TabProofs!RotateCommit, Tab!RotateReused,
         TabProofs!RotateReused, Tab!Issued, TabProofs!Issued, Tab!Idle, TabProofs!Idle,
         Tab!NewId, TabProofs!NewId, Tab!Live, TabProofs!Live, Tab!Family,
         TabProofs!Family, Tab!RoleFor, TabProofs!RoleFor, Tab!Issue, TabProofs!Issue,
         Tab!Add, TabProofs!Add, Tab!Deliver, TabProofs!Deliver, Tab!Presents,
         TabProofs!Presents, Tab!Roles, TabProofs!Roles, Tab!Rank, TabProofs!Rank,
         Tab!RoleAtLeast, TabProofs!RoleAtLeast, Tab!Cardinality, TabProofs!Cardinality
<1>4. TabProofs!SessionsAreSafe => Tab!SessionsAreSafe
  BY DEF Tab!Issued, TabProofs!Issued, Tab!SessionsAreSafe, TabProofs!SessionsAreSafe,
         Tab!TypeOK, TabProofs!TypeOK, Tab!FamilyHasOneUser, TabProofs!FamilyHasOneUser,
         Tab!RotatedIsRevoked, TabProofs!RotatedIsRevoked, Tab!OneLivePerFamily,
         TabProofs!OneLivePerFamily, Tab!CaughtIsDead, TabProofs!CaughtIsDead,
         Tab!AdminRemains, TabProofs!AdminRemains, Tab!OneAtATime, TabProofs!OneAtATime,
         Tab!UserRow, TabProofs!UserRow, Tab!TokenRow, TabProofs!TokenRow, Tab!Roles,
         TabProofs!Roles, Tab!Live, TabProofs!Live, Tab!Idle, TabProofs!Idle,
         Tab!Cardinality, TabProofs!Cardinality, Tab!IsFiniteSet, TabProofs!IsFiniteSet
<1> QED BY <1>1, <1>2, <1>3, <1>4 DEF authVars, TabProofs!vars

\* The accounts of AccountProofs are those of the part "tabs".
LEMMA BrowserIsProved ==
  /\ Browser!SessionsAssumption => BrowserProofs!SessionsAssumption
  /\ Browser!Init => BrowserProofs!Init
  /\ [Browser!Next]_authVars => [BrowserProofs!Next]_BrowserProofs!vars
  /\ BrowserProofs!SessionsAreSafe => Browser!SessionsAreSafe
<1>1. Browser!SessionsAssumption => BrowserProofs!SessionsAssumption
  BY DEF Browser!SessionsAssumption, BrowserProofs!SessionsAssumption, Browser!Roles,
         BrowserProofs!Roles
<1>2. Browser!Init => BrowserProofs!Init
  BY DEF Browser!Init, BrowserProofs!Init, Browser!Idle, BrowserProofs!Idle
<1>3. Browser!Next => BrowserProofs!Next
  BY DEF Browser!Next, BrowserProofs!Next, Browser!Register, BrowserProofs!Register,
         Browser!Expire, BrowserProofs!Expire, Browser!UpdateUser,
         BrowserProofs!UpdateUser, Browser!Login, BrowserProofs!Login, Browser!LoginFails,
         BrowserProofs!LoginFails, Browser!Refresh, BrowserProofs!Refresh, Browser!Logout,
         BrowserProofs!Logout, Browser!RotateRead, BrowserProofs!RotateRead,
         Browser!RotateCommit, BrowserProofs!RotateCommit, Browser!RotateReused,
         BrowserProofs!RotateReused, Browser!Issued, BrowserProofs!Issued, Browser!Idle,
         BrowserProofs!Idle, Browser!NewId, BrowserProofs!NewId, Browser!Live,
         BrowserProofs!Live, Browser!Family, BrowserProofs!Family, Browser!RoleFor,
         BrowserProofs!RoleFor, Browser!Issue, BrowserProofs!Issue, Browser!Add,
         BrowserProofs!Add, Browser!Deliver, BrowserProofs!Deliver, Browser!Presents,
         BrowserProofs!Presents, Browser!Roles, BrowserProofs!Roles, Browser!Rank,
         BrowserProofs!Rank, Browser!RoleAtLeast, BrowserProofs!RoleAtLeast,
         Browser!Cardinality, BrowserProofs!Cardinality
<1>4. BrowserProofs!SessionsAreSafe => Browser!SessionsAreSafe
  BY DEF Browser!Issued, BrowserProofs!Issued, Browser!SessionsAreSafe,
         BrowserProofs!SessionsAreSafe, Browser!TypeOK, BrowserProofs!TypeOK,
         Browser!FamilyHasOneUser, BrowserProofs!FamilyHasOneUser,
         Browser!RotatedIsRevoked, BrowserProofs!RotatedIsRevoked,
         Browser!OneLivePerFamily, BrowserProofs!OneLivePerFamily, Browser!CaughtIsDead,
         BrowserProofs!CaughtIsDead, Browser!AdminRemains, BrowserProofs!AdminRemains,
         Browser!OneAtATime, BrowserProofs!OneAtATime, Browser!UserRow,
         BrowserProofs!UserRow, Browser!TokenRow, BrowserProofs!TokenRow, Browser!Roles,
         BrowserProofs!Roles, Browser!Live, BrowserProofs!Live, Browser!Idle,
         BrowserProofs!Idle, Browser!Cardinality, BrowserProofs!Cardinality,
         Browser!IsFiniteSet, BrowserProofs!IsFiniteSet
<1> QED BY <1>1, <1>2, <1>3, <1>4 DEF authVars, BrowserProofs!vars

\* Token families and roles are safe in one tab and in several: see SessionsSafe.
THEOREM ServicesSessions ==
  ASSUME Tab!SessionsAssumption, Browser!SessionsAssumption
  PROVE  ServicesSpec => []SessionsAreSafe
<1>1. TabProofs!Spec => []TabProofs!SessionsAreSafe
  BY TabIsProved, TabProofs!SessionsSafe
<1>2. BrowserProofs!Spec => []BrowserProofs!SessionsAreSafe
  BY BrowserIsProved, BrowserProofs!SessionsSafe
<1>3. ServicesInit => (Is("tab") => TabProofs!Init) /\ (Is("tabs") => BrowserProofs!Init)
  BY TabIsProved, BrowserIsProved DEF ServicesInit, Is
<1>4. [ServicesNext]_allVars /\ Is("tab") => [TabProofs!Next]_TabProofs!vars
  BY OtherPartsWait, TabIsProved DEF Is
<1>5. [ServicesNext]_allVars /\ Is("tabs") => [BrowserProofs!Next]_BrowserProofs!vars
  BY OtherPartsWait, BrowserIsProved DEF Is
<1>6. [ServicesNext]_allVars => (Is("tab")' <=> Is("tab")) /\ (Is("tabs")' <=> Is("tabs"))
  BY OtherPartsWait DEF Is
<1>7. (Is("tab") => TabProofs!SessionsAreSafe) /\ (Is("tabs") => BrowserProofs!SessionsAreSafe)
        => SessionsAreSafe
  BY TabIsProved, BrowserIsProved DEF Is, SessionsAreSafe
<1> QED
  BY <1>1, <1>2, <1>3, <1>4, <1>5, <1>6, <1>7, PTL DEF ServicesSpec, TabProofs!Spec, BrowserProofs!Spec

\* The settings of AccountProofs are those of the part "shared".
LEMMA SharedIsProved ==
  /\ Shared!SettingsAssumption => TabProofs!Settings!SettingsAssumption
  /\ Shared!Init => TabProofs!Settings!Init
  /\ [Shared!Next]_settingVars => [TabProofs!Settings!Next]_TabProofs!Settings!vars
  /\ TabProofs!Settings!SettingsInUse => Shared!SettingsInUse
  /\ TabProofs!Settings!KeepsOmitted => Shared!KeepsOmitted
  /\ Shared!OneAdminPerKind => TabProofs!Settings!OneAdminPerKind
<1>1. Shared!SettingsAssumption => TabProofs!Settings!SettingsAssumption
  BY Zenon DEF Shared!SettingsAssumption, TabProofs!Settings!SettingsAssumption, Shared!Rows,
         TabProofs!Settings!Rows, Shared!RowOf, TabProofs!Settings!RowOf, Shared!FieldsOf,
         TabProofs!Settings!FieldsOf
<1>2. Shared!Init => TabProofs!Settings!Init
  BY Zenon DEF Shared!Init, TabProofs!Settings!Init, Shared!Rows, TabProofs!Settings!Rows, Shared!RowOf,
         TabProofs!Settings!RowOf
<1>3. Shared!Next => TabProofs!Settings!Next
  BY DEF Shared!Next, TabProofs!Settings!Next, Shared!Begin, TabProofs!Settings!Begin, Shared!Commit,
         TabProofs!Settings!Commit, Shared!Reject, TabProofs!Settings!Reject, Shared!Restart,
         TabProofs!Settings!Restart, Shared!Done, TabProofs!Settings!Done, Shared!Refused,
         TabProofs!Settings!Refused, Shared!Collides, TabProofs!Settings!Collides, Shared!RowsOf,
         TabProofs!Settings!RowsOf, Shared!Rows, TabProofs!Settings!Rows, Shared!RowOf,
         TabProofs!Settings!RowOf, Shared!FieldsOf, TabProofs!Settings!FieldsOf, Shared!NewRow,
         TabProofs!Settings!NewRow, Shared!NewValue, TabProofs!Settings!NewValue, Shared!Load,
         TabProofs!Settings!Load, Shared!Resolved, TabProofs!Settings!Resolved
<1>4. TabProofs!Settings!SettingsInUse => Shared!SettingsInUse
  BY DEF Shared!SettingsInUse, TabProofs!Settings!SettingsInUse, Shared!KnobsAreSafe,
         TabProofs!Settings!KnobsAreSafe, Shared!AuditIsInUse, TabProofs!Settings!AuditIsInUse,
         Shared!OneAdminPerKind, TabProofs!Settings!OneAdminPerKind, Shared!Resolved,
         TabProofs!Settings!Resolved, Shared!Load, TabProofs!Settings!Load, Shared!FieldsOf,
         TabProofs!Settings!FieldsOf, Shared!RowOf, TabProofs!Settings!RowOf
<1>5. TabProofs!Settings!KeepsOmitted => Shared!KeepsOmitted
  BY DEF Shared!KeepsOmitted, TabProofs!Settings!KeepsOmitted, Shared!Commit,
         TabProofs!Settings!Commit, Shared!Done, TabProofs!Settings!Done, Shared!Refused,
         TabProofs!Settings!Refused, Shared!Collides, TabProofs!Settings!Collides, Shared!RowsOf,
         TabProofs!Settings!RowsOf, Shared!Rows, TabProofs!Settings!Rows, Shared!RowOf,
         TabProofs!Settings!RowOf, Shared!FieldsOf, TabProofs!Settings!FieldsOf, Shared!NewRow,
         TabProofs!Settings!NewRow, Shared!NewValue, TabProofs!Settings!NewValue, Shared!Load,
         TabProofs!Settings!Load, Shared!Resolved, TabProofs!Settings!Resolved
<1>6. Shared!OneAdminPerKind => TabProofs!Settings!OneAdminPerKind
  BY DEF Shared!OneAdminPerKind, TabProofs!Settings!OneAdminPerKind
<1> QED BY <1>1, <1>2, <1>3, <1>4, <1>5, <1>6 DEF settingVars, TabProofs!Settings!vars

\* The settings of AccountProofs are those of the part "separate".
LEMMA SeparateIsProved ==
  /\ Separate!SettingsAssumption => BrowserProofs!Settings!SettingsAssumption
  /\ Shared!Init => BrowserProofs!Settings!Init
  /\ [Separate!Next]_settingVars => [BrowserProofs!Settings!Next]_BrowserProofs!Settings!vars
  /\ BrowserProofs!Settings!SettingsInUse => Separate!SettingsInUse
  /\ BrowserProofs!Settings!KeepsOmitted => Separate!KeepsOmitted
  /\ Separate!OneAdminPerKind => BrowserProofs!Settings!OneAdminPerKind
<1>1. Separate!SettingsAssumption => BrowserProofs!Settings!SettingsAssumption
  BY Zenon DEF Separate!SettingsAssumption, BrowserProofs!Settings!SettingsAssumption, Separate!Rows,
         BrowserProofs!Settings!Rows, Separate!RowOf, BrowserProofs!Settings!RowOf, Separate!FieldsOf,
         BrowserProofs!Settings!FieldsOf
<1>2. Shared!Init => BrowserProofs!Settings!Init
  BY DEF Shared!Init, BrowserProofs!Settings!Init, Shared!Rows, BrowserProofs!Settings!Rows, Shared!RowOf,
         BrowserProofs!Settings!RowOf
<1>3. Separate!Next => BrowserProofs!Settings!Next
  BY DEF Separate!Next, BrowserProofs!Settings!Next, Separate!Begin, BrowserProofs!Settings!Begin,
         Separate!Commit, BrowserProofs!Settings!Commit, Separate!Reject, BrowserProofs!Settings!Reject,
         Separate!Restart, BrowserProofs!Settings!Restart, Separate!Done, BrowserProofs!Settings!Done,
         Separate!Refused, BrowserProofs!Settings!Refused, Separate!Collides,
         BrowserProofs!Settings!Collides, Separate!RowsOf, BrowserProofs!Settings!RowsOf, Separate!Rows,
         BrowserProofs!Settings!Rows, Separate!RowOf, BrowserProofs!Settings!RowOf, Separate!FieldsOf,
         BrowserProofs!Settings!FieldsOf, Separate!NewRow, BrowserProofs!Settings!NewRow,
         Separate!NewValue, BrowserProofs!Settings!NewValue, Separate!Load, BrowserProofs!Settings!Load,
         Separate!Resolved, BrowserProofs!Settings!Resolved
<1>4. BrowserProofs!Settings!SettingsInUse => Separate!SettingsInUse
  BY DEF Separate!SettingsInUse, BrowserProofs!Settings!SettingsInUse, Separate!KnobsAreSafe,
         BrowserProofs!Settings!KnobsAreSafe, Separate!AuditIsInUse, BrowserProofs!Settings!AuditIsInUse,
         Separate!OneAdminPerKind, BrowserProofs!Settings!OneAdminPerKind, Separate!Resolved,
         BrowserProofs!Settings!Resolved, Separate!Load, BrowserProofs!Settings!Load, Separate!FieldsOf,
         BrowserProofs!Settings!FieldsOf, Separate!RowOf, BrowserProofs!Settings!RowOf
<1>5. BrowserProofs!Settings!KeepsOmitted => Separate!KeepsOmitted
  BY DEF Separate!KeepsOmitted, BrowserProofs!Settings!KeepsOmitted, Separate!Commit,
         BrowserProofs!Settings!Commit, Separate!Done, BrowserProofs!Settings!Done, Separate!Refused,
         BrowserProofs!Settings!Refused, Separate!Collides, BrowserProofs!Settings!Collides,
         Separate!RowsOf, BrowserProofs!Settings!RowsOf, Separate!Rows, BrowserProofs!Settings!Rows,
         Separate!RowOf, BrowserProofs!Settings!RowOf, Separate!FieldsOf, BrowserProofs!Settings!FieldsOf,
         Separate!NewRow, BrowserProofs!Settings!NewRow, Separate!NewValue,
         BrowserProofs!Settings!NewValue, Separate!Load, BrowserProofs!Settings!Load, Separate!Resolved,
         BrowserProofs!Settings!Resolved
<1>6. Separate!OneAdminPerKind => BrowserProofs!Settings!OneAdminPerKind
  BY DEF Separate!OneAdminPerKind, BrowserProofs!Settings!OneAdminPerKind
<1> QED BY <1>1, <1>2, <1>3, <1>4, <1>5, <1>6 DEF settingVars, BrowserProofs!Settings!vars

\* A risk knob in use is safe whoever sends requests, and if no two admins send
\* requests of the same kind, what a request omits stays and the audit tells the
\* values in use: see SettingsSafe.
THEOREM ServicesSettings ==
  ASSUME Shared!SettingsAssumption, Separate!SettingsAssumption, Separate!OneAdminPerKind
  PROVE  ServicesSpec => SettingsAreSafe
<1>1. TabProofs!Settings!Spec => []TabProofs!Settings!SettingsInUse
  BY SharedIsProved, TabProofs!SettingsSafe, PTL DEF TabProofs!Settings!SettingsAreSafe
<1>2. BrowserProofs!Settings!Spec
        => /\ []BrowserProofs!Settings!SettingsInUse
           /\ [][BrowserProofs!Settings!OneAdminPerKind
                   => BrowserProofs!Settings!KeepsOmitted]_BrowserProofs!Settings!vars
  BY SeparateIsProved, BrowserProofs!SettingsSafe, PTL DEF BrowserProofs!Settings!SettingsAreSafe
<1>3. ServicesInit => TabProofs!Settings!Init /\ BrowserProofs!Settings!Init
  BY SharedIsProved, SeparateIsProved DEF ServicesInit
<1>4. [ServicesNext]_allVars /\ Is("shared") => [TabProofs!Settings!Next]_TabProofs!Settings!vars
  BY OtherPartsWait, SharedIsProved DEF Is
<1>5. [ServicesNext]_allVars /\ Is("separate") => [BrowserProofs!Settings!Next]_BrowserProofs!Settings!vars
  BY OtherPartsWait, SeparateIsProved DEF Is
<1>6. [ServicesNext]_allVars
        => (Is("shared")' <=> Is("shared")) /\ (Is("separate")' <=> Is("separate"))
  BY OtherPartsWait DEF Is
<1>7. TabProofs!Settings!SettingsInUse => Shared!SettingsInUse
  BY SharedIsProved
<1>8. BrowserProofs!Settings!SettingsInUse => Separate!SettingsInUse
  BY SeparateIsProved
<1>9. [BrowserProofs!Settings!OneAdminPerKind
         => BrowserProofs!Settings!KeepsOmitted]_BrowserProofs!Settings!vars
        => [Is("separate") => Separate!KeepsOmitted]_settingVars
  BY SeparateIsProved DEF settingVars, BrowserProofs!Settings!vars
<1>10. ~ Is("separate") => [Is("separate") => Separate!KeepsOmitted]_settingVars
  OBVIOUS
<1>11. ServicesSpec => /\ [](Is("shared") => Shared!SettingsInUse)
                       /\ [](Is("separate") => Separate!SettingsInUse)
                       /\ [][Is("separate") => Separate!KeepsOmitted]_settingVars
  BY <1>1, <1>2, <1>3, <1>4, <1>5, <1>6, <1>7, <1>8, <1>9, <1>10, PTL
     DEF ServicesSpec, TabProofs!Settings!Spec, BrowserProofs!Settings!Spec
<1> QED BY <1>11 DEF SettingsAreSafe, Is

SummaryProofs == INSTANCE PaperLedgerProofs WITH MaxTime <- LedgerTime

\* What PaperLedgerProofs is about is the part "portfolio".
LEMMA SummaryIsProved ==
  /\ Summary!PortfolioInit => SummaryProofs!PortfolioInit
  /\ [Summary!PortfolioNext]_ledgerVars
       => [SummaryProofs!PortfolioNext]_<<SummaryProofs!vars, SummaryProofs!reader>>
  /\ SummaryProofs!SummaryIsSound => Summary!SummaryIsSound
<1>1. Summary!PortfolioInit => SummaryProofs!PortfolioInit
  BY DEF Summary!PortfolioInit, SummaryProofs!PortfolioInit, Summary!Init,
         SummaryProofs!Init, Summary!EmptySummary, SummaryProofs!EmptySummary,
         Summary!Stamps, SummaryProofs!Stamps, Summary!Decisions, SummaryProofs!Decisions,
         Summary!Symbols, SummaryProofs!Symbols
<1>2. Summary!PortfolioNext => SummaryProofs!PortfolioNext
  BY DEF Summary!PortfolioNext, SummaryProofs!PortfolioNext, Summary!LedgerStep,
         SummaryProofs!LedgerStep, Summary!ReadSnapshot, SummaryProofs!ReadSnapshot,
         Summary!ReadCounts, SummaryProofs!ReadCounts, Summary!reader,
         SummaryProofs!reader, Summary!Open, SummaryProofs!Open, Summary!Pending,
         SummaryProofs!Pending, Summary!Idle, SummaryProofs!Idle, Summary!EmptySummary,
         SummaryProofs!EmptySummary, Summary!Tick, SummaryProofs!Tick, Summary!StoreBar,
         SummaryProofs!StoreBar, Summary!SubmitPaperOrder, SummaryProofs!SubmitPaperOrder,
         Summary!Decide, SummaryProofs!Decide, Summary!Discover, SummaryProofs!Discover,
         Summary!StartUnit, SummaryProofs!StartUnit, Summary!ProcessBar,
         SummaryProofs!ProcessBar, Summary!ExpirySweep, SummaryProofs!ExpirySweep,
         Summary!Fail, SummaryProofs!Fail, Summary!UnitFails, SummaryProofs!UnitFails,
         Summary!SweepFails, SummaryProofs!SweepFails, Summary!Crash, SummaryProofs!Crash,
         Summary!Lifecycle, SummaryProofs!Lifecycle, Summary!Next, SummaryProofs!Next,
         Summary!Cardinality, SummaryProofs!Cardinality, Summary!Sides,
         SummaryProofs!Sides, Summary!Stamps, SummaryProofs!Stamps, Summary!Symbols,
         SummaryProofs!Symbols, Summary!Optional, SummaryProofs!Optional, Summary!tables,
         SummaryProofs!tables, Summary!pass, SummaryProofs!pass, Summary!vars,
         SummaryProofs!vars, Summary!Decisions, SummaryProofs!Decisions,
         Summary!DecisionSymbol, SummaryProofs!DecisionSymbol, Summary!OrderRow,
         SummaryProofs!OrderRow, Summary!PositionRow, SummaryProofs!PositionRow,
         Summary!SnapshotRow, SummaryProofs!SnapshotRow, Summary!FillStamp,
         SummaryProofs!FillStamp, Summary!ValidUntil, SummaryProofs!ValidUntil,
         Summary!IsPending, SummaryProofs!IsPending, Summary!IsOpen, SummaryProofs!IsOpen,
         Summary!IsClosed, SummaryProofs!IsClosed, Summary!OpenFor, SummaryProofs!OpenFor,
         Summary!Stored, SummaryProofs!Stored, Summary!Gross, SummaryProofs!Gross,
         Summary!StopHit, SummaryProofs!StopHit, Summary!TargetHit,
         SummaryProofs!TargetHit, Summary!Breach, SummaryProofs!Breach,
         Summary!RestoredCash, SummaryProofs!RestoredCash, Summary!RestoredPeak,
         SummaryProofs!RestoredPeak, Summary!RestoreState, SummaryProofs!RestoreState,
         Summary!CloseAt, SummaryProofs!CloseAt, Summary!Entered, SummaryProofs!Entered,
         Summary!EnterAtNextOpen, SummaryProofs!EnterAtNextOpen, Summary!FillPending,
         SummaryProofs!FillPending, Summary!CancelPending, SummaryProofs!CancelPending,
         Summary!FillAtOpen, SummaryProofs!FillAtOpen, Summary!EvaluateExit,
         SummaryProofs!EvaluateExit, Summary!EquityAt, SummaryProofs!EquityAt,
         Summary!SnapshotDue, SummaryProofs!SnapshotDue, Summary!EquitySnapshot,
         SummaryProofs!EquitySnapshot, Summary!PendingOf, SummaryProofs!PendingOf,
         Summary!ActiveUnits, SummaryProofs!ActiveUnits, Summary!Doomed,
         SummaryProofs!Doomed, Summary!Anchors, SummaryProofs!Anchors,
         Summary!OutstandingStamps, SummaryProofs!OutstandingStamps,
         Summary!CatchupWindow, SummaryProofs!CatchupWindow, Summary!NextUnit,
         SummaryProofs!NextUnit
<1>3. SummaryProofs!SummaryIsSound => Summary!SummaryIsSound
  BY DEF Summary!SummaryIsSound, SummaryProofs!SummaryIsSound,
         Summary!NothingCountedTwice, SummaryProofs!NothingCountedTwice,
         Summary!OpenAreListed, SummaryProofs!OpenAreListed, Summary!Open,
         SummaryProofs!Open, Summary!IsOpen, SummaryProofs!IsOpen, Summary!Decisions,
         SummaryProofs!Decisions, Summary!ListPositions, SummaryProofs!ListPositions,
         Summary!Listed, SummaryProofs!Listed, Summary!Newest, SummaryProofs!Newest,
         Summary!Cardinality, SummaryProofs!Cardinality, Summary!Stamps,
         SummaryProofs!Stamps
<1> QED
  BY <1>1, <1>2, <1>3
  DEF ledgerVars, SummaryProofs!vars, SummaryProofs!tables, SummaryProofs!pass, SummaryProofs!reader

LEMMA SummaryConstants ==
  ASSUME Summary!UnitsAssumption, Summary!RowsAssumption, Summary!NumbersAssumption,
         Summary!NullAssumption
  PROVE  /\ SummaryProofs!UnitsAssumption /\ SummaryProofs!RowsAssumption
         /\ SummaryProofs!NumbersAssumption /\ SummaryProofs!NullAssumption
BY DEF Summary!UnitsAssumption, SummaryProofs!UnitsAssumption, Summary!RowsAssumption,
         SummaryProofs!RowsAssumption, Summary!NumbersAssumption,
         SummaryProofs!NumbersAssumption, Summary!NullAssumption,
         SummaryProofs!NullAssumption, Summary!Sides, SummaryProofs!Sides,
         Summary!Optional, SummaryProofs!Optional, Summary!OrderRow,
         SummaryProofs!OrderRow, Summary!PositionRow, SummaryProofs!PositionRow,
         Summary!SnapshotRow, SummaryProofs!SnapshotRow, Summary!Stamps,
         SummaryProofs!Stamps

\* A summary counts no order as order and position, and a page of OPEN positions
\* has them all: see SummarySound.
THEOREM ServicesSummary ==
  ASSUME Summary!UnitsAssumption, Summary!RowsAssumption, Summary!NumbersAssumption,
         Summary!NullAssumption
  PROVE  ServicesSpec => []SummaryIsSound
<1>1. SummaryProofs!PortfolioSpec => []SummaryProofs!SummaryIsSound
  BY SummaryConstants, SummaryProofs!SummarySound
<1>2. ServicesInit => SummaryProofs!PortfolioInit
  BY SummaryIsProved DEF ServicesInit
<1>3. [ServicesNext]_allVars
        => [SummaryProofs!PortfolioNext]_<<SummaryProofs!vars, SummaryProofs!reader>>
  BY OtherPartsWait, SummaryIsProved
<1>4. SummaryProofs!SummaryIsSound => SummaryIsSound
  BY SummaryIsProved DEF SummaryIsSound
<1> QED BY <1>1, <1>2, <1>3, <1>4, PTL DEF ServicesSpec, SummaryProofs!PortfolioSpec
=============================================================================
