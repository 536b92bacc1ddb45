--------------------------- MODULE ProgressProofs ---------------------------
(***************************************************************************)
(* The sweep of Staleness is accurate in every behaviour of MCProgress,    *)
(* for every length of bars that fills a day.                              *)
(*                                                                         *)
(* The calendar comes first: the hours at which the market trades, the     *)
(* hours at which a bar ends, and where next_open and next_close lead.     *)
(* Then WeekInv: how long ago the newest stored bar began says how many    *)
(* bars are missing, because a bar that is stored begins one bar before it *)
(* ends, and from then on the age grows with the clock.                    *)
(***************************************************************************)
EXTENDS MCProgress, TLAPS

----------------------------------------------------------------------------
(* The calendar. *)

FridayClose == 118
SundayOpen == 166

Trades(h) == h % 168 < FridayClose \/ h % 168 >= SundayOpen

\* The day of the week and the hour of the day, of the hour of the week.
LEMMA HourOfTheWeek ==
  ASSUME NEW h \in Int
  PROVE  /\ h % 168 \in 0 .. 167
         /\ Week!Weekday(h) \in 0 .. 6
         /\ Week!Hour(h) = (h % 168) - 24 * Week!Weekday(h)
         /\ Week!Hour(h) \in 0 .. 23
<1>1. h % 168 \in 0 .. 167 /\ h % 24 \in 0 .. 23
  OBVIOUS
<1>2. (h % 168) \div 24 \in 0 .. 6
  BY <1>1
<1>3. h % 24 = (h % 168) % 24
  OBVIOUS
<1>4. (h % 168) % 24 = (h % 168) - 24 * ((h % 168) \div 24)
  BY <1>1
<1> QED
  BY <1>1, <1>2, <1>3, <1>4 DEF Week!Weekday, Week!Hour, Week!Week, Week!Day

\* is_market_open: from Sunday 22:00 to Friday 22:00.
LEMMA MarketWeek ==
  ASSUME NEW h \in Int
  PROVE  Week!IsMarketOpen(h) <=> Trades(h)
<1> DEFINE w == h % 168
           d == Week!Weekday(h)
<1>1. w \in 0 .. 167 /\ d \in 0 .. 6 /\ Week!Hour(h) = w - 24 * d /\ Week!Hour(h) \in 0 .. 23
  BY HourOfTheWeek
<1>2. Week!IsMarketOpen(h)
        <=> \/ d = 6 /\ Week!Hour(h) >= 22
            \/ d = 4 /\ Week!Hour(h) < 22
            \/ d \notin {4, 5, 6}
  BY <1>1 DEF Week!IsMarketOpen
<1> HIDE DEF w, d
<1>3. Week!IsMarketOpen(h) <=> w < 118 \/ w >= 166
  BY <1>1, <1>2
<1> QED BY <1>3 DEF Trades, FridayClose, SundayOpen, w

\* Over the week of the clock and the next.
LEMMA TwoWeeks ==
  ASSUME NEW h \in 0 .. 335
  PROVE  Week!IsMarketOpen(h) <=> \/ h < 118
                                  \/ 166 <= h /\ h < 286
                                  \/ 334 <= h
<1>1. h % 168 = IF h < 168 THEN h ELSE h - 168
  OBVIOUS
<1> QED BY <1>1, MarketWeek DEF Trades, FridayClose, SundayOpen

\* The bars of a week are those in which the market trades: none ends between
\* the close on Friday, plus a bar, and the opening on Sunday.
LEMMA BarsOfTheWeek ==
  ASSUME Week!StalenessAssumption, NEW h \in 0 .. 167
  PROVE  Week!BarEnds(h) <=> h % BarHours = 0 /\ ~ (118 + BarHours <= h /\ h <= 166)
<1>1. BarHours \in 1 .. 24
  BY DEF Week!StalenessAssumption, Week!Day
<1>2. ASSUME NEW u \in (h - BarHours) .. (h - 1)
      PROVE  Week!IsMarketOpen(u + Week!Week) <=> (-2 <= u /\ u < 118) \/ 166 <= u
  <2>1. u + 168 \in 0 .. 335
    BY <1>1
  <2> QED BY <1>1, <2>1, TwoWeeks DEF Week!Week, Week!Day
<1>3. CASE 118 + BarHours <= h /\ h <= 166
  <2>1. \A u \in (h - BarHours) .. (h - 1) : ~ ((-2 <= u /\ u < 118) \/ 166 <= u)
    BY <1>1, <1>3
  <2> QED BY <1>2, <1>3, <2>1 DEF Week!BarEnds
<1>4. CASE ~ (118 + BarHours <= h /\ h <= 166)
  <2>1. \E u \in (h - BarHours) .. (h - 1) : (-2 <= u /\ u < 118) \/ 166 <= u
    <3>1. CASE 0 <= h - BarHours /\ h - BarHours < 118
      <4>1. h - BarHours \in (h - BarHours) .. (h - 1)
        BY <1>1
      <4> QED BY <3>1, <4>1
    <3>2. CASE h - BarHours < 0 \/ 118 <= h - BarHours
      <4>1. /\ h - 1 \in (h - BarHours) .. (h - 1)
            /\ (-2 <= h - 1 /\ h - 1 < 118) \/ 166 <= h - 1
        BY <1>1, <1>4, <3>2
      <4> QED BY <4>1
    <3> QED BY <1>1, <3>1, <3>2
  <2> QED BY <1>2, <1>4, <2>1 DEF Week!BarEnds
<1> QED BY <1>3, <1>4

\* _next_boundary counts whole days from the day it starts in.
LEMMA BoundaryFrom ==
  ASSUME NEW after \in 0 .. 167, NEW weekday \in 0 .. 6, NEW clock \in 0 .. 23,
         NEW d \in 0 .. 6, 24 * d <= after, after < 24 * (d + 1)
  PROVE  Week!NextBoundary(weekday, clock, after)
           = IF weekday > d THEN 24 * weekday + clock
             ELSE IF weekday = d /\ 24 * d + clock > after THEN 24 * d + clock
             ELSE 168 + 24 * weekday + clock
<1>1. after % 168 = after
  OBVIOUS
<1>2. Week!Weekday(after) = d /\ Week!Hour(after) = after - 24 * d
  <2>1. /\ Week!Weekday(after) \in 0 .. 6 /\ Week!Hour(after) \in 0 .. 23
        /\ Week!Hour(after) = after - 24 * Week!Weekday(after)
    BY <1>1, HourOfTheWeek
  <2> QED BY <2>1
<1> DEFINE candidate == after - Week!Hour(after) + clock
           ahead == (weekday - Week!Weekday(after)) % 7
<1>3. candidate = 24 * d + clock
  BY <1>2
<1>4. ahead = IF weekday >= d THEN weekday - d ELSE weekday - d + 7
  BY <1>2
<1>5. Week!NextBoundary(weekday, clock, after)
        = candidate + (IF ahead = 0 /\ candidate <= after THEN 7 ELSE ahead) * 24
  BY DEF Week!NextBoundary, Week!Day
<1> HIDE DEF candidate, ahead
<1> QED BY <1>3, <1>4, <1>5

\* While the market is closed, next_open is the Sunday opening.
LEMMA OpensOnSunday ==
  ASSUME NEW h \in 0 .. 167
  PROVE  Week!NextOpen(h) = IF 118 <= h /\ h < 166 THEN 166 ELSE h
<1>1. Week!IsMarketOpen(h) <=> ~ (118 <= h /\ h < 166)
  BY TwoWeeks
<1>2. CASE ~ (118 <= h /\ h < 166)
  BY <1>1, <1>2 DEF Week!NextOpen
<1>3. CASE 118 <= h /\ h < 166
  <2>1. h - 1 \in 0 .. 167
    BY <1>3
  <2>2. Week!NextBoundary(6, 22, h - 1) = 166 /\ Week!NextBoundary(0, 0, h - 1) = 168
    <3>1. PICK d \in 4 .. 6 : 24 * d <= h - 1 /\ h - 1 < 24 * (d + 1)
      <4>1. h - 1 \in 117 .. 164
        BY <1>3
      <4>2. CASE h - 1 < 120
        BY <4>1, <4>2
      <4>3. CASE 120 <= h - 1 /\ h - 1 < 144
        BY <4>3
      <4>4. CASE 144 <= h - 1
        BY <4>1, <4>4
      <4> QED BY <4>1, <4>2, <4>3, <4>4
    <3>2. Week!NextBoundary(6, 22, h - 1)
            = IF 6 > d THEN 24 * 6 + 22
              ELSE IF 6 = d /\ 24 * d + 22 > h - 1 THEN 24 * d + 22 ELSE 168 + 24 * 6 + 22
      BY <2>1, <3>1, BoundaryFrom
    <3>3. Week!NextBoundary(0, 0, h - 1) = 168
      <4>1. Week!NextBoundary(0, 0, h - 1)
              = IF 0 > d THEN 24 * 0 + 0
                ELSE IF 0 = d /\ 24 * d + 0 > h - 1 THEN 24 * d + 0 ELSE 168 + 24 * 0 + 0
        BY <2>1, <3>1, BoundaryFrom
      <4> QED BY <3>1, <4>1
    <3> QED BY <1>3, <3>1, <3>2, <3>3
  <2> QED BY <1>1, <1>3, <2>2 DEF Week!NextOpen
<1> QED BY <1>2, <1>3

\* next_close is the Friday close, of this week or of the next.
LEMMA ClosesOnFriday ==
  ASSUME NEW h \in 0 .. 167
  PROVE  Week!NextClose(h) = IF h < 118 THEN 118 ELSE 286
<1> DEFINE from == IF 118 <= h /\ h < 166 THEN 166 ELSE h
<1>1. (IF Week!IsMarketOpen(h) THEN h ELSE Week!NextOpen(h)) = from
  <2>1. Week!IsMarketOpen(h) <=> ~ (118 <= h /\ h < 166)
    BY TwoWeeks
  <2> QED BY <2>1, OpensOnSunday
<1>2. from \in 0 .. 117 \cup 166 .. 167 /\ (from < 118 <=> h < 118)
  OBVIOUS
<1> HIDE DEF from
<1>3. PICK d \in {0, 1, 2, 3, 4, 6} : 24 * d <= from /\ from < 24 * (d + 1)
  <2>1. CASE from < 24
    BY <1>2, <2>1
  <2>2. CASE 24 <= from /\ from < 48
    BY <1>2, <2>2
  <2>3. CASE 48 <= from /\ from < 72
    BY <1>2, <2>3
  <2>4. CASE 72 <= from /\ from < 96
    BY <1>2, <2>4
  <2>5. CASE 96 <= from /\ from < 118
    BY <1>2, <2>5
  <2>6. CASE 166 <= from
    BY <1>2, <2>6
  <2> QED BY <1>2, <2>1, <2>2, <2>3, <2>4, <2>5, <2>6
<1>4. Week!NextBoundary(4, 22, from)
        = IF 4 > d THEN 24 * 4 + 22
          ELSE IF 4 = d /\ 24 * d + 22 > from THEN 24 * d + 22 ELSE 168 + 24 * 4 + 22
  BY <1>2, <1>3, BoundaryFrom
<1>5. Week!NextBoundary(4, 22, from) = IF from < 118 THEN 118 ELSE 286
  BY <1>2, <1>3, <1>4
<1> QED BY <1>1, <1>2, <1>5 DEF Week!NextClose

\* next_open and next_close are the first such instants, at the boundaries too
\* (market_hours.py).
LEMMA CalendarIsRight ==
  ASSUME hour \in 0 .. 167
  PROVE  Week!NextOpenIsFirst /\ Week!NextCloseIsFirst
<1>1. Week!NextOpenIsFirst
  <2>1. Week!NextOpen(hour) \in 0 .. 167
    BY OpensOnSunday
  <2>2. \A u \in 0 .. 167 : Week!IsMarketOpen(u) <=> ~ (118 <= u /\ u < 166)
    BY TwoWeeks
  <2>3. \A u \in hour .. (Week!NextOpen(hour) - 1) : 118 <= u /\ u < 166
    BY OpensOnSunday
  <2> QED BY <2>1, <2>2, <2>3, OpensOnSunday DEF Week!NextOpenIsFirst
<1>2. Week!NextCloseIsFirst
  <2> DEFINE close == Week!NextClose(hour)
  <2>1. close = IF hour < 118 THEN 118 ELSE 286
    BY ClosesOnFriday
  <2> HIDE DEF close
  <2>2. ~ Week!IsMarketOpen(close) /\ Week!IsMarketOpen(close - 1)
    BY <2>1, TwoWeeks
  <2>3. ASSUME NEW u \in (hour + 1) .. (close - 1)
        PROVE  ~ (Week!IsMarketOpen(u - 1) /\ ~ Week!IsMarketOpen(u))
    <3>1. u \in 0 .. 335 /\ u - 1 \in 0 .. 335 /\ u # 118 /\ u # 286
      BY <2>1
    <3> QED BY <3>1, TwoWeeks
  <2>4. close > hour
    BY <2>1
  <2> QED BY <2>2, <2>3, <2>4 DEF Week!NextCloseIsFirst, close
<1> QED BY <1>1, <1>2

----------------------------------------------------------------------------
(* The invariant of a week. *)

\* The age has the phase of the clock, and counts the bars that are missing: a
\* bar of its own length and one for each of them.
Lags ==
  \/ age = 168
  \/ age % BarHours = hour % BarHours /\ age >= BarHours * (1 + missing)

\* The newest stored bar is the last that ended, or the market has been closed
\* since that one ended.
LastBarIsStored ==
  \/ age = BarHours + (hour % BarHours)
  \/ 118 + BarHours <= hour /\ \A u \in (118 + BarHours) .. hour : ~ Week!BarEnds(u)

\* What the last sweep published is what a sweep now would find, but before the
\* first sweep.
PictureIsCurrent ==
  picture = Week!Breached(hour, age) \/ (~ picture /\ missing = 0)

WeekInv ==
  /\ hour \in 0 .. 167 /\ missing \in 0 .. 5 /\ picture \in BOOLEAN
  /\ age = Week!NoBar \/ age \in BarHours .. 168
  /\ age # Week!NoBar => Lags
  /\ age # Week!NoBar /\ missing = 0 => LastBarIsStored
  /\ worker => PictureIsCurrent

\* The lengths of bars that fill a day.
LEMMA BarLengths ==
  ASSUME Week!StalenessAssumption
  PROVE  BarHours \in {1, 2, 3, 4, 6, 8, 12, 24}
<1>1. BarHours \in 1 .. 24 /\ 24 % BarHours = 0
  BY DEF Week!StalenessAssumption, Week!Day
<1>2. BarHours \notin {5, 7, 9, 10, 11} /\ BarHours \notin 13 .. 23
  <2>1. BarHours # 5 /\ BarHours # 7 /\ BarHours # 9 /\ BarHours # 10 /\ BarHours # 11
    BY <1>1
  <2>2. BarHours \in 13 .. 23 => 24 % BarHours = 24 - BarHours
    BY <1>1
  <2> QED BY <1>1, <2>1, <2>2
<1> QED BY <1>1, <1>2

\* The phase of the clock after an hour, over the end of the week too.
LEMMA NextHour ==
  ASSUME Week!StalenessAssumption, NEW h \in 0 .. 167
  PROVE  LET n == (h + 1) % 168
         IN  /\ n \in 0 .. 167
             /\ n = IF h = 167 THEN 0 ELSE h + 1
             /\ n % BarHours = IF h % BarHours = BarHours - 1 THEN 0 ELSE (h % BarHours) + 1
             /\ h % BarHours \in 0 .. (BarHours - 1)
<1> DEFINE n == (h + 1) % 168
<1>1. n \in 0 .. 167 /\ n = IF h = 167 THEN 0 ELSE h + 1
  OBVIOUS
<1>2. ASSUME NEW s \in {1, 2, 3, 4, 6, 8, 12, 24}
      PROVE  /\ n % s = IF h % s = s - 1 THEN 0 ELSE (h % s) + 1
             /\ h % s \in 0 .. (s - 1)
  <2> HIDE DEF n
  <2>1. CASE s = 1
    BY <1>1, <2>1
  <2>2. CASE s = 2
    BY <1>1, <2>2
  <2>3. CASE s = 3
    BY <1>1, <2>3
  <2>4. CASE s = 4
    BY <1>1, <2>4
  <2>5. CASE s = 6
    BY <1>1, <2>5
  <2>6. CASE s = 8
    BY <1>1, <2>6
  <2>7. CASE s = 12
    BY <1>1, <2>7
  <2>8. CASE s = 24
    BY <1>1, <2>8
  <2> QED BY <2>1, <2>2, <2>3, <2>4, <2>5, <2>6, <2>7, <2>8
<1> QED BY <1>1, <1>2, BarLengths

\* Beyond one multiple of the length of a bar, the next is the first.
LEMMA NextBar ==
  ASSUME Week!StalenessAssumption, NEW a \in 0 .. 168, a % BarHours = 0,
         NEW m \in 0 .. 5, a > BarHours * (1 + m)
  PROVE  a >= BarHours * (2 + m)
<1>1. ASSUME NEW s \in {1, 2, 3, 4, 6, 8, 12, 24}, a % s = 0, a > s * (1 + m)
      PROVE  a >= s * (2 + m)
  <2>1. CASE s = 1
    BY <1>1, <2>1
  <2>2. CASE s = 2
    BY <1>1, <2>2
  <2>3. CASE s = 3
    BY <1>1, <2>3
  <2>4. CASE s = 4
    BY <1>1, <2>4
  <2>5. CASE s = 6
    BY <1>1, <2>5
  <2>6. CASE s = 8
    BY <1>1, <2>6
  <2>7. CASE s = 12
    BY <1>1, <2>7
  <2>8. CASE s = 24
    BY <1>1, <2>8
  <2> QED BY <2>1, <2>2, <2>3, <2>4, <2>5, <2>6, <2>7, <2>8
<1> QED BY <1>1, BarLengths

\* The threshold is three bars, and less than four.
LEMMA Threshold ==
  ASSUME Week!StalenessAssumption
  PROVE  /\ BarHours \in 1 .. 24
         /\ Week!StalenessThreshold \in Nat
         /\ 3 * BarHours <= Week!StalenessThreshold /\ Week!StalenessThreshold < 4 * BarHours
  BY DEF Week!StalenessAssumption, Week!StalenessThreshold, Week!Day

\* A week whose newest bar is as old as the invariant says is swept right.
LEMMA SweepIsRight ==
  ASSUME Week!StalenessAssumption, WeekInv
  PROVE  Week!StallIsFlagged /\ Week!FreshIsQuiet
<1>1. /\ BarHours \in 1 .. 24 /\ Week!StalenessThreshold \in Nat
      /\ 3 * BarHours <= Week!StalenessThreshold /\ Week!StalenessThreshold < 4 * BarHours
  BY Threshold
<1>2. hour \in 0 .. 167 /\ missing \in 0 .. 5
  BY DEF WeekInv
<1>3. Week!IsMarketOpen(hour) <=> ~ (118 <= hour /\ hour < 166)
  BY <1>2, TwoWeeks
<1>4. Week!StallIsFlagged
  <2> SUFFICES ASSUME worker, Week!IsMarketOpen(hour), missing >= 3
               PROVE  picture
    BY DEF Week!StallIsFlagged
  <2>1. CASE age = Week!NoBar
    BY <1>2, <2>1 DEF WeekInv, PictureIsCurrent, Week!Breached
  <2>2. CASE age # Week!NoBar
    <3>1. age \in BarHours .. 168 /\ (age = 168 \/ age >= BarHours * (1 + missing))
      BY <2>2 DEF WeekInv, Lags
    <3>2. BarHours * (1 + missing) >= 4 * BarHours
      <4>1. missing \in {3, 4, 5}
        BY <1>2
      <4> QED BY <1>1, <4>1
    <3>3. age > Week!StalenessThreshold
      BY <1>1, <1>2, <3>1, <3>2
    <3> QED BY <1>2, <2>2, <3>3 DEF WeekInv, PictureIsCurrent, Week!Breached
  <2> QED BY <2>1, <2>2
<1>5. Week!FreshIsQuiet
  <2> SUFFICES ASSUME picture, worker, missing = 0, age # Week!NoBar
               PROVE  hour >= 166 /\ \A u \in 167 .. hour : ~ Week!BarEnds(u)
    BY DEF Week!FreshIsQuiet, Week!SundayOpen, Week!Day
  <2>1. Week!IsMarketOpen(hour) /\ age > Week!StalenessThreshold
    BY DEF WeekInv, PictureIsCurrent, Week!Breached
  <2>2. age # BarHours + (hour % BarHours)
    <3>1. hour % BarHours \in 0 .. (BarHours - 1)
      BY <1>2, NextHour
    <3> QED BY <1>1, <2>1, <3>1
  <2>3. 118 + BarHours <= hour /\ \A u \in (118 + BarHours) .. hour : ~ Week!BarEnds(u)
    BY <2>2 DEF WeekInv, LastBarIsStored
  <2>4. hour >= 166
    BY <1>1, <1>2, <1>3, <2>1, <2>3
  <2>5. \A u \in 167 .. hour : u \in (118 + BarHours) .. hour
    BY <1>1, <1>2
  <2> QED BY <2>3, <2>4, <2>5
<1> QED BY <1>4, <1>5

----------------------------------------------------------------------------
(* The steps of a week. *)

LEMMA WeekBegins ==
  ASSUME Week!StalenessAssumption, Week!Init
  PROVE  WeekInv
<1>1. /\ hour = 0 /\ missing = 0 /\ age = Week!NoBar
      /\ picture = FALSE
  BY DEF Week!Init
<1>2. PictureIsCurrent
  BY <1>1, Zenon DEF PictureIsCurrent
<1>3. 0 \in 0 .. 167 /\ 0 \in 0 .. 5 /\ FALSE \in BOOLEAN
  OBVIOUS
<1> QED BY <1>1, <1>2, <1>3, Zenon DEF WeekInv

\* What an hour does to the age and to the count of missing bars.
LEMMA HourPasses ==
  ASSUME Week!StalenessAssumption, WeekInv, Week!Pass
  PROVE  /\ hour' \in 0 .. 167 /\ missing' \in 0 .. 5
         /\ age' = Week!NoBar \/ age' \in BarHours .. 168
         /\ (age # Week!NoBar => Lags)' /\ (age # Week!NoBar /\ missing = 0 => LastBarIsStored)'
<1> DEFINE h == (hour + 1) % 168
<1>1. hour \in 0 .. 167 /\ missing \in 0 .. 5 /\ (age = Week!NoBar \/ age \in BarHours .. 168)
  BY DEF WeekInv
<1>2. /\ h \in 0 .. 167 /\ h = IF hour = 167 THEN 0 ELSE hour + 1
      /\ h % BarHours = IF hour % BarHours = BarHours - 1 THEN 0 ELSE (hour % BarHours) + 1
      /\ hour % BarHours \in 0 .. (BarHours - 1)
  BY <1>1, NextHour
<1>3. hour' = h
  BY DEF Week!Pass, Week!Week, Week!Day
<1> HIDE DEF h
<1>4. BarHours \in 1 .. 24
  BY Threshold
<1>5. Week!BarEnds(h) <=> h % BarHours = 0 /\ ~ (118 + BarHours <= h /\ h <= 166)
  BY <1>2, BarsOfTheWeek
<1>6. CASE Week!BarEnds(h) /\ Week!Ingests
  <2>1. age' = BarHours /\ missing' = 0
    BY <1>3, <1>6 DEF Week!Pass, Week!Week, Week!Day, h
  <2>2. BarHours % BarHours = 0
    BY BarLengths
  <2>3. h % BarHours = 0
    BY <1>5, <1>6
  <2>4. Lags' /\ LastBarIsStored'
    BY <1>3, <1>4, <2>1, <2>2, <2>3 DEF Lags, LastBarIsStored
  <2> QED BY <1>2, <1>3, <1>4, <2>1, <2>4
<1>7. CASE ~ (Week!BarEnds(h) /\ Week!Ingests)
  <2>1. /\ age' = IF age = Week!NoBar \/ age = 168 THEN age ELSE age + 1
        /\ missing' = IF Week!BarEnds(h) /\ missing < 5 THEN missing + 1 ELSE missing
    BY <1>3, <1>7 DEF Week!Pass, Week!Older, Week!Week, Week!Day, h
  <2>2. missing' \in 0 .. 5 /\ (age' = Week!NoBar \/ age' \in BarHours .. 168)
    BY <1>1, <1>4, <2>1 DEF Week!NoBar
  <2>3. ASSUME age' # Week!NoBar
        PROVE  Lags'
    <3>1. CASE age = 168
      BY <2>1, <3>1 DEF Lags, Week!NoBar
    <3>2. CASE age # 168 /\ age' # 168
      <4>1. age \in BarHours .. 166 /\ age' = age + 1
        BY <1>1, <2>1, <2>3, <3>2 DEF Week!NoBar
      <4>2. age % BarHours = hour % BarHours /\ age >= BarHours * (1 + missing)
        BY <1>4, <3>2, <4>1 DEF WeekInv, Lags, Week!NoBar
      <4>3. age' % BarHours = h % BarHours
        <5>1. (age + 1) % 168 = age + 1
          BY <1>4, <4>1
        <5>2. (age + 1) % BarHours
                = IF age % BarHours = BarHours - 1 THEN 0 ELSE (age % BarHours) + 1
          <6>1. ((age + 1) % 168) % BarHours
                  = IF age % BarHours = BarHours - 1 THEN 0 ELSE (age % BarHours) + 1
            <7>1. age \in 0 .. 167
              BY <1>4, <4>1
            <7> QED BY <7>1, NextHour
          <6> QED BY <5>1, <6>1
        <5> QED BY <1>2, <4>1, <4>2, <5>2
      <4>4. age' >= BarHours * (1 + missing')
        <5>1. CASE missing' = missing
          <6>1. BarHours * (1 + missing) \in Int
            BY <1>1, <1>4
          <6> QED BY <1>1, <4>1, <4>2, <5>1, <6>1
        <5>2. CASE missing' # missing
          <6>1. Week!BarEnds(h) /\ missing' = missing + 1
            BY <2>1, <5>2
          <6>2. age' % BarHours = 0
            BY <1>5, <4>3, <6>1
          <6>3. age' > BarHours * (1 + missing)
            <7>1. BarHours * (1 + missing) \in Int
              BY <1>1, <1>4
            <7> QED BY <1>4, <4>1, <4>2, <7>1
          <6>4. age' >= BarHours * (2 + missing)
            BY <1>1, <1>4, <4>1, <6>2, <6>3, NextBar
          <6>5. 2 + missing = 1 + missing'
            BY <1>1, <6>1
          <6> QED BY <6>4, <6>5
        <5> QED BY <5>1, <5>2
      <4> QED BY <1>3, <4>3, <4>4 DEF Lags
    <3>3. CASE age' = 168
      BY <3>3 DEF Lags
    <3> QED BY <3>1, <3>2, <3>3
  <2>4. ASSUME age' # Week!NoBar, missing' = 0
        PROVE  LastBarIsStored'
    <3>1. missing = 0 /\ ~ Week!BarEnds(h) /\ age \in BarHours .. 168
      BY <1>1, <2>1, <2>4
    <3>2. LastBarIsStored
      BY <1>4, <3>1 DEF WeekInv, Week!NoBar
    <3>3. CASE age = BarHours + (hour % BarHours)
      <4>1. age' = age + 1
        BY <1>2, <1>4, <2>1, <3>1, <3>3 DEF Week!NoBar
      <4>2. CASE hour % BarHours # BarHours - 1
        <5>1. age' = BarHours + (h % BarHours)
          BY <1>2, <1>4, <3>3, <4>1, <4>2
        <5> QED BY <1>3, <5>1 DEF LastBarIsStored
      <4>3. CASE hour % BarHours = BarHours - 1
        <5>1. 118 + BarHours <= h /\ h <= 166
          BY <1>2, <1>5, <3>1, <4>3
        <5>2. \A u \in (118 + BarHours) .. h : ~ Week!BarEnds(u)
          <6> SUFFICES ASSUME NEW u \in (118 + BarHours) .. h PROVE ~ Week!BarEnds(u)
            OBVIOUS
          <6>1. u \in 0 .. 167 /\ 118 + BarHours <= u /\ u <= 166
            BY <1>2, <1>4, <5>1
          <6> QED BY <6>1, BarsOfTheWeek
        <5> QED BY <1>3, <5>1, <5>2 DEF LastBarIsStored, Week!BarEnds
      <4> QED BY <4>2, <4>3
    <3>4. CASE 118 + BarHours <= hour /\ \A u \in (118 + BarHours) .. hour : ~ Week!BarEnds(u)
      <4>1. h = hour + 1
        <5>1. h # 0
          BY <1>4, <1>5, <3>1, BarLengths
        <5> QED BY <1>2, <5>1
      <4>2. \A u \in (118 + BarHours) .. h : u = h \/ u \in (118 + BarHours) .. hour
        BY <1>1, <1>4, <4>1
      <4>3. 118 + BarHours <= h
        BY <1>1, <1>4, <3>4, <4>1
      <4> QED BY <1>3, <3>1, <3>4, <4>2, <4>3 DEF LastBarIsStored, Week!BarEnds
    <3> QED BY <3>2, <3>3, <3>4 DEF LastBarIsStored
  <2> QED BY <1>2, <1>3, <2>2, <2>3, <2>4
<1> QED BY <1>6, <1>7

LEMMA WeekGoesOn ==
  ASSUME Week!StalenessAssumption, WeekInv, [Week!Next]_Week!vars
  PROVE  WeekInv'
<1>1. CASE Week!Pass
  <2>1. picture' \in BOOLEAN /\ (worker => PictureIsCurrent)'
    <3>1. hour' = (hour + 1) % 168 /\ worker' = worker
      BY <1>1 DEF Week!Pass, Week!Week, Week!Day
    <3>2. CASE worker
      <4>1. picture' = Week!Breached(hour', age')
        BY <1>1, <3>1, <3>2
           DEF Week!Pass, Week!PublishStalenessLatest, Week!Week, Week!Day
      <4>2. Week!Breached(hour', age') \in BOOLEAN
        BY Zenon DEF Week!Breached, Week!IsMarketOpen
      <4> QED BY <4>1, <4>2 DEF PictureIsCurrent, Week!Breached, Week!IsMarketOpen
    <3>3. CASE ~ worker
      BY <1>1, <3>1, <3>3 DEF Week!Pass, WeekInv
    <3> QED BY <3>2, <3>3
  <2> QED BY <1>1, <2>1, HourPasses DEF WeekInv
<1>2. CASE /\ UNCHANGED <<hour, age, missing, picture>>
           /\ worker' => worker
  BY <1>2 DEF WeekInv, Lags, LastBarIsStored, PictureIsCurrent, Week!Breached,
              Week!IsMarketOpen, Week!BarEnds
<1>3. CASE Week!ProviderFails
  BY <1>2, <1>3 DEF Week!ProviderFails
<1>4. CASE Week!ProviderReturns
  BY <1>2, <1>4 DEF Week!ProviderReturns
<1>5. CASE Week!Die
  BY <1>2, <1>5 DEF Week!Die
<1>6. CASE Week!Scrape
  BY <1>2, <1>6 DEF Week!Scrape
<1>7. CASE UNCHANGED Week!vars
  BY <1>2, <1>7 DEF Week!vars
<1> QED BY <1>1, <1>3, <1>4, <1>5, <1>6, <1>7 DEF Week!Next

----------------------------------------------------------------------------
(* The components side by side. *)

\* A step of another part is a step of the week that changes nothing of it.
LEMMA OtherPartsWait ==
  ASSUME [ProgressNext]_allVars
  PROVE  [Week!Next]_Week!vars
<1> USE DEF Only, weekVars, Week!vars
<1>1. CASE UNCHANGED allVars
  BY <1>1 DEF allVars
<1>2. CASE Only({"week"}) /\ Week!Next
  BY <1>2
<1>3. CASE \E ps : "week" \notin ps /\ Only(ps)
  BY <1>3
<1>4. ProgressNext => (Only({"week"}) /\ Week!Next) \/ \E ps : "week" \notin ps /\ Only(ps)
  <2> HIDE DEF Only
  <2>1. /\ "week" \notin {"cycles", "jobs"} /\ "week" \notin {"agents"}
        /\ "week" \notin {"engine"} /\ "week" \notin {"alerts"} /\ "week" \notin {"run"}
        /\ "week" \notin {"crashes", "rolling"} /\ "week" \notin {"page", "denied"}
    OBVIOUS
  <2> QED BY <2>1, Zenon DEF ProgressNext
<1> QED BY <1>1, <1>2, <1>3, <1>4

\* The age of the newest stored bar tells how many are missing, in every
\* behaviour (WeekInv).
THEOREM ProgressInvariance ==
  ASSUME Week!StalenessAssumption
  PROVE  ProgressSpec => []WeekInv
<1>1. ProgressInit => WeekInv
  BY WeekBegins DEF ProgressInit
<1>2. WeekInv /\ [ProgressNext]_allVars => WeekInv'
  BY OtherPartsWait, WeekGoesOn
<1> QED BY <1>1, <1>2, PTL DEF ProgressSpec

\* While the market trades, the sweep flags every series that lags three bars,
\* and a complete one only around the Sunday opening; next_open and next_close
\* are the first such instants (StalenessMonitor.check, market_hours.py).
THEOREM ProgressSweep ==
  ASSUME Week!StalenessAssumption
  PROVE  ProgressSpec => []SweepIsAccurate
<1>1. WeekInv => SweepIsAccurate
  BY SweepIsRight, CalendarIsRight DEF WeekInv, SweepIsAccurate
<1> QED BY <1>1, ProgressInvariance, PTL

=============================================================================
