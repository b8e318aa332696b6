----------------------------- MODULE ScheduleProofs -----------------------------
(* The arithmetic of Schedule, for every moment and every window. *)
EXTENDS Schedule, FiniteSetTheorems, TLAPS

\* A moment is a day and a time of day.
LEMMA DayAndTime ==
    ASSUME NEW t \in Nat
    PROVE  /\ DayOf(t) \in Nat /\ TimeOfDay(t) \in 0..(Minutes - 1)
           /\ t = Date(DayOf(t), TimeOfDay(t))
  BY DEF DayOf, TimeOfDay, Minutes, Date

\* A date made of a day and a time of day has these as its parts.
LEMMA DateParts ==
    ASSUME NEW day \in Nat, NEW tod \in 0..(Minutes - 1)
    PROVE  Date(day, tod) \in Nat /\ DayOf(Date(day, tod)) = day /\ TimeOfDay(Date(day, tod)) = tod
  BY DEF DayOf, TimeOfDay, Minutes, Date

\* One of three days in a row is a weekday.
LEMMA WeekdayAhead ==
    ASSUME NEW day \in Nat
    PROVE  isWeekday(day) \/ isWeekday(day + 1) \/ isWeekday(day + 2)
  BY DEF isWeekday

\* Within a day moments are ordered by their time of day; a later day comes later.
LEMMA DateOrder ==
    ASSUME NEW day \in Nat, NEW x \in 0..(Minutes - 1), NEW y \in 0..(Minutes - 1)
    PROVE  /\ Date(day + 1, x) = Date(day, x) + Minutes
           /\ Date(day, x) < Date(day, y) <=> x < y
           /\ Date(day, x) - Date(day, y) < Minutes
           /\ \A i \in 1..3 : Date(day, x) < Date(day + i, y)
           /\ Date(day, 0) <= Date(day, x) /\ Date(day, x) < Date(day + 1, 0)
  BY DEF Date, Minutes

\* Minutes add up within a day, and days add up.
LEMMA DateShift ==
    ASSUME NEW day \in Nat, NEW x \in Nat, NEW d \in Nat
    PROVE  /\ Date(day, x) + d = Date(day, x + d)
           /\ Date(day + d, x) = Date(day, x) + d * Minutes
  BY DEF Date, Minutes

\* A moment and another one later the same day.
LEMMA SameDay ==
    ASSUME NEW t \in Nat, NEW d \in Nat, TimeOfDay(t) + d < Minutes
    PROVE  DayOf(t + d) = DayOf(t) /\ TimeOfDay(t + d) = TimeOfDay(t) + d
<1>1. t = Date(DayOf(t), TimeOfDay(t)) /\ DayOf(t) \in Nat /\ TimeOfDay(t) \in 0..(Minutes - 1)
  BY DayAndTime
<1>2. Date(DayOf(t), TimeOfDay(t)) + d = Date(DayOf(t), TimeOfDay(t) + d)
  BY <1>1, DateShift
<1>3. TimeOfDay(t) + d \in 0..(Minutes - 1)
  <2> DEFINE x == TimeOfDay(t)
  <2>1. x \in Nat /\ x + d < 1440 /\ d \in Nat
    BY <1>1, SMTT(20) DEF Minutes
  <2> HIDE DEF x
  <2>2. x + d \in 0..1439
    BY ONLY <2>1
  <2> QED
    BY <2>2 DEF x, Minutes
<1>4. t + d = Date(DayOf(t), TimeOfDay(t) + d)
  BY <1>1, <1>2
<1> QED
  BY <1>1, <1>3, <1>4, DateParts

\* The windows a job can be configured with.
Window == [start : 0..(Minutes - 1), end : 0..(Minutes - 1), retryEvery : Nat,
           weekdaysOnly : BOOLEAN]

\* A number has a day when it lies between the day's midnight and the next.
LEMMA DayOfMoment ==
    ASSUME NEW t \in Nat, NEW day \in Nat, Date(day, 0) <= t, t < Date(day + 1, 0)
    PROVE  DayOf(t) = day
  BY DEF DayOf, Minutes, Date

\* The nightly task never waits for nothing nor skips a day.
THEOREM DailyTask ==
    ASSUME NEW now \in Nat, NEW tod \in 0..(Minutes - 1)
    PROVE  DailyIsNext(tod, now)
<1> DEFINE today == Date(DayOf(now), tod)
<1> DEFINE tomorrow == Date(DayOf(now) + 1, tod)
<1>1. DayOf(now) \in Nat /\ TimeOfDay(now) \in 0..(Minutes - 1)
      /\ now = Date(DayOf(now), TimeOfDay(now))
  BY DayAndTime
<1>2. today \in Nat /\ tomorrow \in Nat /\ TimeOfDay(today) = tod /\ TimeOfDay(tomorrow) = tod
  BY <1>1, DateParts
<1>3. tomorrow = today + Minutes /\ today - now < Minutes /\ now - today < Minutes
  <2>1. now - today < Minutes /\ today - now < Minutes
    BY <1>1, DateOrder
  <2>2. tomorrow = today + Minutes
    BY <1>1, DateOrder
  <2> QED
    BY <2>1, <2>2
<1>4. CASE today > now
  <2>1. nextDaily(tod, now) = today - now
    BY <1>4 DEF nextDaily
  <2>2. now + (today - now) = today
    BY <1>2
  <2>3. today - now \in 1..Minutes
    <3>1. today \in Nat /\ today > now /\ today - now < Minutes /\ Minutes \in Nat
      BY <1>2, <1>3, <1>4 DEF Minutes
    <3> HIDE DEF today
    <3> QED
      BY <3>1
  <2> QED
    BY <1>2, <2>1, <2>2, <2>3 DEF DailyIsNext
<1>5. CASE ~(today > now)
  <2>1. nextDaily(tod, now) = tomorrow - now
    BY <1>5 DEF nextDaily
  <2>2. now + (tomorrow - now) = tomorrow
    BY <1>2
  <2>3. tomorrow - now \in 1..Minutes
    <3>1. /\ today \in Nat /\ tomorrow \in Nat /\ Minutes \in Nat
          /\ ~(today > now) /\ now - today < Minutes /\ tomorrow = today + Minutes
      BY <1>2, <1>3, <1>5 DEF Minutes
    <3> HIDE DEF today, tomorrow
    <3> QED
      BY <3>1
  <2> QED
    BY <1>2, <2>1, <2>2, <2>3 DEF DailyIsNext
<1> QED
  BY <1>4, <1>5

\* One of the four candidates of the loop opens, so the least of them exists.
LEMMA SomeOpening ==
    ASSUME NEW now \in Nat, NEW window \in Window
    PROVE  \E i \in 0..3 :
             /\ Opens(window, DayOf(now) + i, now)
             /\ \A j \in 0..3 : Opens(window, DayOf(now) + j, now) => i <= j
<1> DEFINE O(i) == Opens(window, DayOf(now) + i, now)
<1>1. DayOf(now) \in Nat /\ TimeOfDay(now) \in 0..(Minutes - 1)
      /\ now = Date(DayOf(now), TimeOfDay(now))
  BY DayAndTime
<1>2. window.start \in 0..(Minutes - 1)
  BY DEF Window
<1>3. \A i \in 1..3 : Date(DayOf(now) + i, window.start) > now
  <2>1. \A i \in 1..3 : now < Date(DayOf(now) + i, window.start)
    BY <1>1, <1>2, DateOrder
  <2>2. \A i \in 1..3 : Date(DayOf(now) + i, window.start) \in Nat
    BY <1>1, <1>2, DateParts
  <2> QED
    BY <2>1, <2>2
<1>4. isWeekday(DayOf(now) + 1) \/ isWeekday(DayOf(now) + 2) \/ isWeekday(DayOf(now) + 3)
  BY <1>1 DEF isWeekday
<1>5. O(1) \/ O(2) \/ O(3)
  BY <1>3, <1>4 DEF Opens
<1> HIDE DEF O
<1>6. \E i \in 0..3 : O(i) /\ \A j \in 0..3 : O(j) => i <= j
  <2>1. CASE O(0)
    BY <2>1
  <2>2. CASE ~O(0) /\ O(1)
    BY <2>2
  <2>3. CASE ~O(0) /\ ~O(1) /\ O(2)
    BY <2>3
  <2>4. CASE ~O(0) /\ ~O(1) /\ ~O(2) /\ O(3)
    BY <2>4
  <2> QED
    BY <1>5, <2>1, <2>2, <2>3, <2>4
<1> QED
  BY <1>6 DEF O

\* The worker sleeps until the next opening of its window, whatever the window.
THEOREM WindowOpening ==
    ASSUME NEW now \in Nat, NEW window \in Window
    PROVE  WindowIsNext(window, now)
<1> DEFINE Least(i) == /\ Opens(window, DayOf(now) + i, now)
                       /\ \A j \in 0..3 : Opens(window, DayOf(now) + j, now) => i <= j
<1> DEFINE n == CHOOSE i \in 0..3 : Least(i)
<1> DEFINE at == Date(DayOf(now) + n, window.start)
<1>1. n \in 0..3 /\ Least(n)
  BY SomeOpening
<1>2. nextBusinessWindowStart(window, now) = at - now
  BY DEF nextBusinessWindowStart
<1> HIDE DEF n
<1>3. DayOf(now) \in Nat /\ window.start \in 0..(Minutes - 1)
  BY DayAndTime DEF Window
<1>4. at \in Nat /\ DayOf(at) = DayOf(now) + n /\ TimeOfDay(at) = window.start
  BY <1>1, <1>3, DateParts
<1>5. at > now /\ (window.weekdaysOnly => isWeekday(DayOf(now) + n))
  BY <1>1 DEF Opens
<1>6. now + (at - now) = at
  BY <1>4
<1>7. ASSUME NEW day \in DayOf(now)..(DayOf(at) - 1)
      PROVE  Date(day, window.start) <= now \/ (window.weekdaysOnly /\ ~isWeekday(day))
  <2>1. day - DayOf(now) \in 0..3 /\ day - DayOf(now) < n /\ day \in Nat
        /\ DayOf(now) + (day - DayOf(now)) = day
    BY <1>1, <1>3, <1>4, <1>7
  <2>2. ~Opens(window, day, now)
    <3>1. Opens(window, DayOf(now) + (day - DayOf(now)), now) => n <= day - DayOf(now)
      BY <1>1, <2>1
    <3> QED
      BY <1>1, <2>1, <3>1
  <2>3. Date(day, window.start) \in Nat
    BY <1>3, <2>1, DateParts
  <2> QED
    BY <2>2, <2>3 DEF Opens
<1>8. at - now \in 1..(4 * Minutes)
  <2> DEFINE today == Date(DayOf(now), window.start)
  <2>1. today - now < Minutes /\ today \in Nat
    <3> DEFINE day == DayOf(now)
    <3> DEFINE start == window.start
    <3>1. TimeOfDay(now) \in 0..(Minutes - 1) /\ now = Date(day, TimeOfDay(now))
          /\ day \in Nat /\ start \in 0..(Minutes - 1)
      BY <1>3, DayAndTime
    <3> HIDE DEF day, start
    <3>2. Date(day, start) - now < Minutes
      BY <3>1, DateOrder
    <3>3. Date(day, start) \in Nat
      BY ONLY <3>1, DateParts
    <3> QED
      BY <3>2, <3>3 DEF day, start
  <2>2. at = today + n * Minutes
    <3> DEFINE day == DayOf(now)
    <3> DEFINE start == window.start
    <3>1. n \in Nat /\ start \in Nat /\ day \in Nat
      <4>1. n \in 0..3
        BY <1>1
      <4>2. start \in 0..1439 /\ day \in Nat
        BY <1>3 DEF Minutes
      <4> HIDE DEF start, day
      <4> QED
        BY ONLY <4>1, <4>2
    <3> HIDE DEF day, start
    <3>2. Date(day + n, start) = Date(day, start) + n * Minutes
      BY ONLY <3>1 DEF Date, Minutes
    <3> QED
      BY <3>2 DEF day, start
  <2>3. at - now < 4 * Minutes
    BY <1>1, <2>1, <2>2 DEF Minutes
  <2> HIDE DEF at
  <2> QED
    BY <1>4, <1>5, <2>3 DEF Minutes
<1> HIDE DEF at
<1>9. now + nextBusinessWindowStart(window, now) = at
  BY <1>2, <1>6
<1> QED
  BY <1>2, <1>4, <1>5, <1>7, <1>8, <1>9 DEF WindowIsNext

\* The date that a scheduled response must carry exists, is a weekday, and only a
\* weekend lies before it.
THEOREM NextBusinessDate ==
    ASSUME NEW now \in Nat
    PROVE  BusinessDateIsNext(now)
<1> DEFINE D == DayOf(now)
<1> DEFINE Good(d) == isWeekday(d) /\ \A e \in (D + 1)..(d - 1) : ~isWeekday(e)
<1>1. D \in Nat
  BY DayAndTime
<1>2. isWeekday(D + 1) \/ isWeekday(D + 2) \/ isWeekday(D + 3)
  BY <1>1 DEF isWeekday
<1> HIDE DEF D
<1>3. \E d \in (D + 1)..(D + 3) : Good(d)
  <2>1. CASE isWeekday(D + 1)
    BY <1>1, <2>1
  <2>2. CASE ~isWeekday(D + 1) /\ isWeekday(D + 2)
    <3>1. \A e \in (D + 1)..((D + 2) - 1) : e = D + 1
      BY <1>1
    <3> QED
      BY <1>1, <2>2, <3>1
  <2>3. CASE ~isWeekday(D + 1) /\ ~isWeekday(D + 2) /\ isWeekday(D + 3)
    <3>1. \A e \in (D + 1)..((D + 3) - 1) : e = D + 1 \/ e = D + 2
      BY <1>1
    <3> QED
      BY <1>1, <2>3, <3>1
  <2> QED
    BY <1>2, <2>1, <2>2, <2>3
<1>4. nextBusinessDate(now) = CHOOSE d \in (D + 1)..(D + 3) : Good(d)
  BY DEF nextBusinessDate, D
<1>5. nextBusinessDate(now) \in (D + 1)..(D + 3) /\ Good(nextBusinessDate(now))
  BY <1>3, <1>4
<1> QED
  BY <1>5 DEF BusinessDateIsNext, D

\* What the retry guard is for: no attempt at the closing time or later.
LEMMA RetriesStayInside ==
    ASSUME NEW now \in Nat, NEW window \in Window,
           TimeOfDay(now) >= window.start,
           shouldRetry(window, now, businessWindowEnd(window, now))
    PROVE  /\ DayOf(nextRetry(window, now)) = DayOf(now)
           /\ TimeOfDay(nextRetry(window, now)) \in window.start..(window.end - 1)
<1> DEFINE t == nextRetry(window, now)
<1>1. /\ DayOf(now) \in Nat /\ TimeOfDay(now) \in 0..(Minutes - 1)
      /\ now = Date(DayOf(now), TimeOfDay(now))
  BY DayAndTime
<1>2. /\ window.start \in 0..(Minutes - 1) /\ window.end \in 0..(Minutes - 1)
      /\ window.retryEvery \in Nat
  BY DEF Window
<1>3. t \in Nat /\ t >= now /\ t < Date(DayOf(now), window.end)
  BY <1>2 DEF shouldRetry, nextRetry, businessWindowEnd
<1>4. DayOf(t) = DayOf(now)
  <2>1. Date(DayOf(now), 0) <= t /\ t < Date(DayOf(now) + 1, 0)
    <3>1. /\ Date(DayOf(now), 0) <= now
          /\ Date(DayOf(now), window.end) < Date(DayOf(now) + 1, 0)
      BY <1>1, <1>2, DateOrder
    <3>2. /\ Date(DayOf(now), 0) \in Nat /\ Date(DayOf(now), window.end) \in Nat
          /\ Date(DayOf(now) + 1, 0) \in Nat
      <4>1. 0 \in 0..(Minutes - 1) /\ DayOf(now) + 1 \in Nat
        BY <1>1 DEF Minutes
      <4> QED
        BY <1>1, <1>2, <4>1, DateParts
    <3> QED
      BY <1>3, <3>1, <3>2
  <2> QED
    BY <1>1, <1>3, <2>1, DayOfMoment
<1>5. t = Date(DayOf(now), TimeOfDay(t)) /\ TimeOfDay(t) \in 0..(Minutes - 1)
  BY <1>3, <1>4, DayAndTime
<1>6. TimeOfDay(t) >= TimeOfDay(now) /\ TimeOfDay(t) < window.end
  <2>1. TimeOfDay(t) < window.end
    BY <1>1, <1>2, <1>3, <1>5, DateOrder
  <2>2. ~(TimeOfDay(t) < TimeOfDay(now))
    BY <1>1, <1>3, <1>5, DateOrder
  <2> QED
    BY <1>1, <1>5, <2>1, <2>2
<1> QED
  BY <1>1, <1>2, <1>4, <1>5, <1>6

\* A day's rows are those that the task averages the night after it.
LEMMA NightAfter ==
    ASSUME NEW now \in Nat, NEW day \in Nat, NEW tod \in 0..(Minutes - 1)
    PROVE  now \in consolidationWindow(Date(day, tod)) <=> DayOf(now) = day - 1
<1>1. DayOf(Date(day, tod)) = day
  BY DateParts
<1>2. /\ DayOf(now) \in Nat /\ TimeOfDay(now) \in 0..1439
      /\ now = DayOf(now) * 1440 + TimeOfDay(now)
  BY DayAndTime DEF Minutes, Date
<1>3. consolidationWindow(Date(day, tod)) = ((day - 1) * 1440)..(day * 1440 - 1)
  <2>1. consolidationWindow(Date(day, tod)) = Date(day - 1, 0)..(Date(day, 0) - 1)
    BY <1>1 DEF consolidationWindow
  <2>2. Date(day - 1, 0) = (day - 1) * 1440 /\ Date(day, 0) = day * 1440
    BY DEF Date, Minutes
  <2> QED
    BY <2>1, <2>2
<1> DEFINE W == ((day - 1) * 1440)..(day * 1440 - 1)
<1> DEFINE D == DayOf(now)
<1>4. D * 1440 + TimeOfDay(now) \in W <=> D = day - 1
  <2> DEFINE t == TimeOfDay(now)
  <2>1. D \in Nat /\ t \in 0..1439
    BY <1>2
  <2> HIDE DEF D, t
  <2> DEFINE x == D * 1440 + t
  <2> DEFINE lo == (day - 1) * 1440
  <2> DEFINE hi == day * 1440 - 1
  <2>2. x \in Int /\ lo \in Int /\ hi \in Int
    BY ONLY <2>1
  <2>3. D = day - 1 => lo <= x /\ x <= hi
    BY ONLY <2>1
  <2>4. D > day - 1 => x > hi
    BY ONLY <2>1
  <2>5. D < day - 1 => x < lo
    BY ONLY <2>1
  <2>6. D = day - 1 \/ D > day - 1 \/ D < day - 1
    BY ONLY <2>1
  <2> HIDE DEF x, lo, hi
  <2>7. x \in lo..hi <=> lo <= x /\ x <= hi
    BY ONLY <2>2
  <2>8. ~(x > hi /\ x <= hi) /\ ~(x < lo /\ lo <= x)
    BY ONLY <2>2
  <2>9. D = day - 1 => x \in lo..hi
    BY ONLY <2>3, <2>7
  <2>10. x \in lo..hi => D = day - 1
    BY ONLY <2>4, <2>5, <2>6, <2>7, <2>8
  <2> QED
    BY <2>9, <2>10 DEF x, lo, hi, t
<1>5. consolidationWindow(Date(day, tod)) = W /\ now = D * 1440 + TimeOfDay(now)
  BY <1>2, <1>3
<1> HIDE DEF D, W
<1>6. now \in W <=> D = day - 1
  BY <1>4, <1>5
<1> QED
  BY <1>5, <1>6 DEF D

\* No row is averaged twice or left over, whenever the task runs and whenever the row
\* is recorded.
THEOREM OneNightAverages ==
    ASSUME NEW now \in Nat, NEW tod \in 0..(Minutes - 1)
    PROVE  AveragedByOneNight(tod, now)
<1> DEFINE day == DayOf(now)
<1> DEFINE first == now + nextDaily(tod, now)
<1>1. day \in Nat
  BY DayAndTime
<1>2. first = Date(day, tod) \/ first = Date(day + 1, tod)
  <2>1. Date(day, tod) \in Nat /\ Date(day + 1, tod) \in Nat
    BY <1>1, DateParts
  <2> QED
    BY <2>1 DEF nextDaily
<1> DEFINE In(night) == now \in consolidationWindow(first + night * Minutes)
<1>3. CASE first = Date(day, tod)
  <2>1. \A night \in 0..3 : In(night) <=> night = 1
    <3> TAKE night \in 0..3
    <3>1. first + night * Minutes = Date(day + night, tod)
      <4>1. tod \in Nat /\ night \in Nat /\ day \in Nat
        BY <1>1 DEF Minutes
      <4> QED
        BY <1>3, <4>1, DateShift
    <3>2. In(night) <=> day = day + night - 1
      BY <1>1, <3>1, NightAfter
    <3> QED
      BY <1>1, <3>2
  <2> HIDE DEF In
  <2>2. {night \in 0..3 : In(night)} = {1}
    BY <2>1
  <2> QED
    BY <2>2 DEF AveragedByOneNight, In
<1>4. CASE first = Date(day + 1, tod)
  <2>1. \A night \in 0..3 : In(night) <=> night = 0
    <3> TAKE night \in 0..3
    <3>1. first + night * Minutes = Date(day + 1 + night, tod)
      <4>1. tod \in Nat /\ night \in Nat /\ day + 1 \in Nat
        BY <1>1 DEF Minutes
      <4> QED
        BY <1>4, <4>1, DateShift
    <3>2. In(night) <=> day = day + 1 + night - 1
      BY <1>1, <3>1, NightAfter
    <3> QED
      BY <1>1, <3>2
  <2> HIDE DEF In
  <2>2. {night \in 0..3 : In(night)} = {0}
    BY <2>1
  <2> QED
    BY <2>2 DEF AveragedByOneNight, In
<1> QED
  BY <1>2, <1>3, <1>4

\* The dates under which the history answers a row and its day's average, although it
\* counts days in UTC and the task in UTC-4.
THEOREM HistoryFindsRows ==
    ASSUME NEW now \in Nat
    PROVE  FoundByDate(now)
<1> DEFINE day == DayOf(now)
<1> DEFINE tod == TimeOfDay(now)
<1>1. day \in Nat /\ tod \in 0..1439 /\ now = day * 1440 + tod
  BY DayAndTime DEF Minutes, Date
<1>2. \A a, b \in Int : historyRange(a, b) = (a * 1440 - 240)..((b + 1) * 1440 - 241)
  BY DEF historyRange, UtcMidnight, Date, Minutes
<1>3. Date(day, 0) = day * 1440
  BY <1>1 DEF Date, Minutes
<1> HIDE DEF day, tod
<1>4. \A d \in (day - 2)..(day + 2) :
        now \in historyRange(d, d) <=> d = (IF tod < 1200 THEN day ELSE day + 1)
  <2> TAKE d \in (day - 2)..(day + 2)
  <2>1. historyRange(d, d) = (d * 1440 - 240)..((d + 1) * 1440 - 241)
    <3>1. d \in Int
      BY <1>1
    <3> QED
      BY <1>2, <3>1
  <2>2. CASE tod < 1200
    BY <1>1, <2>1, <2>2
  <2>3. CASE ~(tod < 1200)
    BY <1>1, <2>1, <2>3
  <2> QED
    BY <2>2, <2>3
<1>5. {d \in (day - 2)..(day + 2) : now \in historyRange(d, d)} =
        {IF tod < 1200 THEN day ELSE day + 1}
  <2>1. (IF tod < 1200 THEN day ELSE day + 1) \in (day - 2)..(day + 2)
    BY <1>1
  <2> QED
    BY <1>4, <2>1
<1>6. Date(day, 0) \in historyRange(day, day)
  <2>1. historyRange(day, day) = (day * 1440 - 240)..((day + 1) * 1440 - 241)
    BY <1>1, <1>2
  <2>2. day * 1440 \in (day * 1440 - 240)..((day + 1) * 1440 - 241)
    BY <1>1
  <2> QED
    BY <1>3, <2>1, <2>2
<1>7. {now, Date(day, 0)} \subseteq historyRange(day, day + 1)
  <2>1. historyRange(day, day + 1) = (day * 1440 - 240)..((day + 2) * 1440 - 241)
    BY <1>1, <1>2
  <2> QED
    BY <1>1, <1>3, <2>1
<1> QED
  BY <1>5, <1>6, <1>7 DEF FoundByDate, day, tod

\* On a weekday the expected date is tomorrow's, and on a Friday the Monday's.
LEMMA DateOnWeekday ==
    ASSUME NEW day \in Int, NEW tod \in 0..(Minutes - 1), isWeekday(day)
    PROVE  nextBusinessDate(Date(day, tod)) = IF day % 7 = 4 THEN day + 3 ELSE day + 1
<1> DEFINE Good(d) == isWeekday(d) /\ \A e \in (day + 1)..(d - 1) : ~isWeekday(e)
<1>1. DayOf(Date(day, tod)) = day
  BY DEF DayOf, Date, Minutes
<1>2. nextBusinessDate(Date(day, tod)) = CHOOSE d \in (day + 1)..(day + 3) : Good(d)
  BY <1>1 DEF nextBusinessDate
<1>3. CASE day % 7 = 4
  <2>1. ~isWeekday(day + 1) /\ ~isWeekday(day + 2) /\ isWeekday(day + 3)
    BY <1>3 DEF isWeekday
  <2>2. Good(day + 3)
    <3>1. \A e \in (day + 1)..((day + 3) - 1) : e = day + 1 \/ e = day + 2
      OBVIOUS
    <3> QED
      BY <2>1, <3>1
  <2>3. \A d \in (day + 1)..(day + 3) : Good(d) => d = day + 3
    <3>1. \A d \in (day + 1)..(day + 3) : d = day + 1 \/ d = day + 2 \/ d = day + 3
      OBVIOUS
    <3> QED
      BY <2>1, <3>1
  <2>4. day + 3 \in (day + 1)..(day + 3)
    OBVIOUS
  <2> HIDE DEF Good
  <2> QED
    BY <1>2, <1>3, <2>2, <2>3, <2>4
<1>4. CASE day % 7 # 4
  <2>1. isWeekday(day + 1)
    BY <1>4 DEF isWeekday
  <2>2. Good(day + 1)
    <3>1. \A e \in (day + 1)..((day + 1) - 1) : FALSE
      OBVIOUS
    <3> QED
      BY <2>1, <3>1
  <2>3. \A d \in (day + 1)..(day + 3) : Good(d) => d = day + 1
    <3>1. \A d \in (day + 1)..(day + 3) : d # day + 1 => day + 1 \in (day + 1)..(d - 1)
      OBVIOUS
    <3> QED
      BY <2>1, <3>1
  <2>4. day + 1 \in (day + 1)..(day + 3)
    OBVIOUS
  <2> HIDE DEF Good
  <2> QED
    BY <1>2, <1>4, <2>2, <2>3, <2>4
<1> QED
  BY <1>3, <1>4

\* Each weekday's rate is expected on exactly one weekday, the one before it: the bank's
\* publication of a day has one evening, and no other evening waits for it.
THEOREM ExpectedOnce ==
    ASSUME NEW day \in Nat, NEW tod \in 0..(Minutes - 1)
    PROVE  DateExpectedOnce(day, tod)
<1> SUFFICES ASSUME isWeekday(day)
             PROVE  Cardinality({e \in (day - 7)..(day + 3) :
                        isWeekday(e) /\ nextBusinessDate(Date(e, tod)) = day}) = 1
  BY DEF DateExpectedOnce
<1> DEFINE before == IF day % 7 = 0 THEN day - 3 ELSE day - 1
<1> DEFINE Evenings == {e \in (day - 7)..(day + 3) :
                          isWeekday(e) /\ nextBusinessDate(Date(e, tod)) = day}
<1>1. before \in (day - 7)..(day + 3) /\ isWeekday(before)
  BY DEF isWeekday
<1>2. \A e \in (day - 7)..(day + 3) :
        isWeekday(e) => ((IF e % 7 = 4 THEN e + 3 ELSE e + 1) = day <=> e = before)
  BY DEF isWeekday
<1>3. \A e \in (day - 7)..(day + 3) :
        isWeekday(e) => (nextBusinessDate(Date(e, tod)) = day <=> e = before)
  <2> SUFFICES ASSUME NEW e \in (day - 7)..(day + 3), isWeekday(e)
               PROVE  nextBusinessDate(Date(e, tod)) = day <=> e = before
    OBVIOUS
  <2>1. nextBusinessDate(Date(e, tod)) = IF e % 7 = 4 THEN e + 3 ELSE e + 1
    BY DateOnWeekday
  <2> QED
    BY <1>2, <2>1
<1> HIDE DEF before
<1>4. Evenings = {before}
  BY <1>1, <1>3
<1>5. Cardinality({before}) = 1
  BY FS_Singleton
<1> QED
  BY <1>4, <1>5
================================================================================
