-------------------------------- MODULE Schedule --------------------------------
(***************************************************************************)
(* The time arithmetic of internal/worker/worker.go and                    *)
(* internal/provider/bcv.go.  Every location the service uses is a fixed   *)
(* offset without daylight saving (main.go, utcMinus4), so a moment is the *)
(* number of minutes since a Monday's midnight in that zone, now.In(loc)   *)
(* reads its day and its time of day, and AddDate(0, 0, n) adds n days.    *)
(***************************************************************************)
EXTENDS Integers, FiniteSets

Minutes == 1440

DayOf(t) == t \div Minutes
TimeOfDay(t) == t % Minutes

\* time.Date for a day and a time of day.
Date(day, tod) == day * Minutes + tod

\* isWeekday, for a day; day 0 is a Monday.
isWeekday(day) == day % 7 <= 4

\* Variant: due at once when it is now.
nextDailyOrNow(tod, now) ==
    LET candidate == Date(DayOf(now), tod) IN
    IF candidate >= now THEN candidate - now
    ELSE Date(DayOf(now) + 1, tod) - now

\* nextDaily: how long until the time of day comes next, a full day if it is now.
nextDaily(tod, now) ==
    LET candidate == Date(DayOf(now), tod) IN
    IF candidate > now THEN candidate - now
    ELSE Date(DayOf(now) + 1, tod) - now

\* Variant: the day of the week does not matter.
OpensAnyDay(window, day, now) == Date(day, window.start) > now

\* A BusinessWindow whose opening on a day is still ahead.
Opens(window, day, now) ==
    /\ Date(day, window.start) > now
    /\ window.weekdaysOnly => isWeekday(day)

\* nextBusinessWindowStart: the loop's first candidate that opens.  Three days
\* ahead is the furthest: from Friday evening to Monday.
nextBusinessWindowStart(window, now) ==
    LET n == CHOOSE i \in 0..3 :
                /\ Opens(window, DayOf(now) + i, now)
                /\ \A j \in 0..3 : Opens(window, DayOf(now) + j, now) => i <= j
    IN  Date(DayOf(now) + n, window.start) - now

\* businessWindowEnd: the closing time of the day it is asked on.
businessWindowEnd(window, now) == Date(DayOf(now), window.end)

\* Variant: the closing time itself is allowed.
shouldRetryAtClosing(window, now, deadline) == now + window.retryEvery <= deadline

\* nextBusinessWindowRetry: when, and whether, to try again.
nextRetry(window, now) == now + window.retryEvery
shouldRetry(window, now, deadline) == nextRetry(window, now) < deadline

\* Variant: always tomorrow.
tomorrowsDate(now) == DayOf(now) + 1

\* nextBusinessDate: tomorrow, or the Monday after a weekend.  Holidays count as
\* business days.
nextBusinessDate(now) ==
    CHOOSE d \in (DayOf(now) + 1)..(DayOf(now) + 3) :
        /\ isWeekday(d)
        /\ \A e \in (DayOf(now) + 1)..(d - 1) : ~isWeekday(e)

\* ValidateBCVPublication, for a response that has an effective date (bcvProvider.go
\* returns no other).
ValidateBCVPublication(effectiveDate, now) == effectiveDate = nextBusinessDate(now)

\* Variant: both ends belong to the window.
closedWindow(now) == Date(DayOf(now) - 1, 0)..Date(DayOf(now), 0)

\* The rows the nightly task averages and deletes: yesterday's, recorded_at in
\* [from, to).
consolidationWindow(now) == Date(DayOf(now) - 1, 0)..(Date(DayOf(now), 0) - 1)

\* time.Parse of a date reads UTC, four hours ahead of utcMinus4.
UtcMidnight(day) == Date(day, 0) - 240

\* Variant: the last day is not included.
historyWithoutLastDay(fromDate, toDate) == UtcMidnight(fromDate)..(UtcMidnight(toDate) - 1)

\* The rows the history answers for two dates: the full last day is included.
historyRange(fromDate, toDate) == UtcMidnight(fromDate)..(UtcMidnight(toDate + 1) - 1)

--------------------------------------------------------------------------------
(* What the arithmetic is for, at a moment now.                            *)

\* The daily task (01:00, main.go) is armed for its next occurrence: a positive
\* wait of at most a day, also at the very moment it fires.
DailyIsNext(tod, now) ==
    /\ nextDaily(tod, now) \in 1..Minutes
    /\ TimeOfDay(now + nextDaily(tod, now)) = tod

\* The window opens next at its start, some positive time within four days ahead,
\* on a weekday when it must, and no opening on a day in between is passed over.
WindowIsNext(window, now) ==
    LET at == now + nextBusinessWindowStart(window, now) IN
    /\ nextBusinessWindowStart(window, now) \in 1..(4 * Minutes)
    /\ TimeOfDay(at) = window.start
    /\ window.weekdaysOnly => isWeekday(DayOf(at))
    /\ \A day \in DayOf(now)..(DayOf(at) - 1) :
         Date(day, window.start) <= now \/ (window.weekdaysOnly /\ ~isWeekday(day))

\* The date a scheduled response must carry is a weekday after today, and only a
\* weekend lies between: from Friday to Monday, otherwise tomorrow.
BusinessDateIsNext(now) ==
    LET d == nextBusinessDate(now) IN
    /\ isWeekday(d)
    /\ d \in (DayOf(now) + 1)..(DayOf(now) + 3)
    /\ \A e \in (DayOf(now) + 1)..(d - 1) : ~isWeekday(e)

\* Every weekday is the expected date on exactly one weekday, and on no day after it:
\* each publication has one evening to be fetched, weekends aside.
DateExpectedOnce(day, tod) ==
    isWeekday(day) =>
        Cardinality({e \in (day - 7)..(day + 3) :
                        isWeekday(e) /\ nextBusinessDate(Date(e, tod)) = day}) = 1

\* A row recorded now is averaged by exactly one of the nightly tasks to come, the
\* next or the one after it, although the days of the windows and the nights of the
\* task do not begin at the same time.
AveragedByOneNight(tod, now) ==
    LET first == now + nextDaily(tod, now)
        Averaging == {night \in 0..3 : now \in consolidationWindow(first + night * Minutes)}
    IN  Averaging \in {{0}, {1}}

\* The history of single dates: a row recorded now is in the answer for exactly one
\* date, that of its day in utcMinus4 or, from 20:00 on, of the next.  Its day's average
\* is in the answer for the day itself, so that both are in the answer for the two.
FoundByDate(now) ==
    LET day == DayOf(now) IN
    /\ {d \in (day - 2)..(day + 2) : now \in historyRange(d, d)} =
            {IF TimeOfDay(now) < 1200 THEN day ELSE day + 1}
    /\ Date(day, 0) \in historyRange(day, day)
    /\ {now, Date(day, 0)} \subseteq historyRange(day, day + 1)
================================================================================
