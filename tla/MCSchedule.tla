------------------------------- MODULE MCSchedule -------------------------------
(* Every minute of a week, for the windows and times of day main.go configures. *)
EXTENDS Schedule

CONSTANT LastMinute   \* bound on the moments

VARIABLE moment       \* time.Now() in the fixed zone

Init == moment = 0
Next == moment < LastMinute /\ moment' = moment + 1
Spec == Init /\ [][Next]_moment

Windows == [start : {1020}, end : {1140}, retryEvery : {30}, weekdaysOnly : BOOLEAN]

\* The daily task is always armed for its next occurrence.
Daily == \A tod \in {0, 60, 1439} : DailyIsNext(tod, moment)

\* The worker always sleeps until the next opening of its window.
Opening == \A w \in Windows : WindowIsNext(w, moment)

\* Each business day's rate is expected on one weekday, whatever the time of day.
BusinessDate == DateExpectedOnce(DayOf(moment), TimeOfDay(moment))

\* Each row is averaged by one night's task (01:00, main.go).
OneNight == AveragedByOneNight(60, moment)

\* Each row, raw or averaged, is found by its date.
HistoryDates == FoundByDate(moment)
================================================================================
