---------------------------- MODULE MCScheduleProofs ----------------------------
(* What the Schedule run shows of a week, for every moment there is. *)
EXTENDS MCSchedule, ScheduleProofs

\* The moments are minutes from a Monday's midnight on.
LEMMA Moments == Spec => [](moment \in Nat)
<1>1. Init => moment \in Nat
  BY DEF Init
<1>2. moment \in Nat /\ [Next]_moment => (moment \in Nat)'
  BY DEF Next
<1> QED
  BY <1>1, <1>2, PTL DEF Spec

\* The windows of main.go are windows.
LEMMA ConfiguredWindows == Windows \subseteq Window
  BY DEF Windows, Window, Minutes

\* The daily task is armed for its next occurrence, at every moment.
THEOREM DailyAlways == Spec => []Daily
<1>1. moment \in Nat => Daily
  <2>1. {0, 60, 1439} \subseteq 0..(Minutes - 1)
    BY DEF Minutes
  <2> QED
    BY <2>1, DailyTask DEF Daily
<1> QED
  BY <1>1, Moments, PTL

\* A worker sleeps until the next opening of its window, at every moment.
THEOREM OpeningAlways == Spec => []Opening
<1>1. moment \in Nat => Opening
  BY ConfiguredWindows, WindowOpening DEF Opening
<1> QED
  BY <1>1, Moments, PTL

\* Every weekday's rate is expected on one weekday, on every day at every time of day.
THEOREM BusinessDateAlways == Spec => []BusinessDate
<1>1. moment \in Nat => BusinessDate
  <2>1. moment \in Nat => DayOf(moment) \in Nat /\ TimeOfDay(moment) \in 0..(Minutes - 1)
    BY DayAndTime
  <2> QED
    BY <2>1, ExpectedOnce DEF BusinessDate
<1> QED
  BY <1>1, Moments, PTL

\* Whenever a row is recorded, exactly one of the nightly tasks to come averages it.
THEOREM OneNightAlways == Spec => []OneNight
<1>1. moment \in Nat => OneNight
  <2>1. 60 \in 0..(Minutes - 1)
    BY DEF Minutes
  <2> QED
    BY <2>1, OneNightAverages DEF OneNight
<1> QED
  BY <1>1, Moments, PTL

\* Whenever a row is recorded, the history answers it and its average for their dates.
THEOREM HistoryDatesAlways == Spec => []HistoryDates
<1>1. moment \in Nat => HistoryDates
  BY HistoryFindsRows DEF HistoryDates
<1> QED
  BY <1>1, Moments, PTL
================================================================================
