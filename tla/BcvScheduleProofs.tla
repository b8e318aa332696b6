--------------------------- MODULE BcvScheduleProofs ---------------------------
(***************************************************************************)
(* When the BCV job fetches, for every duration of a fetch up to the hours *)
(* between the closing of the window and midnight, every behaviour of the  *)
(* bank and every restart.                                                 *)
(***************************************************************************)
EXTENDS BcvSchedule, ScheduleProofs, WellFoundedInduction

\* What the configured window is, in numbers.
LEMMA BcvWindowFacts ==
    /\ BcvWindow \in Window
    /\ BcvWindow.start = 1020 /\ BcvWindow.end = 1140 /\ BcvWindow.retryEvery = 30
    /\ Minutes = 1440
  BY DEF BcvWindow, Window, Minutes

\* The inductive invariant: the types already say that the clock is not past the
\* timer, and the window says where on its day the timer is.
IInv == TypeOK /\ AttemptsInWindow

\* What a step has to keep of the worker's timer.
TimerOK ==
    /\ timer \in Nat /\ now <= timer /\ pc \in {"initial", "window", "retry"}
    /\ deadline \in Nat \cup {Nil}
    /\ AttemptsInWindow

\* Going to sleep arms the timer for an opening that lies ahead.
LEMMA Sleeping ==
    ASSUME NEW t \in Nat, SleepUntilOpening(t), now' = t, deadline' \in Nat \cup {Nil}
    PROVE  TimerOK'
<1> DEFINE wait == nextBusinessWindowStart(BcvWindow, t)
<1>1. wait \in 1..(4 * Minutes) /\ TimeOfDay(t + wait) = BcvWindow.start
  BY BcvWindowFacts, WindowOpening DEF WindowIsNext
<1>2. pc' = "window" /\ timer' = t + wait
  BY DEF SleepUntilOpening
<1> HIDE DEF wait
<1>3. timer' \in Nat /\ t <= timer'
  BY <1>1, <1>2, BcvWindowFacts
<1>4. AttemptsInWindow'
  BY <1>1, <1>2, BcvWindowFacts DEF AttemptsInWindow
<1> QED
  BY <1>2, <1>3, <1>4 DEF TimerOK

\* A fetch that begins in the window ends on the same day, after the opening.
LEMMA EndOfFetch ==
    ASSUME IInv, NEW d \in FetchTime, pc \in {"window", "retry"}, now = timer
    PROVE  /\ now + d \in Nat
           /\ DayOf(now + d) = DayOf(now)
           /\ TimeOfDay(now + d) >= BcvWindow.start
<1>1. d \in 0..300
  BY FetchTimeAssumption, BcvWindowFacts
<1>2. now \in Nat /\ TimeOfDay(now) \in 1020..1139
  BY BcvWindowFacts DEF IInv, TypeOK, AttemptsInWindow
<1>3. d \in Nat /\ TimeOfDay(now) + d < Minutes
  BY <1>1, <1>2, BcvWindowFacts
<1>4. DayOf(now + d) = DayOf(now) /\ TimeOfDay(now + d) = TimeOfDay(now) + d
  BY <1>2, <1>3, SameDay
<1> QED
  BY <1>2, <1>3, <1>4, BcvWindowFacts

\* After a failure the timer is set inside today's window, or to an opening.
LEMMA Retrying ==
    ASSUME IInv, NEW d \in FetchTime, pc \in {"window", "retry"}, now = timer,
           now' = now + d, RetryOrSleep(now')
    PROVE  TimerOK'
<1> DEFINE t == now + d
<1> DEFINE closing == IF pc = "window" THEN businessWindowEnd(BcvWindow, t) ELSE deadline
<1>1. t \in Nat /\ DayOf(t) = DayOf(now) /\ TimeOfDay(t) >= BcvWindow.start
  BY EndOfFetch
<1>2. closing = businessWindowEnd(BcvWindow, t)
  BY <1>1 DEF IInv, AttemptsInWindow, businessWindowEnd
<1>3. businessWindowEnd(BcvWindow, t) \in Nat
  <2>1. DayOf(t) \in Nat /\ BcvWindow.end \in 0..(Minutes - 1)
    BY <1>1, DayAndTime, BcvWindowFacts
  <2> QED
    BY <2>1, DateParts DEF businessWindowEnd
<1>4. now' = t /\ deadline' = closing /\ deadline' \in Nat \cup {Nil}
  BY <1>2, <1>3 DEF RetryOrSleep
<1>5. CASE shouldRetry(BcvWindow, t, closing)
  <2>1. pc' = "retry" /\ timer' = nextRetry(BcvWindow, t)
    BY <1>4, <1>5 DEF RetryOrSleep
  <2>2. /\ DayOf(timer') = DayOf(t)
        /\ TimeOfDay(timer') \in BcvWindow.start..(BcvWindow.end - 1)
    BY <1>1, <1>2, <1>5, <2>1, BcvWindowFacts, RetriesStayInside
  <2>3. timer' \in Nat /\ t <= timer'
    BY <1>1, <2>1, BcvWindowFacts DEF nextRetry
  <2>4. deadline' = businessWindowEnd(BcvWindow, timer')
    BY <1>2, <1>4, <2>2 DEF businessWindowEnd
  <2> QED
    BY <1>4, <2>1, <2>2, <2>3, <2>4 DEF TimerOK, AttemptsInWindow
<1>6. CASE ~shouldRetry(BcvWindow, t, closing)
  <2>1. SleepUntilOpening(t)
    BY <1>4, <1>6 DEF RetryOrSleep
  <2> QED
    BY <1>1, <1>4, <2>1, Sleeping
<1> QED
  BY <1>5, <1>6

\* The dates a bank can put on its page are days.
LEMMA PublishedDates ==
    ASSUME NEW t \in Nat
    PROVE  /\ nextBusinessDate(t) \in Nat
           /\ nextBusinessDate(Date(nextBusinessDate(t), 0)) \in Nat
<1>1. \A m \in Nat : nextBusinessDate(m) \in Nat
  <2> SUFFICES ASSUME NEW m \in Nat PROVE nextBusinessDate(m) \in Nat
    OBVIOUS
  <2>1. nextBusinessDate(m) \in (DayOf(m) + 1)..(DayOf(m) + 3)
    BY NextBusinessDate DEF BusinessDateIsNext
  <2> QED
    BY <2>1, DayAndTime
<1>2. Date(nextBusinessDate(t), 0) \in Nat
  BY <1>1, BcvWindowFacts DEF Date
<1> QED
  BY <1>1, <1>2

\* The initial state satisfies it.
LEMMA InitInv == Init => IInv
<1> SUFFICES ASSUME Init PROVE IInv
  OBVIOUS
<1>1. AttemptsInWindow
  BY DEF Init, AttemptsInWindow
<1>2. TypeOK
  <2>1. failing \in BOOLEAN /\ lost \in BOOLEAN /\ unreachable \in BOOLEAN
    BY DEF Init
  <2>2. FirstDay \in Nat /\ now \in Nat
    BY EnvironmentAssumption DEF Init, Date, Minutes
  <2>3. /\ timer \in Nat /\ now <= timer /\ pc = "initial" /\ deadline = Nil
        /\ fails \in Nat /\ lastUpdated = Nil /\ stored = Nil /\ page \in Nat
        /\ publishedAt = Nil /\ boot \in Nat /\ restarts \in Nat
    BY <2>2 DEF Init
  <2> QED
    BY <2>1, <2>2, <2>3 DEF TypeOK
<1> QED
  BY <1>1, <1>2 DEF IInv

\* The outcomes of a fetch keep the types of what they touch.
OutcomeOK ==
    /\ fails \in Nat /\ failing \in BOOLEAN
    /\ lastUpdated \in Nat \cup {Nil} /\ stored \in Nat \cup {Nil} /\ lost \in BOOLEAN

\* A fetch leaves the streak, the flag, memory and the stored date typed.
LEMMA Outcomes ==
    ASSUME TypeOK, NEW t \in Nat, Failed \/ Succeeded(t)
    PROVE  OutcomeOK'
<1>1. failing' \in BOOLEAN /\ lost' \in BOOLEAN
  BY DEF Failed, Succeeded, TypeOK
<1>2. fails' \in Nat /\ lastUpdated' \in Nat \cup {Nil} /\ stored' \in Nat \cup {Nil}
  BY DEF Failed, Succeeded, TypeOK
<1> QED
  BY <1>1, <1>2 DEF OutcomeOK

\* Every step preserves it: one case per action.
LEMMA NextInv == IInv /\ [Next]_vars => IInv'
<1> SUFFICES ASSUME IInv, [Next]_vars PROVE IInv'
  OBVIOUS
<1>1. ASSUME NEW d \in FetchTime, InitialFetch(d) PROVE IInv'
  <2>1. now' \in Nat /\ d \in Nat
    BY <1>1, FetchTimeAssumption DEF InitialFetch, IInv, TypeOK
  <2>2. TimerOK'
    BY <1>1, <2>1, Sleeping DEF InitialFetch, IInv, TypeOK
  <2>3. OutcomeOK'
    BY <1>1, <2>1, Outcomes DEF InitialFetch, IInv
  <2>4. unreachable' \in BOOLEAN /\ UNCHANGED <<bankVars, boot, restarts>>
    BY <1>1 DEF InitialFetch
  <2> QED
    BY <2>1, <2>2, <2>3, <2>4 DEF IInv, TypeOK, TimerOK, OutcomeOK, bankVars
<1>2. ASSUME NEW d \in FetchTime, FetchFails(d) \/ FetchRejected(d) PROVE IInv'
  <2>1. now' \in Nat
    BY <1>2, EndOfFetch DEF FetchFails, FetchRejected
  <2>2. TimerOK'
    BY <1>2, Retrying DEF FetchFails, FetchRejected
  <2>3. OutcomeOK'
    BY <1>2, <2>1, Outcomes DEF FetchFails, FetchRejected, IInv
  <2>4. unreachable' \in BOOLEAN /\ UNCHANGED <<bankVars, boot, restarts>>
    BY <1>2 DEF FetchFails, FetchRejected
  <2> QED
    BY <2>1, <2>2, <2>3, <2>4 DEF IInv, TypeOK, TimerOK, OutcomeOK, bankVars
<1>3. ASSUME NEW d \in FetchTime, FetchAccepted(d) PROVE IInv'
  <2>1. now' \in Nat
    BY <1>3, EndOfFetch DEF FetchAccepted
  <2>2. TimerOK'
    BY <1>3, <2>1, Sleeping DEF FetchAccepted, IInv, TypeOK
  <2>3. OutcomeOK'
    BY <1>3, <2>1, Outcomes DEF FetchAccepted, IInv
  <2>4. unreachable' \in BOOLEAN /\ UNCHANGED <<bankVars, boot, restarts>>
    BY <1>3 DEF FetchAccepted
  <2> QED
    BY <2>1, <2>2, <2>3, <2>4 DEF IInv, TypeOK, TimerOK, OutcomeOK, bankVars
<1>4. CASE Publish
  <2>1. now \in Nat
    BY DEF IInv, TypeOK
  <2>2. page' \in Nat
    BY <1>4, <2>1, PublishedDates DEF Publish
  <2> QED
    BY <1>4, <2>1, <2>2 DEF Publish, IInv, TypeOK, AttemptsInWindow, workerVars
<1>5. CASE Advance
  <2> DEFINE tods == PublishAt \cup RestartAt \cup {BcvWindow.end}
  <2>1. now' <= timer /\ (now' = timer \/ \E tod \in tods : now' = now + nextDaily(tod, now))
    BY <1>5 DEF Advance
  <2>2. now \in Nat /\ timer \in Nat
    BY DEF IInv, TypeOK
  <2>3. \A tod \in tods : nextDaily(tod, now) \in Nat
    <3>1. tods \subseteq 0..(Minutes - 1)
      BY EnvironmentAssumption, BcvWindowFacts
    <3>2. 1..Minutes \subseteq Nat
      OBVIOUS
    <3> QED
      BY <2>2, <3>1, <3>2, DailyTask DEF DailyIsNext
  <2>4. now' \in Nat
    BY <2>1, <2>2, <2>3
  <2> QED
    BY <1>5, <2>1, <2>4 DEF Advance, IInv, TypeOK, AttemptsInWindow, workerVars, bankVars
<1>6. CASE Restart
  <2>1. AttemptsInWindow'
    BY <1>6 DEF Restart, AttemptsInWindow
  <2>2. TypeOK'
    <3>1. failing' \in BOOLEAN /\ lost' \in BOOLEAN /\ unreachable' \in BOOLEAN
      BY <1>6 DEF Restart
    <3>2. /\ now' = now /\ timer' = now /\ pc' = "initial" /\ deadline' = Nil
          /\ fails' = 0 /\ lastUpdated' = Nil /\ stored' = stored
          /\ UNCHANGED <<page, publishedAt>>
          /\ boot' = now /\ restarts' = restarts + 1
      BY <1>6 DEF Restart, bankVars
    <3> QED
      BY <3>1, <3>2 DEF IInv, TypeOK
  <2> QED
    BY <2>1, <2>2 DEF IInv
<1>7. CASE UNCHANGED vars
  BY <1>7 DEF vars, workerVars, bankVars, IInv, TypeOK, AttemptsInWindow
<1> QED
  BY <1>1, <1>2, <1>3, <1>4, <1>5, <1>6, <1>7 DEF Next

\* The types hold in every reachable state.
THEOREM TypeCorrect == Spec => []TypeOK
<1>1. IInv => TypeOK
  BY DEF IInv
<1> QED
  BY <1>1, InitInv, NextInv, PTL DEF Spec

\* No scheduled fetch begins outside the window, for any fetch of up to five hours.
THEOREM NoAttemptOutside == Spec => []AttemptsInWindow
<1>1. IInv => AttemptsInWindow
  BY DEF IInv
<1> QED
  BY <1>1, InitInv, NextInv, PTL DEF Spec

--------------------------------------------------------------------------------
(* What the following proofs need of a step beyond the types.              *)

\* A sleeping worker wakes up at the next 17:00, today's if it is ahead.
LEMMA NextOpening ==
    ASSUME NEW t \in Nat, SleepUntilOpening(t)
    PROVE  /\ pc' = "window"
           /\ timer' \in Nat /\ t < timer' /\ timer' <= t + Minutes
           /\ timer' = IF TimeOfDay(t) < BcvWindow.start
                       THEN Date(DayOf(t), BcvWindow.start) ELSE Date(DayOf(t) + 1, BcvWindow.start)
<1> DEFINE wait == nextBusinessWindowStart(BcvWindow, t)
<1> DEFINE at == t + wait
<1> DEFINE D == DayOf(t)
<1> DEFINE A == DayOf(at)
<1>1. WindowIsNext(BcvWindow, t)
  BY BcvWindowFacts, WindowOpening
<1>2. /\ wait \in 1..(4 * Minutes) /\ TimeOfDay(at) = 1020
      /\ \A day \in D..(A - 1) : Date(day, 1020) <= t
  <2>1. BcvWindow.weekdaysOnly = FALSE
    BY DEF BcvWindow
  <2> QED
    BY <1>1, <2>1, BcvWindowFacts DEF WindowIsNext
<1>3. pc' = "window" /\ timer' = at
  BY DEF SleepUntilOpening
<1> HIDE DEF wait
<1>4. at \in Nat /\ t < at
  BY <1>2, BcvWindowFacts
<1>5. D \in Nat /\ TimeOfDay(t) \in 0..1439 /\ t = D * 1440 + TimeOfDay(t)
  BY DayAndTime, BcvWindowFacts DEF Date
<1>6. A \in Nat /\ at = A * 1440 + 1020
  BY <1>2, <1>4, DayAndTime, BcvWindowFacts DEF Date
<1> HIDE DEF at, A, D
<1>7. \A day \in D..(A - 1) : day * 1440 + 1020 <= t
  BY <1>2, BcvWindowFacts DEF Date
<1>8. A = D \/ A = D + 1
  <2>1. D <= A
    BY <1>4, <1>5, <1>6
  <2>2. ~(D + 1 <= A - 1)
    <3>1. D + 1 <= A - 1 => (D + 1) * 1440 + 1020 <= t
      <4>1. D + 1 <= A - 1 => D + 1 \in D..(A - 1)
        BY <1>5, <1>6
      <4> QED
        BY <1>7, <4>1
    <3> QED
      BY <1>5, <3>1
  <2> QED
    BY <1>5, <1>6, <2>1, <2>2
<1>9. A = D <=> TimeOfDay(t) < 1020
  <2>1. A = D + 1 => D * 1440 + 1020 <= t
    <3>1. A = D + 1 => D \in D..(A - 1)
      BY <1>5
    <3> QED
      BY <1>7, <3>1
  <2> DEFINE x == TimeOfDay(t)
  <2>2. /\ D \in Nat /\ A \in Nat /\ x \in 0..1439 /\ (A = D \/ A = D + 1)
        /\ t = D * 1440 + x /\ at = A * 1440 + 1020 /\ t < at
    BY <1>4, <1>5, <1>6, <1>8
  <2> HIDE DEF x
  <2>3. CASE A = D
    <3>1. D * 1440 + x < D * 1440 + 1020
      BY ONLY <2>2, <2>3
    <3>2. x < 1020
      BY ONLY <2>2, <3>1
    <3> QED
      BY <2>3, <3>2 DEF x
  <2>4. CASE A = D + 1
    <3>1. D * 1440 + 1020 <= D * 1440 + x
      BY ONLY <2>1, <2>2, <2>4
    <3>2. A # D /\ ~(x < 1020)
      BY ONLY <2>2, <2>4, <3>1
    <3> QED
      BY <3>2 DEF x
  <2> QED
    BY <2>2, <2>3, <2>4
<1>10. at <= t + 1440
  <2> DEFINE x == TimeOfDay(t)
  <2>1. /\ D \in Nat /\ A \in Nat /\ x \in 0..1439 /\ (A = D \/ A = D + 1)
        /\ t = D * 1440 + x /\ at = A * 1440 + 1020 /\ (A = D <=> x < 1020)
    BY <1>5, <1>6, <1>8, <1>9
  <2> HIDE DEF x
  <2>2. CASE A = D
    BY ONLY <2>1, <2>2
  <2>3. CASE A = D + 1
    BY ONLY <2>1, <2>3
  <2> QED
    BY <2>1, <2>2, <2>3
<1>11. at = IF TimeOfDay(t) < 1020 THEN Date(D, 1020) ELSE Date(D + 1, 1020)
  BY <1>6, <1>8, <1>9, BcvWindowFacts DEF Date
<1> QED
  BY <1>3, <1>4, <1>10, <1>11, BcvWindowFacts DEF D

\* A moment in numbers.
LEMMA Moment ==
    ASSUME NEW t \in Nat
    PROVE  /\ DayOf(t) \in Nat /\ TimeOfDay(t) \in 0..1439
           /\ t = DayOf(t) * 1440 + TimeOfDay(t)
  BY DayAndTime DEF Minutes, Date

--------------------------------------------------------------------------------
(* A rate is never stale for its age alone, if a fetch takes less time than *)
(* there is between two attempts.                                          *)

\* The flag is set exactly from the third failure on.
Flagged == failing <=> fails >= FailStreak

\* Since memory was last updated the timer has come at most to the next day's window,
\* and there by at most an hour per failure: early enough for a third attempt.
Aging ==
    lastUpdated # Nil =>
        /\ pc # "initial"
        /\ fails = 0 => pc = "window" /\ timer <= lastUpdated + Minutes
        /\ fails \in 1..2 =>
             /\ pc = "retry"
             /\ timer <= lastUpdated + Minutes + 59 * fails
             /\ TimeOfDay(timer) <= BcvWindow.start + 59 * fails

\* The flag follows the streak whatever a fetch brings.
LEMMA FlagStep == TypeOK /\ Flagged /\ [Next]_vars => Flagged'
<1> SUFFICES ASSUME TypeOK, Flagged, [Next]_vars PROVE Flagged'
  OBVIOUS
<1>1. fails \in Nat /\ failing \in BOOLEAN
  BY DEF TypeOK
<1>2. CASE Failed
  <2>1. fails' = fails + 1 /\ (failing' <=> (failing \/ fails + 1 >= 3))
    BY <1>2 DEF Failed, FailStreak
  <2>2. failing <=> fails >= 3
    BY DEF Flagged, FailStreak
  <2>3. fails >= 3 => fails + 1 >= 3
    BY <1>1
  <2>4. failing' <=> fails + 1 >= 3
    BY <2>1, <2>2, <2>3
  <2> QED
    BY <2>1, <2>4 DEF Flagged, FailStreak
<1>3. ASSUME NEW t, Succeeded(t) PROVE Flagged'
  <2>1. fails' = 0 /\ (failing' <=> (failing /\ fails < 3))
    BY <1>3 DEF Succeeded, FailStreak
  <2>2. ~(fails >= 3 /\ fails < 3)
    BY <1>1
  <2>3. failing <=> fails >= 3
    BY DEF Flagged, FailStreak
  <2>4. ~failing'
    BY <2>1, <2>2, <2>3
  <2> QED
    BY <2>1, <2>4 DEF Flagged, FailStreak
<1>4. CASE UNCHANGED <<fails, failing>>
  BY <1>4 DEF Flagged
<1>5. CASE Restart
  BY <1>5 DEF Restart, Flagged, FailStreak
<1> QED
  BY <1>2, <1>3, <1>4, <1>5
  DEF Next, InitialFetch, FetchFails, FetchRejected, FetchAccepted, Publish, Advance, vars, workerVars

\* A failure of the day's first or second attempt leaves time for another one.
LEMMA AnotherAttempt ==
    ASSUME IInv, Aging, lastUpdated # Nil, fails \in 0..1, pc \in {"window", "retry"},
           NEW d \in 0..29, d \in FetchTime, now = timer, now' = now + d,
           Failed, RetryOrSleep(now')
    PROVE  Aging'
<1> DEFINE t == now + d
<1> DEFINE T == TimeOfDay(t)
<1>1. t \in Nat /\ DayOf(t) = DayOf(now) /\ now \in Nat /\ lastUpdated \in Nat
  BY EndOfFetch DEF IInv, TypeOK
<1>2. now <= lastUpdated + 1440 + 59 * fails /\ TimeOfDay(now) <= 1020 + 59 * fails
  <2>1. CASE fails = 0
    <3>1. pc = "window" /\ timer <= lastUpdated + 1440
      BY <2>1, BcvWindowFacts DEF Aging
    <3>2. TimeOfDay(now) = 1020
      BY <3>1, BcvWindowFacts DEF IInv, AttemptsInWindow
    <3> QED
      BY <1>1, <2>1, <3>1, <3>2
  <2>2. CASE fails = 1
    <3>1. timer <= lastUpdated + 1440 + 59 * fails /\ TimeOfDay(timer) <= 1020 + 59 * fails
      BY <2>2, BcvWindowFacts DEF Aging
    <3> QED
      BY <3>1
  <2> QED
    BY <2>1, <2>2
<1>3. T = TimeOfDay(now) + d /\ TimeOfDay(now) \in 0..1439
  <2>1. DayOf(now) \in Nat /\ TimeOfDay(now) \in 0..1439
    BY <1>1, Moment
  <2>2. TimeOfDay(now) + d < Minutes
    <3> DEFINE x == TimeOfDay(now)
    <3>1. x \in 0..1439 /\ x <= 1020 + 59 * fails
      BY <1>2, <2>1
    <3> HIDE DEF x
    <3>2. x + d < 1440
      BY <3>1
    <3> QED
      BY <3>2 DEF x, Minutes
  <2> QED
    BY <1>1, <2>1, <2>2, SameDay
<1>4. t = Date(DayOf(t), 0) + T /\ Date(DayOf(t), 1140) = Date(DayOf(t), 0) + 1140
      /\ Date(DayOf(t), 0) \in Nat
  <2>1. DayOf(t) \in Nat /\ t = DayOf(t) * 1440 + TimeOfDay(t)
    BY <1>1, Moment
  <2>2. Date(DayOf(t), 1140) = DayOf(t) * 1440 + 1140 /\ Date(DayOf(t), 0) = DayOf(t) * 1440
    BY <2>1 DEF Date, Minutes
  <2> HIDE DEF t
  <2> QED
    BY <2>1, <2>2
<1>5. deadline' = Date(DayOf(t), 1140)
  <2>1. pc = "retry" => deadline = businessWindowEnd(BcvWindow, timer)
    BY DEF IInv, AttemptsInWindow
  <2> QED
    BY <1>1, <2>1, BcvWindowFacts DEF RetryOrSleep, businessWindowEnd
<1>6. shouldRetry(BcvWindow, t, deadline')
  <2>1. T + 30 < 1140
    <3> DEFINE x == TimeOfDay(now)
    <3>1. x \in 0..1439 /\ x <= 1020 + 59 * fails /\ T = x + d
      BY <1>2, <1>3
    <3> HIDE DEF x, T
    <3> QED
      BY <3>1
  <2> HIDE DEF t, T
  <2>2. t + 30 < Date(DayOf(t), 1140)
    BY <1>3, <1>4, <2>1
  <2> QED
    BY <1>5, <2>2, BcvWindowFacts DEF shouldRetry, nextRetry
<1>7. pc' = "retry" /\ timer' = t + 30
  BY <1>6, BcvWindowFacts DEF RetryOrSleep, nextRetry
<1>8. TimeOfDay(timer') = T + 30
  <2>1. T + 30 < Minutes
    <3> DEFINE x == TimeOfDay(now)
    <3>1. x \in 0..1439 /\ x <= 1020 + 59 * fails /\ T = x + d /\ Minutes = 1440
      BY <1>2, <1>3, BcvWindowFacts
    <3> HIDE DEF x, T
    <3> QED
      BY <3>1
  <2> QED
    BY <1>1, <1>7, <2>1, SameDay
<1>9. fails' = fails + 1 /\ lastUpdated' = lastUpdated
  BY DEF Failed
<1>10. /\ timer' <= lastUpdated' + 1440 + 59 * fails'
       /\ TimeOfDay(timer') <= 1020 + 59 * fails'
  <2>1. timer' <= lastUpdated + 1440 + 59 * fails + 59
    BY <1>1, <1>2, <1>7
  <2>2. T + 30 <= 1020 + 59 * fails + 59
    <3> DEFINE x == TimeOfDay(now)
    <3>1. x \in 0..1439 /\ x <= 1020 + 59 * fails /\ T = x + d
      BY <1>2, <1>3
    <3> HIDE DEF x, T
    <3> QED
      BY <3>1
  <2> HIDE DEF t, T
  <2>3. 59 * fails' = 59 * fails + 59
    BY <1>9
  <2> QED
    BY <1>1, <1>8, <1>9, <2>1, <2>2, <2>3
<1> QED
  BY <1>7, <1>9, <1>10, BcvWindowFacts DEF Aging

\* Ages grow at most by a day and three attempts before the flag is set.
LEMMA AgingStep ==
    ASSUME FetchTime \subseteq 0..(BcvWindow.retryEvery - 1)
    PROVE  IInv /\ Aging /\ [Next]_vars => Aging'
<1> SUFFICES ASSUME IInv, Aging, [Next]_vars PROVE Aging'
  OBVIOUS
<1>1. \A d \in FetchTime : d \in 0..29
  BY BcvWindowFacts
<1>2. fails \in Nat /\ Nil \notin Nat
  BY EnvironmentAssumption DEF IInv, TypeOK
<1>3. ASSUME NEW t \in Nat, Succeeded(t), SleepUntilOpening(t) PROVE Aging'
  <2>1. lastUpdated' = t /\ fails' = 0 /\ pc' = "window" /\ timer' <= t + Minutes
    BY <1>3, NextOpening DEF Succeeded
  <2> QED
    BY <2>1 DEF Aging
<1>4. ASSUME NEW d \in FetchTime, InitialFetch(d) PROVE Aging'
  <2>1. CASE Failed
    <3>1. lastUpdated' = Nil
      BY <1>4, <2>1 DEF InitialFetch, Failed, Aging
    <3> QED
      BY <3>1 DEF Aging
  <2>2. CASE Succeeded(now')
    <3>1. now' \in Nat
      BY <1>1, <1>4 DEF InitialFetch, IInv, TypeOK
    <3> QED
      BY <1>3, <1>4, <2>2, <3>1 DEF InitialFetch
  <2> QED
    BY <1>4, <2>1, <2>2 DEF InitialFetch
<1>5. ASSUME NEW d \in FetchTime, FetchFails(d) \/ FetchRejected(d) PROVE Aging'
  <2>1. /\ pc \in {"window", "retry"} /\ now = timer /\ now' = now + d
        /\ Failed /\ RetryOrSleep(now')
    BY <1>5 DEF FetchFails, FetchRejected
  <2>2. lastUpdated' = lastUpdated /\ fails' = fails + 1
    BY <2>1 DEF Failed
  <2>3. CASE lastUpdated = Nil
    BY <2>2, <2>3 DEF Aging
  <2>4. CASE lastUpdated # Nil /\ fails \in 0..1
    BY <1>1, <2>1, <2>4, AnotherAttempt
  <2>5. CASE fails \notin 0..1
    <3>1. fails' \notin 1..2 /\ fails' # 0
      BY <1>2, <2>2, <2>5
    <3>2. pc' # "initial"
      BY <2>1 DEF RetryOrSleep, SleepUntilOpening
    <3> QED
      BY <3>1, <3>2 DEF Aging
  <2> QED
    BY <2>3, <2>4, <2>5
<1>6. ASSUME NEW d \in FetchTime, FetchAccepted(d) PROVE Aging'
  <2>1. now' \in Nat
    BY <1>6, EndOfFetch DEF FetchAccepted
  <2> QED
    BY <1>3, <1>6, <2>1 DEF FetchAccepted
<1>7. CASE Restart
  BY <1>7 DEF Restart, Aging
<1>8. CASE Publish \/ Advance \/ UNCHANGED vars
  <2>1. UNCHANGED <<pc, timer, fails, lastUpdated>>
    BY <1>8 DEF Publish, Advance, vars, workerVars
  <2> QED
    BY <2>1 DEF Aging
<1> QED
  BY <1>4, <1>5, <1>6, <1>7, <1>8 DEF Next

\* Memory older than 26 hours belongs to a provider that is flagged as failing, whatever
\* the bank does and whenever the process restarts, as long as no fetch takes the half
\* hour between two attempts (GetPrices takes 33 seconds, WithinBudget).
THEOREM AgedIsFlagged ==
    ASSUME FetchTime \subseteq 0..(BcvWindow.retryEvery - 1)
    PROVE  Spec => []AgeImpliesFailing
<1> DEFINE Inv == IInv /\ Flagged /\ Aging
<1>1. Init => Inv
  <2>1. Init => Flagged /\ Aging
    BY DEF Init, Flagged, Aging, FailStreak
  <2> QED
    BY <2>1, InitInv
<1>2. Inv /\ [Next]_vars => Inv'
  BY NextInv, FlagStep, AgingStep DEF IInv
<1>3. Inv => AgeImpliesFailing
  <2> SUFFICES ASSUME Inv, lastUpdated # Nil, now - lastUpdated > StalenessBcv
               PROVE  failing
    BY DEF AgeImpliesFailing
  <2>1. now \in Nat /\ timer \in Nat /\ now <= timer /\ lastUpdated \in Nat /\ fails \in Nat
    BY DEF IInv, TypeOK
  <2>2. CASE fails \in 0..2
    <3>1. timer <= lastUpdated + 1440 + 59 * fails
      <4>1. CASE fails = 0
        BY <2>1, <4>1, BcvWindowFacts DEF Aging
      <4>2. CASE fails \in 1..2
        BY <4>2, BcvWindowFacts DEF Aging
      <4> QED
        BY <2>2, <4>1, <4>2
    <3>2. now - lastUpdated <= 1558
      BY <2>1, <2>2, <3>1
    <3> QED
      BY <2>1, <3>2 DEF StalenessBcv
  <2>3. CASE fails \notin 0..2
    BY <2>1, <2>3 DEF Flagged, FailStreak
  <2> QED
    BY <2>2, <2>3
<1> QED
  BY <1>1, <1>2, <1>3, PTL DEF Spec

--------------------------------------------------------------------------------
(* What the bank publishes in time is stored.                              *)

\* A set of naturals has a least element.
LEMMA LeastNatural ==
    ASSUME NEW S, S \subseteq Nat, S # {}
    PROVE  \E x \in S : \A y \in S : x <= y
<1>1. \A a, b \in Nat : a < b => <<a, b>> \in OpToRel(<, Nat)
  BY Zenon DEF OpToRel
<1>2. PICK x \in S : \A y \in S : <<y, x>> \notin OpToRel(<, Nat)
  BY NatLessThanWellFounded, WFMin
<1>3. \A y \in S : ~(y < x)
  BY <1>1, <1>2, Zenon
<1> QED
  BY <1>3

\* The longest fetch exists and is one.
LEMMA LongestFetch ==
    ASSUME FetchTime # {}
    PROVE  /\ MaxFetchTime \in FetchTime /\ MaxFetchTime \in Nat
           /\ \A d \in FetchTime : d <= MaxFetchTime
<1> DEFINE Left == {n \in Nat : \E d \in FetchTime : n = 300 - d}
<1>1. FetchTime \subseteq 0..300
  BY FetchTimeAssumption, BcvWindowFacts
<1>2. \A d \in FetchTime : d \in Int /\ 300 - d \in Left
  BY <1>1
<1>3. Left \subseteq Nat /\ Left # {}
  BY <1>2
<1>4. PICK x \in Left : \A y \in Left : x <= y
  <2> HIDE DEF Left
  <2> QED
    BY <1>3, LeastNatural
<1>5. PICK m \in FetchTime : x = 300 - m
  BY <1>4
<1>6. \A d \in FetchTime : d <= m
  <2> SUFFICES ASSUME NEW d \in FetchTime PROVE d <= m
    OBVIOUS
  <2>1. 300 - m <= 300 - d
    <3> HIDE DEF Left
    <3> QED
      BY <1>2, <1>4, <1>5
  <2> QED
    BY <1>2, <2>1
<1>7. \E z \in FetchTime : \A y \in FetchTime : z >= y
  BY <1>2, <1>6
<1>8. MaxFetchTime \in FetchTime /\ \A y \in FetchTime : MaxFetchTime >= y
  BY <1>7 DEF MaxFetchTime, Max
<1> QED
  BY <1>1, <1>8

\* The date that a response must carry is the same all day.
LEMMA DateOfDay ==
    ASSUME NEW a \in Nat, NEW b \in Nat, DayOf(a) = DayOf(b)
    PROVE  nextBusinessDate(a) = nextBusinessDate(b)
  BY DEF nextBusinessDate

\* A process that has not fetched yet does so at once, a sleeping worker wakes up
\* within a day, and the page was not published in the future.
Asleep ==
    /\ pc = "initial" => timer = boot /\ now = boot
    /\ pc = "window" => timer <= now + Minutes
    /\ publishedAt # Nil => publishedAt <= now

\* Why a worker that sleeps past an opening does so, for the opening before the one it
\* waits for: the process had not ended its initial fetch, the last fetch got no page,
\* it accepted that day's expected rate, or it was rejected too late for another retry, in
\* which case the page still shows another date or was replaced after that attempt.
SleepsBecause(opening) ==
    \/ boot + MaxFetchTime >= opening
    \/ unreachable
    \/ /\ stored = nextBusinessDate(opening) \/ lost
       /\ ~failing /\ lastUpdated # Nil /\ lastUpdated >= opening
    \/ /\ page # nextBusinessDate(opening)
       /\ now >= opening + 90
    \/ publishedAt # Nil /\ publishedAt >= opening + 90

\* Only a fetch puts the worker to sleep, so there is one.
Evening ==
    pc = "window" =>
        /\ FetchTime # {}
        /\ SleepsBecause(timer - Minutes)

\* A clock that waits for the timer does not go back.
LEMMA ClockAdvances ==
    ASSUME IInv, Advance
    PROVE  now' \in Nat /\ now <= now' /\ now' <= timer
<1> DEFINE tods == PublishAt \cup RestartAt \cup {BcvWindow.end}
<1>1. now' <= timer /\ now < timer
      /\ (now' = timer \/ \E tod \in tods : now' = now + nextDaily(tod, now))
  BY DEF Advance
<1>2. now \in Nat /\ timer \in Nat
  BY DEF IInv, TypeOK
<1>3. \A tod \in tods : nextDaily(tod, now) \in 1..Minutes
  <2>1. tods \subseteq 0..(Minutes - 1)
    BY EnvironmentAssumption, BcvWindowFacts
  <2> QED
    BY <1>2, <2>1, DailyTask DEF DailyIsNext
<1> DEFINE later == now'
<1>4. now \in Nat /\ timer \in Nat /\ now < timer /\ later <= timer
  BY <1>1, <1>2
<1>5. later = timer \/ \E step \in 1..1440 : later = now + step
  <2>1. \A tod \in tods : nextDaily(tod, now) \in 1..1440
    BY <1>3, BcvWindowFacts
  <2> QED
    BY ONLY <1>1, <2>1
<1> HIDE DEF later
<1>6. later \in Nat /\ now <= later
  <2> DEFINE x == now
  <2> DEFINE y == timer
  <2>1. x \in Nat /\ y \in Nat /\ x < y
    BY <1>4
  <2>2. later = y \/ \E step \in 1..1440 : later = x + step
    BY <1>5
  <2> HIDE DEF x, y
  <2>3. CASE later = y
    BY ONLY <2>1, <2>3 DEF x
  <2>4. CASE \E step \in 1..1440 : later = x + step
    <3>1. PICK step \in 1..1440 : later = x + step
      BY <2>4
    <3>2. x + step \in Nat /\ x <= x + step
      BY ONLY <2>1
    <3> QED
      BY ONLY <3>1, <3>2 DEF x
  <2> QED
    BY <2>2, <2>3, <2>4
<1> QED
  BY <1>4, <1>6 DEF later

\* A worker that goes to sleep on an evening sleeps past that evening's opening.
LEMMA EveningOver ==
    ASSUME NEW t \in Nat, TimeOfDay(t) >= BcvWindow.start, SleepUntilOpening(t)
    PROVE  /\ timer' - Minutes = Date(DayOf(t), BcvWindow.start)
           /\ timer' - Minutes \in Nat /\ DayOf(timer' - Minutes) = DayOf(t)
           /\ pc' = "window"
<1>1. /\ pc' = "window" /\ timer' <= t + 1440
      /\ timer' = IF TimeOfDay(t) < 1020 THEN Date(DayOf(t), 1020) ELSE Date(DayOf(t) + 1, 1020)
  BY NextOpening, BcvWindowFacts
<1>2. DayOf(t) \in Nat /\ TimeOfDay(t) \in 0..1439 /\ TimeOfDay(t) >= 1020
  BY Moment, BcvWindowFacts
<1>3. Date(DayOf(t) + 1, 1020) = Date(DayOf(t), 1020) + 1440 /\ Date(DayOf(t), 1020) \in Nat
      /\ DayOf(Date(DayOf(t), 1020)) = DayOf(t)
  <2>1. 1020 \in 0..(Minutes - 1)
    BY DEF Minutes
  <2>2. Date(DayOf(t) + 1, 1020) = Date(DayOf(t), 1020) + 1440
    BY <1>2 DEF Date, Minutes
  <2> QED
    BY <1>2, <2>1, <2>2, DateParts
<1> DEFINE o == Date(DayOf(t), 1020)
<1>4. timer' = o + 1440 /\ o \in Nat
  BY <1>1, <1>2, <1>3
<1> HIDE DEF o
<1>5. timer' - 1440 = o
  BY <1>4
<1> QED
  BY <1>1, <1>3, <1>4, <1>5, BcvWindowFacts DEF o

\* A fetch that is not retried ends less than half an hour before the closing time.
LEMMA TooLate ==
    ASSUME IInv, NEW d \in FetchTime, pc \in {"window", "retry"}, now = timer,
           now' = now + d, RetryOrSleep(now'), pc' # "retry"
    PROVE  /\ SleepUntilOpening(now')
           /\ now' >= Date(DayOf(now'), BcvWindow.start) + 90
<1> DEFINE t == now + d
<1>1. t \in Nat /\ DayOf(t) = DayOf(now)
  BY EndOfFetch
<1>2. deadline' = Date(DayOf(t), 1140)
  <2>1. pc = "retry" => deadline = businessWindowEnd(BcvWindow, timer)
    BY DEF IInv, AttemptsInWindow
  <2> QED
    BY <1>1, <2>1, BcvWindowFacts DEF RetryOrSleep, businessWindowEnd
<1>3. SleepUntilOpening(t) /\ ~shouldRetry(BcvWindow, t, deadline')
  BY DEF RetryOrSleep
<1> HIDE DEF t
<1>4. ~(t + 30 < Date(DayOf(t), 1140))
  BY <1>2, <1>3, BcvWindowFacts DEF shouldRetry, nextRetry
<1>5. DayOf(t) \in Nat
  BY <1>1, DayAndTime
<1>6. Date(DayOf(t), 1140) = Date(DayOf(t), 1020) + 120 /\ Date(DayOf(t), 1020) \in Nat
  BY <1>5 DEF Date, Minutes
<1>7. t >= Date(DayOf(t), 1020) + 90
  BY <1>1, <1>4, <1>6
<1> QED
  BY <1>3, <1>7, BcvWindowFacts DEF t

\* The conjuncts of Asleep follow the timer.
LEMMA AsleepStep == IInv /\ Asleep /\ [Next]_vars => Asleep'
<1> SUFFICES ASSUME IInv, Asleep, [Next]_vars PROVE Asleep'
  OBVIOUS
<1>1. /\ now \in Nat /\ timer \in Nat /\ now <= timer /\ publishedAt \in Nat \cup {Nil}
      /\ FetchTime \subseteq Nat
  BY FetchTimeAssumption DEF IInv, TypeOK
<1>2. ASSUME NEW d \in FetchTime, now' = now + d, publishedAt' = publishedAt,
             SleepUntilOpening(now') \/ pc' = "retry"
      PROVE  Asleep'
  <2>1. now' \in Nat /\ now <= now'
    BY <1>1, <1>2
  <2>2. pc' \in {"window", "retry"} /\ (pc' = "window" => timer' <= now' + Minutes)
    BY <1>2, <2>1, NextOpening
  <2>3. publishedAt' # Nil => publishedAt' <= now'
    BY <1>1, <1>2, <2>1 DEF Asleep
  <2> QED
    BY <2>2, <2>3 DEF Asleep
<1>3. ASSUME NEW d \in FetchTime, InitialFetch(d) \/ FetchAccepted(d) PROVE Asleep'
  BY <1>2, <1>3 DEF InitialFetch, FetchAccepted, bankVars
<1>4. ASSUME NEW d \in FetchTime, FetchFails(d) \/ FetchRejected(d) PROVE Asleep'
  <2>1. SleepUntilOpening(now') \/ pc' = "retry"
    BY <1>4 DEF FetchFails, FetchRejected, RetryOrSleep
  <2> QED
    BY <1>2, <1>4, <2>1 DEF FetchFails, FetchRejected, bankVars
<1>5. CASE Publish
  BY <1>1, <1>5 DEF Publish, Asleep, workerVars
<1>6. CASE Advance
  <2>1. now' \in Nat /\ now <= now' /\ now < timer
    BY <1>6, ClockAdvances DEF Advance
  <2>2. pc # "initial"
    BY <1>1, <2>1 DEF Asleep
  <2>3. UNCHANGED <<pc, timer, publishedAt>>
    BY <1>6 DEF Advance, workerVars, bankVars
  <2>4. pc = "window" => timer <= now' + Minutes
    <3> SUFFICES ASSUME pc = "window" PROVE timer <= now' + 1440
      BY BcvWindowFacts
    <3> DEFINE later == now'
    <3>1. timer <= now + 1440
      BY BcvWindowFacts DEF Asleep
    <3>2. later \in Nat /\ now <= later
      BY <2>1
    <3> HIDE DEF later
    <3>3. timer <= later + 1440
      BY <1>1, <3>1, <3>2
    <3> QED
      BY <3>3 DEF later
  <2>5. publishedAt # Nil => publishedAt <= now'
    BY <1>1, <2>1 DEF Asleep
  <2> QED
    BY <2>2, <2>3, <2>4, <2>5 DEF Asleep
<1>7. CASE Restart
  BY <1>7 DEF Restart, Asleep, bankVars
<1>8. CASE UNCHANGED vars
  BY <1>8 DEF vars, workerVars, bankVars, Asleep
<1> QED
  BY <1>3, <1>4, <1>5, <1>6, <1>7, <1>8 DEF Next

\* A fetch of the evening that is not retried leaves a reason to sleep.
LEMMA EveningFetch ==
    ASSUME IInv, Flagged, NEW d \in FetchTime,
           FetchFails(d) \/ FetchRejected(d) \/ FetchAccepted(d)
    PROVE  Evening'
<1>1. /\ pc \in {"window", "retry"} /\ now = timer /\ now' = now + d
      /\ now' \in Nat /\ TimeOfDay(now') >= BcvWindow.start
  BY EndOfFetch DEF FetchFails, FetchRejected, FetchAccepted
<1> DEFINE o == timer' - Minutes
<1>2. ASSUME SleepUntilOpening(now')
      PROVE  o = Date(DayOf(now'), BcvWindow.start) /\ nextBusinessDate(o) = nextBusinessDate(now')
  <2>1. o = Date(DayOf(now'), BcvWindow.start) /\ o \in Nat /\ DayOf(o) = DayOf(now')
    BY <1>1, <1>2, EveningOver
  <2> HIDE DEF o
  <2> QED
    BY <1>1, <2>1, DateOfDay
<1>3. CASE pc' = "retry"
  BY <1>3 DEF Evening
<1>4. CASE FetchFails(d)
  BY <1>4 DEF FetchFails, Evening, SleepsBecause
<1>5. CASE FetchRejected(d) /\ pc' # "retry"
  <2>1. SleepUntilOpening(now') /\ now' >= Date(DayOf(now'), BcvWindow.start) + 90
    BY <1>1, <1>5, TooLate DEF FetchRejected
  <2>2. page' # nextBusinessDate(now')
    BY <1>5 DEF FetchRejected, ValidateBCVPublication, bankVars
  <2>3. page' # nextBusinessDate(o) /\ now' >= o + 90
    BY <1>2, <2>1, <2>2
  <2> QED
    BY <2>3 DEF Evening, SleepsBecause
<1>6. CASE FetchAccepted(d)
  <2>1. /\ SleepUntilOpening(now') /\ Succeeded(now') /\ page = nextBusinessDate(now')
    BY <1>6 DEF FetchAccepted, ValidateBCVPublication
  <2>2. stored' = nextBusinessDate(o) \/ lost'
    BY <1>2, <2>1 DEF Succeeded
  <2>3. ~failing'
    <3>1. fails \in Nat /\ (failing <=> fails >= 3)
      BY DEF IInv, TypeOK, Flagged, FailStreak
    <3>2. failing' <=> (failing /\ fails < 3)
      BY <2>1 DEF Succeeded, FailStreak
    <3>3. ~(fails >= 3 /\ fails < 3)
      BY <3>1
    <3> QED
      BY <3>1, <3>2, <3>3
  <2>4. lastUpdated' = now' /\ now' # Nil
    BY <1>1, <2>1, EnvironmentAssumption DEF Succeeded
  <2>5. now' >= o
    <3> DEFINE t == now'
    <3>1. t \in Nat /\ TimeOfDay(t) >= 1020 /\ o = Date(DayOf(t), 1020)
      BY <1>1, <1>2, <2>1, BcvWindowFacts
    <3> HIDE DEF t, o
    <3>2. DayOf(t) \in Nat /\ TimeOfDay(t) \in 0..1439 /\ t = DayOf(t) * 1440 + TimeOfDay(t)
      BY <3>1, Moment
    <3>3. o = DayOf(t) * 1440 + 1020
      BY <3>1 DEF Date, Minutes
    <3>4. t >= o
      BY <3>1, <3>2, <3>3
    <3> QED
      BY <3>4 DEF t
  <2> QED
    BY <2>2, <2>3, <2>4, <2>5 DEF Evening, SleepsBecause
<1> QED
  BY <1>3, <1>4, <1>5, <1>6

\* The initial fetch ends at most its duration after the start, and the worker then
\* sleeps until the first opening after it.
LEMMA EveningInitial ==
    ASSUME IInv, Asleep, NEW d \in FetchTime, InitialFetch(d)
    PROVE  Evening'
<1>1. now' = boot + d /\ boot \in Nat /\ boot' = boot /\ d \in Nat
  BY FetchTimeAssumption DEF InitialFetch, Asleep, IInv, TypeOK
<1>2. MaxFetchTime \in Nat /\ d <= MaxFetchTime
  BY LongestFetch
<1>3. timer' \in Nat /\ timer' <= (boot + d) + 1440
  <2>1. now' \in Nat
    BY <1>1
  <2> QED
    BY <1>1, <2>1, NextOpening, BcvWindowFacts DEF InitialFetch
<1>4. boot' + MaxFetchTime >= timer' - Minutes
  <2> DEFINE waking == timer'
  <2>1. waking \in Nat /\ waking <= (boot + d) + 1440
    BY <1>3
  <2> HIDE DEF waking
  <2>2. boot + MaxFetchTime >= waking - 1440
    BY <1>1, <1>2, <2>1
  <2> QED
    BY <1>1, <2>2, BcvWindowFacts DEF waking
<1> QED
  BY <1>4 DEF Evening, SleepsBecause

\* No step takes the reason away.
LEMMA EveningStep == IInv /\ Flagged /\ Asleep /\ Evening /\ [Next]_vars => Evening'
<1> SUFFICES ASSUME IInv, Flagged, Asleep, Evening, [Next]_vars PROVE Evening'
  OBVIOUS
<1>1. ASSUME NEW d \in FetchTime, InitialFetch(d) PROVE Evening'
  BY <1>1, EveningInitial
<1>2. ASSUME NEW d \in FetchTime, FetchFails(d) \/ FetchRejected(d) \/ FetchAccepted(d)
      PROVE  Evening'
  BY <1>2, EveningFetch
<1> DEFINE o == timer - Minutes
<1>3. now \in Nat /\ o \in Int /\ publishedAt \in Nat \cup {Nil} /\ Nil \notin Nat
  BY EnvironmentAssumption DEF IInv, TypeOK, Minutes
<1>4. CASE Publish
  <2>1. UNCHANGED <<now, pc, timer, boot, failing, lastUpdated, stored, lost, unreachable>>
        /\ publishedAt' = now
    BY <1>4 DEF Publish, workerVars
  <2>2. ASSUME pc = "window", now >= o + 90 \/ (publishedAt # Nil /\ publishedAt >= o + 90)
        PROVE  publishedAt' # Nil /\ publishedAt' >= o + 90
    <3>1. publishedAt # Nil => publishedAt <= now
      BY DEF Asleep
    <3> HIDE DEF o
    <3> QED
      BY <1>3, <2>1, <2>2, <3>1
  <2> QED
    BY <2>1, <2>2 DEF Evening, SleepsBecause
<1>5. CASE Advance
  <2>1. UNCHANGED <<pc, timer, boot, failing, lastUpdated, stored, lost, unreachable,
                    page, publishedAt>>
    BY <1>5 DEF Advance, workerVars, bankVars
  <2>2. now' \in Nat /\ now <= now'
    BY <1>5, ClockAdvances
  <2>3. now >= o + 90 => now' >= o + 90
    <3> HIDE DEF o
    <3> QED
      BY <1>3, <2>2
  <2> QED
    BY <2>1, <2>3 DEF Evening, SleepsBecause
<1>6. CASE Restart
  BY <1>6 DEF Restart, Evening
<1>7. CASE UNCHANGED vars
  BY <1>7 DEF vars, workerVars, bankVars, Evening, SleepsBecause
<1> QED
  BY <1>1, <1>2, <1>4, <1>5, <1>6, <1>7 DEF Next

\* After the closing time the worker sleeps until tomorrow's opening.
LEMMA SleepsUntilTomorrow ==
    ASSUME IInv, Asleep, pc = "window", now >= Date(DayOf(now), BcvWindow.end)
    PROVE  timer - Minutes = Date(DayOf(now), BcvWindow.start)
<1> DEFINE D == DayOf(now)
<1> DEFINE A == DayOf(timer)
<1>1. now \in Nat /\ timer \in Nat /\ now <= timer /\ timer <= now + 1440
  BY BcvWindowFacts DEF IInv, TypeOK, Asleep
<1>2. D \in Nat /\ TimeOfDay(now) \in 0..1439 /\ now = D * 1440 + TimeOfDay(now)
  BY <1>1, Moment
<1>3. A \in Nat /\ timer = A * 1440 + 1020
  <2>1. TimeOfDay(timer) = 1020
    BY BcvWindowFacts DEF IInv, AttemptsInWindow
  <2> QED
    BY <1>1, <2>1, Moment
<1>4. now >= D * 1440 + 1140
  BY BcvWindowFacts DEF Date
<1>5. Date(D, BcvWindow.start) = D * 1440 + 1020
  BY BcvWindowFacts DEF Date
<1> HIDE DEF D, A
<1>6. A = D + 1
  BY <1>1, <1>2, <1>3, <1>4
<1>7. timer - 1440 = D * 1440 + 1020
  BY <1>2, <1>3, <1>6
<1> QED
  BY <1>5, <1>7, BcvWindowFacts DEF D

\* What holds after a window that met a publication in time: the worker sleeps because
\* it accepted it.
LEMMA AcceptedInTime ==
    ASSUME IInv, Asleep, Evening, PublicationInTime
    PROVE  /\ stored = page \/ lost
           /\ ~failing /\ lastUpdated # Nil /\ lastUpdated >= TodaysOpening
<1> DEFINE closing == Date(DayOf(now), BcvWindow.end)
<1>1. /\ now >= closing /\ pc = "window" /\ boot + MaxFetchTime < TodaysOpening
      /\ page = nextBusinessDate(now) /\ publishedAt # Nil
      /\ publishedAt < closing - BcvWindow.retryEvery - MaxFetchTime /\ ~unreachable
  BY DEF PublicationInTime
<1>2. timer - Minutes = TodaysOpening /\ SleepsBecause(timer - Minutes)
  BY <1>1, SleepsUntilTomorrow DEF Evening, TodaysOpening
<1>3. MaxFetchTime \in Nat
  BY <1>1, LongestFetch DEF Evening
<1>4. now \in Nat /\ boot \in Nat /\ publishedAt \in Nat /\ DayOf(now) \in Nat
  BY <1>1, DayAndTime DEF IInv, TypeOK
<1>5. TodaysOpening \in Nat /\ DayOf(TodaysOpening) = DayOf(now) /\ closing = TodaysOpening + 120
  <2>1. 1020 \in 0..(Minutes - 1)
    BY DEF Minutes
  <2>2. Date(DayOf(now), 1140) = Date(DayOf(now), 1020) + 120
    BY <1>4 DEF Date, Minutes
  <2>3. Date(DayOf(now), 1020) \in Nat /\ DayOf(Date(DayOf(now), 1020)) = DayOf(now)
    BY <1>4, <2>1, DateParts
  <2> QED
    BY <2>2, <2>3, BcvWindowFacts DEF TodaysOpening
<1>6. page = nextBusinessDate(TodaysOpening)
  BY <1>1, <1>4, <1>5, DateOfDay
<1>7. BcvWindow.retryEvery = 30
  BY BcvWindowFacts
<1> HIDE DEF closing
<1>8. ~(boot + MaxFetchTime >= TodaysOpening) /\ ~(publishedAt >= TodaysOpening + 90)
  <2> DEFINE o == TodaysOpening
  <2> DEFINE m == MaxFetchTime
  <2>1. /\ o \in Nat /\ m \in Nat /\ boot \in Nat /\ publishedAt \in Nat
        /\ boot + m < o /\ publishedAt < (o + 120) - 30 - m
    BY <1>1, <1>3, <1>4, <1>5, <1>7
  <2> HIDE DEF o, m
  <2>2. ~(boot + m >= o) /\ ~(publishedAt >= o + 90)
    BY ONLY <2>1
  <2> QED
    BY <2>2 DEF o, m
<1> QED
  BY <1>1, <1>2, <1>6, <1>8 DEF SleepsBecause

\* The evenings' invariant, for every bank, every restart and every duration of fetches.
EveningInv == IInv /\ Flagged /\ Asleep /\ Evening

LEMMA AlwaysEveningInv == Spec => []EveningInv
<1>1. Init => EveningInv
  <2>1. Init => Asleep /\ Evening
    BY DEF Init, Asleep, Evening
  <2>2. Init => Flagged
    BY DEF Init, Flagged, FailStreak
  <2> QED
    BY <2>1, <2>2, InitInv DEF EveningInv
<1>2. EveningInv /\ [Next]_vars => EveningInv'
  BY NextInv, FlagStep, AsleepStep, EveningStep DEF EveningInv, IInv
<1> QED
  BY <1>1, <1>2, PTL DEF Spec

\* A rate published for the next business day before the last retry can begin is stored
\* when the window has closed, unless that retry did not reach the page or the database
\* refused a row of it: for every bank, every restart and every duration of fetches.
THEOREM PublishedInTime == Spec => []PublishedIsStored
<1>1. EveningInv => PublishedIsStored
  BY AcceptedInTime DEF EveningInv, PublishedIsStored
<1> QED
  BY <1>1, AlwaysEveningInv, PTL

\* Such a rate ends the streak and the flag of the evenings before it, however many
\* holidays there were, and whatever becomes of its rows.
THEOREM FlagEndsWithPublication == Spec => []HealthyAfterPublication
<1>1. EveningInv => HealthyAfterPublication
  BY AcceptedInTime DEF EveningInv, HealthyAfterPublication
<1> QED
  BY <1>1, AlwaysEveningInv, PTL
================================================================================
