------------------------------ MODULE BcvSchedule ------------------------------
(***************************************************************************)
(* The BCV job over the days of a calendar: the initial fetch and          *)
(* runBusinessWindow (internal/worker/worker.go) with the window and the   *)
(* validation main.go gives it, against a bank that publishes the next     *)
(* business day's rate some time in the afternoon, or does not.            *)
(*                                                                         *)
(* A fetch is one step that takes a few minutes of the clock; what its     *)
(* parts do to memory and rows is RateService's subject.  Between fetches  *)
(* the clock moves to the next moment at which something may happen.       *)
(***************************************************************************)
EXTENDS Schedule, FiniteSetsExt

CONSTANTS
    FetchTime,    \* the minutes a GetPrices may take
    PublishAt,    \* times of day at which the bank may publish
    RestartAt,    \* times of day at which the process may be started again
    MaxRestarts,  \* bound on the restarts
    FirstDay,     \* the day at whose midnight the process starts
    LastDay,      \* bound on the clock
    Nil           \* absent: nothing stored, no timestamp

\* Variant: no fetches on weekends.
WeekdayWindow == [start |-> 1020, end |-> 1140, retryEvery |-> 30, weekdaysOnly |-> TRUE]

\* The window of the BCV job: 17:00 to 19:00, every half hour, on every day.
BcvWindow == [start |-> 1020, end |-> 1140, retryEvery |-> 30, weekdaysOnly |-> FALSE]

\* stalenessBcv: 26 hours.
StalenessBcv == 26 * 60

FailStreak == 3

\* A fetch that begins in the window ends before midnight.
ASSUME FetchTimeAssumption == FetchTime \subseteq 0..(Minutes - BcvWindow.end)

ASSUME EnvironmentAssumption ==
    /\ PublishAt \subseteq 0..(Minutes - 1) /\ RestartAt \subseteq 0..(Minutes - 1)
    /\ MaxRestarts \in Nat /\ FirstDay \in Nat /\ LastDay \in Nat
    /\ Nil \notin Int

VARIABLES
    now,           \* time.Now()
    pc,            \* what the worker's next fetch is: "initial", "window" or "retry"
    timer,         \* when the next fetch begins
    deadline,      \* the closing time that runBusinessWindow computed
    fails,         \* consecutiveFails
    failing,       \* providerFailing of the BCV currencies
    lastUpdated,   \* their LastUpdated in memory
    stored,        \* history: the effective date of the newest rates with all their rows
    lost,          \* history: the last fetch was accepted and the database refused a row
    page,          \* the effective date the bank's page shows
    publishedAt,   \* when it was put there
    boot,          \* when the process was last started
    unreachable,   \* history: the last fetch got no page
    restarts       \* how often the process has been started again

workerVars == <<pc, timer, deadline, fails, failing, lastUpdated, stored, lost, unreachable>>
bankVars == <<page, publishedAt>>
vars == <<now, workerVars, bankVars, boot, restarts>>

--------------------------------------------------------------------------------
(* The fetch closure.                                                      *)

\* The fetch fails: the streak grows and OnFail marks from the third on.
Failed ==
    /\ fails' = fails + 1
    /\ failing' = (failing \/ fails + 1 >= FailStreak)
    /\ lost' = FALSE
    /\ UNCHANGED <<lastUpdated, stored>>

\* Variant: recovery is noticed at the very end of a streak of three only.
RecoverAfterThree(t) ==
    /\ fails' = 0
    /\ failing' = (failing /\ fails # FailStreak)
    /\ lastUpdated' = t
    /\ stored' = page /\ lost' = FALSE

\* The response is accepted at t: OnRecover clears, Apply updates memory and inserts
\* a row per currency.  An insert that fails is only logged: the fetch still counts
\* as a success, and nothing asks for the rates again.
Succeeded(t) ==
    /\ fails' = 0
    /\ failing' = (failing /\ fails < FailStreak)
    /\ lastUpdated' = t
    /\ \/ stored' = page /\ lost' = FALSE
       \/ UNCHANGED stored /\ lost' = TRUE

\* Variant: today's opening, even when it is over.
SleepUntilTodaysOpening(t) ==
    /\ pc' = "window"
    /\ timer' = Date(DayOf(t), BcvWindow.start)

\* Arm the timer for the next opening of the window.
SleepUntilOpening(t) ==
    /\ pc' = "window"
    /\ timer' = t + nextBusinessWindowStart(BcvWindow, t)

\* Variant: one attempt a day.
NeverRetry(t) ==
    /\ deadline' = businessWindowEnd(BcvWindow, t)
    /\ SleepUntilOpening(t)

\* After a failed scheduled fetch: again within the window, or its next opening.
\* The first failure of a day computes the deadline, its retries keep it.
RetryOrSleep(t) ==
    LET closing == IF pc = "window" THEN businessWindowEnd(BcvWindow, t) ELSE deadline IN
    /\ deadline' = closing
    /\ IF shouldRetry(BcvWindow, t, closing)
       THEN pc' = "retry" /\ timer' = nextRetry(BcvWindow, t)
       ELSE SleepUntilOpening(t)

\* fetch(false): whatever the page shows is accepted, and no failure is retried.
InitialFetch(d) ==
    /\ pc = "initial" /\ now = timer
    /\ now' = now + d
    /\ \/ Failed /\ unreachable' = TRUE
       \/ Succeeded(now') /\ unreachable' = FALSE
    /\ SleepUntilOpening(now')
    /\ UNCHANGED <<deadline, bankVars, boot, restarts>>

\* fetch(true), when GetPrices returns an error.
FetchFails(d) ==
    /\ pc \in {"window", "retry"} /\ now = timer
    /\ now' = now + d
    /\ Failed /\ unreachable' = TRUE
    /\ RetryOrSleep(now')
    /\ UNCHANGED <<bankVars, boot, restarts>>

\* fetch(true), when the page does not carry the next business date.
FetchRejected(d) ==
    /\ pc \in {"window", "retry"} /\ now = timer
    /\ now' = now + d
    /\ ~ValidateBCVPublication(page, now')
    /\ Failed /\ unreachable' = FALSE
    /\ RetryOrSleep(now')
    /\ UNCHANGED <<bankVars, boot, restarts>>

\* fetch(true), when it does.
FetchAccepted(d) ==
    /\ pc \in {"window", "retry"} /\ now = timer
    /\ now' = now + d
    /\ ValidateBCVPublication(page, now')
    /\ Succeeded(now') /\ unreachable' = FALSE
    /\ SleepUntilOpening(now')
    /\ UNCHANGED <<deadline, bankVars, boot, restarts>>

--------------------------------------------------------------------------------
(* The bank, the clock and the process.                                    *)

\* On a weekday the bank publishes the rate of the next business day, which is a
\* day later than the code's calendar says when that day is a holiday.
Publish ==
    /\ isWeekday(DayOf(now)) /\ TimeOfDay(now) \in PublishAt /\ publishedAt # now
    /\ page' \in {nextBusinessDate(now), nextBusinessDate(Date(nextBusinessDate(now), 0))}
    /\ publishedAt' = now
    /\ UNCHANGED <<now, workerVars, boot, restarts>>

\* The clock moves to the worker's timer or to the next moment of the others, and
\* stops at the window's closing time to look at the result.
Advance ==
    LET moments == {timer} \cup {now + nextDaily(tod, now) :
                                   tod \in PublishAt \cup RestartAt \cup {BcvWindow.end}}
    IN  /\ now < timer
        /\ now' \in moments /\ \A m \in moments : now' <= m
        /\ DayOf(now') <= LastDay
        /\ UNCHANGED <<workerVars, bankVars, boot, restarts>>

\* The process starts over.  Its warm-up loads nothing (RateService), so memory
\* is empty until the initial fetch.
Restart ==
    /\ restarts < MaxRestarts /\ TimeOfDay(now) \in RestartAt
    /\ restarts' = restarts + 1
    /\ boot' = now
    /\ pc' = "initial" /\ timer' = now /\ deadline' = Nil
    /\ fails' = 0 /\ failing' = FALSE /\ lastUpdated' = Nil
    /\ lost' = FALSE /\ unreachable' = FALSE
    /\ UNCHANGED <<now, stored, bankVars>>

Init ==
    /\ now = Date(FirstDay, 0) /\ boot = now /\ restarts = 0
    /\ pc = "initial" /\ timer = now /\ deadline = Nil
    /\ fails = 0 /\ failing = FALSE /\ lastUpdated = Nil
    /\ stored = Nil /\ lost = FALSE /\ unreachable = FALSE
    /\ page = FirstDay /\ publishedAt = Nil

Next ==
    \/ \E d \in FetchTime :
         InitialFetch(d) \/ FetchFails(d) \/ FetchRejected(d) \/ FetchAccepted(d)
    \/ Publish
    \/ Advance
    \/ Restart

Spec == Init /\ [][Next]_vars

--------------------------------------------------------------------------------
(* Properties.                                                             *)

\* Every variable stays within its type, and the clock does not pass a timer.
TypeOK ==
    /\ now \in Nat /\ timer \in Nat /\ now <= timer
    /\ pc \in {"initial", "window", "retry"}
    /\ deadline \in Nat \cup {Nil}
    /\ fails \in Nat /\ failing \in BOOLEAN
    /\ lastUpdated \in Nat \cup {Nil}
    /\ stored \in Nat \cup {Nil} /\ page \in Nat /\ publishedAt \in Nat \cup {Nil}
    /\ boot \in Nat /\ lost \in BOOLEAN /\ unreachable \in BOOLEAN /\ restarts \in Nat

\* Every scheduled fetch begins inside the window, and a retry on the day whose
\* closing time it was measured against, however long the fetches before it took.
AttemptsInWindow ==
    /\ pc \in {"window", "retry"} =>
         TimeOfDay(timer) \in BcvWindow.start..(BcvWindow.end - 1)
    /\ pc = "window" => TimeOfDay(timer) = BcvWindow.start
    /\ pc = "retry" => deadline = businessWindowEnd(BcvWindow, timer)

\* Memory older than 26 hours belongs to a provider already flagged as failing:
\* one day and the three attempts of a window that raise the flag take less, so
\* a rate in memory is never too old for its age alone (handlers.go, "safe margin").
\* It says nothing of the rows: after a restart whose initial fetch failed memory has
\* no timestamp, and the rows of the day before grow old without a flag.
AgeImpliesFailing ==
    lastUpdated # Nil /\ now - lastUpdated > StalenessBcv => failing

\* The longest fetch the last retry of a window can be late by.
MaxFetchTime == Max(FetchTime)

\* The opening of today's window.
TodaysOpening == Date(DayOf(now), BcvWindow.start)

\* Today's window has closed, and the bank published the next business day's rate
\* early enough for the last retry, which reached the page if it was needed.  The
\* process must have ended its initial fetch before the window opened: at 17:00
\* sharp the worker already sleeps until the next day.
PublicationInTime ==
    LET closing == Date(DayOf(now), BcvWindow.end)
    IN  /\ now >= closing /\ pc = "window"
        /\ boot + MaxFetchTime < TodaysOpening
        /\ page = nextBusinessDate(now)
        /\ publishedAt # Nil /\ publishedAt < closing - BcvWindow.retryEvery - MaxFetchTime
        /\ ~unreachable

\* A rate published in time is stored when the window has closed, unless the database
\* refused one of its rows: the window does not ask for those again (main.go logs the
\* error and fetch returns true), so that only memory has the rate.
PublishedIsStored == PublicationInTime => stored = page \/ lost

\* The evenings before a bank holiday bring only rejected pages, and the third one
\* flags a provider that has nothing new to say (worker.go counts a rejection as a
\* failure).  The flag does not outlive that: when a rate was published in time, the
\* provider is healthy after the window, and memory is of that evening, whatever
\* the streak was and even if its rows could not be inserted.
HealthyAfterPublication ==
    PublicationInTime => ~failing /\ lastUpdated # Nil /\ lastUpdated >= TodaysOpening

\* A scheduled fetch does not record the rates of a date it has already recorded
\* (BCV_PIPELINE_PLAN.md, on the validation): it takes a window that opens on weekends.
NoRepeatedPublication ==
    [][pc # "initial" /\ lastUpdated' # lastUpdated /\ lastUpdated' # Nil => page # stored]_vars
================================================================================
