------------------------------ MODULE Consolidation ------------------------------
(***************************************************************************)
(* The rows of the Binance currencies in prices_history, written by the    *)
(* provider's worker (main.go, Apply) and replaced every night at 01:00 by *)
(* the consolidation task (StartTaskWorker, ConsolidateDay): four SQL      *)
(* statements of a READ COMMITTED transaction per currency, each of which  *)
(* sees what is committed when it starts.                                  *)
(*                                                                         *)
(* Of the clock only the calendar day in UTC-4 is kept, and whether 01:00  *)
(* is ahead, has come or is past.                                          *)
(***************************************************************************)
EXTENDS Integers, Sequences, FiniteSets

CONSTANTS
    Currencies,   \* the currencies in the order of Apply and of the task
    MaxDay,       \* bound on the clock
    MaxFetches    \* bound on the fetches

CurrencySet == {Currencies[i] : i \in 1..Len(Currencies)}
DaySet == 0..MaxDay
FetchSet == 1..MaxFetches

ASSUME ConsolidationAssumption ==
    /\ Currencies \in Seq(STRING) /\ Len(Currencies) > 0
    /\ \A i, j \in 1..Len(Currencies) : Currencies[i] = Currencies[j] => i = j
    /\ MaxDay \in Nat \ {0} /\ MaxFetches \in Nat

VARIABLES
    day,        \* the calendar day in UTC-4
    hour,       \* "before", "at" or "past" 01:00
    running,    \* the process is up
    rows,       \* the committed rows of prices_history
    fetches,    \* how many fetches have been accepted
    inserting,  \* position of Apply's next InsertRate, 0 outside Apply
    stampDay,   \* the day of the timestamp Apply took
    position,   \* position of the currency the task consolidates, 0 when asleep
    taskDay,    \* the day the task consolidates
    stage,      \* the next statement of the transaction
    avgOf,      \* the fetches the SELECT AVG saw
    deleted,    \* the rows the transaction has deleted
    recorded,   \* history: the observations whose rows were committed
    done        \* history: the days ConsolidateDay reported as done

clockVars == <<day, hour>>
applyVars == <<fetches, inserting, stampDay, recorded>>
txVars == <<stage, avgOf, deleted>>
taskVars == <<position, taskDay, txVars, done>>
vars == <<clockVars, running, rows, applyVars, taskVars>>

History == INSTANCE PriceHistory WITH
               Currency <- CurrencySet, Day <- DaySet, Fetch <- FetchSet

RawRows(c, d) == History!RawRows(c, d)
AverageRows(c, d) == History!AverageRows(c, d)
FetchesOf(rs) == UNION {r.of : r \in rs}

\* A price whose row was committed, as the history variable remembers it.
Observation == [currency : CurrencySet, fetch : FetchSet]

--------------------------------------------------------------------------------
(* The worker: Apply's InsertRate calls.                                   *)

\* Apply of an accepted response takes the timestamp of its rows.
BeginApply ==
    /\ running /\ inserting = 0
    /\ fetches < MaxFetches
    /\ fetches' = fetches + 1
    /\ inserting' = 1
    /\ stampDay' = day
    /\ UNCHANGED <<clockVars, running, rows, recorded, taskVars>>

NextInsert == inserting' = IF inserting = Len(Currencies) THEN 0 ELSE inserting + 1

\* The row is committed.
InsertRate ==
    LET c == Currencies[inserting] IN
    /\ running /\ inserting > 0
    /\ rows' = rows \cup {History!RawRow(c, stampDay, fetches)}
    /\ recorded' = recorded \cup {[currency |-> c, fetch |-> fetches]}
    /\ NextInsert
    /\ UNCHANGED <<clockVars, running, fetches, stampDay, taskVars>>

\* The row is not committed; Apply logs the error and goes on.  (An error whose
\* row was committed all the same changes nothing but the log: InsertRate.)
InsertRateFails ==
    /\ running /\ inserting > 0
    /\ NextInsert
    /\ UNCHANGED <<clockVars, running, rows, fetches, stampDay, recorded, taskVars>>

--------------------------------------------------------------------------------
(* The nightly task.                                                       *)

\* Variant: the day that has only begun.
Today == day

\* now.AddDate(0, 0, -1), in UTC-4.
Yesterday == day - 1

FreshTx == stage' = "select" /\ avgOf' = {} /\ deleted' = {}

\* The timer of 01:00 fires.  It can fire again the same night: in a process
\* started anew, or when the wall clock, from which nextDaily arms it, is set back.
TaskFires ==
    /\ running /\ position = 0 /\ hour = "at"
    /\ position' = 1
    /\ taskDay' = Yesterday
    /\ FreshTx
    /\ UNCHANGED <<clockVars, running, rows, applyVars, done>>

\* Variant: the loop goes one position too far.
NextCurrencyTooFar ==
    /\ position' = IF position > Len(Currencies) THEN 0 ELSE position + 1
    /\ FreshTx
    /\ UNCHANGED <<clockVars, running, applyVars, taskDay>>

\* ConsolidateDay has returned: the loop goes on with the next currency, whatever
\* became of this one.
NextCurrency ==
    /\ position' = IF position = Len(Currencies) THEN 0 ELSE position + 1
    /\ FreshTx
    /\ UNCHANGED <<clockVars, running, applyVars, taskDay>>

Statement(s) == running /\ position > 0 /\ stage = s
TaskCurrency == Currencies[position]

\* SELECT AVG over the raw rows.
SelectAverage ==
    LET raw == RawRows(TaskCurrency, taskDay) IN
    /\ Statement("select") /\ raw # {}
    /\ avgOf' = FetchesOf(raw)
    /\ stage' = "deleteRaw"
    /\ UNCHANGED <<clockVars, running, rows, applyVars, position, taskDay, deleted, done>>

\* There are none: the transaction ends without a change.
NothingToConsolidate ==
    /\ Statement("select") /\ RawRows(TaskCurrency, taskDay) = {}
    /\ done' = done \cup {[currency |-> TaskCurrency, day |-> taskDay]}
    /\ NextCurrency
    /\ UNCHANGED rows

\* Variant: the DELETE does not ask for the currency.
DeleteRawOfAll ==
    /\ Statement("deleteRaw")
    /\ deleted' = {r \in rows : r.day = taskDay /\ ~r.average}
    /\ stage' = "deleteAverage"
    /\ UNCHANGED <<clockVars, running, rows, applyVars, position, taskDay, avgOf, done>>

\* Variant: the DELETE runs outside the transaction.
DeleteRawAtOnce ==
    /\ Statement("deleteRaw")
    /\ rows' = rows \ RawRows(TaskCurrency, taskDay)
    /\ stage' = "deleteAverage"
    /\ UNCHANGED <<clockVars, running, applyVars, position, taskDay, avgOf, deleted, done>>

\* Variant: the DELETE asks for the other value of is_average.
DeleteRawWrongFlag ==
    /\ Statement("deleteRaw")
    /\ deleted' = AverageRows(TaskCurrency, taskDay)
    /\ stage' = "deleteAverage"
    /\ UNCHANGED <<clockVars, running, rows, applyVars, position, taskDay, avgOf, done>>

\* DELETE of the raw rows: those that are committed by now.
DeleteRaw ==
    /\ Statement("deleteRaw")
    /\ deleted' = RawRows(TaskCurrency, taskDay)
    /\ stage' = "deleteAverage"
    /\ UNCHANGED <<clockVars, running, rows, applyVars, position, taskDay, avgOf, done>>

\* DELETE of an earlier average.
DeleteAverage ==
    /\ Statement("deleteAverage")
    /\ deleted' = deleted \cup AverageRows(TaskCurrency, taskDay)
    /\ stage' = "insert"
    /\ UNCHANGED <<clockVars, running, rows, applyVars, position, taskDay, avgOf, done>>

\* INSERT of the new average, seen by nobody before the commit.
InsertAverage ==
    /\ Statement("insert")
    /\ stage' = "commit"
    /\ UNCHANGED <<clockVars, running, rows, applyVars, position, taskDay, avgOf, deleted, done>>

\* What the transaction makes of the rows.
Committed ==
    (rows \ deleted) \cup {History!AverageRow(TaskCurrency, taskDay, avgOf)}

Commit ==
    /\ Statement("commit")
    /\ rows' = Committed
    /\ done' = done \cup {[currency |-> TaskCurrency, day |-> taskDay]}
    /\ NextCurrency

\* A statement or the commit fails, or the process is told to stop: the deferred
\* Rollback leaves the rows alone.
ConsolidationFails ==
    /\ running /\ position > 0
    /\ NextCurrency
    /\ UNCHANGED <<rows, done>>

\* The commit takes effect but its answer is lost, or the process dies before it.
CommitUnanswered ==
    /\ Statement("commit")
    /\ rows' = Committed
    /\ NextCurrency
    /\ UNCHANGED done

--------------------------------------------------------------------------------
(* The clock and the process.                                              *)

OneOClock ==
    /\ hour = "before"
    /\ hour' = "at"
    /\ UNCHANGED <<day, running, rows, applyVars, taskVars>>

PastOne ==
    /\ hour = "at"
    /\ hour' = "past"
    /\ UNCHANGED <<day, running, rows, applyVars, taskVars>>

Midnight ==
    /\ hour = "past" /\ day < MaxDay
    /\ day' = day + 1 /\ hour' = "before"
    /\ UNCHANGED <<running, rows, applyVars, taskVars>>

\* The process dies, and PostgreSQL rolls its transaction back.
Crash ==
    /\ running
    /\ running' = FALSE
    /\ inserting' = 0 /\ position' = 0
    /\ FreshTx
    /\ UNCHANGED <<clockVars, rows, fetches, stampDay, recorded, taskDay, done>>

\* The task has no run at startup.
Start ==
    /\ ~running
    /\ running' = TRUE
    /\ UNCHANGED <<clockVars, rows, applyVars, taskVars>>

Init ==
    /\ day = 1 /\ hour = "before"
    /\ running = TRUE
    /\ rows = {}
    /\ fetches = 0 /\ inserting = 0 /\ stampDay = 0 /\ recorded = {}
    /\ position = 0 /\ taskDay = 0 /\ done = {}
    /\ stage = "select" /\ avgOf = {} /\ deleted = {}

Next ==
    \/ BeginApply
    \/ InsertRate
    \/ InsertRateFails
    \/ TaskFires
    \/ SelectAverage
    \/ NothingToConsolidate
    \/ DeleteRaw
    \/ DeleteAverage
    \/ InsertAverage
    \/ Commit
    \/ ConsolidationFails
    \/ CommitUnanswered
    \/ OneOClock
    \/ PastOne
    \/ Midnight
    \/ Crash
    \/ Start

\* However long an InsertRate takes: it has no timeout of its own.
Spec == Init /\ [][Next]_vars

\* A day is closed once 01:00 of the next day has come.
Closed(d) == d < day - 1 \/ (d = day - 1 /\ hour # "before")

\* No InsertRate of a day is still under way at 01:00 of the next: an insertion
\* takes less than the hour between midnight and the task.
InsertsAreTimely == inserting > 0 => ~Closed(stampDay)

\* The task with an hour's margin, which main.go leaves it.
TimelySpec == Init /\ [][Next /\ InsertsAreTimely']_vars

--------------------------------------------------------------------------------
(* Properties.                                                             *)

\* Every variable stays within its type.
TypeOK ==
    /\ day \in DaySet \ {0} /\ hour \in {"before", "at", "past"} /\ running \in BOOLEAN
    /\ rows \subseteq History!Row
    /\ fetches \in 0..MaxFetches /\ inserting \in 0..Len(Currencies) /\ stampDay \in DaySet
    /\ position \in 0..Len(Currencies) /\ taskDay \in DaySet
    /\ stage \in {"select", "deleteRaw", "deleteAverage", "insert", "commit"}
    /\ avgOf \subseteq FetchSet /\ deleted \subseteq History!Row
    /\ recorded \subseteq Observation
    /\ done \subseteq [currency : CurrencySet, day : DaySet]

Holds(r, o) == r.currency = o.currency /\ o.fetch \in r.of

\* Every price that was ever recorded is in the history exactly once, in a raw row
\* or in one average, also while a consolidation is under way, has failed or was
\* cut off by a crash: nothing is lost and nothing is counted twice.
EveryObservationOnce ==
    \A o \in recorded :
        \E r \in rows : Holds(r, o) /\ \A s \in rows : Holds(s, o) => s = r

\* A client of the history sees of a day either its raw rows or one average row,
\* never an average beside raw rows or beside a second average.
RawOrAverage ==
    \A r \in rows : r.average => History!RowsOfDay(r.currency, r.day) = {r}

\* A day that ConsolidateDay has reported as done has no raw row, then and ever after.
DoneHasNoRaw == \A x \in done : RawRows(x.currency, x.day) = {}

\* The four statements of ConsolidateDay act as one: the history changes as
\* PriceHistory says, and a day is never recorded into once it is consolidated.
AtomicConsolidation == History!Spec

\* "The operation is atomic": computes the average of all raw observations of the
\* day and deletes these (db.go, Store.ConsolidateDay), however long an InsertRate
\* of the day takes: no recorded observation goes missing.
NoObservationLost == \A o \in recorded : \E r \in rows : Holds(r, o)
================================================================================
