---------------------------- MODULE ConsolidationProofs ----------------------------
(***************************************************************************)
(* What the nightly consolidation keeps, for any currencies and any number *)
(* of days and fetches, as long as no InsertRate lasts from one day beyond *)
(* 01:00 of the next.                                                      *)
(***************************************************************************)
EXTENDS Consolidation, TLAPS

--------------------------------------------------------------------------------
(* The inductive invariant.                                                *)

\* A raw row holds one observation; only recorded observations are held.
SingleFetch == \A r \in rows : ~r.average => \E f \in FetchSet : r.of = {f}
OnlyRecorded ==
    \A r \in rows : \A f \in r.of : [currency |-> r.currency, fetch |-> f] \in recorded

DataInv == SingleFetch /\ OnlyRecorded /\ EveryObservationOnce /\ RawOrAverage

\* Averages, the task and what it reported concern closed days, insertions open ones.
CalendarInv ==
    /\ InsertsAreTimely
    /\ position > 0 => Closed(taskDay)
    /\ \A r \in rows : r.average => Closed(r.day)
    /\ \A x \in done : Closed(x.day)

\* What Apply has still to insert is not recorded yet.
FreshInv ==
    /\ \A o \in recorded : o.fetch <= fetches
    /\ inserting > 0 =>
         /\ fetches > 0
         /\ \A i \in inserting..Len(Currencies) :
              [currency |-> Currencies[i], fetch |-> fetches] \notin recorded

\* What the transaction saw is still so: nobody else touches a closed day.
TxInv ==
    position > 0 =>
      LET raw == RawRows(TaskCurrency, taskDay) IN
      /\ stage # "select" => raw # {} /\ avgOf = FetchesOf(raw)
      /\ stage = "deleteAverage" => deleted = raw
      /\ stage \in {"insert", "commit"} =>
           deleted = History!RowsOfDay(TaskCurrency, taskDay)

IInv == TypeOK /\ DataInv /\ CalendarInv /\ FreshInv /\ DoneHasNoRaw /\ TxInv

--------------------------------------------------------------------------------
(* Lemmas.                                                                 *)

\* The positions of the currencies.
LEMMA CurrencyFacts ==
    /\ Len(Currencies) \in Nat \ {0}
    /\ \A i \in 1..Len(Currencies) : Currencies[i] \in CurrencySet
    /\ \A i, j \in 1..Len(Currencies) : Currencies[i] = Currencies[j] => i = j
<1>1. Currencies \in Seq(STRING) /\ Len(Currencies) \in Nat
  BY ConsolidationAssumption
<1> QED
  BY <1>1, ConsolidationAssumption DEF CurrencySet

\* The rows of a day, spelled out.
LEMMA RowSets ==
    ASSUME NEW c, NEW d
    PROVE  /\ History!RowsOfDay(c, d) = {r \in rows : r.currency = c /\ r.day = d}
           /\ RawRows(c, d) = {r \in rows : r.currency = c /\ r.day = d /\ ~r.average}
           /\ AverageRows(c, d) = {r \in rows : r.currency = c /\ r.day = d /\ r.average}
  BY DEF RawRows, AverageRows, History!RawRows, History!AverageRows, History!RowsOfDay

\* A closed day stays closed.
LEMMA ClosedStays ==
    ASSUME TypeOK, NEW d \in DaySet, Closed(d),
           OneOClock \/ PastOne \/ Midnight \/ UNCHANGED clockVars
    PROVE  Closed(d)'
<1>1. d \in Int /\ day \in Int /\ MaxDay \in Nat
  BY ConsolidationAssumption DEF TypeOK, DaySet
<1>2. CASE Midnight
  BY <1>1, <1>2 DEF Midnight, Closed
<1>3. CASE OneOClock \/ PastOne
  BY <1>3 DEF OneOClock, PastOne, Closed
<1>4. CASE UNCHANGED clockVars
  BY <1>4 DEF clockVars, Closed
<1> QED
  BY <1>2, <1>3, <1>4

\* Steps that leave the rows and the recorded observations alone.
LEMMA DataKept ==
    ASSUME DataInv, UNCHANGED <<rows, recorded>>
    PROVE  DataInv'
  BY DEF DataInv, SingleFetch, OnlyRecorded, EveryObservationOnce, RawOrAverage,
         Holds, History!RowsOfDay

\* The initial state satisfies the invariant.
LEMMA InitInv == Init => IInv
<1> SUFFICES ASSUME Init PROVE IInv
  OBVIOUS
<1>1. Len(Currencies) \in Nat /\ MaxDay \in Nat \ {0} /\ MaxFetches \in Nat
  BY CurrencyFacts, ConsolidationAssumption
<1>2. TypeOK
  BY <1>1 DEF Init, TypeOK, DaySet
<1>3. DataInv
  BY DEF Init, DataInv, SingleFetch, OnlyRecorded, EveryObservationOnce, RawOrAverage
<1>4. CalendarInv /\ FreshInv /\ DoneHasNoRaw /\ TxInv
  BY DEF Init, CalendarInv, InsertsAreTimely, FreshInv, DoneHasNoRaw, TxInv
<1> QED
  BY <1>2, <1>3, <1>4 DEF IInv

\* The clock moves on, with no insertion of a day that closes.
LEMMA ClockStep ==
    ASSUME IInv, OneOClock \/ PastOne \/ Midnight, InsertsAreTimely'
    PROVE  IInv'
<1>1. UNCHANGED <<running, rows, applyVars, taskVars>>
  BY DEF OneOClock, PastOne, Midnight
<1>2. TypeOK'
  <2>1. day' \in DaySet \ {0} /\ hour' \in {"before", "at", "past"}
    BY ConsolidationAssumption DEF OneOClock, PastOne, Midnight, IInv, TypeOK, DaySet
  <2> QED
    BY <1>1, <2>1 DEF IInv, TypeOK, applyVars, taskVars, txVars
<1>3. DataInv'
  BY <1>1, DataKept DEF IInv, applyVars
<1>4. CalendarInv'
  <2>1. \A d \in DaySet : Closed(d) => Closed(d)'
    BY ClosedStays DEF IInv
  <2>2. \A r \in rows : r.day \in DaySet
    BY DEF IInv, TypeOK, History!Row
  <2>3. \A x \in done : x.day \in DaySet
    BY DEF IInv, TypeOK
  <2>4. taskDay \in DaySet
    BY DEF IInv, TypeOK
  <2>5. \A r \in rows' : r.average => Closed(r.day)'
    BY <1>1, <2>1, <2>2 DEF IInv, CalendarInv
  <2>6. \A x \in done' : Closed(x.day)'
    BY <1>1, <2>1, <2>3 DEF IInv, CalendarInv, taskVars
  <2>7. position' > 0 => Closed(taskDay)'
    BY <1>1, <2>1, <2>4 DEF IInv, CalendarInv, taskVars
  <2> QED
    BY <1>1, <2>5, <2>6, <2>7 DEF CalendarInv, Closed, taskVars
<1>5. FreshInv' /\ DoneHasNoRaw' /\ TxInv'
  BY <1>1 DEF IInv, FreshInv, DoneHasNoRaw, TxInv, RawRows, History!RawRows,
              History!RowsOfDay, TaskCurrency, applyVars, taskVars, txVars
<1> QED
  BY <1>2, <1>3, <1>4, <1>5 DEF IInv

\* Apply takes its timestamp today, an open day, for a fetch without rows.
LEMMA BeginStep ==
    ASSUME IInv, BeginApply
    PROVE  IInv'
<1>1. /\ UNCHANGED <<clockVars, running, rows, recorded, taskVars>>
      /\ fetches' = fetches + 1 /\ inserting' = 1 /\ stampDay' = day
      /\ fetches < MaxFetches
  BY DEF BeginApply
<1>2. fetches \in Nat /\ MaxFetches \in Nat /\ day \in Nat /\ day \in DaySet
  BY ConsolidationAssumption DEF IInv, TypeOK, DaySet
<1>3. TypeOK'
  <2>1. fetches' \in 0..MaxFetches /\ inserting' \in 0..Len(Currencies)
    BY <1>1, <1>2, CurrencyFacts
  <2> QED
    BY <1>1, <1>2, <2>1 DEF IInv, TypeOK, clockVars, taskVars, txVars
<1>4. DataInv'
  BY <1>1, DataKept DEF IInv
<1>5. CalendarInv'
  BY <1>1, <1>2 DEF IInv, CalendarInv, InsertsAreTimely, Closed, clockVars, taskVars
<1>6. FreshInv'
  <2>1. \A o \in recorded : o.fetch \in FetchSet /\ o.fetch <= fetches
    BY DEF IInv, TypeOK, Observation, FreshInv
  <2>2. \A o \in recorded : o.fetch <= fetches' /\ o.fetch # fetches'
    BY <1>1, <1>2, <2>1 DEF FetchSet
  <2> QED
    BY <1>1, <1>2, <2>2 DEF FreshInv
<1>7. DoneHasNoRaw' /\ TxInv'
  BY <1>1 DEF IInv, DoneHasNoRaw, TxInv, RawRows, History!RawRows,
              History!RowsOfDay, TaskCurrency, taskVars, txVars
<1> QED
  BY <1>3, <1>4, <1>5, <1>6, <1>7 DEF IInv

\* Moving on within Apply.
LEMMA NextInsertFacts ==
    ASSUME TypeOK, inserting > 0, NextInsert
    PROVE  /\ inserting' \in 0..Len(Currencies)
           /\ inserting \in 1..Len(Currencies)
           /\ inserting' > 0 => inserting' = inserting + 1
  BY CurrencyFacts DEF TypeOK, NextInsert

\* A row goes into an open day, where no average is, no transaction is under way,
\* and nothing has been reported as done.
LEMMA InsertStep ==
    ASSUME IInv, InsertRate
    PROVE  /\ IInv'
           /\ \E c \in CurrencySet, d \in DaySet, f \in FetchSet : History!Record(c, d, f)
<1> DEFINE c == Currencies[inserting]
<1> DEFINE o == [currency |-> c, fetch |-> fetches]
<1> DEFINE row == History!RawRow(c, stampDay, fetches)
<1>1. /\ inserting > 0 /\ NextInsert
      /\ rows' = rows \cup {row} /\ recorded' = recorded \cup {o}
      /\ UNCHANGED <<clockVars, running, fetches, stampDay, taskVars>>
  BY DEF InsertRate
<1>2. c \in CurrencySet /\ stampDay \in DaySet /\ fetches \in FetchSet
  <2>1. fetches \in 0..MaxFetches /\ fetches > 0
    BY <1>1 DEF IInv, TypeOK, FreshInv
  <2> QED
    BY <1>1, <2>1, NextInsertFacts, CurrencyFacts, ConsolidationAssumption
       DEF IInv, TypeOK, FetchSet
<1>3. /\ row.currency = c /\ row.day = stampDay /\ row.average = FALSE /\ row.of = {fetches}
      /\ row \in History!Row
  BY <1>2 DEF History!RawRow, History!Row
<1>4. ~Closed(stampDay)
  BY <1>1 DEF IInv, CalendarInv, InsertsAreTimely
<1>5. \A r \in rows : ~(r.average /\ r.day = stampDay)
  BY <1>4 DEF IInv, CalendarInv
<1>6. o \notin recorded /\ \A r \in rows : ~Holds(r, o)
  <2>1. o \notin recorded
    BY <1>1, NextInsertFacts DEF IInv, FreshInv
  <2>2. ASSUME NEW r \in rows, Holds(r, o) PROVE FALSE
    <3>1. r.currency = c /\ fetches \in r.of
      BY <2>2 DEF Holds
    <3>2. [currency |-> r.currency, fetch |-> fetches] \in recorded
      BY <3>1 DEF IInv, DataInv, OnlyRecorded
    <3> QED
      BY <2>1, <3>1, <3>2
  <2> QED
    BY <2>1, <2>2
<1> HIDE DEF row
<1>7. TypeOK'
  <2>1. rows' \subseteq History!Row
    BY <1>1, <1>3 DEF IInv, TypeOK
  <2>2. recorded' \subseteq Observation
    BY <1>1, <1>2 DEF IInv, TypeOK, Observation
  <2>3. inserting' \in 0..Len(Currencies)
    BY <1>1, NextInsertFacts DEF IInv
  <2> QED
    BY <1>1, <2>1, <2>2, <2>3 DEF IInv, TypeOK, clockVars, taskVars, txVars
<1>8. DataInv'
  <2>1. SingleFetch'
    BY <1>1, <1>2, <1>3 DEF IInv, DataInv, SingleFetch
  <2>2. OnlyRecorded'
    BY <1>1, <1>3 DEF IInv, DataInv, OnlyRecorded
  <2>3. EveryObservationOnce'
    <3> SUFFICES ASSUME NEW x \in recorded'
                 PROVE  \E r \in rows' : Holds(r, x) /\ \A s \in rows' : Holds(s, x) => s = r
      BY DEF EveryObservationOnce, Holds
    <3>1. CASE x = o
      <4>1. Holds(row, x)
        BY <1>3, <3>1 DEF Holds
      <4> QED
        BY <1>1, <1>6, <3>1, <4>1
    <3>2. CASE x # o
      <4>1. x \in recorded /\ x \in Observation
        BY <1>1, <3>2 DEF IInv, TypeOK
      <4>2. ~Holds(row, x)
        BY <1>3, <3>2, <4>1 DEF Holds, Observation
      <4>3. PICK r \in rows : Holds(r, x) /\ \A s \in rows : Holds(s, x) => s = r
        BY <4>1 DEF IInv, DataInv, EveryObservationOnce
      <4> QED
        BY <1>1, <4>2, <4>3
    <3> QED
      BY <3>1, <3>2
  <2>4. RawOrAverage'
    <3> SUFFICES ASSUME NEW r \in rows', r.average
                 PROVE  {x \in rows' : x.currency = r.currency /\ x.day = r.day} = {r}
      BY DEF RawOrAverage, History!RowsOfDay
    <3>1. r \in rows /\ r.day # stampDay
      BY <1>1, <1>3, <1>5
    <3>2. {x \in rows : x.currency = r.currency /\ x.day = r.day} = {r}
      BY <3>1 DEF IInv, DataInv, RawOrAverage, History!RowsOfDay
    <3> QED
      BY <1>1, <1>3, <3>1, <3>2
  <2> QED
    BY <2>1, <2>2, <2>3, <2>4 DEF DataInv
<1>9. CalendarInv'
  BY <1>1, <1>3, <1>4 DEF IInv, CalendarInv, InsertsAreTimely, Closed, clockVars, taskVars
<1>10. FreshInv'
  <2>1. fetches \in Nat
    BY <1>2, ConsolidationAssumption DEF FetchSet
  <2>2. \A x \in recorded' : x.fetch <= fetches'
    BY <1>1, <2>1 DEF IInv, FreshInv
  <2>3. ASSUME NEW i \in inserting'..Len(Currencies), inserting' > 0
        PROVE  [currency |-> Currencies[i], fetch |-> fetches'] \notin recorded'
    <3>1. /\ i \in inserting..Len(Currencies) /\ i # inserting
          /\ i \in 1..Len(Currencies) /\ inserting \in 1..Len(Currencies)
      BY <1>1, <2>3, NextInsertFacts, CurrencyFacts DEF IInv
    <3>2. Currencies[i] # c
      BY <3>1, CurrencyFacts
    <3> QED
      BY <1>1, <3>1, <3>2 DEF IInv, FreshInv
  <2> QED
    BY <1>1, <2>2, <2>3 DEF IInv, FreshInv
<1>11. \A k, d : Closed(d) => RawRows(k, d)' = RawRows(k, d)
                           /\ History!RowsOfDay(k, d)' = History!RowsOfDay(k, d)
  BY <1>1, <1>3, <1>4 DEF RawRows, History!RawRows, History!RowsOfDay
<1>12. DoneHasNoRaw'
  BY <1>1, <1>11 DEF IInv, CalendarInv, DoneHasNoRaw, taskVars
<1>13. TxInv'
  BY <1>1, <1>11 DEF IInv, CalendarInv, TxInv, TaskCurrency, taskVars, txVars
<1>14. History!Record(c, stampDay, fetches)
  <2>1. AverageRows(c, stampDay) = {}
    BY <1>5, RowSets
  <2> QED
    BY <1>1, <2>1 DEF History!Record, AverageRows, row
<1> QED
  BY <1>2, <1>7, <1>8, <1>9, <1>10, <1>12, <1>13, <1>14 DEF IInv

\* An insertion that failed leaves nothing behind.
LEMMA InsertFailsStep ==
    ASSUME IInv, InsertRateFails
    PROVE  IInv'
<1>1. /\ inserting > 0 /\ NextInsert
      /\ UNCHANGED <<clockVars, running, rows, fetches, stampDay, recorded, taskVars>>
  BY DEF InsertRateFails
<1>2. TypeOK'
  BY <1>1, NextInsertFacts DEF IInv, TypeOK, clockVars, taskVars, txVars
<1>3. DataInv'
  BY <1>1, DataKept DEF IInv
<1>4. CalendarInv'
  BY <1>1 DEF IInv, CalendarInv, InsertsAreTimely, Closed, clockVars, taskVars
<1>5. FreshInv'
  <2>1. \A i \in inserting'..Len(Currencies) : inserting' > 0 => i \in inserting..Len(Currencies)
    BY <1>1, NextInsertFacts, CurrencyFacts DEF IInv
  <2> QED
    BY <1>1, <2>1 DEF IInv, FreshInv
<1>6. DoneHasNoRaw' /\ TxInv'
  BY <1>1 DEF IInv, DoneHasNoRaw, TxInv, RawRows, History!RawRows,
              History!RowsOfDay, TaskCurrency, taskVars, txVars
<1> QED
  BY <1>2, <1>3, <1>4, <1>5, <1>6 DEF IInv

\* What is left alone by the task: the data, the calendar's other parts, Apply.
LEMMA TaskLeavesApply ==
    ASSUME IInv, UNCHANGED <<clockVars, applyVars>>
    PROVE  FreshInv' /\ InsertsAreTimely' /\ \A d : Closed(d) => Closed(d)'
  BY DEF IInv, FreshInv, CalendarInv, InsertsAreTimely, Closed, clockVars, applyVars

\* Moving on to the next currency, or to the end of the task.
LEMMA NextCurrencyFacts ==
    ASSUME IInv, position > 0, NextCurrency
    PROVE  /\ position' \in 0..Len(Currencies)
           /\ stage' = "select" /\ avgOf' = {} /\ deleted' = {}
           /\ UNCHANGED <<clockVars, running, applyVars, taskDay>>
           /\ Closed(taskDay)
<1>1. position \in 0..Len(Currencies) /\ Len(Currencies) \in Nat
  BY CurrencyFacts DEF IInv, TypeOK
<1> QED
  BY <1>1 DEF NextCurrency, FreshTx, IInv, CalendarInv

\* The end of a ConsolidateDay that left the rows alone: a failure, or nothing to do.
LEMMA UnchangedRowsStep ==
    ASSUME IInv, ConsolidationFails \/ NothingToConsolidate
    PROVE  IInv'
<1>1. position > 0 /\ NextCurrency /\ rows' = rows
  BY DEF ConsolidationFails, NothingToConsolidate, Statement
<1>2. /\ position' \in 0..Len(Currencies)
      /\ stage' = "select" /\ avgOf' = {} /\ deleted' = {}
      /\ UNCHANGED <<clockVars, running, applyVars, taskDay>>
      /\ Closed(taskDay)
  BY <1>1, NextCurrencyFacts
<1> DEFINE x == [currency |-> TaskCurrency, day |-> taskDay]
<1>3. \/ done' = done
      \/ done' = done \cup {x} /\ RawRows(TaskCurrency, taskDay) = {}
  BY DEF ConsolidationFails, NothingToConsolidate
<1>4. x \in [currency : CurrencySet, day : DaySet]
  BY <1>1, CurrencyFacts DEF IInv, TypeOK, TaskCurrency
<1>5. TypeOK'
  BY <1>1, <1>2, <1>3, <1>4 DEF IInv, TypeOK, clockVars, applyVars
<1>6. DataInv'
  BY <1>1, <1>2, DataKept DEF IInv, applyVars
<1>7. CalendarInv'
  BY <1>1, <1>2, <1>3, TaskLeavesApply DEF IInv, CalendarInv
<1>8. \A k, d : RawRows(k, d)' = RawRows(k, d)
  BY <1>1 DEF RawRows, History!RawRows, History!RowsOfDay
<1>9. DoneHasNoRaw'
  BY <1>3, <1>8 DEF IInv, DoneHasNoRaw
<1>10. TxInv'
  BY <1>2 DEF TxInv
<1> QED
  BY <1>2, <1>5, <1>6, <1>7, <1>9, <1>10, TaskLeavesApply DEF IInv

\* The timer fires for a day that has closed.
LEMMA TaskFiresStep ==
    ASSUME IInv, TaskFires
    PROVE  IInv'
<1>1. /\ hour = "at" /\ position' = 1 /\ taskDay' = day - 1
      /\ stage' = "select" /\ avgOf' = {} /\ deleted' = {}
      /\ UNCHANGED <<clockVars, running, rows, applyVars, done>>
  BY DEF TaskFires, FreshTx, Yesterday
<1>2. day \in DaySet /\ MaxDay \in Nat
  BY ConsolidationAssumption DEF IInv, TypeOK
<1>3. Closed(day - 1)
  BY <1>1, <1>2 DEF Closed, DaySet
<1>4. day - 1 \in DaySet
  BY <1>2 DEF IInv, TypeOK, DaySet
<1>5. TypeOK'
  BY <1>1, <1>4, CurrencyFacts DEF IInv, TypeOK, clockVars, applyVars
<1>6. DataInv'
  BY <1>1, DataKept DEF IInv, applyVars
<1>7. CalendarInv'
  BY <1>1, <1>3, TaskLeavesApply DEF IInv, CalendarInv, Closed, clockVars
<1>8. DoneHasNoRaw' /\ TxInv'
  BY <1>1 DEF IInv, DoneHasNoRaw, TxInv, RawRows, History!RawRows, History!RowsOfDay
<1> QED
  BY <1>1, <1>5, <1>6, <1>7, <1>8, TaskLeavesApply DEF IInv

\* The statements before the commit change what the transaction knows, not the rows.
LEMMA StatementStep ==
    ASSUME IInv, SelectAverage \/ DeleteRaw \/ DeleteAverage \/ InsertAverage
    PROVE  IInv'
<1> DEFINE raw == RawRows(TaskCurrency, taskDay)
<1> DEFINE all == History!RowsOfDay(TaskCurrency, taskDay)
<1>1. /\ position > 0
      /\ UNCHANGED <<clockVars, running, rows, applyVars, position, taskDay, done>>
  BY DEF SelectAverage, DeleteRaw, DeleteAverage, InsertAverage, Statement
<1>2. /\ raw \subseteq all /\ all \subseteq rows
      /\ all = raw \cup AverageRows(TaskCurrency, taskDay)
  BY RowSets
<1>3. rows \subseteq History!Row /\ \A r \in rows : r.of \subseteq FetchSet
  BY DEF IInv, TypeOK, History!Row
<1>4. /\ raw' = raw /\ all' = all
      /\ AverageRows(TaskCurrency, taskDay)' = AverageRows(TaskCurrency, taskDay)
      /\ TaskCurrency' = TaskCurrency
  BY <1>1 DEF RawRows, AverageRows, History!RawRows, History!AverageRows,
              History!RowsOfDay, TaskCurrency
<1> HIDE DEF raw, all
<1>5. /\ stage' \in {"select", "deleteRaw", "deleteAverage", "insert", "commit"}
      /\ avgOf' \subseteq FetchSet /\ deleted' \subseteq History!Row
  <2>1. CASE SelectAverage
    BY <1>2, <1>3, <2>1 DEF SelectAverage, FetchesOf, IInv, TypeOK, raw
  <2>2. CASE DeleteRaw
    BY <1>2, <1>3, <2>2 DEF DeleteRaw, IInv, TypeOK, raw
  <2>3. CASE DeleteAverage
    BY <1>2, <1>3, <2>3 DEF DeleteAverage, IInv, TypeOK
  <2>4. CASE InsertAverage
    BY <2>4 DEF InsertAverage, IInv, TypeOK
  <2> QED
    BY <2>1, <2>2, <2>3, <2>4
<1>6. TypeOK'
  BY <1>1, <1>5 DEF IInv, TypeOK, clockVars, applyVars
<1>7. DataInv'
  BY <1>1, DataKept DEF IInv, applyVars
<1>8. CalendarInv'
  BY <1>1, TaskLeavesApply DEF IInv, CalendarInv
<1>9. DoneHasNoRaw'
  BY <1>1 DEF IInv, DoneHasNoRaw, RawRows, History!RawRows, History!RowsOfDay
<1>10. TxInv'
  <2>1. CASE SelectAverage
    <3>1. raw # {} /\ avgOf' = FetchesOf(raw) /\ stage' = "deleteRaw"
      BY <2>1 DEF SelectAverage, raw
    <3>2. FetchesOf(raw)' = FetchesOf(raw)
      BY <1>4 DEF FetchesOf
    <3> QED
      BY <1>4, <3>1, <3>2 DEF TxInv, raw, FetchesOf
  <2>2. CASE DeleteRaw
    <3>1. /\ stage = "deleteRaw" /\ stage' = "deleteAverage"
          /\ deleted' = raw /\ avgOf' = avgOf
      BY <2>2 DEF DeleteRaw, Statement, raw
    <3>2. raw # {} /\ avgOf = FetchesOf(raw)
      BY <1>1, <3>1 DEF IInv, TxInv, raw
    <3> QED
      BY <1>4, <3>1, <3>2 DEF TxInv, raw, FetchesOf
  <2>3. CASE DeleteAverage
    <3>1. /\ stage = "deleteAverage" /\ stage' = "insert" /\ avgOf' = avgOf
          /\ deleted' = deleted \cup AverageRows(TaskCurrency, taskDay)
      BY <2>3 DEF DeleteAverage, Statement
    <3>2. raw # {} /\ avgOf = FetchesOf(raw) /\ deleted = raw
      BY <1>1, <3>1 DEF IInv, TxInv, raw
    <3>3. deleted' = all
      BY <1>2, <3>1, <3>2
    <3> QED
      BY <1>4, <3>1, <3>2, <3>3 DEF TxInv, raw, all, FetchesOf
  <2>4. CASE InsertAverage
    <3>1. /\ stage = "insert" /\ stage' = "commit" /\ avgOf' = avgOf /\ deleted' = deleted
      BY <2>4 DEF InsertAverage, Statement
    <3>2. raw # {} /\ avgOf = FetchesOf(raw) /\ deleted = all
      BY <1>1, <3>1 DEF IInv, TxInv, raw, all
    <3> QED
      BY <1>4, <3>1, <3>2 DEF TxInv, raw, all, FetchesOf
  <2> QED
    BY <2>1, <2>2, <2>3, <2>4
<1> QED
  BY <1>1, <1>6, <1>7, <1>8, <1>9, <1>10, TaskLeavesApply DEF IInv

\* The commit puts one average of all of a closed day's raw rows in their place.
LEMMA CommitStep ==
    ASSUME IInv, Commit \/ CommitUnanswered
    PROVE  IInv' /\ \E c \in CurrencySet, d \in DaySet : History!Consolidate(c, d)
<1> DEFINE c == TaskCurrency
<1> DEFINE raw == RawRows(TaskCurrency, taskDay)
<1> DEFINE all == History!RowsOfDay(TaskCurrency, taskDay)
<1> DEFINE avg == History!AverageRow(TaskCurrency, taskDay, avgOf)
<1> DEFINE x == [currency |-> TaskCurrency, day |-> taskDay]
<1>1. /\ position > 0 /\ stage = "commit" /\ rows' = Committed /\ NextCurrency
      /\ done' \in {done, done \cup {x}}
  BY DEF Commit, CommitUnanswered, Statement
<1>2. /\ position' \in 0..Len(Currencies)
      /\ stage' = "select" /\ avgOf' = {} /\ deleted' = {}
      /\ UNCHANGED <<clockVars, running, applyVars, taskDay>>
      /\ Closed(taskDay)
  BY <1>1, NextCurrencyFacts
<1>3. c \in CurrencySet /\ taskDay \in DaySet
  BY <1>1, CurrencyFacts DEF IInv, TypeOK, TaskCurrency
<1>4. raw # {} /\ avgOf = FetchesOf(raw) /\ deleted = all
  BY <1>1 DEF IInv, TxInv
<1>5. /\ raw = {r \in rows : r.currency = c /\ r.day = taskDay /\ ~r.average}
      /\ all = {r \in rows : r.currency = c /\ r.day = taskDay}
  BY RowSets
<1>6. /\ avg.currency = c /\ avg.day = taskDay /\ avg.average = TRUE /\ avg.of = avgOf
      /\ avg \in History!Row
  BY <1>3 DEF History!AverageRow, History!Row, IInv, TypeOK
<1>7. rows' = (rows \ all) \cup {avg}
  BY <1>1, <1>4 DEF Committed
<1>8. all = raw
  <2>1. PICK r0 \in raw : TRUE
    BY <1>4
  <2>2. ASSUME NEW r \in all, r.average PROVE FALSE
    <3>1. {s \in rows : s.currency = c /\ s.day = taskDay} = {r}
      BY <1>5, <2>2 DEF IInv, DataInv, RawOrAverage, History!RowsOfDay
    <3>2. r0 = r /\ ~r0.average
      BY <1>5, <2>1, <3>1
    <3> QED
      BY <2>2, <3>2
  <2> QED
    BY <1>5, <2>2
<1> HIDE DEF avg, raw, all, c
<1>9. TypeOK'
  <2>1. rows' \subseteq History!Row
    BY <1>6, <1>7 DEF IInv, TypeOK
  <2>2. x \in [currency : CurrencySet, day : DaySet]
    BY <1>3 DEF c
  <2>3. done' \subseteq [currency : CurrencySet, day : DaySet]
    BY <1>1, <2>2 DEF IInv, TypeOK
  <2> QED
    BY <1>2, <2>1, <2>3 DEF IInv, TypeOK, clockVars, applyVars
<1>10. recorded' = recorded
  BY <1>2 DEF applyVars
<1>11. DataInv'
  <2>1. SingleFetch'
    BY <1>6, <1>7 DEF IInv, DataInv, SingleFetch
  <2>2. OnlyRecorded'
    <3>1. \A f \in avgOf : \E r \in raw : f \in r.of
      BY <1>4 DEF FetchesOf
    <3>2. \A f \in avgOf : [currency |-> c, fetch |-> f] \in recorded
      <4> SUFFICES ASSUME NEW f \in avgOf PROVE [currency |-> c, fetch |-> f] \in recorded
        OBVIOUS
      <4>1. PICK r \in raw : f \in r.of
        BY <3>1
      <4>2. r \in rows /\ r.currency = c
        BY <1>5
      <4>3. [currency |-> r.currency, fetch |-> f] \in recorded
        BY <4>1, <4>2 DEF IInv, DataInv, OnlyRecorded
      <4> QED
        BY <4>2, <4>3
    <3> QED
      BY <1>6, <1>7, <1>10, <3>2 DEF IInv, DataInv, OnlyRecorded
  <2>3. EveryObservationOnce'
    <3> SUFFICES ASSUME NEW o \in recorded
                 PROVE  \E r \in rows' : Holds(r, o) /\ \A s \in rows' : Holds(s, o) => s = r
      BY <1>10 DEF EveryObservationOnce, Holds
    <3>1. PICK r \in rows : Holds(r, o) /\ \A s \in rows : Holds(s, o) => s = r
      BY DEF IInv, DataInv, EveryObservationOnce
    <3>2. CASE r \in raw
      <4>1. Holds(avg, o)
        <5>1. o.currency = c /\ o.fetch \in r.of
          BY <1>5, <3>1, <3>2 DEF Holds
        <5>2. o.fetch \in avgOf
          BY <1>4, <3>2, <5>1 DEF FetchesOf
        <5> QED
          BY <1>6, <5>1, <5>2 DEF Holds
      <4>2. \A s \in rows' : Holds(s, o) => s = avg
        BY <1>7, <1>8, <3>1, <3>2
      <4> QED
        BY <1>7, <4>1, <4>2
    <3>3. CASE r \notin raw
      <4>1. ~Holds(avg, o)
        <5> SUFFICES ASSUME Holds(avg, o) PROVE FALSE
          OBVIOUS
        <5>1. o.currency = c /\ o.fetch \in avgOf
          BY <1>6 DEF Holds
        <5>2. PICK s \in raw : o.fetch \in s.of
          BY <1>4, <5>1 DEF FetchesOf
        <5>3. s \in rows /\ Holds(s, o)
          BY <1>5, <5>1, <5>2 DEF Holds
        <5> QED
          BY <3>1, <3>3, <5>2, <5>3
      <4> QED
        BY <1>7, <1>8, <3>1, <3>3, <4>1
    <3> QED
      BY <3>2, <3>3
  <2>4. RawOrAverage'
    <3> SUFFICES ASSUME NEW r \in rows', r.average
                 PROVE  {s \in rows' : s.currency = r.currency /\ s.day = r.day} = {r}
      BY DEF RawOrAverage, History!RowsOfDay
    <3>1. CASE r = avg
      BY <1>5, <1>6, <1>7, <3>1
    <3>2. CASE r # avg
      <4>1. r \in rows /\ ~(r.currency = c /\ r.day = taskDay)
        BY <1>5, <1>7, <3>2
      <4>2. {s \in rows : s.currency = r.currency /\ s.day = r.day} = {r}
        BY <4>1 DEF IInv, DataInv, RawOrAverage, History!RowsOfDay
      <4> QED
        BY <1>6, <1>7, <4>1, <4>2
    <3> QED
      BY <3>1, <3>2
  <2> QED
    BY <2>1, <2>2, <2>3, <2>4 DEF DataInv
<1>12. CalendarInv'
  BY <1>1, <1>2, <1>6, <1>7, TaskLeavesApply DEF IInv, CalendarInv
<1>13. DoneHasNoRaw'
  <2> SUFFICES ASSUME NEW y \in done'
               PROVE  \A r \in rows' : ~(r.currency = y.currency /\ r.day = y.day /\ ~r.average)
    BY DEF DoneHasNoRaw, RawRows, History!RawRows, History!RowsOfDay
  <2>1. CASE y = x
    BY <1>5, <1>6, <1>7, <2>1 DEF c
  <2>2. CASE y # x
    <3>1. y \in done
      BY <1>1, <2>2
    <3>2. \A r \in rows : ~(r.currency = y.currency /\ r.day = y.day /\ ~r.average)
      BY <3>1, RowSets DEF IInv, DoneHasNoRaw
    <3> QED
      BY <1>6, <1>7, <3>2
  <2> QED
    BY <2>1, <2>2
<1>14. TxInv'
  BY <1>2 DEF TxInv
<1>15. History!Consolidate(c, taskDay)
  BY <1>4, <1>7 DEF History!Consolidate, FetchesOf, RawRows, avg, raw, all, c
<1> QED
  BY <1>2, <1>3, <1>9, <1>11, <1>12, <1>13, <1>14, <1>15, TaskLeavesApply DEF IInv

\* A crash drops what was under way, a start takes nothing up.
LEMMA ProcessStep ==
    ASSUME IInv, Crash \/ Start
    PROVE  IInv'
<1>1. /\ UNCHANGED <<clockVars, rows, fetches, stampDay, recorded, taskDay, done>>
      /\ running' \in BOOLEAN
      /\ \/ UNCHANGED <<inserting, position, stage, avgOf, deleted>>
         \/ /\ inserting' = 0 /\ position' = 0
            /\ stage' = "select" /\ avgOf' = {} /\ deleted' = {}
  BY DEF Crash, Start, FreshTx, applyVars, taskVars, txVars
<1>2. TypeOK'
  BY <1>1, CurrencyFacts DEF IInv, TypeOK, clockVars
<1>3. DataInv'
  BY <1>1, DataKept DEF IInv
<1>4. CalendarInv' /\ FreshInv'
  BY <1>1 DEF IInv, CalendarInv, InsertsAreTimely, FreshInv, Closed, clockVars
<1>5. DoneHasNoRaw' /\ TxInv'
  BY <1>1, ZenonT(40) DEF IInv, DoneHasNoRaw, TxInv, RawRows, History!RawRows,
              History!RowsOfDay, TaskCurrency
<1> QED
  BY <1>2, <1>3, <1>4, <1>5 DEF IInv

\* What a step may do to the rows, according to PriceHistory.
HistoryStep == History!Next \/ UNCHANGED rows

\* Every step preserves the invariant and is a step of PriceHistory or none.
LEMMA NextInv ==
    ASSUME IInv, [Next /\ InsertsAreTimely']_vars
    PROVE  IInv' /\ HistoryStep
<1>1. CASE BeginApply
  BY <1>1, BeginStep DEF BeginApply, HistoryStep
<1>2. CASE InsertRate
  BY <1>2, InsertStep DEF HistoryStep, History!Next
<1>3. CASE InsertRateFails
  BY <1>3, InsertFailsStep DEF InsertRateFails, HistoryStep
<1>4. CASE TaskFires
  BY <1>4, TaskFiresStep DEF TaskFires, HistoryStep
<1>5. CASE SelectAverage \/ DeleteRaw \/ DeleteAverage \/ InsertAverage
  BY <1>5, StatementStep DEF SelectAverage, DeleteRaw, DeleteAverage, InsertAverage, HistoryStep
<1>6. CASE Commit \/ CommitUnanswered
  BY <1>6, CommitStep DEF HistoryStep, History!Next
<1>7. CASE ConsolidationFails \/ NothingToConsolidate
  BY <1>7, UnchangedRowsStep DEF ConsolidationFails, NothingToConsolidate, HistoryStep
<1>8. CASE (OneOClock \/ PastOne \/ Midnight) /\ InsertsAreTimely'
  BY <1>8, ClockStep DEF OneOClock, PastOne, Midnight, HistoryStep
<1>9. CASE Crash \/ Start
  BY <1>9, ProcessStep DEF Crash, Start, HistoryStep
<1>10. CASE UNCHANGED vars
  <2>1. UNCHANGED <<clockVars, running, rows, applyVars, taskVars>>
    BY <1>10 DEF vars
  <2>2. TypeOK'
    BY <2>1 DEF IInv, TypeOK, clockVars, applyVars, taskVars, txVars
  <2>3. DataInv'
    BY <2>1, DataKept DEF IInv, applyVars
  <2>4. CalendarInv' /\ FreshInv' /\ DoneHasNoRaw' /\ TxInv'
    BY <2>1 DEF IInv, CalendarInv, InsertsAreTimely, FreshInv, Closed, DoneHasNoRaw, TxInv,
                RawRows, History!RawRows, History!RowsOfDay, TaskCurrency,
                clockVars, applyVars, taskVars, txVars
  <2> QED
    BY <2>1, <2>2, <2>3, <2>4 DEF IInv, HistoryStep
<1> QED
  BY <1>1, <1>2, <1>3, <1>4, <1>5, <1>6, <1>7, <1>8, <1>9, <1>10 DEF Next

\* So the invariant holds in every reachable state of the timely specification.
LEMMA Inductive == TimelySpec => []IInv
<1>1. IInv /\ [Next /\ InsertsAreTimely']_vars => IInv'
  BY NextInv
<1> QED
  BY <1>1, InitInv, PTL DEF TimelySpec

--------------------------------------------------------------------------------
(* The theorems.                                                           *)

\* No statement, failure or crash leaves a type.
THEOREM TypeCorrect == TimelySpec => []TypeOK
<1>1. IInv => TypeOK
  BY DEF IInv
<1> QED
  BY <1>1, Inductive, PTL

\* Nothing recorded is lost or counted twice, with however many currencies and
\* fetches, across failed, repeated and interrupted consolidations.
THEOREM NothingLost == TimelySpec => []EveryObservationOnce
<1>1. IInv => EveryObservationOnce
  BY DEF IInv, DataInv
<1> QED
  BY <1>1, Inductive, PTL

\* The history of a day is its raw rows or its average.
THEOREM OneAverage == TimelySpec => []RawOrAverage
<1>1. IInv => RawOrAverage
  BY DEF IInv, DataInv
<1> QED
  BY <1>1, Inductive, PTL

\* A day once reported as done stays free of raw rows.
THEOREM DoneForGood == TimelySpec => []DoneHasNoRaw
<1>1. IInv => DoneHasNoRaw
  BY DEF IInv
<1> QED
  BY <1>1, Inductive, PTL

\* The transaction of four statements implements the one step that db.Store promises.
THEOREM Refinement == TimelySpec => AtomicConsolidation
<1>1. Init => History!Init
  BY DEF Init, History!Init
<1>2. IInv /\ [Next /\ InsertsAreTimely']_vars => [History!Next]_rows
  BY NextInv DEF HistoryStep
<1> QED
  BY <1>1, <1>2, Inductive, PTL DEF TimelySpec, AtomicConsolidation, History!Spec
================================================================================
