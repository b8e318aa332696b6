--------------------------- MODULE RateServiceProofs ---------------------------
(***************************************************************************)
(* What TLC checks of RateService on small instances, proved for any set   *)
(* of providers, currencies, prices, clients and thresholds.               *)
(***************************************************************************)
EXTENDS RateService, TLAPS

--------------------------------------------------------------------------------
(* Lemmas about the constants and the operators.                           *)

\* A currency belongs to one provider, at one position of what it persists.
LEMMA CurrencyFacts ==
    /\ Currency \subseteq ApiCurrency
    /\ \A p \in Provider :
         /\ Len(Applies[p]) \in Nat \ {0}
         /\ CurrenciesOf(p) \subseteq Currency
         /\ \A i \in 1..Len(Applies[p]) : Applies[p][i] \in CurrenciesOf(p)
         /\ \A c \in CurrenciesOf(p) : \E i \in 1..Len(Applies[p]) : c = Applies[p][i]
         /\ \A i, j \in 1..Len(Applies[p]) : Applies[p][i] = Applies[p][j] => i = j
    /\ \A p, q \in Provider : \A c \in CurrenciesOf(p) : c \in CurrenciesOf(q) => p = q
<1>1. ASSUME NEW p \in Provider
      PROVE  Applies[p] \in Seq(ApiCurrency) /\ Len(Applies[p]) \in Nat
  <2>1. Applies[p] \in Seq(ApiCurrency)
    BY ProviderAssumption
  <2> QED
    BY <2>1
<1>2. \A p \in Provider : \A i \in 1..Len(Applies[p]) : Applies[p][i] \in ApiCurrency
  BY <1>1
<1>3. \A p \in Provider : CurrenciesOf(p) \subseteq Currency
  BY DEF Currency
<1>4. Currency \subseteq ApiCurrency
  BY <1>2 DEF Currency, CurrenciesOf
<1> QED
  BY <1>1, <1>3, <1>4, ProviderAssumption DEF CurrenciesOf

\* The handlers judge a currency by the threshold of the provider that feeds it.
LEMMA ProviderOfCurrency ==
    \A p \in Provider : \A c \in CurrenciesOf(p) : ProviderOf(c) = p
  BY CurrencyFacts DEF ProviderOf

\* Every currency is fed by some provider.
LEMMA CurrencyHasProvider ==
    \A c \in Currency : \E p \in Provider : c \in CurrenciesOf(p)
  BY DEF Currency

\* No key that state.go looks up is a name under which a row is stored.
LEMMA StateKeyNotStored ==
    \A c \in Currency : StateKey[c] \notin Currency
<1>1. \A c \in ApiCurrency : StateKey[c] \notin ApiCurrency
  BY DEF StateKey, ApiCurrency
<1> QED
  BY <1>1, CurrencyFacts

\* What WarmUp makes of the stored rows: nothing.
LEMMA WarmUpLoadsNothing ==
    WarmUp(NewState, LatestRates) = NewState
<1>1. DOMAIN LatestRates \subseteq Currency
  BY DEF LatestRates
<1>2. \A c \in Currency : StateKey[c] \notin DOMAIN LatestRates
  BY <1>1, StateKeyNotStored
<1>3. WarmUp(NewState, LatestRates) = [c \in Currency |-> NewState[c]]
  BY <1>2 DEF WarmUp
<1> QED
  BY <1>3 DEF NewState

\* A fresh state is typed, empty, and flags nobody.
LEMMA NewStateType ==
    /\ NewState \in [Currency -> RateData]
    /\ \A c \in Currency : /\ NewState[c].value = Nil
                           /\ NewState[c].lastUpdated = Nil
                           /\ NewState[c].providerFailing = FALSE
  BY DEF NewState, RateData

\* The two callbacks change the flags of their provider and nothing else.
LEMMA MarkFailingFacts ==
    ASSUME NEW p \in Provider, NEW r \in [Currency -> RateData]
    PROVE  /\ MarkFailing(p, r) \in [Currency -> RateData]
           /\ \A c \in Currency :
                /\ MarkFailing(p, r)[c].value = r[c].value
                /\ MarkFailing(p, r)[c].lastUpdated = r[c].lastUpdated
                /\ MarkFailing(p, r)[c].providerFailing =
                     (c \in CurrenciesOf(p) \/ r[c].providerFailing)
  BY DEF MarkFailing, RateData

\* OnRecover: the mirror image of MarkFailingFacts.
LEMMA ClearFailingFacts ==
    ASSUME NEW p \in Provider, NEW r \in [Currency -> RateData]
    PROVE  /\ ClearFailing(p, r) \in [Currency -> RateData]
           /\ \A c \in Currency :
                /\ ClearFailing(p, r)[c].value = r[c].value
                /\ ClearFailing(p, r)[c].lastUpdated = r[c].lastUpdated
                /\ ClearFailing(p, r)[c].providerFailing =
                     (c \notin CurrenciesOf(p) /\ r[c].providerFailing)
  BY DEF ClearFailing, RateData

\* An update touches its provider's currencies only, and leaves the flags alone.
LEMMA UpdatePriceFacts ==
    ASSUME NEW p \in Provider, NEW r \in [Currency -> RateData],
           NEW v \in Value, NEW t \in Nat
    PROVE  /\ UpdatePrice(p, r, v, t) \in [Currency -> RateData]
           /\ \A c \in Currency :
                /\ UpdatePrice(p, r, v, t)[c].providerFailing = r[c].providerFailing
                /\ c \in CurrenciesOf(p) =>
                     /\ UpdatePrice(p, r, v, t)[c].value = v
                     /\ UpdatePrice(p, r, v, t)[c].lastUpdated = t
                /\ c \notin CurrenciesOf(p) => UpdatePrice(p, r, v, t)[c] = r[c]
  BY DEF UpdatePrice, RateData

--------------------------------------------------------------------------------
(* The type invariant.                                                     *)

\* What a request can hold, whatever it asked about.
Answer == UNION {AnswerAbout(S) : S \in SUBSET Currency}

\* TypeOK says of the requests that each of them holds an Answer.
LEMMA RequestsTyped ==
    /\ TypeOK => req \in [Client -> Answer]
    /\ req \in [Client -> Answer] =>
         /\ req = [k \in Client |-> req[k]]
         /\ \A k \in Client : \E S \in SUBSET Currency : req[k] \in AnswerAbout(S)
<1>1. \A a : a \in Answer <=> \E S \in SUBSET Currency : a \in AnswerAbout(S)
  BY DEF Answer
<1>2. ASSUME TypeOK PROVE req \in [Client -> Answer]
  <2>1. req = [k \in Client |-> req[k]] /\ \A k \in Client : req[k] \in Answer
    BY <1>1, <1>2 DEF TypeOK
  <2> QED
    BY <2>1
<1>3. ASSUME req \in [Client -> Answer]
      PROVE  /\ req = [k \in Client |-> req[k]]
             /\ \A k \in Client : \E S \in SUBSET Currency : req[k] \in AnswerAbout(S)
  BY <1>1, <1>3
<1> QED
  BY <1>2, <1>3

\* The five answers, one by one.
LEMMA AnswerCases ==
    /\ \A st \in {"idle", "unavailable"} : [stage |-> st] \in Answer
    /\ \A S \in SUBSET Currency :
         /\ \A rows \in [S -> Row \cup {Nil}] : [stage |-> "queried", rows |-> rows] \in Answer
         /\ \A e \in [S -> Entry] : [stage |-> "rates", entries |-> e] \in Answer
         /\ [stage |-> "health", stale |-> S] \in Answer
    /\ \A a \in Answer : a.stage = "queried" =>
         \E S \in SUBSET Currency : a.rows \in [S -> Row \cup {Nil}]
<1>1. \A S \in SUBSET Currency : \A a \in AnswerAbout(S) : a \in Answer
  BY DEF Answer
<1>2. \A st \in {"idle", "unavailable"} : [stage |-> st] \in AnswerAbout({})
  BY DEF AnswerAbout
<1>3. ASSUME NEW S \in SUBSET Currency
      PROVE  /\ \A rows \in [S -> Row \cup {Nil}] :
                   [stage |-> "queried", rows |-> rows] \in AnswerAbout(S)
             /\ \A e \in [S -> Entry] : [stage |-> "rates", entries |-> e] \in AnswerAbout(S)
             /\ [stage |-> "health", stale |-> S] \in AnswerAbout(S)
  BY DEF AnswerAbout
<1>4. ASSUME NEW a \in Answer, a.stage = "queried"
      PROVE  \E S \in SUBSET Currency : a.rows \in [S -> Row \cup {Nil}]
  <2>1. PICK S \in SUBSET Currency : a \in AnswerAbout(S)
    BY DEF Answer
  <2>2. a.rows \in [S -> Row \cup {Nil}]
    BY <1>4, <2>1 DEF AnswerAbout
  <2> QED
    BY <2>2
<1>5. \A st \in {"idle", "unavailable"} : [stage |-> st] \in Answer
  BY <1>1, <1>2
<1>6. \A S \in SUBSET Currency :
        /\ \A rows \in [S -> Row \cup {Nil}] : [stage |-> "queried", rows |-> rows] \in Answer
        /\ \A e \in [S -> Entry] : [stage |-> "rates", entries |-> e] \in Answer
        /\ [stage |-> "health", stale |-> S] \in Answer
  BY <1>1, <1>3
<1> QED
  BY <1>4, <1>5, <1>6

\* The initial state is typed.
LEMMA InitType == Init => TypeOK
<1> SUFFICES ASSUME Init PROVE TypeOK
  OBVIOUS
<1>1. rates \in [Currency -> RateData]
  BY NewStateType DEF Init
<1>2. req \in [Client -> Answer]
  BY AnswerCases DEF Init, IdleRequest
<1>3. /\ req = [k \in Client |-> req[k]]
      /\ \A k \in Client : \E S \in SUBSET Currency : req[k] \in AnswerAbout(S)
  BY <1>2, RequestsTyped
<1> QED
  BY <1>1, <1>3 DEF Init, TypeOK, WorkerStep

\* The steps of a worker keep the types: every row holds a price and a moment.
LEMMA WorkerType ==
    ASSUME TypeOK, ApplyProgress, NEW p \in Provider, Worker(p)
    PROVE  TypeOK'
<1>1. CASE BeginFetch(p)
  BY <1>1 DEF BeginFetch, TypeOK, WorkerStep
<1>2. CASE FetchFails(p)
  BY <1>2 DEF FetchFails, TypeOK, WorkerStep
<1>3. CASE OnFail(p)
  <2>1. rates' \in [Currency -> RateData]
    BY <1>3, MarkFailingFacts DEF OnFail, TypeOK
  <2> QED
    BY <1>3, <2>1 DEF OnFail, TypeOK, WorkerStep
<1>4. CASE FetchSucceeds(p)
  BY <1>4 DEF FetchSucceeds, TypeOK, WorkerStep
<1>5. CASE OnRecover(p)
  <2>1. rates' \in [Currency -> RateData]
    BY <1>5, ClearFailingFacts DEF OnRecover, TypeOK
  <2> QED
    BY <1>5, <2>1 DEF OnRecover, TypeOK, WorkerStep
<1>6. CASE ApplyState(p)
  <2>1. resp[p] \in Value
    BY <1>6 DEF ApplyState, ApplyProgress, Progress, Applying
  <2>2. rates' \in [Currency -> RateData]
    BY <1>6, <2>1, UpdatePriceFacts DEF ApplyState, TypeOK
  <2> QED
    BY <1>6, <2>2 DEF ApplyState, TypeOK, WorkerStep
<1>7. CASE ApplyGauges(p)
  <2>1. resp[p] \in Value
    BY <1>7 DEF ApplyGauges, ApplyProgress, Progress, Applying
  <2>2. rateGauge' \in [Currency -> Value \cup {Nil}]
    BY <1>7, <2>1 DEF ApplyGauges, TypeOK
  <2> QED
    BY <1>7, <2>2 DEF ApplyGauges, TypeOK, WorkerStep
<1>8. CASE InsertRate(p) \/ InsertRateFails(p)
  <2> DEFINE c == Applies[p][next[p]]
  <2> DEFINE row == [value |-> resp[p], recordedAt |-> stamp[p]]
  <2>1. pc[p] = "insert"
    BY <1>8 DEF InsertRate, InsertRateFails
  <2>2. resp[p] \in Value /\ stamp[p] \in Nat /\ next[p] \in 1..Len(Applies[p])
    <3>1. resp[p] \in Value
      BY <2>1 DEF ApplyProgress, Progress, Applying
    <3>2. next[p] \in 1..Len(Applies[p]) /\ stamp[p] \in 0..now
      BY <2>1 DEF ApplyProgress, Progress
    <3> QED
      BY <3>1, <3>2 DEF TypeOK
  <2>3. row \in Row
    BY <2>2 DEF Row
  <2>4. c \in Currency
    BY <2>2, CurrencyFacts
  <2>5. db' = db \/ db' = [db EXCEPT ![c] = row]
    BY <1>8 DEF InsertRate, InsertRateFails
  <2>6. db' \in [Currency -> Row \cup {Nil}]
    BY <2>3, <2>4, <2>5 DEF TypeOK
  <2>7. missed' \in SUBSET Currency
    BY <1>8, <2>4 DEF InsertRate, InsertRateFails, TypeOK
  <2>8. AfterInsert(p)
    BY <1>8 DEF InsertRate, InsertRateFails
  <2> QED
    BY <2>6, <2>7, <2>8 DEF AfterInsert, TypeOK, WorkerStep
<1>9. CASE AfterFetch(p)
  BY <1>9 DEF AfterFetch, TypeOK, WorkerStep
<1> QED
  BY <1>1, <1>2, <1>3, <1>4, <1>5, <1>6, <1>7, <1>8, <1>9 DEF Worker

\* The handlers keep the types: what a request holds is one of the five answers.
LEMMA RequestType ==
    ASSUME TypeOK, NEW k \in Client, Request(k)
    PROVE  TypeOK'
<1>0. req \in [Client -> Answer]
  BY RequestsTyped
<1>1. /\ UNCHANGED <<now, running, pc, fails, resp, stamp, next, rates,
                     failGauge, rateGauge, db, missed>>
      /\ \E a \in Answer : req' = [req EXCEPT ![k] = a]
  <2>1. CASE QueryLatest(k)
    <3>1. PICK want \in {Currency} \cup {{c} : c \in Currency} :
            req' = [req EXCEPT ![k] = [stage |-> "queried",
                                       rows |-> [c \in want |-> db[c]]]]
      BY <2>1 DEF QueryLatest
    <3>2. want \in SUBSET Currency
      OBVIOUS
    <3>3. [c \in want |-> db[c]] \in [want -> Row \cup {Nil}]
      BY <3>2 DEF TypeOK
    <3>4. [stage |-> "queried", rows |-> [c \in want |-> db[c]]] \in Answer
      BY <3>2, <3>3, AnswerCases
    <3>5. \E a \in Answer : req' = [req EXCEPT ![k] = a]
      BY <3>1, <3>4
    <3> QED
      BY <2>1, <3>5 DEF QueryLatest, workerVars
  <2>2. CASE QueryFails(k)
    <3>1. [stage |-> "unavailable"] \in Answer
      BY AnswerCases
    <3>2. \E a \in Answer : req' = [req EXCEPT ![k] = a]
      BY <2>2, <3>1 DEF QueryFails
    <3> QED
      BY <2>2, <3>2 DEF QueryFails, workerVars
  <2>3. CASE AnswerRates(k)
    <3> DEFINE rows == req[k].rows
    <3> DEFINE e == [c \in DOMAIN rows |->
                       StoredRateEntry(rows[c], rates[c].providerFailing,
                                       Threshold[ProviderOf(c)], now)]
    <3>1. req[k] \in Answer /\ req[k].stage = "queried"
      BY <1>0, <2>3 DEF AnswerRates
    <3>3. PICK S \in SUBSET Currency : rows \in [S -> Row \cup {Nil}]
      BY <3>1, AnswerCases
    <3>4. ASSUME NEW c \in S
          PROVE  StoredRateEntry(rows[c], rates[c].providerFailing,
                                 Threshold[ProviderOf(c)], now) \in Entry
      <4>1. rows[c] \in Row \cup {Nil} /\ rates[c].providerFailing \in BOOLEAN
        BY <3>3 DEF TypeOK, RateData
      <4>2. PICK p \in Provider : c \in CurrenciesOf(p)
        BY CurrencyHasProvider
      <4>3. Threshold[ProviderOf(c)] \in Nat
        BY <4>2, ProviderOfCurrency, ProviderAssumption
      <4>4. CASE rows[c] = Nil
        BY <4>4 DEF StoredRateEntry, Entry
      <4>5. CASE rows[c] # Nil
        <5>1. rows[c].recordedAt \in Nat
          BY <4>1, <4>5 DEF Row
        <5>2. (rates[c].providerFailing \/ now - rows[c].recordedAt > Threshold[ProviderOf(c)])
                \in BOOLEAN
          OBVIOUS
        <5> QED
          BY <4>5, <5>1, <5>2 DEF StoredRateEntry, Entry
      <4> QED
        BY <4>4, <4>5
    <3>5. e \in [S -> Entry]
      BY <3>3, <3>4
    <3>7. [stage |-> "rates", entries |-> e] \in Answer
      BY <3>5, AnswerCases
    <3>8. req' = [req EXCEPT ![k] = [stage |-> "rates", entries |-> e]]
      BY <2>3 DEF AnswerRates
    <3>9. \E a \in Answer : req' = [req EXCEPT ![k] = a]
      BY <3>7, <3>8
    <3> QED
      BY <2>3, <3>9 DEF AnswerRates, workerVars
  <2>4. CASE GetHealth(k)
    <3>1. HealthStale(rates, now) \in SUBSET Currency
      BY DEF HealthStale
    <3>2. [stage |-> "health", stale |-> HealthStale(rates, now)] \in Answer
      BY <3>1, AnswerCases
    <3>3. \E a \in Answer : req' = [req EXCEPT ![k] = a]
      BY <2>4, <3>2 DEF GetHealth
    <3> QED
      BY <2>4, <3>3 DEF GetHealth, workerVars
  <2>5. CASE Receive(k)
    <3>1. IdleRequest \in Answer
      BY AnswerCases DEF IdleRequest
    <3>2. \E a \in Answer : req' = [req EXCEPT ![k] = a]
      BY <2>5, <3>1 DEF Receive
    <3> QED
      BY <2>5, <3>2 DEF Receive, workerVars
  <2> QED
    BY <2>1, <2>2, <2>3, <2>4, <2>5 DEF Request
<1>2. req' \in [Client -> Answer]
  BY <1>0, <1>1
<1>3. /\ req' = [j \in Client |-> req'[j]]
      /\ \A j \in Client : \E S \in SUBSET Currency : req'[j] \in AnswerAbout(S)
  BY <1>2 DEF Answer
<1> QED
  BY <1>1, <1>3 DEF TypeOK

\* So do the nightly task, the clock, a crash and a start.
LEMMA ProcessType ==
    ASSUME TypeOK, ApplyProgress,
           (\E c \in Currency : ConsolidateDay(c)) \/ Tick \/ Crash \/ WarmStart \/ ColdStart
    PROVE  TypeOK'
<1>1. ASSUME NEW c \in Currency, ConsolidateDay(c) PROVE TypeOK'
  <2>1. db[c] \in Row /\ db[c].recordedAt \in Nat
    BY <1>1 DEF ConsolidateDay, TypeOK, Row
  <2>2. PICK avg \in Value, from \in 0..db[c].recordedAt :
          db' = [db EXCEPT ![c] = [value |-> avg, recordedAt |-> from]]
    BY <1>1 DEF ConsolidateDay
  <2>3. [value |-> avg, recordedAt |-> from] \in Row
    BY <2>1 DEF Row
  <2>4. db' \in [Currency -> Row \cup {Nil}]
    BY <2>2, <2>3 DEF TypeOK
  <2> QED
    BY <1>1, <2>4 DEF ConsolidateDay, TypeOK, workerVars
<1>2. CASE Tick
  BY <1>2 DEF Tick, TypeOK, workerVars
<1>3. CASE Crash
  <2>1. rates' \in [Currency -> RateData]
    BY <1>3, NewStateType DEF Crash
  <2>2. /\ req' = [k \in Client |-> req'[k]]
        /\ \A k \in Client : req'[k] \in AnswerAbout({})
    BY <1>3 DEF Crash, IdleRequest, AnswerAbout
  <2>3. \A p \in Provider : Unpersisted(p) \subseteq Currency
    <3> SUFFICES ASSUME NEW p \in Provider PROVE Unpersisted(p) \subseteq Currency
      OBVIOUS
    <3>1. CASE pc[p] = "insert"
      <4>1. next[p] \in 1..Len(Applies[p])
        BY <3>1 DEF ApplyProgress, Progress
      <4> QED
        BY <3>1, <4>1, CurrencyFacts DEF Unpersisted
    <3>2. CASE pc[p] # "insert"
      BY <3>2, CurrencyFacts DEF Unpersisted
    <3> QED
      BY <3>1, <3>2
  <2>4. missed' \in SUBSET Currency
    BY <1>3, <2>3 DEF Crash, TypeOK
  <2> QED
    BY <1>3, <2>1, <2>2, <2>4 DEF Crash, TypeOK, WorkerStep
<1>4. CASE WarmStart \/ ColdStart
  <2>1. rates' = NewState /\ Start
    BY <1>4, WarmUpLoadsNothing DEF WarmStart, ColdStart
  <2>2. rates' \in [Currency -> RateData]
    BY <2>1, NewStateType
  <2> QED
    BY <2>1, <2>2 DEF Start, TypeOK, WorkerStep
<1> QED
  BY <1>1, <1>2, <1>3, <1>4
--------------------------------------------------------------------------------
(* The inductive invariant: what holds of each provider.                   *)

ProviderInv(p) == Progress(p) /\ FlagOf(p) /\ StoreOf(p) /\ RowsOf(p)

IInv == TypeOK /\ \A p \in Provider : ProviderInv(p)

\* The initial state satisfies it.
LEMMA InitInv == Init => IInv
<1> SUFFICES ASSUME Init, NEW p \in Provider PROVE ProviderInv(p)
  BY InitType DEF IInv
<1>1. pc[p] = "wait" /\ fails[p] = 0 /\ \A c \in Currency : db[c] = Nil
  BY DEF Init
<1>2. \A c \in CurrenciesOf(p) : rates[c].lastUpdated = Nil /\ rates[c].providerFailing = FALSE
  BY NewStateType, CurrencyFacts DEF Init
<1>3. Progress(p)
  BY <1>1 DEF Progress, Applying
<1>4. FlagOf(p)
  <2>1. (0 >= FailStreak) = FALSE
    BY DEF FailStreak
  <2> QED
    BY <1>1, <1>2, <2>1 DEF FlagOf
<1>5. StoreOf(p)
  BY <1>2 DEF StoreOf
<1>6. RowsOf(p)
  BY <1>1, CurrencyFacts DEF RowsOf
<1> QED
  BY <1>3, <1>4, <1>5, <1>6 DEF ProviderInv

\* A step that leaves a provider's worker, currencies and rows alone, and does not
\* turn the clock back, leaves alone what holds of it.
LEMMA Untouched ==
    ASSUME NEW q \in Provider, TypeOK, ProviderInv(q),
           now' \in Nat, now' >= now, running' = running,
           pc'[q] = pc[q], fails'[q] = fails[q], resp'[q] = resp[q],
           stamp'[q] = stamp[q], next'[q] = next[q],
           \A c \in CurrenciesOf(q) :
              /\ rates'[c] = rates[c] /\ db'[c] = db[c]
              /\ c \in missed' <=> c \in missed
    PROVE  ProviderInv(q)'
<1>1. Progress(q)'
  <2>1. pc[q] = "insert" =>
          \A i \in 1..(next[q] - 1) : Applies[q][i] \in CurrenciesOf(q)
    BY CurrencyFacts, SMTT(20) DEF ProviderInv, Progress
  <2>2. 0..now \subseteq 0..now'
    <3> DEFINE x == now
    <3> DEFINE y == now'
    <3>1. x \in Nat /\ y \in Nat /\ x <= y
      BY DEF TypeOK
    <3> HIDE DEF x, y
    <3>2. 0..x \subseteq 0..y
      BY ONLY <3>1
    <3> QED
      BY <3>2 DEF x, y
  <2> QED
    BY <2>1, <2>2 DEF ProviderInv, Progress, Applying
<1>2. FlagOf(q)'
  BY DEF ProviderInv, FlagOf
<1>3. StoreOf(q)'
  BY DEF ProviderInv, StoreOf, Applying
<1>4. RowsOf(q)'
  BY DEF ProviderInv, RowsOf
<1> QED
  BY <1>1, <1>2, <1>3, <1>4 DEF ProviderInv

\* A worker's step concerns its own provider only.
LEMMA WorkerLeavesOthers ==
    ASSUME TypeOK, NEW p \in Provider, NEW q \in Provider, p # q,
           ProviderInv(p), ProviderInv(q), Worker(p)
    PROVE  ProviderInv(q)'
<1>1. /\ UNCHANGED <<now, running>>
      /\ pc'[q] = pc[q] /\ fails'[q] = fails[q] /\ resp'[q] = resp[q]
      /\ stamp'[q] = stamp[q] /\ next'[q] = next[q]
  BY DEF TypeOK, Worker, BeginFetch, FetchFails, OnFail, FetchSucceeds, OnRecover,
         ApplyState, ApplyGauges, InsertRate, InsertRateFails, AfterInsert, AfterFetch
<1>2. \A c \in CurrenciesOf(q) : rates'[c] = rates[c]
  <2>1. \A c \in CurrenciesOf(q) : c \in Currency /\ c \notin CurrenciesOf(p)
    BY CurrencyFacts
  <2>2. CASE OnFail(p)
    BY <2>1, <2>2 DEF OnFail, MarkFailing
  <2>3. CASE OnRecover(p)
    BY <2>1, <2>3 DEF OnRecover, ClearFailing
  <2>4. CASE ApplyState(p)
    BY <2>1, <2>4 DEF ApplyState, UpdatePrice
  <2> QED
    BY <2>2, <2>3, <2>4
       DEF Worker, BeginFetch, FetchFails, FetchSucceeds, ApplyGauges, InsertRate,
           InsertRateFails, AfterInsert, AfterFetch
<1>3. \A c \in CurrenciesOf(q) : db'[c] = db[c] /\ (c \in missed' <=> c \in missed)
  <2>1. CASE InsertRate(p) \/ InsertRateFails(p)
    <3>1. Applies[p][next[p]] \in CurrenciesOf(p)
      <4>1. pc[p] = "insert"
        BY <2>1 DEF InsertRate, InsertRateFails
      <4> QED
        BY <4>1, CurrencyFacts DEF ProviderInv, Progress
    <3>2. \A c \in CurrenciesOf(q) : c # Applies[p][next[p]]
      BY <3>1, CurrencyFacts
    <3>3. \A c \in CurrenciesOf(q) : c \in Currency
      BY CurrencyFacts
    <3> QED
      BY <2>1, <3>2, <3>3 DEF InsertRate, InsertRateFails, TypeOK
  <2> QED
    BY <2>1 DEF Worker, BeginFetch, FetchFails, OnFail, FetchSucceeds, OnRecover,
                ApplyState, ApplyGauges, AfterFetch
<1>4. now' \in Nat /\ now' >= now
  BY <1>1 DEF TypeOK
<1> QED
  BY <1>1, <1>2, <1>3, <1>4, Untouched

\* The steps that touch neither memory nor rows: the fetch and its end.
LEMMA FetchSteps ==
    ASSUME TypeOK, NEW p \in Provider, ProviderInv(p),
           BeginFetch(p) \/ FetchFails(p) \/ FetchSucceeds(p) \/ AfterFetch(p)
    PROVE  ProviderInv(p)'
<1> DEFINE Same == UNCHANGED <<now, running, stamp, next, rates, db, missed>>
<1>1. CASE BeginFetch(p)
  <2>1. pc'[p] = "fetch" /\ fails' = fails /\ resp' = resp /\ Same /\ pc[p] = "wait" /\ running
    BY <1>1 DEF BeginFetch, TypeOK
  <2> QED
    BY <2>1 DEF ProviderInv, Progress, FlagOf, StoreOf, RowsOf, Applying
<1>2. CASE FetchFails(p)
  <2>1. /\ pc'[p] = IF fails[p] + 1 >= FailStreak THEN "onFail" ELSE "failed"
        /\ fails'[p] = fails[p] + 1 /\ resp' = resp /\ Same
        /\ pc[p] = "fetch" /\ running /\ fails[p] \in Nat
    BY <1>2 DEF FetchFails, TypeOK
  <2>2. Progress(p)' /\ StoreOf(p)' /\ RowsOf(p)'
    BY <2>1 DEF ProviderInv, Progress, StoreOf, RowsOf, Applying
  <2>3. FlagOf(p)'
    <3>1. \A c \in CurrenciesOf(p) : rates[c].providerFailing = (fails[p] >= FailStreak)
      BY <2>1 DEF ProviderInv, FlagOf
    <3>2. CASE fails[p] + 1 >= FailStreak
      BY <2>1, <3>2 DEF FlagOf
    <3>3. CASE ~(fails[p] + 1 >= FailStreak)
      <4>1. ~(fails[p] >= FailStreak) /\ ~(fails'[p] >= FailStreak)
        BY <2>1, <3>3 DEF FailStreak
      <4> QED
        BY <2>1, <3>1, <3>3, <4>1 DEF FlagOf
    <3> QED
      BY <3>2, <3>3
  <2> QED
    BY <2>2, <2>3 DEF ProviderInv
<1>3. CASE FetchSucceeds(p)
  <2>1. resp'[p] \in Value /\ Same /\ pc[p] = "fetch" /\ running
    BY <1>3 DEF FetchSucceeds, TypeOK
  <2>2. \/ fails[p] >= FailStreak /\ pc'[p] = "onRecover" /\ fails' = fails
        \/ ~(fails[p] >= FailStreak) /\ pc'[p] = "apply" /\ fails'[p] = 0
    BY <1>3 DEF FetchSucceeds, TypeOK
  <2>3. Progress(p)' /\ StoreOf(p)' /\ RowsOf(p)'
    BY <2>1, <2>2 DEF ProviderInv, Progress, StoreOf, RowsOf, Applying
  <2>4. FlagOf(p)'
    <3>1. \A c \in CurrenciesOf(p) : rates[c].providerFailing = (fails[p] >= FailStreak)
      BY <2>1 DEF ProviderInv, FlagOf
    <3>2. ~(0 >= FailStreak)
      BY DEF FailStreak
    <3> QED
      BY <2>1, <2>2, <3>1, <3>2 DEF FlagOf
  <2> QED
    BY <2>3, <2>4 DEF ProviderInv
<1>4. CASE AfterFetch(p)
  <2>1. /\ pc'[p] = "wait" /\ fails' = fails /\ pc[p] \in {"failed", "applied"} /\ running
        /\ UNCHANGED <<now, running, rates, db, missed>>
    BY <1>4 DEF AfterFetch, TypeOK
  <2> QED
    BY <2>1 DEF ProviderInv, Progress, FlagOf, StoreOf, RowsOf, Applying
<1> QED
  BY <1>1, <1>2, <1>3, <1>4

\* The callbacks: the flag follows the streak.
LEMMA CallbackSteps ==
    ASSUME TypeOK, NEW p \in Provider, ProviderInv(p), OnFail(p) \/ OnRecover(p)
    PROVE  ProviderInv(p)'
<1>1. \A c \in CurrenciesOf(p) : c \in Currency
  BY CurrencyFacts
<1>2. /\ UNCHANGED <<now, running, resp, stamp, next, db, missed>> /\ running
      /\ \A c \in CurrenciesOf(p) : /\ rates'[c].value = rates[c].value
                                     /\ rates'[c].lastUpdated = rates[c].lastUpdated
  BY <1>1, MarkFailingFacts, ClearFailingFacts DEF OnFail, OnRecover, TypeOK
<1>3. \/ pc[p] = "onFail" /\ pc'[p] = "failed"
      \/ pc[p] = "onRecover" /\ pc'[p] = "apply"
  BY DEF OnFail, OnRecover, TypeOK
<1>4. Progress(p)' /\ StoreOf(p)' /\ RowsOf(p)'
  BY <1>2, <1>3 DEF ProviderInv, Progress, StoreOf, RowsOf, Applying
<1>5. FlagOf(p)'
  <2>1. CASE OnFail(p)
    <3>1. pc[p] = "onFail" /\ pc'[p] = "failed" /\ fails' = fails
      BY <2>1 DEF OnFail, TypeOK
    <3>2. \A c \in CurrenciesOf(p) : rates'[c].providerFailing = TRUE
      BY <1>1, <2>1, MarkFailingFacts DEF OnFail, TypeOK
    <3>3. \A c \in CurrenciesOf(p) : (fails[p] >= FailStreak) = TRUE
      BY <3>1 DEF ProviderInv, FlagOf
    <3> QED
      BY <3>1, <3>2, <3>3 DEF FlagOf
  <2>2. CASE OnRecover(p)
    <3>1. pc'[p] = "apply" /\ fails'[p] = 0
      BY <2>2 DEF OnRecover, TypeOK
    <3>2. \A c \in CurrenciesOf(p) : rates'[c].providerFailing = FALSE
      BY <1>1, <2>2, ClearFailingFacts DEF OnRecover, TypeOK
    <3>3. (0 >= FailStreak) = FALSE
      BY DEF FailStreak
    <3> QED
      BY <3>1, <3>2, <3>3 DEF FlagOf
  <2> QED
    BY <2>1, <2>2
<1> QED
  BY <1>4, <1>5 DEF ProviderInv

\* The first two parts of Apply: from memory to the moment its rows will carry.
LEMMA ApplySteps ==
    ASSUME TypeOK, NEW p \in Provider, ProviderInv(p), ApplyState(p) \/ ApplyGauges(p)
    PROVE  ProviderInv(p)'
<1>0. \A c \in CurrenciesOf(p) : c \in Currency
  BY CurrencyFacts
<1>1. CASE ApplyState(p)
  <2>1. /\ pc[p] = "apply" /\ pc'[p] = "gauge" /\ running
        /\ UNCHANGED <<now, running, fails, resp, stamp, next, db, missed>>
    BY <1>1 DEF ApplyState, TypeOK
  <2>2. resp[p] \in Value /\ now \in Nat
    BY <2>1 DEF ProviderInv, Progress, Applying, TypeOK
  <2>3. \A c \in CurrenciesOf(p) :
           /\ rates'[c].value = resp[p] /\ rates'[c].lastUpdated = now
           /\ rates'[c].providerFailing = rates[c].providerFailing
    <3>1. rates' = UpdatePrice(p, rates, resp[p], now) /\ rates \in [Currency -> RateData]
      BY <1>1 DEF ApplyState, TypeOK
    <3> QED
      BY <1>0, <2>2, <3>1, UpdatePriceFacts
  <2>4. Progress(p)'
    BY <2>1, <2>2, <2>3 DEF Progress, Applying
  <2>5. FlagOf(p)' /\ StoreOf(p)' /\ RowsOf(p)'
    BY <2>1, <2>3 DEF ProviderInv, FlagOf, StoreOf, RowsOf, Applying
  <2> QED
    BY <2>4, <2>5 DEF ProviderInv
<1>2. CASE ApplyGauges(p)
  <2>1. /\ pc[p] = "gauge" /\ pc'[p] = "insert" /\ stamp'[p] = now /\ next'[p] = 1 /\ running
        /\ UNCHANGED <<now, running, fails, resp, rates, db, missed>>
    BY <1>2 DEF ApplyGauges, TypeOK
  <2>2. Len(Applies[p]) \in Nat \ {0} /\ now \in Nat
    BY CurrencyFacts DEF TypeOK
  <2>3. \A c \in CurrenciesOf(p) :
           rates[c].value = resp[p] /\ rates[c].lastUpdated \in 0..now
    BY <2>1 DEF ProviderInv, Progress
  <2>4. Progress(p)'
    BY <2>1, <2>2, <2>3 DEF ProviderInv, Progress, Applying
  <2>5. FlagOf(p)' /\ StoreOf(p)' /\ RowsOf(p)'
    BY <2>1 DEF ProviderInv, FlagOf, StoreOf, RowsOf, Applying
  <2> QED
    BY <2>4, <2>5 DEF ProviderInv
<1> QED
  BY <1>1, <1>2

\* The rows, one after the other: those before next carry this response and this
\* stamp, or are missed; after the last, so do all.
LEMMA InsertSteps ==
    ASSUME TypeOK, NEW p \in Provider, ProviderInv(p), InsertRate(p) \/ InsertRateFails(p)
    PROVE  ProviderInv(p)'
<1> DEFINE n == next[p]
<1> DEFINE cur == Applies[p][n]
<1> DEFINE row == [value |-> resp[p], recordedAt |-> stamp[p]]
<1>1. /\ pc[p] = "insert" /\ running /\ next'[p] = n + 1
      /\ pc'[p] = IF n = Len(Applies[p]) THEN "applied" ELSE "insert"
      /\ UNCHANGED <<now, running, fails, resp, stamp, rates>>
  BY DEF InsertRate, InsertRateFails, AfterInsert, TypeOK
<1>2. n \in 1..Len(Applies[p]) /\ Len(Applies[p]) \in Nat /\ stamp[p] \in 0..now /\ now \in Nat
  BY <1>1, CurrencyFacts DEF ProviderInv, Progress, TypeOK
<1>3. resp[p] \in Value
  BY <1>1 DEF ProviderInv, Progress, Applying
<1>4. cur \in CurrenciesOf(p) /\ cur \in Currency
  BY <1>2, CurrencyFacts
<1>5. /\ cur \notin missed' => db'[cur] = row
      /\ \A c \in Currency : c # cur => db'[c] = db[c] /\ (c \in missed' <=> c \in missed)
  BY <1>4 DEF InsertRate, InsertRateFails, TypeOK
<1>6. \A i \in 1..n : Applies[p][i] \notin missed' => db'[Applies[p][i]] = row
  <2> SUFFICES ASSUME NEW i \in 1..n, Applies[p][i] \notin missed'
               PROVE  db'[Applies[p][i]] = row
    OBVIOUS
  <2>1. CASE i = n
    BY <1>5, <2>1
  <2>2. CASE i # n
    <3>1. i \in 1..(n - 1) /\ i \in 1..Len(Applies[p])
      BY <1>2, <2>2
    <3>2. Applies[p][i] # cur /\ Applies[p][i] \in Currency
      BY <1>2, <2>2, <3>1, CurrencyFacts
    <3>3. Applies[p][i] \notin missed /\ db'[Applies[p][i]] = db[Applies[p][i]]
      BY <1>5, <3>2
    <3> QED
      BY <1>1, <3>1, <3>3 DEF ProviderInv, Progress
  <2> QED
    BY <2>1, <2>2
<1>7. \A c \in CurrenciesOf(p) : /\ rates[c].value = resp[p]
                                 /\ rates[c].lastUpdated \in 0..now
                                 /\ rates[c].lastUpdated <= stamp[p]
  BY <1>1 DEF ProviderInv, Progress
<1>8. FlagOf(p)'
  BY <1>1 DEF ProviderInv, FlagOf
<1>9. CASE n = Len(Applies[p])
  <2>1. \A c \in CurrenciesOf(p) : c \notin missed' => db'[c] = row
    <3>1. \A c \in CurrenciesOf(p) : \E i \in 1..n : c = Applies[p][i]
      BY <1>9, CurrencyFacts
    <3> QED
      BY <1>6, <3>1
  <2>2. row # Nil /\ row.value = resp[p] /\ row.recordedAt = stamp[p]
    <3>1. row \in [value : Value, recordedAt : Nat]
      BY <1>2, <1>3
    <3> QED
      BY <3>1, NilAssumption
  <2>3. pc'[p] = "applied"
    BY <1>1, <1>9
  <2>4. Progress(p)'
    BY <1>1, <2>3 DEF Progress, Applying
  <2>5. StoreOf(p)'
    <3>1. \A c \in CurrenciesOf(p) : stamp[p] >= rates[c].lastUpdated
      BY <1>2, <1>7
    <3> QED
      BY <1>1, <1>7, <2>1, <2>2, <3>1 DEF StoreOf
  <2>6. RowsOf(p)'
    BY <2>1, <2>2 DEF RowsOf
  <2> QED
    BY <1>8, <2>4, <2>5, <2>6 DEF ProviderInv
<1>10. CASE n # Len(Applies[p])
  <2>1. pc'[p] = "insert" /\ n + 1 \in 1..Len(Applies[p]) /\ (n + 1) - 1 = n
    BY <1>1, <1>2, <1>10
  <2>2. Progress(p)'
    BY <1>1, <1>2, <1>3, <1>6, <1>7, <2>1 DEF Progress, Applying
  <2>3. StoreOf(p)' /\ RowsOf(p)'
    BY <2>1 DEF StoreOf, RowsOf, Applying
  <2> QED
    BY <1>8, <2>2, <2>3 DEF ProviderInv
<1> QED
  BY <1>9, <1>10

\* The nightly task only takes currencies out of what is claimed.
LEMMA ConsolidateStep ==
    ASSUME TypeOK, NEW c \in Currency, ConsolidateDay(c),
           NEW p \in Provider, ProviderInv(p)
    PROVE  ProviderInv(p)'
<1>1. /\ UNCHANGED <<now, running, pc, fails, resp, stamp, next, rates>>
      /\ c \in missed' /\ \A d \in Currency : d \in missed => d \in missed'
      /\ \A d \in Currency : d # c => db'[d] = db[d]
  BY DEF ConsolidateDay, workerVars, TypeOK
<1>2. \A d \in CurrenciesOf(p) \ missed' : d \in CurrenciesOf(p) \ missed /\ db'[d] = db[d]
  BY <1>1, CurrencyFacts
<1>3. Progress(p)'
  <2>1. pc[p] = "insert" =>
          \A i \in 1..(next[p] - 1) : Applies[p][i] \in CurrenciesOf(p)
    BY CurrencyFacts DEF ProviderInv, Progress
  <2> QED
    BY <1>1, <1>2, <2>1 DEF ProviderInv, Progress
<1>4. FlagOf(p)' /\ StoreOf(p)' /\ RowsOf(p)'
  BY <1>1, <1>2 DEF ProviderInv, FlagOf, StoreOf, RowsOf
<1> QED
  BY <1>3, <1>4 DEF ProviderInv

\* A crash loses the rows an Apply still had to write, and they are missed.
LEMMA CrashStep ==
    ASSUME TypeOK, Crash, NEW p \in Provider, ProviderInv(p)
    PROVE  ProviderInv(p)'
<1>1. /\ ~running' /\ pc'[p] = "wait" /\ fails'[p] = 0
      /\ rates' = NewState /\ UNCHANGED <<now, db>>
      /\ Unpersisted(p) \subseteq missed' /\ missed \subseteq missed'
  BY DEF Crash
<1>2. \A c \in CurrenciesOf(p) : rates'[c].lastUpdated = Nil /\ rates'[c].providerFailing = FALSE
  BY <1>1, NewStateType, CurrencyFacts
<1>3. Progress(p)'
  BY <1>1 DEF Progress, Applying
<1>4. FlagOf(p)'
  <2>1. (0 >= FailStreak) = FALSE
    BY DEF FailStreak
  <2> QED
    BY <1>1, <1>2, <2>1 DEF FlagOf
<1>5. StoreOf(p)'
  BY <1>2 DEF StoreOf
<1>6. RowsOf(p)'
  <2>1. CASE pc[p] # "insert"
    BY <1>1, <2>1 DEF ProviderInv, RowsOf
  <2>2. CASE pc[p] = "insert"
    <3> DEFINE row == [value |-> resp[p], recordedAt |-> stamp[p]]
    <3>1. /\ next[p] \in 1..Len(Applies[p]) /\ resp[p] \in Value /\ stamp[p] \in 0..now
          /\ now \in Nat /\ Len(Applies[p]) \in Nat
      BY <2>2, CurrencyFacts DEF ProviderInv, Progress, Applying, TypeOK
    <3>2. row # Nil /\ row.recordedAt = stamp[p]
      <4>1. row \in [value : Value, recordedAt : Nat]
        BY <3>1
      <4> QED
        BY <4>1, NilAssumption
    <3>3. \A c \in CurrenciesOf(p) \ missed' : db[c] = row
      <4> SUFFICES ASSUME NEW c \in CurrenciesOf(p), c \notin missed' PROVE db[c] = row
        OBVIOUS
      <4>1. PICK i \in 1..Len(Applies[p]) : c = Applies[p][i]
        BY CurrencyFacts
      <4>2. i \notin next[p]..Len(Applies[p])
        BY <1>1, <2>2, <4>1 DEF Unpersisted
      <4>3. i \in 1..(next[p] - 1)
        BY <3>1, <4>2
      <4> QED
        BY <1>1, <2>2, <4>1, <4>3 DEF ProviderInv, Progress
    <3> QED
      BY <1>1, <3>2, <3>3 DEF RowsOf
  <2> QED
    BY <2>1, <2>2
<1> QED
  BY <1>3, <1>4, <1>5, <1>6 DEF ProviderInv

\* A start leaves the rows and begins with no streak and nothing in memory.
LEMMA StartStep ==
    ASSUME TypeOK, WarmStart \/ ColdStart, NEW p \in Provider, ProviderInv(p)
    PROVE  ProviderInv(p)'
<1>1. /\ running' /\ pc'[p] = "fetch" /\ fails' = fails /\ fails[p] = 0
      /\ pc[p] = "wait" /\ UNCHANGED <<now, db, missed>>
  BY DEF WarmStart, ColdStart, Start, ProviderInv, Progress
<1>2. rates' = NewState
  BY WarmUpLoadsNothing DEF WarmStart, ColdStart
<1>3. \A c \in CurrenciesOf(p) : rates'[c].lastUpdated = Nil /\ rates'[c].providerFailing = FALSE
  BY <1>2, NewStateType, CurrencyFacts
<1>4. Progress(p)'
  BY <1>1 DEF Progress, Applying
<1>5. FlagOf(p)'
  <2>1. (0 >= FailStreak) = FALSE
    BY DEF FailStreak
  <2> QED
    BY <1>1, <1>3, <2>1 DEF FlagOf
<1>6. StoreOf(p)' /\ RowsOf(p)'
  BY <1>1, <1>3 DEF ProviderInv, StoreOf, RowsOf
<1> QED
  BY <1>4, <1>5, <1>6 DEF ProviderInv

\* Every step preserves it: one case per kind of step, each by its lemma.
LEMMA NextInv == IInv /\ [Next]_vars => IInv'
<1> SUFFICES ASSUME IInv, [Next]_vars PROVE IInv'
  OBVIOUS
<1>1. TypeOK /\ ApplyProgress /\ \A p \in Provider : ProviderInv(p)
  BY DEF IInv, ProviderInv, ApplyProgress
<1>2. ASSUME NEW p \in Provider, Worker(p) PROVE IInv'
  <2>1. TypeOK'
    BY <1>1, <1>2, WorkerType
  <2>2. ProviderInv(p)'
    BY <1>1, <1>2, FetchSteps, CallbackSteps, ApplySteps, InsertSteps DEF Worker
  <2>3. \A q \in Provider : q # p => ProviderInv(q)'
    BY <1>1, <1>2, WorkerLeavesOthers
  <2> QED
    BY <2>1, <2>2, <2>3 DEF IInv
<1>3. ASSUME NEW k \in Client, Request(k) PROVE IInv'
  <2>1. TypeOK'
    BY <1>1, <1>3, RequestType
  <2>2. UNCHANGED <<now, running, pc, fails, resp, stamp, next, rates, db, missed>>
    BY <1>3 DEF Request, QueryLatest, QueryFails, AnswerRates, GetHealth, Receive, workerVars
  <2>3. \A q \in Provider : ProviderInv(q)'
    BY <1>1, <2>2, Untouched DEF TypeOK
  <2> QED
    BY <2>1, <2>3 DEF IInv
<1>4. ASSUME NEW c \in Currency, ConsolidateDay(c) PROVE IInv'
  BY <1>1, <1>4, ProcessType, ConsolidateStep DEF IInv
<1>5. CASE Tick
  <2>1. now' \in Nat /\ now' >= now
    BY <1>1, <1>5 DEF Tick, TypeOK
  <2>2. \A q \in Provider : ProviderInv(q)'
    BY <1>1, <1>5, <2>1, Untouched DEF Tick, workerVars
  <2> QED
    BY <1>1, <1>5, <2>2, ProcessType DEF IInv
<1>6. CASE Crash
  BY <1>1, <1>6, ProcessType, CrashStep DEF IInv
<1>7. CASE WarmStart \/ ColdStart
  BY <1>1, <1>7, ProcessType, StartStep DEF IInv
<1>8. CASE UNCHANGED vars
  <2>1. TypeOK'
    BY <1>1, <1>8 DEF vars, workerVars, TypeOK
  <2>2. \A q \in Provider : ProviderInv(q)'
    BY <1>1, <1>8, Untouched DEF vars, workerVars, TypeOK
  <2> QED
    BY <2>1, <2>2 DEF IInv
<1> QED
  BY <1>2, <1>3, <1>4, <1>5, <1>6, <1>7, <1>8 DEF Next

\* So it holds in every reachable state.
LEMMA Inductive == Spec => []IInv
  BY InitInv, NextInv, PTL DEF Spec

--------------------------------------------------------------------------------
(* The theorems.                                                           *)

\* No interleaving of workers, requests, nightly task and crashes leaves a type.
THEOREM TypeCorrect == Spec => []TypeOK
<1>1. IInv => TypeOK
  BY DEF IInv
<1> QED
  BY <1>1, Inductive, PTL

\* What a worker has done is what memory and the rows show.
THEOREM ProgressShown == Spec => []ApplyProgress
<1>1. IInv => ApplyProgress
  BY DEF IInv, ProviderInv, ApplyProgress
<1> QED
  BY <1>1, Inductive, PTL

\* The failing flag the handlers read and the worker's private streak agree.
THEOREM FlagCorrect == Spec => []FlagTracksStreak
<1>1. IInv => FlagTracksStreak
  BY DEF IInv, ProviderInv, FlagTracksStreak
<1> QED
  BY <1>1, Inductive, PTL

\* Memory, which /health judges, and the newest rows, which /rates serves, agree.
THEOREM StoreCorrect == Spec => []StateMatchesStore
<1>1. IInv => StateMatchesStore
  BY DEF IInv, ProviderInv, StateMatchesStore
<1> QED
  BY <1>1, Inductive, PTL

\* The currencies of a provider come from one fetch, unless a row was lost.
THEOREM RowsTogether == Spec => []RowsOfOneFetch
<1>1. IInv => RowsOfOneFetch
  BY DEF IInv, ProviderInv, RowsOfOneFetch
<1> QED
  BY <1>1, Inductive, PTL

--------------------------------------------------------------------------------
(* What the handlers answer.                                               *)

\* A request only changes by its own handler, or by the end of the process.
LEMMA OwnHandlerOnly ==
    ASSUME TypeOK, [Next]_vars, NEW k \in Client, req'[k] # req[k]
    PROVE  Request(k) \/ req'[k] = IdleRequest
<1>1. ASSUME NEW j \in Client, Request(j) PROVE j = k
  BY <1>1 DEF Request, QueryLatest, QueryFails, AnswerRates, GetHealth, Receive, TypeOK
<1>2. CASE Crash
  BY <1>2 DEF Crash
<1>3. ASSUME NEW p \in Provider, Worker(p) PROVE req' = req
  BY <1>3 DEF Worker, BeginFetch, FetchFails, OnFail, FetchSucceeds, OnRecover,
              ApplyState, ApplyGauges, InsertRate, InsertRateFails, AfterInsert, AfterFetch
<1>4. ASSUME (\E c \in Currency : ConsolidateDay(c)) \/ Tick \/ WarmStart \/ ColdStart \/ UNCHANGED vars
      PROVE  req' = req
  BY <1>4 DEF ConsolidateDay, Tick, WarmStart, ColdStart, Start, vars
<1> QED
  BY <1>1, <1>2, <1>3, <1>4 DEF Next

\* An entry is stale while its provider fails or when its row is too old.
LEMMA EntryOfRow ==
    ASSUME NEW row, row # Nil, NEW failing \in BOOLEAN, NEW threshold, NEW t
    PROVE  /\ StoredRateEntry(row, failing, threshold, t).lastUpdated = row.recordedAt
           /\ StoredRateEntry(row, failing, threshold, t).isStale
                = (failing \/ t - row.recordedAt > threshold)
BY DEF StoredRateEntry

\* A clear flag means no streak, but for the moment before OnFail.
LEMMA ClearFlag ==
    ASSUME IInv, NEW p \in Provider, NEW c \in CurrenciesOf(p), ~rates[c].providerFailing
    PROVE  fails[p] < FailStreak \/ pc[p] = "onFail"
<1>1. fails[p] \in Nat
  BY DEF IInv, TypeOK
<1>2. pc[p] # "onFail" => ~(fails[p] >= FailStreak)
  BY DEF IInv, ProviderInv, FlagOf
<1> QED
  BY <1>1, <1>2 DEF FailStreak

\* No entry is served as fresh during an outage or past its threshold, whatever
\* happened between the query and the snapshot.
THEOREM FreshAnswers == Spec => FreshAnswer
<1> DEFINE Fresh ==
      \A k \in Client : req'[k].stage = "rates" /\ req'[k] # req[k] =>
        \A p \in Provider : \A c \in CurrenciesOf(p) \cap DOMAIN req'[k].entries :
           ~req'[k].entries[c].isStale =>
               /\ now - req'[k].entries[c].lastUpdated <= Threshold[p]
               /\ fails[p] < FailStreak \/ pc[p] = "onFail"
<1>1. IInv /\ [Next]_vars => Fresh
  <2> SUFFICES ASSUME IInv, [Next]_vars, NEW k \in Client,
                      req'[k].stage = "rates", req'[k] # req[k],
                      NEW p \in Provider,
                      NEW c \in CurrenciesOf(p) \cap DOMAIN req'[k].entries,
                      ~req'[k].entries[c].isStale
               PROVE  /\ now - req'[k].entries[c].lastUpdated <= Threshold[p]
                      /\ fails[p] < FailStreak \/ pc[p] = "onFail"
    OBVIOUS
  <2> DEFINE row == req[k].rows[c]
  <2>1. TypeOK
    BY DEF IInv
  <2>2. AnswerRates(k)
    <3>1. Request(k) \/ req'[k] = IdleRequest
      BY <2>1, OwnHandlerOnly
    <3> QED
      BY <2>1, <3>1 DEF Request, QueryLatest, QueryFails, GetHealth, Receive, IdleRequest, TypeOK
  <2>3. /\ req[k].stage = "queried"
        /\ req'[k].entries = [d \in DOMAIN req[k].rows |->
                                StoredRateEntry(req[k].rows[d], rates[d].providerFailing,
                                                Threshold[ProviderOf(d)], now)]
    BY <2>1, <2>2 DEF AnswerRates, TypeOK
  <2>4. c \in DOMAIN req[k].rows /\ ProviderOf(c) = p
    BY <2>3, ProviderOfCurrency
  <2>5. req'[k].entries[c] = StoredRateEntry(row, rates[c].providerFailing, Threshold[p], now)
    BY <2>3, <2>4
  <2>6. row # Nil
    BY <2>5 DEF StoredRateEntry
  <2>7. /\ req'[k].entries[c].lastUpdated = row.recordedAt
        /\ ~(rates[c].providerFailing \/ now - row.recordedAt > Threshold[p])
    <3>1. rates[c].providerFailing \in BOOLEAN
      BY <2>1, CurrencyFacts DEF TypeOK, RateData
    <3> HIDE DEF row
    <3>2. req'[k].entries[c].lastUpdated = row.recordedAt
      BY <2>5, <2>6, <3>1, EntryOfRow
    <3>3. ~(rates[c].providerFailing \/ now - row.recordedAt > Threshold[p])
      BY <2>5, <2>6, <3>1, EntryOfRow
    <3> QED
      BY <3>2, <3>3
  <2>8. row.recordedAt \in Nat /\ now \in Nat /\ Threshold[p] \in Nat
    <3>1. req[k] \in Answer
      BY <2>1, RequestsTyped
    <3>2. PICK S \in SUBSET Currency : req[k].rows \in [S -> Row \cup {Nil}]
      BY <2>3, <3>1, AnswerCases
    <3>3. row \in Row \cup {Nil}
      BY <2>4, <3>2
    <3> QED
      BY <2>1, <2>6, <3>3, ProviderAssumption DEF Row, TypeOK
  <2>9. now - row.recordedAt <= Threshold[p]
    BY <2>7, <2>8
  <2> QED
    BY <2>7, <2>9, ClearFlag
<1> QED
  BY <1>1, Inductive, PTL DEF Spec, FreshAnswer

\* When no currency is stale in memory, no flag is set and no timestamp is too old.
LEMMA HealthyMemory ==
    ASSUME IInv, [Next]_vars, NEW k \in Client,
           req'[k].stage = "health", req'[k] # req[k], req'[k].stale = {},
           NEW p \in Provider, NEW c \in CurrenciesOf(p)
    PROVE  /\ ~rates[c].providerFailing /\ rates[c].lastUpdated \in Nat
           /\ now - rates[c].lastUpdated <= Threshold[p]
<1>1. TypeOK
  BY DEF IInv
<1>2. GetHealth(k)
  <2>1. Request(k) \/ req'[k] = IdleRequest
    BY <1>1, OwnHandlerOnly
  <2> QED
    BY <1>1, <2>1 DEF Request, QueryLatest, QueryFails, AnswerRates, Receive, IdleRequest, TypeOK
<1>3. HealthStale(rates, now) = {}
  BY <1>1, <1>2 DEF GetHealth, TypeOK
<1>4. c \in Currency /\ ProviderOf(c) = p
  BY CurrencyFacts, ProviderOfCurrency
<1>5. ~IsStale(rates[c], Threshold[p], now)
  BY <1>3, <1>4 DEF HealthStale
<1>6. /\ ~rates[c].providerFailing /\ rates[c].lastUpdated # Nil
      /\ ~(now - rates[c].lastUpdated > Threshold[p])
  BY <1>5 DEF IsStale
<1>7. rates[c].lastUpdated \in Nat /\ now \in Nat /\ Threshold[p] \in Nat
  BY <1>1, <1>4, <1>6, ProviderAssumption DEF TypeOK, RateData
<1> QED
  BY <1>6, <1>7

\* /health is only healthy when every provider delivered to this process lately
\* and none is in an outage.
THEOREM HealthyAnswers == Spec => HealthyAnswer
<1> DEFINE Healthy ==
      \A k \in Client : req'[k].stage = "health" /\ req'[k] # req[k] =>
        (req'[k].stale = {} =>
           \A p \in Provider : \A c \in CurrenciesOf(p) :
               /\ rates[c].lastUpdated # Nil
               /\ now - rates[c].lastUpdated <= Threshold[p]
               /\ fails[p] < FailStreak \/ pc[p] = "onFail")
<1>1. IInv /\ [Next]_vars => Healthy
  <2> SUFFICES ASSUME IInv, [Next]_vars, NEW k \in Client,
                      req'[k].stage = "health", req'[k] # req[k], req'[k].stale = {},
                      NEW p \in Provider, NEW c \in CurrenciesOf(p)
               PROVE  /\ rates[c].lastUpdated # Nil
                      /\ now - rates[c].lastUpdated <= Threshold[p]
                      /\ fails[p] < FailStreak \/ pc[p] = "onFail"
    OBVIOUS
  <2>1. /\ ~rates[c].providerFailing /\ rates[c].lastUpdated \in Nat
        /\ now - rates[c].lastUpdated <= Threshold[p]
    BY HealthyMemory
  <2>2. rates[c].lastUpdated # Nil
    BY <2>1, NilAssumption
  <2> QED
    BY <2>1, <2>2, ClearFlag
<1> QED
  BY <1>1, Inductive, PTL DEF Spec, HealthyAnswer

\* /health and /rates agree but for rows that are lost or still being written.
THEOREM HealthyRowsUnlessLost == Spec => HealthyUnlessLost
<1> DEFINE Agreed ==
      \A k \in Client : req'[k].stage = "health" /\ req'[k] # req[k] =>
        (req'[k].stale = {} =>
           \A p \in Provider : \A c \in CurrenciesOf(p) \ missed :
               pc[p] \notin Applying =>
                   ~StoredRateEntry(db[c], rates[c].providerFailing, Threshold[p], now).isStale)
<1>1. IInv /\ [Next]_vars => Agreed
  <2> SUFFICES ASSUME IInv, [Next]_vars, NEW k \in Client,
                      req'[k].stage = "health", req'[k] # req[k], req'[k].stale = {},
                      NEW p \in Provider, NEW c \in CurrenciesOf(p) \ missed, pc[p] \notin Applying
               PROVE  ~StoredRateEntry(db[c], rates[c].providerFailing, Threshold[p], now).isStale
    OBVIOUS
  <2> DEFINE row == db[c]
  <2>1. /\ ~rates[c].providerFailing /\ rates[c].lastUpdated \in Nat
        /\ now - rates[c].lastUpdated <= Threshold[p]
    BY HealthyMemory
  <2>2. row # Nil /\ row.recordedAt >= rates[c].lastUpdated
    <3>1. StoreOf(p) /\ rates[c].lastUpdated # Nil
      BY <2>1, NilAssumption DEF IInv, ProviderInv
    <3> QED
      BY <3>1 DEF StoreOf
  <2>3. row.recordedAt \in Nat /\ now \in Nat /\ Threshold[p] \in Nat
    BY <2>2, CurrencyFacts, ProviderAssumption DEF IInv, TypeOK, Row
  <2> HIDE DEF row
  <2>4. ~(now - row.recordedAt > Threshold[p])
    BY <2>1, <2>2, <2>3
  <2>5. rates[c].providerFailing \in BOOLEAN
    BY CurrencyFacts DEF IInv, TypeOK, RateData
  <2>6. ~StoredRateEntry(row, rates[c].providerFailing, Threshold[p], now).isStale
    BY <2>1, <2>2, <2>4, <2>5, EntryOfRow
  <2> QED
    BY <2>6 DEF row
<1> QED
  BY <1>1, Inductive, PTL DEF Spec, HealthyUnlessLost

--------------------------------------------------------------------------------
(* The refinement of RateBoard.                                            *)

\* What the board shows of a state r of memory.
QuotesOf(r) == [p \in Provider |-> {r[c] : c \in CurrenciesOf(p)}]

\* A flag set or cleared for every currency of a provider changes its quotes as the
\* board's actions do.
LEMMA QuotesChange ==
    ASSUME NEW p \in Provider, NEW r \in [Currency -> RateData],
           NEW s \in [Currency -> RateData],
           \A c \in Currency : c \notin CurrenciesOf(p) => s[c] = r[c]
    PROVE  /\ QuotesOf(s) = [QuotesOf(r) EXCEPT ![p] = {s[c] : c \in CurrenciesOf(p)}]
           /\ \A f \in BOOLEAN :
                (\A c \in CurrenciesOf(p) : s[c] = Board!Quote(r[c].value, r[c].lastUpdated, f))
                  => QuotesOf(s) = [QuotesOf(r) EXCEPT ![p] =
                       {Board!Quote(q.value, q.lastUpdated, f) : q \in @}]
<1>1. \A q \in Provider : q # p =>
        {s[c] : c \in CurrenciesOf(q)} = {r[c] : c \in CurrenciesOf(q)}
  <2>1. \A q \in Provider : q # p => \A c \in CurrenciesOf(q) : s[c] = r[c]
    BY CurrencyFacts
  <2> QED
    BY <2>1
<1>2. QuotesOf(s) = [QuotesOf(r) EXCEPT ![p] = {s[c] : c \in CurrenciesOf(p)}]
  BY <1>1 DEF QuotesOf
<1>3. ASSUME NEW f \in BOOLEAN,
             \A c \in CurrenciesOf(p) : s[c] = Board!Quote(r[c].value, r[c].lastUpdated, f)
      PROVE  QuotesOf(s) = [QuotesOf(r) EXCEPT ![p] =
               {Board!Quote(q.value, q.lastUpdated, f) : q \in @}]
  <2>1. {s[c] : c \in CurrenciesOf(p)}
          = {Board!Quote(q.value, q.lastUpdated, f) : q \in {r[c] : c \in CurrenciesOf(p)}}
    BY <1>3
  <2>2. QuotesOf(r)[p] = {r[c] : c \in CurrenciesOf(p)}
    BY DEF QuotesOf
  <2> QED
    BY <1>2, <2>1, <2>2
<1> QED
  BY <1>2, <1>3

\* A record of memory is the quote of its fields.
LEMMA QuoteFields ==
    \A d \in RateData : \A v, t : \A f \in BOOLEAN :
        d.value = v /\ d.lastUpdated = t /\ (d.providerFailing <=> f) => d = Board!Quote(v, t, f)
<1> SUFFICES ASSUME NEW d \in RateData, NEW f \in BOOLEAN, d.providerFailing <=> f
             PROVE  d = Board!Quote(d.value, d.lastUpdated, f)
  OBVIOUS
<1>1. d = [value |-> d.value, lastUpdated |-> d.lastUpdated,
           providerFailing |-> d.providerFailing]
  BY DEF RateData
<1>2. d.providerFailing \in BOOLEAN
  BY DEF RateData
<1>3. d.providerFailing = f
  BY <1>2
<1> QED
  BY <1>1, <1>3 DEF Board!Quote

\* The operators on memory write quotes for their provider, and nothing else.
LEMMA QuotesWritten ==
    ASSUME NEW p \in Provider, NEW r \in [Currency -> RateData]
    PROVE  /\ \A c \in Currency : c \notin CurrenciesOf(p) =>
                MarkFailing(p, r)[c] = r[c] /\ ClearFailing(p, r)[c] = r[c]
           /\ \A c \in CurrenciesOf(p) :
                /\ MarkFailing(p, r)[c] = Board!Quote(r[c].value, r[c].lastUpdated, TRUE)
                /\ ClearFailing(p, r)[c] = Board!Quote(r[c].value, r[c].lastUpdated, FALSE)
           /\ \A v \in Value, t \in Nat : \A c \in CurrenciesOf(p) :
                ~r[c].providerFailing => UpdatePrice(p, r, v, t)[c] = Board!Quote(v, t, FALSE)
<1>1. \A c \in CurrenciesOf(p) : c \in Currency
  BY CurrencyFacts
<1>2. \A c \in Currency : c \notin CurrenciesOf(p) =>
        MarkFailing(p, r)[c] = r[c] /\ ClearFailing(p, r)[c] = r[c]
  BY DEF MarkFailing, ClearFailing
<1>3. ASSUME NEW c \in CurrenciesOf(p)
      PROVE  MarkFailing(p, r)[c] = Board!Quote(r[c].value, r[c].lastUpdated, TRUE)
  <2>1. /\ MarkFailing(p, r)[c] \in RateData
        /\ MarkFailing(p, r)[c].value = r[c].value
        /\ MarkFailing(p, r)[c].lastUpdated = r[c].lastUpdated
    BY <1>1, MarkFailingFacts
  <2>2. MarkFailing(p, r)[c].providerFailing
    <3>1. MarkFailing(p, r)[c].providerFailing
            = (c \in CurrenciesOf(p) \/ r[c].providerFailing)
      BY <1>1, MarkFailingFacts
    <3> QED
      BY <3>1, Zenon
  <2> QED
    BY <2>1, <2>2, QuoteFields, Zenon
<1>4. ASSUME NEW c \in CurrenciesOf(p)
      PROVE  ClearFailing(p, r)[c] = Board!Quote(r[c].value, r[c].lastUpdated, FALSE)
  <2>1. /\ ClearFailing(p, r)[c] \in RateData
        /\ ClearFailing(p, r)[c].value = r[c].value
        /\ ClearFailing(p, r)[c].lastUpdated = r[c].lastUpdated
        /\ ClearFailing(p, r)[c].providerFailing <=> FALSE
    BY <1>1, ClearFailingFacts
  <2> QED
    BY <2>1, QuoteFields, Zenon
<1>5. ASSUME NEW v \in Value, NEW t \in Nat, NEW c \in CurrenciesOf(p), ~r[c].providerFailing
      PROVE  UpdatePrice(p, r, v, t)[c] = Board!Quote(v, t, FALSE)
  <2>1. /\ UpdatePrice(p, r, v, t)[c] \in RateData
        /\ UpdatePrice(p, r, v, t)[c].value = v
        /\ UpdatePrice(p, r, v, t)[c].lastUpdated = t
        /\ UpdatePrice(p, r, v, t)[c].providerFailing <=> FALSE
    BY <1>1, <1>5, UpdatePriceFacts
  <2> QED
    BY <2>1, QuoteFields, Zenon
<1> QED
  BY <1>2, <1>3, <1>4, <1>5

\* An empty memory is an empty board.
LEMMA EmptyQuotes ==
    QuotesOf(NewState) = [p \in Provider |-> {Board!Quote(Nil, Nil, FALSE)}]
<1>1. ASSUME NEW p \in Provider
      PROVE  {NewState[c] : c \in CurrenciesOf(p)} = {Board!Quote(Nil, Nil, FALSE)}
  <2>1. CurrenciesOf(p) # {} /\ CurrenciesOf(p) \subseteq Currency
    BY CurrencyFacts
  <2>2. \A c \in Currency : NewState[c] = Board!Quote(Nil, Nil, FALSE)
    BY DEF NewState, Board!Quote
  <2> QED
    BY <2>1, <2>2
<1> QED
  BY <1>1 DEF QuotesOf

\* A response is only applied when the streak is over, and the callbacks are only
\* called in a streak of FailStreak.
StreakOf(p) ==
    /\ pc[p] \in Applying => fails[p] = 0
    /\ pc[p] \in {"onFail", "onRecover"} => fails[p] >= FailStreak

Streaks == \A p \in Provider : StreakOf(p)

\* The worker's position and its streak go together, in every reachable state.
LEMMA StreaksInv ==
    /\ Init => Streaks
    /\ TypeOK /\ Streaks /\ [Next]_vars => Streaks'
<1>1. Init => Streaks
  BY DEF Init, Streaks, StreakOf, Applying
<1>2. ASSUME TypeOK, Streaks, [Next]_vars PROVE Streaks'
  <2>1. ASSUME NEW p \in Provider, Worker(p) PROVE Streaks'
    <3>1. \A q \in Provider : q # p => pc'[q] = pc[q] /\ fails'[q] = fails[q]
      BY <1>2, <2>1 DEF TypeOK, Worker, BeginFetch, FetchFails, OnFail, FetchSucceeds,
         OnRecover, ApplyState, ApplyGauges, InsertRate, InsertRateFails, AfterInsert, AfterFetch
    <3>2. StreakOf(p)'
      <4>1. CASE BeginFetch(p) \/ OnFail(p) \/ AfterFetch(p)
        <5>1. pc'[p] \in {"fetch", "failed", "wait"}
          BY <1>2, <4>1 DEF BeginFetch, OnFail, AfterFetch, TypeOK
        <5> QED
          BY <5>1 DEF StreakOf, Applying
      <4>2. CASE FetchFails(p)
        <5>1. fails'[p] = fails[p] + 1
              /\ pc'[p] = IF fails[p] + 1 >= FailStreak THEN "onFail" ELSE "failed"
          BY <1>2, <4>2 DEF FetchFails, TypeOK
        <5> QED
          BY <5>1 DEF StreakOf, Applying
      <4>3. CASE FetchSucceeds(p)
        <5>1. \/ fails[p] >= FailStreak /\ pc'[p] = "onRecover" /\ fails'[p] = fails[p]
              \/ pc'[p] = "apply" /\ fails'[p] = 0
          BY <1>2, <4>3 DEF FetchSucceeds, TypeOK
        <5> QED
          BY <5>1 DEF StreakOf, Applying
      <4>4. CASE OnRecover(p)
        <5>1. pc'[p] = "apply" /\ fails'[p] = 0
          BY <1>2, <4>4 DEF OnRecover, TypeOK
        <5> QED
          BY <5>1 DEF StreakOf
      <4>5. CASE ApplyState(p) \/ ApplyGauges(p) \/ InsertRate(p) \/ InsertRateFails(p)
        <5>1. pc[p] \in Applying /\ pc'[p] \in {"gauge", "insert", "applied"}
              /\ fails'[p] = fails[p]
          BY <1>2, <4>5
             DEF ApplyState, ApplyGauges, InsertRate, InsertRateFails, AfterInsert, TypeOK, Applying
        <5>2. fails[p] = 0
          BY <1>2, <5>1 DEF Streaks, StreakOf
        <5> QED
          BY <5>1, <5>2 DEF StreakOf
      <4> QED
        BY <2>1, <4>1, <4>2, <4>3, <4>4, <4>5 DEF Worker
    <3>3. \A q \in Provider : q # p => StreakOf(q)'
      BY <1>2, <3>1 DEF Streaks, StreakOf
    <3> QED
      BY <3>2, <3>3 DEF Streaks
  <2>2. CASE Crash \/ WarmStart \/ ColdStart
    <3>1. \A p \in Provider : pc'[p] \in {"wait", "fetch"}
      BY <2>2 DEF Crash, WarmStart, ColdStart, Start
    <3> QED
      BY <3>1 DEF Streaks, StreakOf, Applying
  <2>3. CASE (\E k \in Client : Request(k)) \/ (\E c \in Currency : ConsolidateDay(c))
             \/ Tick \/ UNCHANGED vars
    <3>1. UNCHANGED <<pc, fails>>
      BY <2>3 DEF Request, QueryLatest, QueryFails, AnswerRates, GetHealth, Receive,
                  ConsolidateDay, Tick, vars, workerVars
    <3> QED
      BY <1>2, <3>1 DEF Streaks, StreakOf
  <2> QED
    BY <1>2, <2>1, <2>2, <2>3 DEF Next
<1> QED
  BY <1>1, <1>2

\* A worker's step is a step of the board or shows nothing there.
LEMMA WorkerShown ==
    ASSUME IInv, Streaks, NEW p \in Provider, Worker(p)
    PROVE  Board!Next \/ UNCHANGED <<now, fails, QuotesOf(rates)>>
<1>0. /\ TypeOK /\ ProviderInv(p) /\ StreakOf(p)
      /\ fails \in [Provider -> Nat] /\ rates \in [Currency -> RateData]
      /\ \A c \in CurrenciesOf(p) : c \in Currency
  BY CurrencyFacts DEF IInv, TypeOK, Streaks
<1>1. CASE BeginFetch(p) \/ ApplyGauges(p) \/ InsertRate(p) \/ InsertRateFails(p) \/ AfterFetch(p)
  <2>1. UNCHANGED <<now, fails, rates>>
    BY <1>1 DEF BeginFetch, ApplyGauges, InsertRate, InsertRateFails, AfterInsert, AfterFetch
  <2> QED
    BY <2>1 DEF QuotesOf
<1>2. CASE FetchFails(p)
  <2>1. /\ pc[p] = "fetch" /\ fails' = [fails EXCEPT ![p] = @ + 1]
        /\ UNCHANGED <<now, rates>>
    BY <1>2 DEF FetchFails
  <2>2. fails[p] >= 3 => \A c \in CurrenciesOf(p) : rates[c].providerFailing
    BY <1>0, <2>1 DEF ProviderInv, FlagOf, FailStreak
  <2>3. Board!Fail(p)
    BY <2>1, <2>2 DEF Board!Fail, Board!Flagged
  <2> QED
    BY <2>3 DEF Board!Next
<1>3. CASE OnFail(p)
  <2>1. fails[p] >= 3 /\ UNCHANGED <<now, fails>> /\ rates' = MarkFailing(p, rates)
    BY <1>0, <1>3 DEF OnFail, StreakOf, FailStreak
  <2>2. MarkFailing(p, rates) \in [Currency -> RateData]
    BY <1>0, MarkFailingFacts
  <2>3. QuotesOf(rates') = [QuotesOf(rates) EXCEPT ![p] =
          {Board!Quote(q.value, q.lastUpdated, TRUE) : q \in @}]
    <3>1. \A c \in Currency : c \notin CurrenciesOf(p) => MarkFailing(p, rates)[c] = rates[c]
      BY <1>0, QuotesWritten
    <3>2. \A c \in CurrenciesOf(p) : MarkFailing(p, rates)[c]
                = Board!Quote(rates[c].value, rates[c].lastUpdated, TRUE)
      BY <1>0, QuotesWritten
    <3> QED
      BY <1>0, <2>1, <2>2, <3>1, <3>2, QuotesChange
  <2>4. Board!Flag(p)
    BY <2>1, <2>3 DEF Board!Flag, QuotesOf
  <2> QED
    BY <2>4 DEF Board!Next
<1>4. CASE FetchSucceeds(p)
  <2>1. UNCHANGED <<now, rates>>
    BY <1>4 DEF FetchSucceeds
  <2>2. CASE fails[p] \in 1..2
    <3>1. fails' = [fails EXCEPT ![p] = 0]
      BY <1>4, <2>2 DEF FetchSucceeds, FailStreak
    <3>2. Board!EndShortStreak(p)
      BY <2>1, <2>2, <3>1 DEF Board!EndShortStreak
    <3> QED
      BY <3>2 DEF Board!Next
  <2>3. CASE fails[p] \notin 1..2
    <3>1. fails' = fails
      <4>1. CASE fails[p] = 0
        BY <1>0, <1>4, <4>1 DEF FetchSucceeds, FailStreak
      <4>2. CASE fails[p] >= FailStreak
        BY <1>4, <4>2 DEF FetchSucceeds
      <4> QED
        BY <1>0, <2>3, <4>1, <4>2 DEF FailStreak
    <3> QED
      BY <2>1, <3>1 DEF QuotesOf
  <2> QED
    BY <2>2, <2>3
<1>5. CASE OnRecover(p)
  <2>1. /\ fails[p] >= 3 /\ fails' = [fails EXCEPT ![p] = 0] /\ UNCHANGED now
        /\ rates' = ClearFailing(p, rates)
    BY <1>0, <1>5 DEF OnRecover, StreakOf, FailStreak
  <2>2. ClearFailing(p, rates) \in [Currency -> RateData]
    BY <1>0, ClearFailingFacts
  <2>3. QuotesOf(rates') = [QuotesOf(rates) EXCEPT ![p] =
          {Board!Quote(q.value, q.lastUpdated, FALSE) : q \in @}]
    <3>1. \A c \in Currency : c \notin CurrenciesOf(p) => ClearFailing(p, rates)[c] = rates[c]
      BY <1>0, QuotesWritten
    <3>2. \A c \in CurrenciesOf(p) : ClearFailing(p, rates)[c]
                = Board!Quote(rates[c].value, rates[c].lastUpdated, FALSE)
      BY <1>0, QuotesWritten
    <3> QED
      BY <1>0, <2>1, <2>2, <3>1, <3>2, QuotesChange
  <2>4. Board!Recover(p)
    BY <2>1, <2>3 DEF Board!Recover, QuotesOf
  <2> QED
    BY <2>4 DEF Board!Next
<1>6. CASE ApplyState(p)
  <2>1. /\ pc[p] = "apply" /\ UNCHANGED <<now, fails>>
        /\ rates' = UpdatePrice(p, rates, resp[p], now)
    BY <1>6 DEF ApplyState
  <2>2. fails[p] = 0 /\ resp[p] \in Value /\ now \in Nat
    BY <1>0, <2>1 DEF StreakOf, ProviderInv, Progress, Applying, TypeOK
  <2>3. \A c \in CurrenciesOf(p) : rates[c].providerFailing = FALSE
    <3>1. (0 >= FailStreak) = FALSE
      BY DEF FailStreak
    <3> QED
      BY <1>0, <2>1, <2>2, <3>1 DEF ProviderInv, FlagOf
  <2>4. /\ rates' \in [Currency -> RateData]
        /\ \A c \in Currency : c \notin CurrenciesOf(p) => rates'[c] = rates[c]
        /\ \A c \in CurrenciesOf(p) : rates'[c] = Board!Quote(resp[p], now, FALSE)
    <3>1. \A c \in Currency : c \notin CurrenciesOf(p) =>
            UpdatePrice(p, rates, resp[p], now)[c] = rates[c]
      BY <1>0, <2>2, UpdatePriceFacts
    <3>2. \A c \in CurrenciesOf(p) :
            UpdatePrice(p, rates, resp[p], now)[c] = Board!Quote(resp[p], now, FALSE)
      BY <1>0, <2>2, <2>3, QuotesWritten
    <3>3. UpdatePrice(p, rates, resp[p], now) \in [Currency -> RateData]
      BY <1>0, <2>2, UpdatePriceFacts
    <3> QED
      BY <2>1, <3>1, <3>2, <3>3
  <2>5. QuotesOf(rates') = [QuotesOf(rates) EXCEPT ![p] = {Board!Quote(resp[p], now, FALSE)}]
    <3> DEFINE S == {rates'[c] : c \in CurrenciesOf(p)}
    <3>1. QuotesOf(rates') = [QuotesOf(rates) EXCEPT ![p] = S]
      BY <1>0, <2>4, QuotesChange
    <3>2. CurrenciesOf(p) # {}
      BY CurrencyFacts
    <3>3. S = {Board!Quote(resp[p], now, FALSE)}
      BY <2>4, <3>2
    <3> HIDE DEF S
    <3> QED
      BY <3>1, <3>3
  <2>6. Board!Deliver(p)
    BY <2>1, <2>2, <2>5 DEF Board!Deliver, QuotesOf
  <2> QED
    BY <2>6 DEF Board!Next
<1> QED
  BY <1>1, <1>2, <1>3, <1>4, <1>5, <1>6 DEF Worker

\* So is every other step: the end and the start of the process empty the board, and
\* neither requests nor the nightly task reach it.
LEMMA NextShown ==
    IInv /\ Streaks /\ [Next]_vars => [Board!Next]_<<now, fails, QuotesOf(rates)>>
<1> SUFFICES ASSUME IInv, Streaks, [Next]_vars
             PROVE  Board!Next \/ UNCHANGED <<now, fails, QuotesOf(rates)>>
  OBVIOUS
<1>1. ASSUME NEW p \in Provider, Worker(p)
      PROVE  Board!Next \/ UNCHANGED <<now, fails, QuotesOf(rates)>>
  BY <1>1, WorkerShown
<1>2. CASE (\E k \in Client : Request(k)) \/ (\E c \in Currency : ConsolidateDay(c))
           \/ UNCHANGED vars
  <2>1. UNCHANGED <<now, fails, rates>>
    BY <1>2 DEF Request, QueryLatest, QueryFails, AnswerRates, GetHealth, Receive,
                ConsolidateDay, vars, workerVars
  <2> QED
    BY <2>1 DEF QuotesOf
<1>3. CASE Tick
  <2>1. now' = now + 1 /\ UNCHANGED <<fails, rates>>
    BY <1>3 DEF Tick, workerVars
  <2>2. Board!Tick
    BY <2>1 DEF Board!Tick
  <2> QED
    BY <2>2 DEF Board!Next
<1>4. CASE Crash \/ WarmStart \/ ColdStart
  <2>1. fails' = [p \in Provider |-> 0]
    <3>1. CASE Crash
      BY <3>1 DEF Crash
    <3>2. CASE WarmStart \/ ColdStart
      <4>1. ~running /\ fails' = fails
        BY <3>2 DEF WarmStart, ColdStart, Start
      <4>2. \A p \in Provider : fails[p] = 0
        BY <4>1 DEF IInv, ProviderInv, Progress
      <4> QED
        BY <4>1, <4>2 DEF IInv, TypeOK
    <3> QED
      BY <1>4, <3>1, <3>2
  <2>2. rates' = NewState /\ now' = now
    BY <1>4, WarmUpLoadsNothing DEF Crash, WarmStart, ColdStart, Start
  <2>3. QuotesOf(rates') = [p \in Provider |-> {Board!Quote(Nil, Nil, FALSE)}]
    BY <2>2, EmptyQuotes
  <2>4. Board!Restart
    BY <2>1, <2>2, <2>3 DEF Board!Restart, Board!Empty, QuotesOf
  <2> QED
    BY <2>4 DEF Board!Next
<1> QED
  BY <1>1, <1>2, <1>3, <1>4 DEF Next

\* What memory shows of each provider is one quote, flagged and replaced as the
\* comments on the callbacks say, whatever else happens.
THEOREM BoardImplemented == Spec => OneQuotePerProvider
<1>1. Init => Board!Init
  <2> SUFFICES ASSUME Init PROVE Board!Init
    OBVIOUS
  <2>1. QuotesOf(rates) = [p \in Provider |-> {Board!Quote(Nil, Nil, FALSE)}]
    BY EmptyQuotes DEF Init
  <2> QED
    BY <2>1 DEF Init, Board!Init, Board!Empty, QuotesOf
<1>2. IInv /\ Streaks /\ [Next]_vars
        => [Board!Next]_<<now, fails, [p \in Provider |-> {rates[c] : c \in CurrenciesOf(p)}]>>
  BY NextShown DEF QuotesOf
<1>3. IInv => TypeOK
  BY DEF IInv
<1> QED
  BY <1>1, <1>2, <1>3, StreaksInv, Inductive, PTL DEF Spec, OneQuotePerProvider, Board!Spec
================================================================================
