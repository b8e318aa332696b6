------------------------------ MODULE RateService ------------------------------
(***************************************************************************)
(* The running service: one worker goroutine per provider                  *)
(* (internal/worker/worker.go), the in-memory state they share with the    *)
(* HTTP handlers (internal/state/state.go), the newest row per currency in *)
(* PostgreSQL (internal/db/db.go), the handlers of /rates, /rates/{c} and  *)
(* /health (internal/handler/handlers.go), and main.go, which wires them   *)
(* and starts the process again after a crash.                             *)
(*                                                                         *)
(* One action is one critical section of the state's mutex, one SQL        *)
(* statement, or one local step of a worker.  When a timer fires is left   *)
(* open here (the schedules are modules of their own), so a fetch begins   *)
(* whenever its worker is idle.                                            *)
(***************************************************************************)
EXTENDS Integers, Sequences

CONSTANTS
    Provider,     \* the names of the provider jobs: "BCV", "USDT"
    Applies,      \* Applies[p]: the currencies p's Apply persists, in order
    Threshold,    \* Threshold[p]: age beyond which a rate of p is stale
    Value,        \* the prices a provider can return
    Client,       \* concurrent HTTP requests
    Nil,          \* absent: no row, no timestamp, no response
    Consolidated, \* the currencies whose rows are averaged every night
    MaxTime,      \* bound on the clock
    MaxFails      \* bound on the failure streak

\* The streak at which worker.go calls OnFail, and from which it calls OnRecover.
FailStreak == 3

CurrenciesOf(p) == { Applies[p][i] : i \in 1..Len(Applies[p]) }
Currency == UNION { CurrenciesOf(p) : p \in Provider }
ProviderOf(c) == CHOOSE p \in Provider : c \in CurrenciesOf(p)

\* api.Currency: the names under which rows are stored and rates are served.
ApiCurrency == {"usd_bcv", "eur_bcv", "usdt", "usdt_compra", "usdt_venta"}

\* The key under which state.go looks a currency up in a map.
StateKey ==
    [c \in ApiCurrency |->
        CASE c = "usd_bcv"     -> "USD_BCV"
          [] c = "eur_bcv"     -> "EUR_BCV"
          [] c = "usdt"        -> "USDT"
          [] c = "usdt_compra" -> "USDT_BINANCE_SELL"
          [] c = "usdt_venta"  -> "USDT_BINANCE_BUY"]

ASSUME ProviderAssumption ==
    /\ Applies \in [Provider -> Seq(ApiCurrency)]
    /\ \A p, q \in Provider :
         \A i \in 1..Len(Applies[p]), j \in 1..Len(Applies[q]) :
            Applies[p][i] = Applies[q][j] => p = q /\ i = j
    /\ \A p \in Provider : Len(Applies[p]) > 0
    /\ Threshold \in [Provider -> Nat]
    /\ Consolidated \subseteq ApiCurrency

ASSUME NilAssumption ==
    /\ Nil \notin Value
    /\ Nil \notin Int
    /\ Nil \notin [value : Value, recordedAt : Nat]

ASSUME BoundAssumption == MaxTime \in Nat /\ MaxFails \in Nat

VARIABLES
    now,         \* time.Now()
    running,     \* the process is up
    pc,          \* pc[p]: where p's worker is
    fails,       \* fails[p]: consecutiveFails
    resp,        \* resp[p]: the price of the response being applied
    stamp,       \* stamp[p]: the now that Apply takes for its InsertRate calls
    next,        \* next[p]: position in Applies[p] of the next InsertRate
    rates,       \* State.rates
    failGauge,   \* metrics.ProviderConsecutiveFailures
    rateGauge,   \* metrics.RateValue
    db,          \* db[c]: the newest row of c in prices_history
    missed,      \* history: currencies whose last accepted price may have no row
    req          \* req[k]: the progress of client k's request

workerVars == <<pc, fails, resp, stamp, next>>
vars == <<now, running, pc, fails, resp, stamp, next, rates, failGauge,
          rateGauge, db, missed, req>>

Row == [value : Value, recordedAt : Nat]
RateData == [value : Value \cup {Nil}, lastUpdated : Nat \cup {Nil},
             providerFailing : BOOLEAN]
Entry == [lastUpdated : Nat \cup {Nil}, isStale : BOOLEAN]
WorkerStep == {"wait", "fetch", "onFail", "failed", "onRecover", "apply",
               "gauge", "insert", "applied"}

\* The steps of a successful fetch from the response's acceptance to its last row.
Applying == {"apply", "gauge", "insert"}

NewState == [c \in Currency |->
                [value |-> Nil, lastUpdated |-> Nil, providerFailing |-> FALSE]]
IdleRequest == [stage |-> "idle"]

--------------------------------------------------------------------------------
(* The in-memory state: each operator is the body of one critical section. *)

\* MarkBcvFailing, MarkBinanceFailing.
MarkFailing(p, r) ==
    [c \in Currency |-> IF c \in CurrenciesOf(p)
                        THEN [r[c] EXCEPT !.providerFailing = TRUE] ELSE r[c]]

\* Variant: the first currency of the provider only.
ClearFirstFailing(p, r) ==
    [c \in Currency |-> IF c = Applies[p][1]
                        THEN [r[c] EXCEPT !.providerFailing = FALSE] ELSE r[c]]

\* ClearBcvFailing, ClearBinanceFailing.
ClearFailing(p, r) ==
    [c \in Currency |-> IF c \in CurrenciesOf(p)
                        THEN [r[c] EXCEPT !.providerFailing = FALSE] ELSE r[c]]

\* UpdateBcvPrice, UpdateBinancePrice.  Every provider main.go registers returns
\* all of its keys or an error, so no key is missing.
UpdatePrice(p, r, v, t) ==
    [c \in Currency |-> IF c \in CurrenciesOf(p)
                        THEN [r[c] EXCEPT !.value = v, !.lastUpdated = t]
                        ELSE r[c]]

\* WarmUp: a currency is loaded when its state key is a key of entries.
WarmUp(r, entries) ==
    [c \in Currency |->
        IF StateKey[c] \in DOMAIN entries
        THEN [r[c] EXCEPT !.value = entries[StateKey[c]].value,
                          !.lastUpdated = entries[StateKey[c]].recordedAt]
        ELSE r[c]]

\* GetLatestRates: the newest row of every currency that has one, keyed by the
\* currency column.
LatestRates == [c \in {d \in Currency : db[d] # Nil} |-> db[c]]

--------------------------------------------------------------------------------
(* A worker goroutine: the fetch closure of StartPriceWorker.              *)

\* The timer or the ticker fires and the worker calls fetch.
BeginFetch(p) ==
    /\ running /\ pc[p] = "wait"
    /\ pc' = [pc EXCEPT ![p] = "fetch"]
    /\ UNCHANGED <<now, running, fails, resp, stamp, next, rates, failGauge,
                   rateGauge, db, missed, req>>

\* GetPrices returns an error, or ValidateScheduled rejects the response.
FetchFails(p) ==
    /\ running /\ pc[p] = "fetch"
    /\ fails[p] < MaxFails
    /\ fails' = [fails EXCEPT ![p] = @ + 1]
    /\ pc' = [pc EXCEPT ![p] = IF fails[p] + 1 >= FailStreak THEN "onFail" ELSE "failed"]
    /\ UNCHANGED <<now, running, resp, stamp, next, rates, failGauge, rateGauge,
                   db, missed, req>>

\* OnFail: main.go marks every currency of the provider.
OnFail(p) ==
    /\ running /\ pc[p] = "onFail"
    /\ rates' = MarkFailing(p, rates)
    /\ pc' = [pc EXCEPT ![p] = "failed"]
    /\ UNCHANGED <<now, running, fails, resp, stamp, next, failGauge, rateGauge,
                   db, missed, req>>

\* Variant: OnRecover is not called after a streak of exactly FailStreak.
FetchSucceedsLateRecover(p) ==
    /\ running /\ pc[p] = "fetch"
    /\ \E v \in Value : resp' = [resp EXCEPT ![p] = v]
    /\ IF fails[p] > FailStreak
       THEN /\ pc' = [pc EXCEPT ![p] = "onRecover"]
            /\ UNCHANGED fails
       ELSE /\ pc' = [pc EXCEPT ![p] = "apply"]
            /\ fails' = [fails EXCEPT ![p] = 0]
    /\ UNCHANGED <<now, running, stamp, next, rates, failGauge, rateGauge, db,
                   missed, req>>

\* GetPrices returns an accepted response.  A streak below FailStreak ends here,
\* a longer one after OnRecover has run.
FetchSucceeds(p) ==
    /\ running /\ pc[p] = "fetch"
    /\ \E v \in Value : resp' = [resp EXCEPT ![p] = v]
    /\ IF fails[p] >= FailStreak
       THEN /\ pc' = [pc EXCEPT ![p] = "onRecover"]
            /\ UNCHANGED fails
       ELSE /\ pc' = [pc EXCEPT ![p] = "apply"]
            /\ fails' = [fails EXCEPT ![p] = 0]
    /\ UNCHANGED <<now, running, stamp, next, rates, failGauge, rateGauge, db,
                   missed, req>>

\* OnRecover clears the flags, before Apply stores the new price.
OnRecover(p) ==
    /\ running /\ pc[p] = "onRecover"
    /\ rates' = ClearFailing(p, rates)
    /\ fails' = [fails EXCEPT ![p] = 0]
    /\ pc' = [pc EXCEPT ![p] = "apply"]
    /\ UNCHANGED <<now, running, resp, stamp, next, failGauge, rateGauge, db,
                   missed, req>>

\* Apply, first part: the in-memory price and its timestamp.
ApplyState(p) ==
    /\ running /\ pc[p] = "apply"
    /\ rates' = UpdatePrice(p, rates, resp[p], now)
    /\ pc' = [pc EXCEPT ![p] = "gauge"]
    /\ UNCHANGED <<now, running, fails, resp, stamp, next, failGauge, rateGauge,
                   db, missed, req>>

\* Variant: no timestamp is taken for the rows.
ApplyGaugesNoStamp(p) ==
    /\ running /\ pc[p] = "gauge"
    /\ rateGauge' = [c \in Currency |-> IF c \in CurrenciesOf(p) THEN resp[p]
                                                                 ELSE rateGauge[c]]
    /\ next' = [next EXCEPT ![p] = 1]
    /\ pc' = [pc EXCEPT ![p] = "insert"]
    /\ UNCHANGED <<now, running, fails, resp, stamp, rates, failGauge, db, missed, req>>

\* Apply, second part: the gauges, then the timestamp its rows will carry.
ApplyGauges(p) ==
    /\ running /\ pc[p] = "gauge"
    /\ rateGauge' = [c \in Currency |-> IF c \in CurrenciesOf(p) THEN resp[p]
                                                                 ELSE rateGauge[c]]
    /\ stamp' = [stamp EXCEPT ![p] = now]
    /\ next' = [next EXCEPT ![p] = 1]
    /\ pc' = [pc EXCEPT ![p] = "insert"]
    /\ UNCHANGED <<now, running, fails, resp, rates, failGauge, db, missed, req>>

\* Variant: Apply returns after its first InsertRate.
AfterFirstInsert(p) ==
    /\ next' = [next EXCEPT ![p] = @ + 1]
    /\ pc' = [pc EXCEPT ![p] = "applied"]
    /\ UNCHANGED <<now, running, fails, resp, stamp, rates, failGauge, rateGauge, req>>

\* Variant: Apply goes one position too far.
AfterInsertTooFar(p) ==
    /\ next' = [next EXCEPT ![p] = @ + 1]
    /\ pc' = [pc EXCEPT ![p] = IF next[p] > Len(Applies[p]) THEN "applied" ELSE "insert"]
    /\ UNCHANGED <<now, running, fails, resp, stamp, rates, failGauge, rateGauge, req>>

\* Apply moves on to its next InsertRate, or returns after the last.
AfterInsert(p) ==
    /\ next' = [next EXCEPT ![p] = @ + 1]
    /\ pc' = [pc EXCEPT ![p] = IF next[p] = Len(Applies[p]) THEN "applied" ELSE "insert"]
    /\ UNCHANGED <<now, running, fails, resp, stamp, rates, failGauge, rateGauge, req>>

\* Variant: every row takes the time of its own insertion.
InsertRateOwnTime(p) ==
    LET c == Applies[p][next[p]] IN
    /\ running /\ pc[p] = "insert"
    /\ db' = [db EXCEPT ![c] = [value |-> resp[p], recordedAt |-> now]]
    /\ missed' = missed \ {c}
    /\ AfterInsert(p)

\* Apply, third part, once per currency: the row is written.
InsertRate(p) ==
    LET c == Applies[p][next[p]] IN
    /\ running /\ pc[p] = "insert"
    /\ db' = [db EXCEPT ![c] = [value |-> resp[p], recordedAt |-> stamp[p]]]
    /\ missed' = missed \ {c}
    /\ AfterInsert(p)

\* InsertRate returns an error: Apply logs it and goes on with the next currency.
\* The statement may have been committed all the same, its answer lost.
InsertRateFails(p) ==
    LET c == Applies[p][next[p]] IN
    /\ running /\ pc[p] = "insert"
    /\ db' \in {db, [db EXCEPT ![c] = [value |-> resp[p], recordedAt |-> stamp[p]]]}
    /\ missed' = missed \cup {c}
    /\ AfterInsert(p)

\* AfterFetch publishes the streak; the worker goes back to its timer.
AfterFetch(p) ==
    /\ running /\ pc[p] \in {"failed", "applied"}
    /\ failGauge' = [failGauge EXCEPT ![p] = fails[p]]
    /\ pc' = [pc EXCEPT ![p] = "wait"]
    /\ resp' = [resp EXCEPT ![p] = Nil]
    /\ stamp' = [stamp EXCEPT ![p] = Nil]
    /\ next' = [next EXCEPT ![p] = 1]
    /\ UNCHANGED <<now, running, fails, rates, rateGauge, db, missed, req>>

--------------------------------------------------------------------------------
(* The nightly task, as far as the newest row of a currency is concerned.  *)

\* ConsolidateDay replaces the rows of the day before by one average row at its
\* first moment.  It changes the newest row when no later one has been written.
ConsolidateDay(c) ==
    /\ running /\ c \in Consolidated
    /\ db[c] # Nil /\ db[c].recordedAt < now
    /\ \E avg \in Value, from \in 0..db[c].recordedAt :
         db' = [db EXCEPT ![c] = [value |-> avg, recordedAt |-> from]]
    /\ missed' = missed \cup {c}
    /\ UNCHANGED <<now, running, workerVars, rates, failGauge, rateGauge, req>>

--------------------------------------------------------------------------------
(* The HTTP handlers.                                                      *)

\* Variant: the age alone decides.
StoredRateEntryByAge(row, failing, threshold, t) ==
    IF row = Nil THEN [lastUpdated |-> Nil, isStale |-> TRUE]
    ELSE [lastUpdated |-> row.recordedAt, isStale |-> t - row.recordedAt > threshold]

\* toStoredRateEntry.
StoredRateEntry(row, failing, threshold, t) ==
    IF row = Nil THEN [lastUpdated |-> Nil, isStale |-> TRUE]
    ELSE [lastUpdated |-> row.recordedAt,
          isStale |-> failing \/ t - row.recordedAt > threshold]

\* Variant: the age alone decides.
IsStaleByAge(d, threshold, t) ==
    d.lastUpdated = Nil \/ t - d.lastUpdated > threshold

\* isStale.
IsStale(d, threshold, t) ==
    \/ d.providerFailing
    \/ d.lastUpdated = Nil
    \/ t - d.lastUpdated > threshold

\* The currencies GetHealth lists as stale.
HealthStale(r, t) == {c \in Currency : IsStale(r[c], Threshold[ProviderOf(c)], t)}

\* GetRates asks for every currency, GetRatesCurrency for one; both query the
\* newest rows of all currencies first.
QueryLatest(k) ==
    /\ running /\ req[k].stage = "idle"
    /\ \E want \in {Currency} \cup {{c} : c \in Currency} :
         req' = [req EXCEPT ![k] = [stage |-> "queried",
                                    rows |-> [c \in want |-> db[c]]]]
    /\ UNCHANGED <<now, running, workerVars, rates, failGauge, rateGauge, db, missed>>

\* The query fails: 503.
QueryFails(k) ==
    /\ running /\ req[k].stage = "idle"
    /\ req' = [req EXCEPT ![k] = [stage |-> "unavailable"]]
    /\ UNCHANGED <<now, running, workerVars, rates, failGauge, rateGauge, db, missed>>

\* The handler takes its snapshot of the state and reads the clock, two
\* consecutive statements that wait for nothing but the mutex, and answers.
AnswerRates(k) ==
    /\ running /\ req[k].stage = "queried"
    /\ req' = [req EXCEPT ![k] =
                 [stage |-> "rates",
                  entries |-> [c \in DOMAIN req[k].rows |->
                      StoredRateEntry(req[k].rows[c], rates[c].providerFailing,
                                      Threshold[ProviderOf(c)], now)]]]
    /\ UNCHANGED <<now, running, workerVars, rates, failGauge, rateGauge, db, missed>>

\* GetHealth uses the in-memory state only.
GetHealth(k) ==
    /\ running /\ req[k].stage = "idle"
    /\ req' = [req EXCEPT ![k] = [stage |-> "health", stale |-> HealthStale(rates, now)]]
    /\ UNCHANGED <<now, running, workerVars, rates, failGauge, rateGauge, db, missed>>

\* The client has its answer and may ask again.
Receive(k) ==
    /\ req[k].stage \in {"rates", "health", "unavailable"}
    /\ req' = [req EXCEPT ![k] = IdleRequest]
    /\ UNCHANGED <<now, running, workerVars, rates, failGauge, rateGauge, db, missed>>

--------------------------------------------------------------------------------
(* The process and the clock.                                              *)

Tick ==
    /\ now < MaxTime
    /\ now' = now + 1
    /\ UNCHANGED <<running, workerVars, rates, failGauge, rateGauge, db, missed, req>>

\* The prices that were accepted but whose rows die with the process.
Unpersisted(p) ==
    IF pc[p] \in {"onRecover", "apply", "gauge"} THEN CurrenciesOf(p)
    ELSE IF pc[p] = "insert" THEN {Applies[p][i] : i \in next[p]..Len(Applies[p])}
    ELSE {}

\* The process dies: memory, metrics and requests in flight are gone.
Crash ==
    /\ running
    /\ running' = FALSE
    /\ pc' = [p \in Provider |-> "wait"]
    /\ fails' = [p \in Provider |-> 0]
    /\ resp' = [p \in Provider |-> Nil]
    /\ stamp' = [p \in Provider |-> Nil]
    /\ next' = [p \in Provider |-> 1]
    /\ rates' = NewState
    /\ failGauge' = [p \in Provider |-> 0]
    /\ rateGauge' = [c \in Currency |-> Nil]
    /\ req' = [k \in Client |-> IdleRequest]
    /\ missed' = missed \cup UNION {Unpersisted(p) : p \in Provider}
    /\ UNCHANGED <<now, db>>

\* main: every worker starts with its initial fetch.
Start ==
    /\ ~running
    /\ running' = TRUE
    /\ pc' = [p \in Provider |-> "fetch"]
    /\ UNCHANGED <<now, fails, resp, stamp, next, failGauge, rateGauge, db, missed, req>>

\* The warm-up query answers: its rows are handed to WarmUp under the names of
\* the currency column.
WarmStart == Start /\ rates' = WarmUp(NewState, LatestRates)

\* The warm-up query fails: the state starts empty.
ColdStart == Start /\ rates' = NewState

Init ==
    /\ now = 0
    /\ running = FALSE
    /\ pc = [p \in Provider |-> "wait"]
    /\ fails = [p \in Provider |-> 0]
    /\ resp = [p \in Provider |-> Nil]
    /\ stamp = [p \in Provider |-> Nil]
    /\ next = [p \in Provider |-> 1]
    /\ rates = NewState
    /\ failGauge = [p \in Provider |-> 0]
    /\ rateGauge = [c \in Currency |-> Nil]
    /\ db = [c \in Currency |-> Nil]
    /\ missed = {}
    /\ req = [k \in Client |-> IdleRequest]

Worker(p) ==
    \/ BeginFetch(p)
    \/ FetchFails(p)
    \/ OnFail(p)
    \/ FetchSucceeds(p)
    \/ OnRecover(p)
    \/ ApplyState(p)
    \/ ApplyGauges(p)
    \/ InsertRate(p)
    \/ InsertRateFails(p)
    \/ AfterFetch(p)

Request(k) ==
    \/ QueryLatest(k)
    \/ QueryFails(k)
    \/ AnswerRates(k)
    \/ GetHealth(k)
    \/ Receive(k)

Next ==
    \/ \E p \in Provider : Worker(p)
    \/ \E k \in Client : Request(k)
    \/ \E c \in Currency : ConsolidateDay(c)
    \/ Tick
    \/ Crash
    \/ WarmStart
    \/ ColdStart

Spec == Init /\ [][Next]_vars

\* What the Go scheduler justifies: a worker whose step is enabled takes it, and
\* the container runtime restarts the process.  A provider that is asked again and
\* again answers now and then, and so does the database: strong fairness of
\* FetchSucceeds and of each position's InsertRate.
Fairness ==
    /\ \A p \in Provider :
         /\ WF_vars(Worker(p))
         /\ SF_vars(FetchSucceeds(p))
         /\ \A i \in 1..Len(Applies[p]) : SF_vars(next[p] = i /\ InsertRate(p))
    /\ WF_vars(WarmStart \/ ColdStart)

FairSpec == Spec /\ Fairness

--------------------------------------------------------------------------------
(* Properties.                                                             *)

AnswerAbout(S) ==
    [stage : {"idle", "unavailable"}]
    \cup [stage : {"queried"}, rows : [S -> Row \cup {Nil}]]
    \cup [stage : {"rates"}, entries : [S -> Entry]]
    \cup [stage : {"health"}, stale : SUBSET Currency]

\* Every variable stays within its type.
TypeOK ==
    /\ now \in Nat
    /\ running \in BOOLEAN
    /\ pc \in [Provider -> WorkerStep]
    /\ fails \in [Provider -> Nat]
    /\ resp \in [Provider -> Value \cup {Nil}]
    /\ stamp \in [Provider -> Nat \cup {Nil}]
    /\ next \in [Provider -> Nat]
    /\ rates \in [Currency -> RateData]
    /\ failGauge \in [Provider -> Nat]
    /\ rateGauge \in [Currency -> Value \cup {Nil}]
    /\ db \in [Currency -> Row \cup {Nil}]
    /\ missed \in SUBSET Currency
    /\ req = [k \in Client |-> req[k]]
    /\ \A k \in Client : \E S \in SUBSET Currency : req[k] \in AnswerAbout(S)

Progress(p) ==
    /\ ~running => pc[p] = "wait" /\ fails[p] = 0
    /\ pc[p] \in Applying \cup {"onRecover"} => resp[p] \in Value
    /\ pc[p] \in {"gauge", "insert"} =>
         \A c \in CurrenciesOf(p) :
            rates[c].value = resp[p] /\ rates[c].lastUpdated \in 0..now
    /\ pc[p] = "insert" =>
         /\ next[p] \in 1..Len(Applies[p])
         /\ stamp[p] \in 0..now
         /\ \A c \in CurrenciesOf(p) : rates[c].lastUpdated <= stamp[p]
         /\ \A i \in 1..(next[p] - 1) :
              Applies[p][i] \notin missed =>
                db[Applies[p][i]] = [value |-> resp[p], recordedAt |-> stamp[p]]

\* How far a worker has come is what memory and the rows show: a process that is
\* down has no streak; from ApplyState on, memory holds the response's price under
\* a moment no later than the one its rows carry; the rows before next are written,
\* or known to be lost.
ApplyProgress == \A p \in Provider : Progress(p)

FlagOf(p) ==
    \A c \in CurrenciesOf(p) :
        IF pc[p] = "onFail" THEN fails[p] >= FailStreak
        ELSE rates[c].providerFailing = (fails[p] >= FailStreak)

\* A currency is flagged exactly while its provider's streak is at least
\* FailStreak, except between the third failure and OnFail (worker.go counts
\* before it calls back), and all currencies of a provider agree.
FlagTracksStreak == \A p \in Provider : FlagOf(p)

StoreOf(p) ==
    \A c \in CurrenciesOf(p) \ missed :
        pc[p] \notin Applying /\ rates[c].lastUpdated # Nil =>
            /\ db[c] # Nil
            /\ db[c].value = rates[c].value
            /\ db[c].recordedAt >= rates[c].lastUpdated

\* Once a price has been applied, and unless a row of it is still being written
\* or is lost (a failed InsertRate, a crash, an average in its place), the price in
\* memory is the one the newest row holds, and the row is not older than the
\* memory's timestamp.
StateMatchesStore == \A p \in Provider : StoreOf(p)

RowsOf(p) ==
    \A c, d \in CurrenciesOf(p) \ missed :
        pc[p] # "insert" /\ db[c] # Nil =>
            db[d] # Nil /\ db[d].recordedAt = db[c].recordedAt

\* The rows a provider's Apply writes one by one (main.go inserts USD, then EUR)
\* end up together: outside the insertions, two currencies of a provider have
\* newest rows of different fetches only if one of them lost a row.
RowsOfOneFetch == \A p \in Provider : RowsOf(p)

\* What the currencies of each provider show, and how many failures it is from its last
\* success.
Board == INSTANCE RateBoard WITH
             streak <- fails,
             quotes <- [p \in Provider |-> {rates[c] : c \in CurrenciesOf(p)}]

\* The callbacks keep their promise in whatever order the workers' steps, requests,
\* crashes and the nightly task interleave: each provider's currencies change together,
\* its price only while it is not flagged, and the flag after three failures in a row.
OneQuotePerProvider == Board!Spec

\* An entry /rates calls fresh has a row within the threshold of its provider,
\* and the provider is not in a streak of FailStreak failures, at the moment
\* of the answer, whatever happened between the query and the snapshot.
FreshAnswer ==
    [][\A k \in Client : req'[k].stage = "rates" /\ req'[k] # req[k] =>
         \A p \in Provider : \A c \in CurrenciesOf(p) \cap DOMAIN req'[k].entries :
            ~req'[k].entries[c].isStale =>
                /\ now - req'[k].entries[c].lastUpdated <= Threshold[p]
                /\ fails[p] < FailStreak \/ pc[p] = "onFail"]_vars

\* When /health reports no stale currency, every provider has delivered to this
\* process within its threshold and none is in a streak of FailStreak failures.
HealthyAnswer ==
    [][\A k \in Client : req'[k].stage = "health" /\ req'[k] # req[k] =>
         (req'[k].stale = {} =>
            \A p \in Provider : \A c \in CurrenciesOf(p) :
                /\ rates[c].lastUpdated # Nil
                /\ now - rates[c].lastUpdated <= Threshold[p]
                /\ fails[p] < FailStreak \/ pc[p] = "onFail")]_vars

\* /health, which judges memory, and /rates, which judges rows, agree but for rows that
\* are lost or still being written: when no currency is stale in memory, no other row is
\* one that /rates would call stale at that moment.
HealthyUnlessLost ==
    [][\A k \in Client : req'[k].stage = "health" /\ req'[k] # req[k] =>
         (req'[k].stale = {} =>
            \A p \in Provider : \A c \in CurrenciesOf(p) \ missed :
                pc[p] \notin Applying =>
                    ~StoredRateEntry(db[c], rates[c].providerFailing, Threshold[p], now).isStale)]_vars

\* A process that starts over with a working database holds, for every stored
\* currency, the value and the timestamp of its newest row ("Pre-load the
\* in-memory cache from the latest persisted values", main.go).
WarmStartLoadsRows ==
    [][WarmStart =>
         \A c \in Currency : db[c] # Nil =>
            /\ rates'[c].value = db[c].value
            /\ rates'[c].lastUpdated = db[c].recordedAt]_vars

\* /health is healthy only if "every rate is fresh" (openapi.yaml): outside the
\* fetches, no rate has a row that /rates would call stale at that moment, or none.
HealthyMeansFreshRows ==
    [][\A k \in Client : req'[k].stage = "health" /\ req'[k] # req[k] =>
         (req'[k].stale = {} /\ (\A p \in Provider : pc[p] = "wait") =>
            \A c \in Currency :
                ~StoredRateEntry(db[c], rates[c].providerFailing,
                                 Threshold[ProviderOf(c)], now).isStale)]_vars

\* If the process stays up, no provider stays flagged, and every provider's
\* currencies come to have a timestamp: a worker never gets stuck in its loop,
\* whatever the others do and whichever InsertRate fails.
ProvidersRecover ==
    <>[]running =>
        \A p \in Provider : \A c \in CurrenciesOf(p) :
            []<>(~rates[c].providerFailing /\ rates[c].lastUpdated # Nil)

\* If the process stays up, a row that was lost is made up for by a later fetch:
\* Apply writes every currency again, not only those that failed before.
RowsCatchUp ==
    <>[]running => \A c \in Currency : []<>(db[c] # Nil /\ c \notin missed)
================================================================================
