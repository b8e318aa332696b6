----------------------------- MODULE BinanceTicker -----------------------------
(***************************************************************************)
(* The pace of the Binance job: the initial fetch and the ticker loop of   *)
(* StartPriceWorker (internal/worker/worker.go), with the period and the   *)
(* Apply callback main.go gives it and the threshold of handlers.go.       *)
(*                                                                         *)
(* Time is in seconds.  The clock jumps to the next moment at which the    *)
(* worker gets its answer or the ticker fires; code that waits for nothing *)
(* takes no time.                                                          *)
(***************************************************************************)
EXTENDS Integers, FiniteSetsExt

CONSTANTS
    FetchTime,    \* the seconds a GetPrices may take, requests and retries included
    InsertTime,   \* the seconds the three InsertRate of one Apply may take: no timeout
    MaxTime,      \* bound on the clock
    Nil           \* absent: no such moment yet

\* Every, of the job in main.go: 5 minutes.
Every == 300

\* stalenessBinance: 15 minutes.
stalenessBinance == 900

FailStreak == 3

ASSUME DurationsAssumption ==
    /\ FetchTime \subseteq 0..Every
    /\ InsertTime \subseteq Nat
    /\ MaxTime \in Nat
    /\ Nil \notin Int

VARIABLES
    now,           \* time.Now()
    pc,            \* the worker: in GetPrices, in Apply's InsertRate calls, in select
    until,         \* when the call it is in returns
    ticks,         \* ticks in the ticker's channel
    nextTick,      \* when the ticker fires next; Nil before NewTicker
    fails,         \* consecutiveFails
    failing,       \* providerFailing of the Binance currencies
    lastUpdated,   \* their LastUpdated in memory
    inserting,     \* history: how long the rows of the last Apply took
    begun,         \* history: when the last fetch began
    begunBefore    \* history: and the one before it

tickerVars == <<ticks, nextTick>>
rateVars == <<fails, failing, lastUpdated, inserting>>
beginVars == <<begun, begunBefore>>
vars == <<now, pc, until, tickerVars, rateVars, beginVars>>

Init ==
    /\ now = 0 /\ pc = "fetch" /\ until \in FetchTime
    /\ ticks = 0 /\ nextTick = Nil
    /\ fails = 0 /\ failing = FALSE /\ lastUpdated = Nil /\ inserting = 0
    /\ begun = 0 /\ begunBefore = Nil

--------------------------------------------------------------------------------
(* The worker.                                                             *)

\* The first return of fetch is followed by NewTicker, every one by select.
Select ==
    /\ pc' = "wait" /\ until' = Nil
    /\ nextTick' = IF nextTick = Nil THEN now + Every ELSE nextTick

FetchFails ==
    /\ pc = "fetch" /\ until = now
    /\ fails' = fails + 1
    /\ failing' = (failing \/ fails + 1 >= FailStreak)
    /\ Select
    /\ UNCHANGED <<now, ticks, lastUpdated, inserting, beginVars>>

\* OnRecover, then Apply: the prices are in memory before the rows are written.
FetchSucceeds ==
    /\ pc = "fetch" /\ until = now
    /\ fails' = 0
    /\ failing' = (failing /\ fails < FailStreak)
    /\ lastUpdated' = now
    /\ inserting' \in InsertTime
    /\ pc' = "insert" /\ until' = now + inserting'
    /\ UNCHANGED <<now, tickerVars, beginVars>>

\* The last InsertRate returns, with or without an error.
Inserted ==
    /\ pc = "insert" /\ until = now
    /\ Select
    /\ UNCHANGED <<now, ticks, rateVars, beginVars>>

\* Variant: the loop makes a new ticker for each round.
TakeTickAnew ==
    /\ pc = "wait" /\ ticks > 0
    /\ ticks' = 0 /\ nextTick' = Nil
    /\ pc' = "fetch"
    /\ \E d \in FetchTime : until' = now + d
    /\ begun' = now /\ begunBefore' = begun
    /\ UNCHANGED <<now, rateVars>>

\* case <-ticker.C.
TakeTick ==
    /\ pc = "wait" /\ ticks > 0
    /\ ticks' = ticks - 1
    /\ pc' = "fetch"
    /\ \E d \in FetchTime : until' = now + d
    /\ begun' = now /\ begunBefore' = begun
    /\ UNCHANGED <<now, nextTick, rateVars>>

--------------------------------------------------------------------------------
(* The ticker and the clock.                                               *)

\* Variant: ticks are queued.
TickFiresQueued ==
    /\ nextTick = now
    /\ ticks' = ticks + 1
    /\ nextTick' = now + Every
    /\ UNCHANGED <<now, pc, until, rateVars, beginVars>>

\* time.Ticker keeps one tick for a slow receiver and drops the others.
TickFires ==
    /\ nextTick = now
    /\ ticks' = 1
    /\ nextTick' = now + Every
    /\ UNCHANGED <<now, pc, until, rateVars, beginVars>>

\* The moments at which something happens next.
Upcoming == {until, nextTick} \ {Nil}

\* Time passes when nothing is due.
Advance ==
    /\ now \notin Upcoming
    /\ ~ (pc = "wait" /\ ticks > 0)
    /\ now' = Min(Upcoming)
    /\ now' <= MaxTime
    /\ UNCHANGED <<pc, until, tickerVars, rateVars, beginVars>>

Next == FetchFails \/ FetchSucceeds \/ Inserted \/ TakeTick \/ TickFires \/ Advance

Spec == Init /\ [][Next]_vars

--------------------------------------------------------------------------------
TypeOK ==
    /\ now \in Nat /\ pc \in {"fetch", "insert", "wait"}
    /\ IF pc = "wait" THEN until = Nil /\ nextTick # Nil ELSE until \in Nat /\ now <= until
    /\ ticks \in 0..1
    /\ nextTick \in {Nil} \union now..(now + Every)
    /\ fails \in Nat /\ failing \in BOOLEAN
    /\ lastUpdated \in {Nil} \union 0..now /\ inserting \in Nat
    /\ begun \in 0..now /\ begunBefore \in {Nil} \union 0..begun

\* A Binance rate is stale for its age only when its provider is already flagged, or
\* the third failing fetch in a row is on its way: three periods fit into
\* stalenessBinance although fetches last minutes and ticks are dropped.  Rows that
\* take long to insert delay everything after them by that time, and no more.
StaleMeansFailing ==
    (lastUpdated # Nil /\ now - lastUpdated > stalenessBinance + inserting) =>
        failing \/ (fails = FailStreak - 1 /\ pc = "fetch")

\* However long a fetch or an insertion blocks the worker, what the ticker kept for it
\* is one fetch and not a burst: three fetches never begin within one period.
NoBurst ==
    [][TakeTick => (begunBefore # Nil => now - begunBefore >= Every)]_vars
================================================================================
