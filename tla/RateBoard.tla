-------------------------------- MODULE RateBoard --------------------------------
(***************************************************************************)
(* What a job's callbacks (main.go's OnFail, OnRecover and Apply, called   *)
(* by worker.go) make of memory (state.go), without the steps they take:   *)
(* memory holds one quote for each provider, which all its currencies      *)
(* show.  A response (its prices are one Value) replaces the quote as a    *)
(* whole, and only after the streak of failures is over; a streak of three *)
(* flags it.                                                               *)
(***************************************************************************)
EXTENDS Integers

CONSTANTS
    Provider,   \* the names of the provider jobs
    Value,      \* the prices a provider can return
    Nil         \* absent: no price, no timestamp

VARIABLES
    now,        \* the clock
    streak,     \* streak[p]: failed fetches since the last success
    quotes      \* quotes[p]: what p's currencies show; a set of one quote

Quote(v, t, failing) == [value |-> v, lastUpdated |-> t, providerFailing |-> failing]

Flagged(p) == \A q \in quotes[p] : q.providerFailing

Empty ==
    /\ streak = [p \in Provider |-> 0]
    /\ quotes = [p \in Provider |-> {Quote(Nil, Nil, FALSE)}]

Init == now = 0 /\ Empty

\* A failed fetch; before a fourth one in a row the flag has been set.
Fail(p) ==
    /\ streak[p] >= 3 => Flagged(p)
    /\ streak' = [streak EXCEPT ![p] = @ + 1]
    /\ UNCHANGED <<now, quotes>>

\* OnFail: the quote is flagged, its price and timestamp stay.
Flag(p) ==
    /\ streak[p] >= 3
    /\ quotes' = [quotes EXCEPT ![p] = {Quote(q.value, q.lastUpdated, TRUE) : q \in @}]
    /\ UNCHANGED <<now, streak>>

\* A success after one or two failures, which nobody has noticed.
EndShortStreak(p) ==
    /\ streak[p] \in 1..2
    /\ streak' = [streak EXCEPT ![p] = 0]
    /\ UNCHANGED <<now, quotes>>

\* OnRecover: a success ends a streak of three or more, and with it the flag.
Recover(p) ==
    /\ streak[p] >= 3
    /\ streak' = [streak EXCEPT ![p] = 0]
    /\ quotes' = [quotes EXCEPT ![p] = {Quote(q.value, q.lastUpdated, FALSE) : q \in @}]
    /\ UNCHANGED now

\* Apply: one price under one timestamp, of a provider that is not failing.
Deliver(p) ==
    /\ streak[p] = 0
    /\ \E v \in Value : quotes' = [quotes EXCEPT ![p] = {Quote(v, now, FALSE)}]
    /\ UNCHANGED <<now, streak>>

Tick == now' = now + 1 /\ UNCHANGED <<streak, quotes>>

\* The process dies or starts: memory is empty (main.go's warm-up loads nothing).
Restart == Empty' /\ UNCHANGED now

Next ==
    \/ \E p \in Provider :
         Fail(p) \/ Flag(p) \/ EndShortStreak(p) \/ Recover(p) \/ Deliver(p)
    \/ Tick
    \/ Restart

Spec == Init /\ [][Next]_<<now, streak, quotes>>
================================================================================
