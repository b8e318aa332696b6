-------------------------- MODULE BinanceTickerProofs --------------------------
(* Theorems about BinanceTicker, for all durations that its assumption admits.   *)
EXTENDS BinanceTicker, TLAPS

\* The ticker exists from the first return of fetch on.
TickerMade ==
    /\ ticks = 1 => nextTick # Nil
    /\ begunBefore # Nil => nextTick # Nil
    /\ (pc = "fetch" /\ lastUpdated # Nil) => nextTick # Nil

\* A kept tick fired after the current fetch began.
Spaced ==
    /\ ticks = 1 => nextTick >= begun + Every
    /\ begunBefore # Nil => nextTick >= begunBefore + Every
    /\ (begunBefore # Nil /\ ticks = 1) => now >= begunBefore + Every

\* The latest moment for the fetch after the last success and the failures since.
Due == lastUpdated + inserting + Every * (fails + 1)

\* Each failure costs one period at most.
Paced ==
    lastUpdated # Nil =>
        /\ pc = "insert" => (until = lastUpdated + inserting /\ fails = 0)
        /\ pc = "wait" => (nextTick <= Due \/ (ticks = 1 /\ now <= Due))
        /\ pc = "fetch" => /\ begun <= Due /\ until <= begun + Every
                           /\ nextTick <= begun + Every \/ ticks = 1

Flagged == fails >= FailStreak => failing

IInv == TypeOK /\ TickerMade /\ Spaced /\ Paced /\ Flagged

\* The clock jumps to the first thing that is due.
LEMMA NextMoment ==
    ASSUME TypeOK
    PROVE  /\ Min(Upcoming) \in Nat
           /\ now <= Min(Upcoming)
           /\ until # Nil => Min(Upcoming) <= until
           /\ nextTick # Nil => Min(Upcoming) <= nextTick
<1>1. Upcoming \subseteq Int /\ Upcoming # {}
  BY DurationsAssumption DEF TypeOK, Upcoming, Every
<1>2. \A m \in Upcoming : m >= now
  BY DurationsAssumption DEF TypeOK, Upcoming, Every
<1>3. \E m \in Upcoming : \A n \in Upcoming : m <= n
  <2>1. CASE until \notin Upcoming
    BY <1>1, <2>1 DEF Upcoming
  <2>2. CASE nextTick \notin Upcoming
    BY <1>1, <2>2 DEF Upcoming
  <2>3. CASE until \in Upcoming /\ nextTick \in Upcoming
    <3>1. until \in Int /\ nextTick \in Int /\ \A n \in Upcoming : n = until \/ n = nextTick
      BY <1>1, <2>3 DEF Upcoming
    <3>2. CASE until <= nextTick
      BY <2>3, <3>1, <3>2
    <3>3. CASE nextTick <= until
      BY <2>3, <3>1, <3>3
    <3>4. QED
      BY <3>1, <3>2, <3>3
  <2>4. QED
    BY <2>1, <2>2, <2>3
<1>4. Min(Upcoming) \in Upcoming /\ \A n \in Upcoming : Min(Upcoming) <= n
  <2> DEFINE U == Upcoming
  <2>1. Min(U) = CHOOSE m \in U : \A n \in U : m <= n
    BY DEF Min
  <2> HIDE DEF U
  <2>2. (\E m \in U : \A n \in U : m <= n) => (Min(U) \in U /\ \A n \in U : Min(U) <= n)
    BY <2>1
  <2>3. QED
    BY <1>3, <2>2 DEF U
<1>5. now \in Nat
  BY DEF TypeOK
<1>6. Min(Upcoming) \in Nat /\ now <= Min(Upcoming)
  <2>1. Min(Upcoming) \in Int /\ Min(Upcoming) >= now
    BY <1>1, <1>2, <1>4
  <2>2. QED
    BY <1>5, <2>1
<1>7. (until # Nil => until \in Upcoming) /\ (nextTick # Nil => nextTick \in Upcoming)
  BY DEF Upcoming
<1>8. QED
  BY <1>4, <1>6, <1>7

\* The durations in numbers, and the types of what the steps compare.
LEMMA Numbers ==
    /\ Every = 300 /\ FailStreak = 3 /\ Nil \notin Int
    /\ \A d \in FetchTime : d \in Nat /\ d <= 300
    /\ \A d \in InsertTime : d \in Nat
BY DurationsAssumption DEF Every, FailStreak

LEMMA InitInv == Init => IInv
<1> SUFFICES ASSUME Init PROVE IInv
  OBVIOUS
<1>1. until \in Nat /\ until <= 300 /\ 0 <= until
  BY Numbers DEF Init
<1>2. TypeOK
  <2>0. failing \in BOOLEAN
    BY Zenon DEF Init
  <2>1. now \in Nat /\ pc = "fetch" /\ ticks \in 0..1 /\ fails \in Nat
    BY SMT DEF Init
  <2>2. IF pc = "wait" THEN until = Nil /\ nextTick # Nil ELSE until \in Nat /\ now <= until
    BY <1>1, <2>1 DEF Init
  <2>3. /\ nextTick \in {Nil} \union now..(now + Every)
        /\ lastUpdated \in {Nil} \union 0..now /\ inserting \in Nat
        /\ begun \in 0..now /\ begunBefore \in {Nil} \union 0..begun
    BY DEF Init
  <2>4. QED
    BY <2>0, <2>1, <2>2, <2>3 DEF TypeOK
<1>3. TickerMade /\ Spaced /\ Paced /\ Flagged
  BY Numbers DEF Init, TickerMade, Spaced, Paced, Flagged
<1>4. QED
  BY <1>2, <1>3 DEF IInv

LEMMA FetchFailsKeeps == IInv /\ FetchFails => IInv'
<1> SUFFICES ASSUME IInv, FetchFails PROVE IInv'
  OBVIOUS
<1>1. TypeOK'
  BY Numbers DEF IInv, FetchFails, Select, TypeOK, tickerVars, rateVars, beginVars
<1>2. TickerMade'
  BY Numbers DEF IInv, FetchFails, Select, TypeOK, TickerMade, tickerVars, rateVars, beginVars
<1>3. Spaced'
  BY Numbers, ZenonT(40) DEF IInv, FetchFails, Select, TypeOK, TickerMade, Spaced, tickerVars, rateVars, beginVars
<1>4. Paced'
  BY Numbers DEF IInv, FetchFails, Select, TypeOK, TickerMade, Paced, Due, tickerVars, rateVars, beginVars
<1>5. Flagged'
  BY Numbers DEF IInv, FetchFails, Select, TypeOK, Flagged, tickerVars, rateVars, beginVars
<1>6. QED
  BY <1>1, <1>2, <1>3, <1>4, <1>5 DEF IInv

LEMMA FetchSucceedsKeeps == IInv /\ FetchSucceeds => IInv'
<1> SUFFICES ASSUME IInv, FetchSucceeds PROVE IInv'
  OBVIOUS
<1>1. TypeOK'
  BY Numbers DEF IInv, FetchSucceeds, TypeOK, tickerVars, rateVars, beginVars
<1>2. TickerMade'
  BY Numbers DEF IInv, FetchSucceeds, TypeOK, TickerMade, tickerVars, rateVars, beginVars
<1>3. Spaced'
  BY Numbers DEF IInv, FetchSucceeds, TypeOK, TickerMade, Spaced, tickerVars, rateVars, beginVars
<1>4. Paced'
  BY Numbers DEF IInv, FetchSucceeds, TypeOK, TickerMade, Paced, Due, tickerVars, rateVars, beginVars
<1>5. Flagged'
  BY Numbers DEF IInv, FetchSucceeds, TypeOK, Flagged, tickerVars, rateVars, beginVars
<1>6. QED
  BY <1>1, <1>2, <1>3, <1>4, <1>5 DEF IInv

LEMMA InsertedKeeps == IInv /\ Inserted => IInv'
<1> SUFFICES ASSUME IInv, Inserted PROVE IInv'
  OBVIOUS
<1>1. TypeOK'
  BY Numbers DEF IInv, Inserted, Select, TypeOK, tickerVars, rateVars, beginVars
<1>2. TickerMade'
  BY Numbers DEF IInv, Inserted, Select, TypeOK, TickerMade, tickerVars, rateVars, beginVars
<1>3. Spaced'
  BY Numbers, ZenonT(40) DEF IInv, Inserted, Select, TypeOK, TickerMade, Spaced, tickerVars, rateVars, beginVars
<1>4. Paced'
  BY Numbers DEF IInv, Inserted, Select, TypeOK, TickerMade, Paced, Due, tickerVars, rateVars, beginVars
<1>5. Flagged'
  BY Numbers DEF IInv, Inserted, Select, TypeOK, Flagged, tickerVars, rateVars, beginVars
<1>6. QED
  BY <1>1, <1>2, <1>3, <1>4, <1>5 DEF IInv

LEMMA TakeTickKeeps == IInv /\ TakeTick => IInv'
<1> SUFFICES ASSUME IInv, TakeTick PROVE IInv'
  OBVIOUS
<1>1. TypeOK'
  BY Numbers DEF IInv, TakeTick, TypeOK, tickerVars, rateVars, beginVars
<1>2. TickerMade'
  BY Numbers DEF IInv, TakeTick, TypeOK, TickerMade, tickerVars, rateVars, beginVars
<1>3. Spaced'
  BY Numbers DEF IInv, TakeTick, TypeOK, TickerMade, Spaced, tickerVars, rateVars, beginVars
<1>4. Paced'
  BY Numbers DEF IInv, TakeTick, TypeOK, TickerMade, Paced, Due, tickerVars, rateVars, beginVars
<1>5. Flagged'
  BY Numbers DEF IInv, TakeTick, TypeOK, Flagged, tickerVars, rateVars, beginVars
<1>6. QED
  BY <1>1, <1>2, <1>3, <1>4, <1>5 DEF IInv

LEMMA TickFiresKeeps == IInv /\ TickFires => IInv'
<1> SUFFICES ASSUME IInv, TickFires PROVE IInv'
  OBVIOUS
<1>1. TypeOK'
  BY Numbers DEF IInv, TickFires, TypeOK, tickerVars, rateVars, beginVars
<1>2. TickerMade'
  BY Numbers DEF IInv, TickFires, TypeOK, TickerMade, tickerVars, rateVars, beginVars
<1>3. Spaced'
  BY Numbers DEF IInv, TickFires, TypeOK, TickerMade, Spaced, tickerVars, rateVars, beginVars
<1>4. Paced'
  BY Numbers DEF IInv, TickFires, TypeOK, TickerMade, Paced, Due, tickerVars, rateVars, beginVars
<1>5. Flagged'
  BY Numbers DEF IInv, TickFires, TypeOK, Flagged, tickerVars, rateVars, beginVars
<1>6. QED
  BY <1>1, <1>2, <1>3, <1>4, <1>5 DEF IInv

LEMMA AdvanceKeeps == IInv /\ Advance => IInv'
<1> SUFFICES ASSUME IInv, Advance PROVE IInv'
  OBVIOUS
<1>0. /\ now' \in Nat /\ now <= now'
      /\ until # Nil => now' <= until
      /\ nextTick # Nil => now' <= nextTick
  <2>1. TypeOK /\ now' = Min(Upcoming)
    BY DEF IInv, Advance
  <2>2. QED
    BY <2>1, NextMoment
<1>1. TypeOK'
  <2>1. /\ UNCHANGED <<pc, until, ticks, nextTick, fails, failing, lastUpdated,
                       inserting, begun, begunBefore>>
        /\ TypeOK
    BY DEF IInv, Advance, tickerVars, rateVars, beginVars
  <2>2. nextTick # Nil => nextTick \in Int /\ nextTick <= now + 300
    BY <2>1, Numbers DEF TypeOK
  <2>3. nextTick' \in {Nil} \union now'..(now' + Every)
    BY <1>0, <2>1, <2>2, Numbers DEF TypeOK
  <2>4. IF pc' = "wait" THEN until' = Nil /\ nextTick' # Nil ELSE until' \in Nat /\ now' <= until'
    BY <1>0, <2>1, Numbers DEF TypeOK
  <2>5. /\ lastUpdated' \in {Nil} \union 0..now'
        /\ begun' \in 0..now'
        /\ begunBefore' \in {Nil} \union 0..begun'
    BY <1>0, <2>1, Numbers DEF TypeOK
  <2>6. QED
    BY <1>0, <2>1, <2>3, <2>4, <2>5 DEF TypeOK
<1>2. TickerMade'
  BY <1>0, Numbers DEF IInv, Advance, TypeOK, TickerMade, tickerVars, rateVars, beginVars
<1>3. Spaced'
  BY <1>0, Numbers DEF IInv, Advance, TypeOK, TickerMade, Spaced, tickerVars, rateVars, beginVars
<1>4. Paced'
  BY <1>0, Numbers DEF IInv, Advance, TypeOK, TickerMade, Paced, Due, tickerVars, rateVars, beginVars
<1>5. Flagged'
  BY Numbers DEF IInv, Advance, TypeOK, Flagged, tickerVars, rateVars, beginVars
<1>6. QED
  BY <1>1, <1>2, <1>3, <1>4, <1>5 DEF IInv

LEMMA Step == IInv /\ [Next]_vars => IInv'
<1>1. IInv /\ UNCHANGED vars => IInv'
  BY DEF IInv, TypeOK, TickerMade, Spaced, Paced, Due, Flagged, vars, tickerVars,
         rateVars, beginVars
<1>2. QED
  BY <1>1, FetchFailsKeeps, FetchSucceedsKeeps, InsertedKeeps, TakeTickKeeps, TickFiresKeeps, AdvanceKeeps DEF Next

LEMMA Inductive == Spec => []IInv
BY InitInv, Step, PTL DEF Spec

\* Type correctness: the channel never holds two ticks, and the ticker is never late.
THEOREM TypeCorrect == Spec => []TypeOK
<1>1. IInv => TypeOK
  BY DEF IInv
<1>2. QED
  BY Inductive, <1>1, PTL

\* For all fetches of at most one period and all insertion times: a Binance rate that
\* is stale for its age belongs to a provider flagged as failing, or about to be.
THEOREM StaleRatesAreFlagged == Spec => []StaleMeansFailing
<1>1. IInv => StaleMeansFailing
  <2> SUFFICES ASSUME IInv, lastUpdated # Nil,
                      now - lastUpdated > stalenessBinance + inserting, ~failing
               PROVE  fails = FailStreak - 1 /\ pc = "fetch"
    BY DEF StaleMeansFailing
  <2>1. /\ now \in Nat /\ lastUpdated \in Nat /\ inserting \in Nat /\ fails \in Nat
        /\ begun \in Nat /\ pc \in {"fetch", "insert", "wait"}
        /\ nextTick # Nil => nextTick \in Nat /\ now <= nextTick
        /\ pc # "wait" => until \in Nat /\ now <= until
        /\ pc = "wait" => nextTick # Nil
    BY Numbers DEF IInv, TypeOK
  <2>2. fails <= 2
    BY <2>1, Numbers DEF IInv, Flagged
  <2>3. now > lastUpdated + inserting + 900
    BY <2>1 DEF stalenessBinance
  <2>4. pc # "insert"
    BY <2>1, <2>3 DEF IInv, Paced
  <2>5. pc # "wait"
    BY <2>1, <2>2, <2>3, Numbers DEF IInv, Paced, Due
  <2>6. pc = "fetch" /\ lastUpdated + inserting + 300 * (fails + 1) + 300 >= now
    BY <2>1, <2>4, <2>5, Numbers DEF IInv, Paced, Due
  <2>7. fails = 2
    BY <2>1, <2>2, <2>3, <2>6
  <2>8. QED
    BY <2>6, <2>7, Numbers
<1>2. QED
  BY Inductive, <1>1, PTL

\* For all durations of fetches and insertions: of three fetches in a row, the third
\* begins at least one period after the first.
THEOREM FetchesNeverBurst == Spec => NoBurst
<1>1. IInv /\ [Next]_vars => [TakeTick => (begunBefore # Nil => now - begunBefore >= Every)]_vars
  <2> SUFFICES ASSUME IInv, TakeTick, begunBefore # Nil
               PROVE  now - begunBefore >= Every
    OBVIOUS
  <2>1. ticks = 1 /\ now \in Nat /\ begunBefore \in Nat
    BY Numbers DEF IInv, TypeOK, TakeTick
  <2>2. now >= begunBefore + Every
    BY <2>1 DEF IInv, Spaced
  <2>3. QED
    BY <2>1, <2>2, Numbers
<1>2. QED
  BY Inductive, <1>1, PTL DEF Spec, NoBurst
================================================================================
