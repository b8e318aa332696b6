# ve-xchange-api in TLA+

The service fetches Venezuelan exchange rates from two providers (the central
bank BCV once a day, Binance P2P every five minutes), keeps the latest ones in
memory and in PostgreSQL, averages each day's Binance rows at night and serves
everything over HTTP. These modules model its workers, its shared state, its
schedules and its database transactions; TLC checks them on small instances and
TLAPS proves the main results for all values of the constants.
`PROJECT.json` lists runs, theorems, hazards and, under `map`, the source lines
of each definition.

## Inventory

| Component | State | Operations | Interacts with |
|---|---|---|---|
| Price worker, `internal/worker` | per goroutine: the streak `consecutiveFails`, a timer or ticker, the window's deadline | `fetch` (GetPrices, ValidateScheduled, OnFail, OnRecover, Apply, AfterFetch), `runBusinessWindow`, ticker loop | calls the provider; its callbacks write state, metrics and rows |
| State, `internal/state` | five `RateData` behind a mutex | `WarmUp`, `Update*Price`, `Mark*Failing`, `Clear*Failing`, `GetRates` | written by the workers and main, read by the handlers |
| Handlers, `internal/handler` | none of their own | `GetRates`, `GetRatesCurrency`, `GetHealth`, history | read rows first, then the state's snapshot |
| Store, `internal/db` | table `prices_history` | `InsertRate`, `GetLatestRates`, `GetHistory`, `ConsolidateDay` | used by workers, handlers, the task |
| Task worker and consolidation, `internal/worker`, `cmd/server/main.go` | a timer; the transaction | every night at 01:00 UTC-4: `ConsolidateDay` for three currencies | shares the table with the Binance worker |
| Wiring and lifecycle, `cmd/server/main.go` | `ctx`, `serverErrCh`, two WaitGroups, the connection pool of `internal/db` | migrations, connection, warm-up, start of goroutines and listener; signal, `server.Shutdown`, the two waits, `Close` | everything |
| BCV validation, `internal/provider/bcv.go` | none | `ValidateBCVPublication`, `nextBusinessDate` | called by scheduled fetches |
| BCV provider, `bcvProvider.go` | none | one page within `withRetry`; amounts and effective date read off it | called by the BCV worker |
| Binance provider, `binanceProvider.go` | `collectedPrices` of one GetPrices | two pages of offers for each of two trade types, each with `withRetry`; three averages | called by the Binance worker |
| DolarAPI provider, `dolarApiProvider.go` | none | one list with `withRetry` | no job any more |
| Metrics, API, config, migrations, containers | gauges and counters; declarations | | |

What makes each of them correct:

- *worker and state*: a currency is flagged as failing exactly while its
  provider's streak is three or more; one provider's currencies agree; the flag
  is cleared again when the provider answers.
- *state and store*: memory and the newest row agree unless a row was lost;
  rows that were lost are made up for; rows of one response carry one timestamp.
- *handlers*: an answer never calls a rate fresh that is not, although it
  combines a query with a later snapshot; a healthy service has fresh rates.
- *schedules*: attempts stay in the window, a retry never falls on its closing
  time, what is published in time is fetched and ends a flag, no rate turns stale in
  normal operation, a slow fetch or database leads neither to a stale rate that is not
  flagged nor to a burst of requests; every row is averaged by one night and is
  found under its date.
- *providers*: all rates of a response or an error; an average is of all offers;
  an amount means what the page says, as closely as a float64 can; GetPrices ends
  within the time that the schedules assume.
- *lifecycle*: nothing uses the store after it is closed, requests are drained,
  a signal at any moment ends the process and does not kill it, no request starves.
- *consolidation*: four statements act as one; no price is lost or counted
  twice, whatever fails or is repeated.

The hard behaviours are the interleavings of workers and requests between the
critical sections, the partial failure of sequential inserts, commits without an
answer, crashes and restarts at any point, the boundaries of the time
arithmetic, statements of a READ COMMITTED transaction that see different
rows, ticks dropped and kept while a worker is blocked, retries whose time adds
up, and a shutdown with work in flight. `hazards` in `PROJECT.json` lists them at the lines where they bite.

## Modules

| Module | Models | Runs |
|---|---|---|
| `RateBoard` | abstract: what the callbacks of a job promise of memory | as the property `OneQuotePerProvider` |
| `RateService` | workers' fetch, state, newest rows, handlers, crash and start | `RateSafety`, `RateLive`, `RateWarmStart`, `RateHealth` |
| `Schedule` | time arithmetic of `worker.go` and `bcv.go`, pure operators | `Schedule` |
| `BcvSchedule` (extends `Schedule`) | the BCV job over days: initial fetch, window, retries, validation, the bank | `Bcv`, `BcvRepeat` |
| `BinanceTicker` | the pace of the Binance job: initial fetch, ticker, dropped and kept ticks, inserts that block | `BinanceTicker` |
| `PriceHistory` | abstract: what `db.Store` promises of raw and average rows | as the property `AtomicConsolidation` |
| `Consolidation` | the nightly task against the inserting worker; implements `PriceHistory` | `Consolidation`, `ConsolidationLate` |
| `BcvPage` | what is read off the bank's page, pure operators, and what a reader sees there | by `ProviderFetch` |
| `ProviderFetch` (extends `BcvPage`) | one GetPrices of the three providers: requests, `withRetry`, answers, averages | `ProviderFetch` |
| `Lifecycle` | start and shutdown of the process, the goroutines and requests that share the pool | `Lifecycle` |
| `MC*` | constants of the runs | |
| `*Proofs` | theorems about the module of that name (`MCScheduleProofs`: about the `Schedule` run) | |

A definition whose comment begins with "Variant" is a wrong version of the next
one. No specification uses it; it stands for a plausible mistake that the
property named with it in `mutants` must notice.

### RateService

One action is one critical section of the mutex, one SQL statement or one local
step of a worker. `pc[p]` walks through the fetch closure:

    wait -> fetch -> onFail -> failed -> wait
                  -> failed
                  -> onRecover -> apply -> gauge -> insert ... -> applied -> wait
                  -> apply

| Variable | Code |
|---|---|
| `pc`, `fails`, `resp`, `stamp`, `next` | a worker's position, `consecutiveFails`, the response, Apply's `now`, which InsertRate is next |
| `rates` | `State.rates` |
| `failGauge`, `rateGauge` | the two gauges of `metrics.go` that callbacks set |
| `db` | the row of each currency that `GetLatestRates` selects |
| `req` | an HTTP request between its query and its answer |
| `running`, `now` | the process, the clock |
| `missed` | history variable: currencies whose last accepted price may have no row |

`missed` is what makes the agreement of memory and rows statable: it is set by a
failed InsertRate, a crash before the row, or the average that replaces the row,
and reset when a row is written. Of the nightly task only its effect on the
newest row is here (`ConsolidateDay(c)`), for the currencies in `Consolidated`.
When a timer fires is left open: a fetch begins whenever the worker is idle.
`GetRates` and `GetRatesCurrency` are one pair of actions, for a set of
currencies or for one. The snapshot and the reading of the clock are one step:
two consecutive statements that wait for nothing but the mutex.

`RateBoard` is what the callbacks of a job promise together: memory shows one quote
(price, timestamp, flag) per provider, which is replaced as a whole under a streak of
zero, flagged in a streak of three or more and unflagged by the success that ends
it. `OneQuotePerProvider` maps the streak to `fails` and a provider's quotes to the set
of what its currencies hold; that it has one member is part of what is shown.

### Schedule and BcvSchedule

`Schedule` counts minutes since a Monday's midnight in UTC-4. Every zone the
service uses is a fixed offset, so days have 1440 minutes. `BcvSchedule` makes a
fetch one step that lasts some minutes of the clock. Its clock jumps to the next
moment at which something may happen (the timer, a publication, a restart, the
closing time). The bank publishes on weekdays at times in `PublishAt`, and what
it publishes is the next business day's rate or, before a holiday, the one
after. A restart is instantaneous, and memory is empty until the initial fetch,
because the warm-up loads nothing (see `RateWarmStart`). An accepted fetch always
updates memory, and it stores its rows or the database refuses one of them: main.go
only logs that, `fetch` returns true, and the worker sleeps until the next opening.
`stored` is the date of the newest rates with all their rows, and the history variable
`lost` says that the last fetch was such a one.

Beside the timers `Schedule` has the two readings of a date that meet in the
table: the nightly task averages days of UTC-4 (`consolidationWindow`), the
history endpoint parses its dates in UTC (`historyRange`).

### BinanceTicker

Time is in seconds and jumps to the next moment at which a call returns or the
ticker fires. `pc` is in GetPrices (`fetch`), in the three InsertRate of an Apply
(`insert`) or in the loop's select (`wait`). NewTicker comes after the first
fetch. A `time.Ticker` holds one tick for a receiver that is late and drops the
others, and it goes on firing at multiples of its period: `TickFires` sets
`ticks` to 1. `begun` and `begunBefore` are history variables. How long a
GetPrices may take is not guessed: `ProviderFetch` bounds one that makes four
requests by 132 seconds, and the assumption here, at most one period, is weaker.

### BcvPage and ProviderFetch

A text is a short sequence of digits, separators and other characters: the
conversion is what `parseLocalizedNumber` does, reading from left to right, and the
reference (`Written`) counts each digit by its place. `amount` is the number a text
stands for, as a quotient, and `nearestFloat` what `strconv.ParseFloat` makes of it:
the float64 nearest to it, which may be zero, or an error when it is out of range.
`Precision`, `Bias` and `MaxExponent` are 53, 1074 and 2045 in Go and small in the run, so
that some of its short texts are rounded, some become zero and some are out of range. The loops over a text, over the
offers of an answer and over the prices of an average are recursive functions
(`read`, `response`, `total`) whose values are what the loop has after each element. `ProviderFetch` makes one attempt one step.
`AttemptFails` is any error of `fn` inside withRetry (timeout, status, a body that
cannot be decoded, a BCV page that cannot be read); an answer leaves withRetry
and is judged by its provider, where Binance's answers without success or
without prices are errors that nobody retries. The order of the four P2P requests
is `p2pRequests`. A Binance or
DolarAPI rate is `<<sum, count>>`; a sum beyond `MaxFloat` is infinite, and the rounding of
float64 additions is left out: which offers count is what the properties are about.

### Lifecycle

`main` goes through migrate, connect, warm, serve, drain, workers, task, close
and exited, or is killed. A client (worker, task or request) acquires a connection, queries and
gives it back. What the statements do to rows is the subject of the other
modules; how often they occur is not (`Statements`). `TimerFires` may be taken
although ctx is cancelled, as Go's select chooses at random among ready cases,
and the initial fetch starts without looking at ctx. A cancelled ctx makes a
job's statement fail, whether it waits for a connection or runs
(`StatementAborts`); a request's context is its own. `Close` waits for connections
that are in use. A signal cancels ctx and further ones are swallowed while NotifyContext
is `registered`. The `stop()` of main.go:238, after a failed listener, cancels ctx and ends
the registration: from then on a signal kills the process where it is. (SIGKILL, which
no code sees, is left out.) The pool, the signal and `server.Shutdown` belong to libraries
and are modelled from how this code uses them.

### PriceHistory and Consolidation

A price is not a number but the fetch it was observed by, and an average is the
set of fetches it was computed of. That is what the properties tell apart: lost,
counted twice, averaged twice. `Consolidation` executes ConsolidateDay's
statements one at a time; `deleted` holds what the transaction has deleted but
nobody else sees before `Commit`. A crash or an error rolls back; a commit may
take effect without an answer (`CommitUnanswered`); the task may fire again in
the same night, in a restarted process or when the wall clock is set back.
The refinement is the identity on `rows`.

## Runs

| Run | Instance | States | Shows |
|---|---|---|---|
| `RateSafety` | 1 job, 2 currencies, 2 prices (symmetric), 1 client, clock 0..2, threshold 1, up to 4 failures | 838,731 | types, the safety and answer properties below, refinement of `RateBoard` |
| `RateLive` | 2 jobs (2 and 1 currencies), 1 price, no clock, up to 3 failures | 87,763 | `ProvidersRecover`, `RowsCatchUp` |
| `RateWarmStart` | BCV job, clock 0..1 | | **violated**: the warm-up loads nothing |
| `RateHealth` | BCV job, 1 client | | **violated**: `/health` is healthy while `/rates` has no row or calls it stale |
| `Schedule` | every minute of a week | 10,081 | the five properties of the arithmetic |
| `Bcv` | Wednesday to Monday, fetches of 0 or 1 minute, refused rows, publications at 16:00 and 18:20, a restart at 16:59 or 18:10 | 2,069,141 | attempts, age, publications, flags |
| `BcvRepeat` | Wednesday to Monday, no restart | | **violated**: Friday's rates are recorded again on Saturday |
| `BinanceTicker` | one hour, fetches of 0, 33 or 132 s, inserts of 0, 300 or 700 s | 673,032 | types, `StaleMeansFailing`, `NoBurst` |
| `ProviderFetch` | three providers, attempts of 0 or 10 s, every amount of fives and separators up to five characters, seven contents of a P2P answer, floating-point numbers of 4 bits | 92,302 | types and the five properties of GetPrices |
| `Consolidation` | 2 currencies, 3 days, 3 fetches | 1,603,721 | types, three invariants, refinement of `PriceHistory` |
| `ConsolidationLate` | 1 currency, 2 days, 2 fetches, inserts of any duration | | **violated**: a late row is deleted without being averaged |
| `Lifecycle` | 2 workers, the task, 2 requests, 2 connections, rounds of 2 statements | 49,238 | types, two safety and two liveness properties |

What the properties say:

- `ApplyProgress`: how far a worker has come is what memory and rows show.
- `FlagTracksStreak`: flagged exactly while the streak is at least three, except
  between the third failure and OnFail.
- `StateMatchesStore`, `RowsOfOneFetch`: memory and rows, and the rows of one
  provider, differ only where a row was lost or is being written.
- `FreshAnswer`, `HealthyAnswer`: what an answer claims is true at its moment.
- `HealthyUnlessLost`: what remains of finding 2. A healthy answer does mean fresh
  rows, except for rows that were lost or are being written.
- `OneQuotePerProvider`: the currencies of a provider change together, their price only
  while they are not flagged, and the flag goes up before a fourth failure.
- `AttemptsInWindow`: scheduled fetches begin from 17:00 to before 19:00, and a
  retry on the day whose deadline it was measured against.
- `AgeImpliesFailing`: memory older than 26 hours belongs to a provider already
  flagged; the threshold alone never makes a rate in memory stale. It is not about
  rows: after a restart whose initial fetch fails, memory has no timestamp, and the rows
  of the day before grow old without a flag.
- `PublishedIsStored`: what the bank published before the last retry is stored
  at closing time, unless that retry reached no page or the database refused one of its
  rows, which nothing asks for again that evening. It asks that the process's
  initial fetch ended before 17:00: one that starts later sleeps until the next
  day, which is what the code does.
- `HealthyAfterPublication`: under the same conditions, and whether or not the rows were
  stored, the provider is not flagged at closing time and memory is of that evening. The
  evenings before a holiday raise the flag, as the code counts a rejected page as a
  failure; the first publication that is accepted ends it, whatever the streak was.
- `EveryObservationOnce`, `RawOrAverage`, `DoneHasNoRaw`, `AtomicConsolidation`:
  the history, at every point of every consolidation.
- `BusinessDate`: each weekday is the expected date on exactly one weekday, so
  that each publication has one evening to be fetched.
- `OneNight`: each row is averaged by exactly one night's task. `HistoryDates`:
  each row is answered for exactly one date, which from 20:00 on is the next
  day's; the average of its day is answered for the day itself. Somebody who asks
  for a single day may thus see the average of rows that he saw elsewhere.
- `StaleMeansFailing`: a Binance rate that is older than 15 minutes, not counting
  the insertion that blocked the worker, belongs to a flagged provider or to one
  whose third failing fetch is on its way. `NoBurst`: three fetches never begin
  within one period. Two may, as the kept tick is followed by the next one.
- `WithinBudget`: 33 seconds for each request of a GetPrices. `AllRatesOrError`:
  a response is complete, positive and, for the BCV, dated. `GoodAnswersSuffice`:
  two failed attempts, wherever they fall, are not noticed outside.
  `EveryOfferCounts`: the averages are of all valid offers on all four pages.
  `ReadAsWritten`: an amount in the bank's format that is accepted is off by half a unit in
  the last place of a float64 at most. Other formats are outside of it.
- `JobsBeforeClose`: workers and task have ended when the store is closed.
  `DrainedUnlessTimedOut`: a request is left behind by a process that ends in order, or
  told that the store is closed, only after the ten seconds; and a signal kills the
  process only if the listener had failed. `MainExits`: a signal in any state, the start
  included, or a failing listener ends the process. `RequestsAnswered`: no
  request starves although five clients compete for two connections.

### Why the bounds are enough

`FailStreak` is 3, so 4 failures reach the streak, exceed it and recover from
both. Clock 0..2 with threshold 1 gives a fresh row, one on the threshold and
one beyond it. Two currencies of one job show everything that can go
wrong between sequential inserts; the jobs share no variable but the clock and
the process, so the safety run takes one (the proofs cover any number) and the
liveness run both. One client suffices, as requests do not write. The `Bcv` run
covers a weekend with the three evenings before and the Monday after, so that a flag
can be raised on one evening and must be gone on a later one; one restart can
hit any of them. A publication at 16:00 meets the first attempt and one at 18:20
only the last. In `Consolidation` three fetches and three days give a day with
two prices, a repeated night and a night with nothing to do. All bounds are
constants or definitions of the MC modules: `MaxTime`, `MaxFails`, `FirstDay`, `LastDay`,
`MaxRestarts`, `MaxDay`, `MaxFetches`, `LastMinute`, `MaxFloat`. The hour of `BinanceTicker` holds three
failing fetches after a success, with an insertion of more than two periods in
between; 132 seconds is the longest fetch, 33 the length of one that gives up on
its first request. The five characters of an amount suffice for a separator of
thousands, a decimal comma and digits around both; with 4 bits, units from an eighth to 32,
some of them are exact, some are rounded, and some are zero or out of range. `MaxFloat` is 160: two offers of
100 exceed it, one does not, and the other offers are so small that a good page,
whose up to 20 offers are at most an eightieth of it each, occurs among pages that
are not. In `Lifecycle` two statements give a round that is interrupted in its middle; two
connections leave three of five clients waiting. Scheduling delays of the
goroutines, milliseconds against minutes, are left out of the timed modules. Deadlock is checked in the `Rate*` runs and switched
off where the bounded clock, the bounded number of days or the end of a call or
of the process stops everything.

### Fairness

`RateLive`: `WF(Worker(p))`: the Go scheduler runs a goroutine
that can run, and timers fire. `WF(WarmStart \/ ColdStart)`: the container is
restarted (`restart: unless-stopped`). `SF(FetchSucceeds(p))` and
`SF(next[p] = i /\ InsertRate(p))`: a provider or database that is asked again
and again answers now and then, and no currency is singled out for failure.
Nothing is assumed of requests or of crashes: the properties speak of behaviours
in which the process eventually stays up. The bound `MaxFails` alone would end
every streak in this run; the strong fairness of `FetchSucceeds` is what says so
of the code, and without it the provider's answer would be an effect of the bound.

`Lifecycle`: main runs when it can (`WF(Main)`); a fetch returns, because its
HTTP client has a timeout of ten seconds and withRetry three attempts
(`WF(FetchReturns)`); the database answers statements (`WF` on their ends: the
code gives its queries no timeout, and `Close` would wait for one that hangs);
the pool serves its waiters in their order (`SF(Acquire(r))` for a request, whose
step is disabled whenever all connections are in use); and a select that finds
ctx.Done ready again and again chooses it at some time (`SF(NoticeDone)`: it is
disabled during each fetch). Nothing is assumed of signals, of the listener, of
requests that arrive or of timers.

## Findings

1. `main.go:70` hands the warm-up to `WarmUp` under the names of the currency
   column, `state.go:105-125` looks for the providers' keys: nothing is loaded,
   against `main.go:62-63` and `docs/PLAN.md:39`. `WarmUpLoadsNothing` proves it
   for all rows.
2. `/health` judges memory, `/rates` judges rows: "every rate is fresh"
   (`api/openapi.yaml:12`) does not follow from a 200, as a row may be old or missing.
3. `WeekdaysOnly: false` (`main.go:92`) against "weekdays" (`README.md:69`) and
   `docs/BCV_PIPELINE_PLAN.md:29`. As a consequence Friday's publication is
   recorded again on Saturday and Sunday, against
   `docs/BCV_PIPELINE_PLAN.md:117-119`. (`docs/BCV_CHANGELOG.md:10` does describe a daily
   window, and says that the validation avoids old rates on weekends too.)
4. ConsolidateDay is atomic but its AVG and its DELETE see different rows: an
   insertion delayed past 01:00 can be deleted unaveraged (`db.go:39-43`).

## Proofs

Checked by TLAPS, for all values of the constants under the modules' ASSUMEs.
These say what main.go's configuration satisfies: each currency belongs to one
job, `Nil` is no value, window fetches end before midnight, currencies differ, what
is decoded has the types of the Go structs, and the separators of an amount are no
digits (`CharactersAssumption`), a float64 has at least one bit (`FloatAssumption`).

- `RateServiceProofs`: the inductive invariant `IInv` is `TypeOK` and, for every
  provider, `Progress`, `FlagOf`, `StoreOf` and `RowsOf`: the four safety
  invariants of `RateSafety` taken together. Apart they are not inductive: that
  memory and rows agree after the last InsertRate, and that the rows carry one
  timestamp, needs what `ApplyProgress` says of the rows before `next`, and
  that a crash leaves flag and streak equal needs that a process that is down
  has no streak. `WorkerLeavesOthers` shows that a worker's step disturbs no
  other provider; then there is one lemma per group of actions. `FreshAnswer`,
  `HealthyAnswer` and `HealthyUnlessLost` are action properties that follow from `IInv`
  and the one action that answers; the last one is `HealthyAnswer` carried over to the
  rows by `StoreOf`. `WarmUpLoadsNothing` is finding 1 for all rows.
  `BoardImplemented` is the refinement of `RateBoard`. It needs `Streaks` beside
  `IInv`: a response is only applied under a streak of zero, and the callbacks are
  only reached in one of three. `QuotesWritten` and `QuotesChange` turn the operators on
  currencies into the board's on providers, for any number of currencies; a start is
  the board's `Restart` because the warm-up loads nothing.
- `ScheduleProofs`: the timers, the expected date (that it is the first weekday
  ahead), the night that averages a row and the dates that find it,
  for every moment, by the bounds of division with remainder; each theorem names
  the windows it is for. `ExpectedOnce` counts: the days whose expected date a
  weekday is are exactly one weekday, found by its remainder modulo seven.
- `MCScheduleProofs`: the five invariants of the `Schedule` run. The run checks a
  week of minutes; `Moments` and the theorems of `ScheduleProofs` carry them to
  every moment.
- `BinanceTickerProofs`: for all fetches of at most one period and insertions of
  any length. `IInv` keeps two deadlines. `Paced`: the fetch after the last success
  begins at most one period later for it and for each failure since (`Due`), or a
  tick is kept and it is not too late. `Spaced`: the ticker's next firing lies a
  period after the begin of a fetch that a kept tick follows. With `Flagged` the
  two properties follow.
- `LifecycleProofs`: for any workers, rounds, requests and pool. `IInv` says what
  each place of main implies: nothing runs before `serve` (`NotStarted`), what was
  waited for has ended for good (`Ended`), without a timeout no request is in
  flight after the draining (`Drain`), and signals are only let go of once the listener has
  failed (`Stopped`). The part of `TypeOK` that counts connections
  goes through `GotoKeepsPool`, one lemma for every step of a client.
- `BcvScheduleProofs`: `TypeOK /\ AttemptsInWindow` is inductive. The clauses
  that make it so are in these two: the clock has not passed the timer, and the
  deadline of a retry is the closing time of the retry's own day. On top of it
  stand two more invariants.
  `AgedIsFlagged` needs `Aging`: without a failure the timer is at most a day after
  the last update, and each failure moves it by at most 59 minutes while it stays
  early enough in the window for the third attempt, so that the flag is up before
  26 hours have passed. Its hypothesis, that no fetch takes the half hour between two
  attempts, is what `FetchInTime` (33 seconds) gives; with fetches of half an hour
  the second retry of an evening would fall on the deadline. (As a fetch is one step,
  the theorem speaks of the moments between fetches; the third one of an evening ends
  before 19:00 as well when fetches take at most 20 minutes.)
  `PublishedInTime` needs `Evening`: whoever sleeps past an opening has a reason for
  the opening before (`SleepsBecause`): its initial fetch ended too late, the last
  fetch got no page, it accepted the expected rate (and stored it or lost a row), or it
  was rejected when no retry fitted before the deadline. In the last case the page was
  published after that attempt or shows another date, and the clock arithmetic of the
  evening excludes both for a publication in time. What is left is that the rate was
  accepted (`AcceptedInTime`), from which `FlagEndsWithPublication` follows as well.
  Nothing is assumed of how long a fetch
  takes beyond the module's ASSUMEs.
- `ProviderFetchProofs`: for pages, lists and answers of any length and any content.
  Each loop is a recursive function. That it exists (`Recursion`) and what holds of
  its last value (`Induction`) follow from the least number for which it would not;
  both are stated for a set instead of a formula. `TotalBounded` bounds a sum,
  `OrdersComplete` says that nothing of a good answer is dropped. `PacedInv` relates
  time and failures to the number of answers: 33 seconds and two failed attempts for
  each, and what the current request has used (`spent`); it also says that every
  accepted response is complete, which needs that no response equals nil or an error
  (`ErrorAssumption`). `GoodInv` adds what was collected from good pages so far
  (`Gathered`): SELL has an offer that counts from the first page on and BUY from the
  third, and no sum can exceed `MaxFloat`.
  `EveryOfferCounts` and `ReadAsWritten` compare loops with sums over sets. The
  library's `MapThenSumSet` is a recursion over all subsets that always takes the
  element CHOOSE picks: `AddsExists` shows that it has a solution, by recursion over the
  size of the subsets, and `AddsAny` that any other order gives the same sum, by
  induction over the subsets. `SumAdd` is what the rest needs of it: one element more
  adds its weight (and `SumUpto` says it of the indices up to one of them).
  `Averaged` is the inductive invariant of the averages: the pages answered are the
  first ones asked for, and what `averageValid` would find in the prices collected of
  each trade type, and of both, is the sum and the count of the offers on them
  (`Tallied`). A page of SELL offers changes the prices of both in their middle; the
  invariant holds because BUY is still empty then.
  `WrittenRead` is the same for an amount: after each character the loop has the
  digits so far, each weighed by the digits read after it, and as many tenths as there
  are digits since the comma. What ParseFloat adds is `FloatIsNearest`: for the least unit in
  which a number fits the mantissa, either the unit is the smallest there is, or the
  mantissa has all its bits (`FullMantissa`), so that half a unit is one part in
  2^Precision (`RelativeError`). `PageRead` says that the accepted response is that of the
  one page.
- `ConsolidationProofs`: under `TimelySpec`. The inductive invariant says of the
  transaction that what it has averaged is what it deletes, because the day it
  works on is closed and `InsertsAreTimely` keeps insertions off closed days. The
  four properties follow, and `Refinement` maps each step to a step of
  `PriceHistory` or a stutter.

`TimelySpec` assumes that an insertion takes less than the hour between midnight
and the task. This is an assumption about the environment, not something the
code enforces; `ConsolidationLate` shows what happens without it.

Model-checked only: the liveness properties `ProvidersRecover`, `RowsCatchUp`,
`MainExits` and `RequestsAnswered`, which are outside the prover's reach. Every
invariant and action property of the passing runs has a theorem.

## Not modelled

- The worker's `DailyAt` branch, `UpdateRates`, the faker provider: no job and no
  handler uses them.
- Configuration (two environment variables, read once), the generated routing and
  types, the SQL of the migrations, containers, the request histogram and the
  counters, `/docs`. They declare or count and have no behaviour of their own.
- That a night on which the task does not run, or fails, is never made up for:
  `Consolidation` has such nights, and no property asks for more than that the day is
  not reported as done (`DoneHasNoRaw`).
- The DOM search on the bank's page: `BcvPage` begins with the elements it finds.
- HTTP beyond its effects: status codes and timeouts are failed attempts, and
  `server.Shutdown` is what it waits for.

## Plan

Written: 1. `RateService` and `RateBoard`. 2. `Schedule`. 3. `BcvSchedule`. 4. `PriceHistory` and
`Consolidation`. 5. `BinanceTicker`. 6. `Lifecycle`. 7. `BcvPage` and
`ProviderFetch`. All have proofs.
