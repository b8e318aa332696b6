------------------------------- MODULE Lifecycle -------------------------------
(***************************************************************************)
(* How the process starts and ends (cmd/server/main.go): migrations, pool  *)
(* and warm-up, then the wait for a signal or a failing listener, the      *)
(* draining of requests, the two WaitGroups and the deferred Close,        *)
(* against the goroutines of worker.go, the handlers and the connection    *)
(* pool they share.                                                        *)
(*                                                                         *)
(* A statement is one use of a connection: an InsertRate, a handler's      *)
(* query, the transaction of ConsolidateDay.  What it does to rows is the  *)
(* subject of RateService and Consolidation.                               *)
(***************************************************************************)
EXTENDS Integers, FiniteSets

CONSTANTS
    Workers,      \* goroutines of StartPriceWorker
    Task,         \* the goroutine of StartTaskWorker
    Requests,     \* HTTP requests
    Statements,   \* [Workers \union {Task} -> how many statements one round executes]
    MaxConns      \* size of the connection pool

Jobs == Workers \union {Task}
Clients == Jobs \union Requests

ASSUME ProcessesAssumption ==
    /\ Task \notin Workers /\ Jobs \intersect Requests = {}
    /\ IsFiniteSet(Workers) /\ IsFiniteSet(Requests)
    /\ Statements \in [Jobs -> Nat \ {0}]
    /\ MaxConns \in Nat \ {0}

VARIABLES
    main,        \* where main is
    cancelled,   \* ctx: by a signal or by stop()
    registered,  \* NotifyContext still catches the signals
    serverErr,   \* serverErrCh holds an error
    timedOut,    \* server.Shutdown has returned shutdownCtx's error
    closed,      \* dbStore.Close has been called
    free,        \* connections in the pool that nobody uses
    pc,          \* where each goroutine is
    left,        \* statements left in a job's round
    refused      \* history: requests that met a closed store

mainVars == <<main, cancelled, registered, serverErr, timedOut, closed>>
vars == <<mainVars, free, pc, left, refused>>

\* main connects to the database before any goroutine runs.
Init ==
    /\ main = "migrate" /\ cancelled = FALSE /\ registered = TRUE /\ serverErr = FALSE
    /\ timedOut = FALSE /\ closed = FALSE
    /\ free = MaxConns
    /\ pc = [p \in Clients |-> "idle"]
    /\ left = [j \in Jobs |-> 0]
    /\ refused = {}

Running == main \notin {"exited", "killed"}

Goto(p, label) == pc' = [pc EXCEPT ![p] = label]

--------------------------------------------------------------------------------
(* The pool (pgxpool): Acquire waits for a free connection, and fails once *)
(* the context is cancelled or the pool is closed.                         *)

Acquire(p) ==
    /\ Running /\ pc[p] = "acquire" /\ ~closed /\ free > 0
    /\ p \in Jobs => ~cancelled
    /\ free' = free - 1 /\ Goto(p, "query")
    /\ UNCHANGED <<mainVars, left, refused>>

\* Variant: a connection is not given back.
Leak(p) == UNCHANGED free

\* The connection goes back, if the client has one.
Release(p) == free' = IF pc[p] = "query" THEN free + 1 ELSE free

--------------------------------------------------------------------------------
(* The goroutines of worker.go.                                            *)

\* A round of statements: the rows of an Apply, the currencies of the nightly task.
BeginStatements(j) ==
    /\ left' = [left EXCEPT ![j] = Statements[j]]
    /\ Goto(j, "acquire")

\* The timer or the tick is ready, and select takes it: perhaps although ctx.Done is
\* ready too.  The initial fetch does not look at ctx at all.
TimerFires(j) ==
    /\ Running /\ pc[j] = "select"
    /\ IF j = Task THEN BeginStatements(j) ELSE Goto(j, "fetch") /\ UNCHANGED left
    /\ UNCHANGED <<mainVars, free, refused>>

\* case <-ctx.Done().
NoticeDone(j) ==
    /\ Running /\ pc[j] = "select" /\ cancelled
    /\ Goto(j, "done")
    /\ UNCHANGED <<mainVars, free, left, refused>>

\* GetPrices knows no context: it returns when the HTTP client does, with prices that
\* Apply stores or with an error.
FetchReturns(w) ==
    /\ Running /\ pc[w] = "fetch"
    /\ \/ BeginStatements(w)
       \/ Goto(w, "select") /\ UNCHANGED left
    /\ UNCHANGED <<mainVars, free, refused>>

\* An error is logged, and the round goes on with the next statement either way.
AfterStatement(j) ==
    /\ left' = [left EXCEPT ![j] = @ - 1]
    /\ Goto(j, IF left[j] > 1 THEN "acquire" ELSE "select")

StatementEnds(j) ==
    /\ Running /\ pc[j] = "query"
    /\ Release(j) /\ AfterStatement(j)
    /\ UNCHANGED <<mainVars, refused>>

\* With a cancelled context a statement fails at once, whether it waits for a
\* connection or is being executed.
StatementAborts(j) ==
    /\ Running /\ pc[j] \in {"acquire", "query"} /\ cancelled
    /\ Release(j) /\ AfterStatement(j)
    /\ UNCHANGED <<mainVars, refused>>

--------------------------------------------------------------------------------
(* Requests.  Their context is their own: neither the signal nor           *)
(* server.Shutdown cancels it.                                             *)

Accept(r) ==
    /\ main = "serve" /\ ~serverErr /\ pc[r] = "idle"
    /\ Goto(r, "acquire")
    /\ UNCHANGED <<mainVars, free, left, refused>>

Answer(r) ==
    /\ Running /\ pc[r] = "query"
    /\ Release(r) /\ Goto(r, "answered")
    /\ UNCHANGED <<mainVars, left, refused>>

\* The store is closed: the handler answers that the query failed.
AnswerClosed(r) ==
    /\ Running /\ pc[r] = "acquire" /\ closed
    /\ Goto(r, "answered")
    /\ refused' = refused \union {r}
    /\ UNCHANGED <<mainVars, free, left>>

InFlight(r) == pc[r] \in {"acquire", "query"}

--------------------------------------------------------------------------------
(* main.                                                                   *)

\* RunMigrations looks at no context; an error is os.Exit(1).
Migrate ==
    /\ main = "migrate"
    /\ main' \in {"connect", "exited"}
    /\ UNCHANGED <<cancelled, registered, serverErr, timedOut, closed, free, pc, left, refused>>

\* db.New pings with ctx: an error, and certainly a signal, is os.Exit(1).
Connect ==
    /\ main = "connect"
    /\ main' \in IF cancelled THEN {"exited"} ELSE {"warm", "exited"}
    /\ UNCHANGED <<cancelled, registered, serverErr, timedOut, closed, free, pc, left, refused>>

\* The warm-up, whose error is only logged; then the goroutines start, the price
\* workers with a fetch and the task with its timer, and the server listens.
Start ==
    /\ main = "warm"
    /\ main' = "serve"
    /\ pc' = [p \in Clients |->
                IF p \in Workers THEN "fetch" ELSE IF p = Task THEN "select" ELSE "idle"]
    /\ UNCHANGED <<cancelled, registered, serverErr, timedOut, closed, free, left, refused>>

\* SIGINT or SIGTERM.  NotifyContext cancels ctx and swallows any further one; after
\* stop() the signal has its default effect, which is to end the process.
Signal ==
    /\ Running
    /\ \/ registered /\ ~cancelled /\ cancelled' = TRUE /\ UNCHANGED main
       \/ ~registered /\ main' = "killed" /\ UNCHANGED cancelled
    /\ UNCHANGED <<registered, serverErr, timedOut, closed, free, pc, left, refused>>

\* ListenAndServe returns an error: the port is taken, or the listener breaks.
ServerFails ==
    /\ main = "serve" /\ ~serverErr
    /\ serverErr' = TRUE
    /\ UNCHANGED <<main, cancelled, registered, timedOut, closed, free, pc, left, refused>>

\* Variant: the failing server does not stop the workers.
NoticeWithoutStop ==
    /\ main = "serve" /\ (cancelled \/ serverErr)
    /\ main' = "drain"
    /\ UNCHANGED <<cancelled, registered, serverErr, timedOut, closed, free, pc, left, refused>>

\* select over serverErrCh and ctx.Done(), at random when both are ready.  The first case
\* calls stop(), which cancels ctx and gives the signals their default effect back.
Notice ==
    /\ main = "serve" /\ main' = "drain"
    /\ cancelled' = TRUE
    /\ \/ serverErr /\ registered' = FALSE
       \/ cancelled /\ UNCHANGED registered
    /\ UNCHANGED <<serverErr, timedOut, closed, free, pc, left, refused>>

\* Variant: server.Close, which does not wait for requests.
DrainedAtOnce ==
    /\ main = "drain"
    /\ main' = "workers"
    /\ UNCHANGED <<cancelled, registered, serverErr, timedOut, closed, free, pc, left, refused>>

\* server.Shutdown returns nil.
Drained ==
    /\ main = "drain" /\ \A r \in Requests : ~InFlight(r)
    /\ main' = "workers"
    /\ UNCHANGED <<cancelled, registered, serverErr, timedOut, closed, free, pc, left, refused>>

\* shutdownTimeout is over: the error is logged and main goes on.
DrainTimesOut ==
    /\ main = "drain"
    /\ main' = "workers" /\ timedOut' = TRUE
    /\ UNCHANGED <<cancelled, registered, serverErr, closed, free, pc, left, refused>>

\* workerWg.Wait().
WorkersDone ==
    /\ main = "workers" /\ \A w \in Workers : pc[w] = "done"
    /\ main' = "task"
    /\ UNCHANGED <<cancelled, registered, serverErr, timedOut, closed, free, pc, left, refused>>

\* Variant: main does not wait for the task.
CloseWithoutTask ==
    /\ main = "task"
    /\ main' = "close" /\ closed' = TRUE
    /\ UNCHANGED <<cancelled, registered, serverErr, timedOut, free, pc, left, refused>>

\* taskWg.Wait(), and main returns: the deferred dbStore.Close begins.
TaskDone ==
    /\ main = "task" /\ pc[Task] = "done"
    /\ main' = "close" /\ closed' = TRUE
    /\ UNCHANGED <<cancelled, registered, serverErr, timedOut, free, pc, left, refused>>

\* pgxpool's Close waits until every connection has been given back.
Exit ==
    /\ main = "close" /\ free = MaxConns
    /\ main' = "exited"
    /\ UNCHANGED <<cancelled, registered, serverErr, timedOut, closed, free, pc, left, refused>>

--------------------------------------------------------------------------------
Job(j) == TimerFires(j) \/ NoticeDone(j) \/ StatementEnds(j) \/ StatementAborts(j)
Request(r) == Accept(r) \/ Answer(r) \/ AnswerClosed(r)
Main ==
    \/ Migrate \/ Connect \/ Start
    \/ Notice \/ Drained \/ DrainTimesOut \/ WorkersDone \/ TaskDone \/ Exit

Next ==
    \/ \E p \in Clients : Acquire(p)
    \/ \E j \in Jobs : Job(j)
    \/ \E w \in Workers : FetchReturns(w)
    \/ \E r \in Requests : Request(r)
    \/ Signal \/ ServerFails \/ Main

Spec == Init /\ [][Next]_vars

\* The HTTP client has a timeout and the database answers queries; the pool serves its waiters
\* in turn; select chooses among its ready cases at random; main runs when it can.
Fairness ==
    /\ WF_vars(Main)
    /\ \A r \in Requests : SF_vars(Acquire(r)) /\ WF_vars(Answer(r) \/ AnswerClosed(r))
    /\ \A w \in Workers : WF_vars(FetchReturns(w))
    /\ \A j \in Jobs : WF_vars(StatementEnds(j) \/ StatementAborts(j)) /\ SF_vars(NoticeDone(j))

FairSpec == Spec /\ Fairness

--------------------------------------------------------------------------------
TypeOK ==
    /\ main \in {"migrate", "connect", "warm", "serve", "drain", "workers", "task", "close",
                "exited", "killed"}
    /\ cancelled \in BOOLEAN /\ registered \in BOOLEAN /\ serverErr \in BOOLEAN
    /\ timedOut \in BOOLEAN /\ closed \in BOOLEAN
    /\ pc \in [Clients -> {"idle", "fetch", "acquire", "query", "select", "answered", "done"}]
    /\ left \in [Jobs -> Nat]
    /\ refused \subseteq Requests
    /\ free \in Nat /\ free + Cardinality({p \in Clients : pc[p] = "query"}) = MaxConns

\* Once the store is closed no worker and no task can use it any more: they have ended,
\* and the fetch that select may have begun after the signal has ended with them.
JobsBeforeClose == closed => \A j \in Jobs : pc[j] = "done"

\* A request is answered with the error of a closed store, or left without an answer by
\* a process that ends in order, only if server.Shutdown gave up after its ten seconds.
\* A signal ends the process out of order only if the listener had failed before, so
\* that main called stop(): signals alone, however many, cut nobody off.
DrainedUnlessTimedOut ==
    /\ refused # {} => timedOut
    /\ main = "exited" /\ (\E r \in Requests : InFlight(r)) => timedOut
    /\ main = "killed" => serverErr

\* A signal, whenever it arrives, or a failing server ends the process, whatever the
\* workers, the task and the requests are doing: nobody waits for ever for anybody else.
MainExits == (cancelled \/ serverErr) ~> ~Running

\* A request that was accepted is answered unless the process ends, also when jobs and
\* requests outnumber the connections.
RequestsAnswered == \A r \in Requests : InFlight(r) ~> (pc[r] = "answered" \/ ~Running)
================================================================================
