---------------------------- MODULE LifecycleProofs ----------------------------
(* Theorems about Lifecycle, for any workers, requests, rounds and pool.           *)
EXTENDS Lifecycle, FiniteSetTheorems, TLAPS

Labels == {"idle", "fetch", "acquire", "query", "select", "answered", "done"}

\* Who holds a connection.
Users == {p \in Clients : pc[p] = "query"}

\* Nothing has begun before main starts it.
NotStarted == main \in {"migrate", "connect", "warm"} => \A p \in Clients : pc[p] = "idle"

\* What main has waited for has ended for good.
Ended ==
    /\ main = "task" => \A w \in Workers : pc[w] = "done"
    /\ closed => main \in {"close", "exited", "killed"}
    /\ JobsBeforeClose

\* Without a timeout the requests are over when the draining is.
Drain ==
    ~timedOut =>
        /\ closed \/ main \in {"workers", "task", "close", "exited"} => \A r \in Requests : ~InFlight(r)
        /\ refused = {}

\* Only main's stop(), after the listener failed, lets a signal end the process.
Stopped ==
    /\ main = "killed" => ~registered
    /\ ~registered => serverErr

Order == NotStarted /\ Ended /\ Drain /\ Stopped

\* A job in a statement has this one left to do.
Counting == \A j \in Jobs : pc[j] \in {"acquire", "query"} => left[j] >= 1

IInv == TypeOK /\ Order /\ Counting

--------------------------------------------------------------------------------
(* The connections.                                                         *)

LEMMA ClientsFinite == IsFiniteSet(Clients)
<1>1. IsFiniteSet({Task})
  BY FS_Singleton
<1>2. IsFiniteSet(Jobs)
  BY <1>1, ProcessesAssumption, FS_Union DEF Jobs
<1>3. QED
  BY <1>2, ProcessesAssumption, FS_Union DEF Clients

LEMMA UsersFinite == IsFiniteSet(Users) /\ Cardinality(Users) \in Nat
<1>1. Users \in SUBSET Clients
  BY DEF Users
<1>2. IsFiniteSet(Users)
  BY <1>1, ClientsFinite, FS_Subset
<1>3. QED
  BY <1>2, FS_CardinalityType

Held(label) == IF label = "query" THEN 1 ELSE 0

\* A client that goes on takes a connection, gives one back, or does neither.
LEMMA GotoKeepsPool ==
    ASSUME TypeOK, NEW p \in Clients, NEW label \in Labels, Goto(p, label),
           free' \in Nat, free' = free + Held(pc[p]) - Held(label)
    PROVE  /\ pc' \in [Clients -> Labels]
           /\ free' + Cardinality(Users') = MaxConns
<1>1. /\ pc \in [Clients -> Labels] /\ pc' = [pc EXCEPT ![p] = label]
      /\ free \in Nat /\ free + Cardinality(Users) = MaxConns
  BY DEF TypeOK, Labels, Users, Goto
<1>2. pc' \in [Clients -> Labels]
  BY <1>1
<1>3. IsFiniteSet(Users) /\ Cardinality(Users) \in Nat
  BY UsersFinite
<1>4. CASE label = "query"
  <2>1. Users' = Users \union {p}
    BY <1>1, <1>4 DEF Users
  <2>2. Cardinality(Users') = Cardinality(Users) + 1 - Held(pc[p])
    <3>1. p \in Users <=> pc[p] = "query"
      BY DEF Users
    <3>2. Cardinality(Users \union {p}) =
            IF p \in Users THEN Cardinality(Users) ELSE Cardinality(Users) + 1
      BY <1>3, FS_AddElement
    <3>3. QED
      BY <1>3, <2>1, <3>1, <3>2 DEF Held
  <2>3. Held(pc[p]) \in 0..1 /\ Held(label) = 1
    BY <1>4 DEF Held
  <2>4. QED
    BY <1>1, <1>2, <1>3, <2>2, <2>3
<1>5. CASE label # "query"
  <2>1. Users' = Users \ {p}
    BY <1>1, <1>5 DEF Users
  <2>2. Cardinality(Users') = Cardinality(Users) - Held(pc[p])
    <3>1. p \in Users <=> pc[p] = "query"
      BY DEF Users
    <3>2. Cardinality(Users \ {p}) =
            IF p \in Users THEN Cardinality(Users) - 1 ELSE Cardinality(Users)
      BY <1>3, FS_RemoveElement
    <3>3. QED
      BY <1>3, <2>1, <3>1, <3>2 DEF Held
  <2>3. Held(pc[p]) \in 0..1 /\ Held(label) = 0
    BY <1>5 DEF Held
  <2>4. QED
    BY <1>1, <1>2, <1>3, <2>2, <2>3
<1>6. QED
  BY <1>4, <1>5

\* What TypeOK says of the other variables.
Rest ==
    /\ main \in {"migrate", "connect", "warm", "serve", "drain", "workers", "task", "close",
                "exited", "killed"}
    /\ cancelled \in BOOLEAN /\ registered \in BOOLEAN /\ serverErr \in BOOLEAN
    /\ timedOut \in BOOLEAN /\ closed \in BOOLEAN
    /\ left \in [Jobs -> Nat]
    /\ refused \subseteq Requests

LEMMA MoveKeepsType ==
    ASSUME TypeOK, NEW p \in Clients, NEW label \in Labels, Goto(p, label),
           free' \in Nat, free' = free + Held(pc[p]) - Held(label), Rest'
    PROVE  TypeOK'
<1>1. pc' \in [Clients -> Labels] /\ free' + Cardinality(Users') = MaxConns
  BY GotoKeepsPool
<1>2. QED
  BY <1>1 DEF TypeOK, Rest, Labels, Users

\* The variables that a client's step leaves alone.
LEMMA RestStays ==
    ASSUME TypeOK, UNCHANGED mainVars, left' \in [Jobs -> Nat], refused' \subseteq Requests
    PROVE  Rest'
BY DEF TypeOK, Rest, mainVars

LEMMA GotoValue ==
    ASSUME TypeOK, NEW p \in Clients, NEW label, Goto(p, label)
    PROVE  \A q \in Clients : pc'[q] = IF q = p THEN label ELSE pc[q]
BY DEF TypeOK, Goto

LEMMA JobOrRequest ==
    /\ Workers \subseteq Jobs /\ Task \in Jobs
    /\ Jobs \subseteq Clients /\ Requests \subseteq Clients
    /\ \A j \in Jobs : j \notin Requests
BY ProcessesAssumption DEF Clients, Jobs

--------------------------------------------------------------------------------
(* The order of things.                                                     *)

\* A job that has begun and not ended may move: nobody has waited for it yet.
LEMMA JobMoves ==
    ASSUME TypeOK, Order, NEW j \in Jobs, NEW label, Goto(j, label),
           pc[j] \in {"fetch", "acquire", "query", "select"}, UNCHANGED <<mainVars, refused>>
    PROVE  Order'
<1>1. \A q \in Clients : pc'[q] = IF q = j THEN label ELSE pc[q]
  BY GotoValue, JobOrRequest
<1>2. ~closed
  BY DEF Order, Ended, JobsBeforeClose
<1>3. NotStarted'
  BY JobOrRequest DEF Order, NotStarted, mainVars
<1>4. Ended'
  BY <1>1, <1>2, JobOrRequest DEF Order, Ended, JobsBeforeClose, mainVars
<1>5. Drain'
  <2>1. \A r \in Requests : pc'[r] = pc[r]
    BY <1>1, JobOrRequest
  <2>2. QED
    BY <2>1 DEF Order, Drain, InFlight, mainVars
<1>6. Stopped'
  BY DEF Order, Stopped, mainVars
<1>7. QED
  BY <1>3, <1>4, <1>5, <1>6 DEF Order

\* A request that is in flight may move.
LEMMA RequestMoves ==
    ASSUME TypeOK, Order, NEW r \in Requests, NEW label, Goto(r, label), InFlight(r),
           UNCHANGED mainVars, refused' = refused \/ closed
    PROVE  Order'
<1>1. \A q \in Clients : pc'[q] = IF q = r THEN label ELSE pc[q]
  BY GotoValue, JobOrRequest
<1>2. NotStarted'
  BY JobOrRequest DEF Order, NotStarted, InFlight, mainVars
<1>3. Ended'
  <2>1. \A j \in Jobs : pc'[j] = pc[j]
    BY <1>1, JobOrRequest
  <2>2. QED
    BY <2>1, JobOrRequest DEF Order, Ended, JobsBeforeClose, mainVars
<1>4. Drain'
  <2>1. timedOut \/ (~closed /\ main \notin {"workers", "task", "close", "exited"})
    BY DEF Order, Drain
  <2>2. timedOut \/ refused' = refused
    BY <2>1
  <2>3. QED
    BY <2>1, <2>2 DEF Order, Drain, mainVars
<1>5. Stopped'
  BY DEF Order, Stopped, mainVars
<1>6. QED
  BY <1>2, <1>3, <1>4, <1>5 DEF Order

--------------------------------------------------------------------------------
(* The clients' steps.                                                      *)

\* A client that leaves the rounds alone and begins no statement of one.
LEMMA CountingMoves ==
    ASSUME TypeOK, Counting, NEW p \in Clients, NEW label, Goto(p, label), UNCHANGED left,
           p \in Jobs => (label \notin {"acquire", "query"} \/ pc[p] \in {"acquire", "query"})
    PROVE  Counting'
<1>1. \A q \in Clients : pc'[q] = IF q = p THEN label ELSE pc[q]
  BY GotoValue
<1>2. QED
  BY <1>1, JobOrRequest DEF Counting

LEMMA AcquireKeeps ==
    ASSUME IInv, NEW p \in Clients, Acquire(p)
    PROVE  IInv'
<1>1. TypeOK /\ Order /\ Counting
  BY DEF IInv
<1>2. /\ pc[p] = "acquire" /\ Goto(p, "query") /\ ~closed
      /\ free > 0 /\ free' = free - 1
      /\ UNCHANGED <<mainVars, left, refused>>
  BY DEF Acquire
<1>3. TypeOK'
  <2>1. free' \in Nat /\ free' = free + Held(pc[p]) - Held("query")
    BY <1>1, <1>2 DEF TypeOK, Held
  <2>2. Rest'
    BY <1>1, <1>2, RestStays DEF TypeOK
  <2>3. QED
    BY <1>1, <1>2, <2>1, <2>2, MoveKeepsType DEF Labels
<1>4. Order'
  <2>1. CASE p \in Jobs
    BY <1>1, <1>2, <2>1, JobMoves
  <2>2. CASE p \in Requests
    BY <1>1, <1>2, <2>2, RequestMoves DEF InFlight
  <2>3. QED
    BY <2>1, <2>2 DEF Clients
<1>5. Counting'
  BY <1>1, <1>2, CountingMoves
<1>6. QED
  BY <1>3, <1>4, <1>5 DEF IInv

\* A step of a job: what it may do to the pool and to its round.
LEMMA JobStep ==
    ASSUME IInv, NEW j \in Jobs, NEW label \in Labels \ {"query"}, Goto(j, label),
           pc[j] \in {"fetch", "acquire", "query", "select"}, UNCHANGED <<mainVars, refused>>,
           free' = free + Held(pc[j]), left' \in [Jobs -> Nat],
           \A i \in Jobs : i # j => left'[i] = left[i],
           label = "acquire" => left'[j] >= 1
    PROVE  IInv'
<1>1. TypeOK /\ Order /\ Counting /\ j \in Clients
  BY JobOrRequest DEF IInv
<1>2. TypeOK'
  <2>1. free \in Nat /\ Held(pc[j]) \in 0..1 /\ Held(label) = 0
    BY <1>1 DEF TypeOK, Held
  <2>2. free' \in Nat /\ free' = free + Held(pc[j]) - Held(label)
    BY <2>1
  <2>3. Rest'
    BY <1>1, RestStays DEF TypeOK
  <2>4. QED
    BY <1>1, <2>2, <2>3, MoveKeepsType
<1>3. Order'
  BY <1>1, JobMoves
<1>4. Counting'
  <2>1. \A q \in Clients : pc'[q] = IF q = j THEN label ELSE pc[q]
    BY <1>1, GotoValue
  <2>2. QED
    BY <1>1, <2>1, JobOrRequest DEF Counting
<1>5. QED
  BY <1>2, <1>3, <1>4 DEF IInv

LEMMA TimerFiresKeeps ==
    ASSUME IInv, NEW j \in Jobs, TimerFires(j)
    PROVE  IInv'
<1>1. /\ pc[j] = "select" /\ UNCHANGED <<mainVars, free, refused>>
      /\ left \in [Jobs -> Nat] /\ free \in Nat
  BY DEF TimerFires, IInv, TypeOK
<1>2. free' = free + Held(pc[j])
  BY <1>1 DEF Held
<1>3. CASE j = Task
  <2>1. left' = [left EXCEPT ![j] = Statements[j]] /\ Goto(j, "acquire")
    BY <1>3 DEF TimerFires, BeginStatements
  <2>2. Statements[j] \in Nat /\ Statements[j] >= 1
    BY ProcessesAssumption
  <2>3. QED
    BY <1>1, <1>2, <2>1, <2>2, JobStep DEF Labels
<1>4. CASE j # Task
  <2>1. Goto(j, "fetch") /\ UNCHANGED left
    BY <1>4 DEF TimerFires
  <2>2. QED
    BY <1>1, <1>2, <2>1, JobStep DEF Labels
<1>5. QED
  BY <1>3, <1>4

LEMMA NoticeDoneKeeps ==
    ASSUME IInv, NEW j \in Jobs, NoticeDone(j)
    PROVE  IInv'
<1>1. /\ pc[j] = "select" /\ Goto(j, "done") /\ UNCHANGED <<mainVars, free, left, refused>>
      /\ left \in [Jobs -> Nat] /\ free \in Nat
  BY DEF NoticeDone, IInv, TypeOK
<1>2. free' = free + Held(pc[j])
  BY <1>1 DEF Held
<1>3. QED
  BY <1>1, <1>2, JobStep DEF Labels

LEMMA FetchReturnsKeeps ==
    ASSUME IInv, NEW w \in Workers, FetchReturns(w)
    PROVE  IInv'
<1>1. /\ pc[w] = "fetch" /\ UNCHANGED <<mainVars, free, refused>>
      /\ left \in [Jobs -> Nat] /\ free \in Nat /\ w \in Jobs
  BY JobOrRequest DEF FetchReturns, IInv, TypeOK
<1>2. free' = free + Held(pc[w])
  BY <1>1 DEF Held
<1>3. CASE BeginStatements(w)
  <2>1. left' = [left EXCEPT ![w] = Statements[w]] /\ Goto(w, "acquire")
    BY <1>3 DEF BeginStatements
  <2>2. Statements[w] \in Nat /\ Statements[w] >= 1
    BY <1>1, ProcessesAssumption
  <2>3. QED
    BY <1>1, <1>2, <2>1, <2>2, JobStep DEF Labels
<1>4. CASE Goto(w, "select") /\ UNCHANGED left
  BY <1>1, <1>2, <1>4, JobStep DEF Labels
<1>5. QED
  BY <1>3, <1>4 DEF FetchReturns

\* The end of a statement, with a result or an error.
LEMMA AfterStatementKeeps ==
    ASSUME IInv, NEW j \in Jobs, pc[j] \in {"acquire", "query"}, Release(j),
           AfterStatement(j), UNCHANGED <<mainVars, refused>>
    PROVE  IInv'
<1>1. left \in [Jobs -> Nat] /\ free \in Nat /\ left[j] >= 1
  BY DEF IInv, TypeOK, Counting
<1>2. free' = free + Held(pc[j])
  BY <1>1 DEF Release, Held
<1>3. /\ left' = [left EXCEPT ![j] = left[j] - 1]
      /\ Goto(j, IF left[j] > 1 THEN "acquire" ELSE "select")
  BY DEF AfterStatement
<1>4. left[j] - 1 \in Nat /\ (left[j] > 1 => left[j] - 1 >= 1)
  BY <1>1
<1>5. left' \in [Jobs -> Nat] /\ left'[j] = left[j] - 1 /\ \A i \in Jobs : i # j => left'[i] = left[i]
  BY <1>1, <1>3, <1>4
<1>6. CASE left[j] > 1
  BY <1>2, <1>3, <1>4, <1>5, <1>6, JobStep DEF Labels
<1>7. CASE ~(left[j] > 1)
  BY <1>2, <1>3, <1>5, <1>7, JobStep DEF Labels
<1>8. QED
  BY <1>6, <1>7

LEMMA AcceptKeeps ==
    ASSUME IInv, NEW r \in Requests, Accept(r)
    PROVE  IInv'
<1>1. /\ TypeOK /\ Order /\ Counting /\ r \in Clients /\ r \notin Jobs
      /\ main = "serve" /\ pc[r] = "idle" /\ Goto(r, "acquire")
      /\ UNCHANGED <<mainVars, free, left, refused>>
  BY JobOrRequest DEF IInv, Accept
<1>2. TypeOK'
  <2>1. free' \in Nat /\ free' = free + Held(pc[r]) - Held("acquire")
    BY <1>1 DEF TypeOK, Held
  <2>2. Rest'
    BY <1>1, RestStays DEF TypeOK
  <2>3. QED
    BY <1>1, <2>1, <2>2, MoveKeepsType DEF Labels
<1>3. Order'
  <2>1. main' = "serve" /\ ~closed' /\ UNCHANGED <<timedOut, refused>>
    BY <1>1 DEF Order, Ended, mainVars
  <2>2. NotStarted' /\ Ended'
    BY <2>1 DEF NotStarted, Ended, JobsBeforeClose
  <2>3. Drain'
    BY <1>1, <2>1 DEF Order, Drain
  <2>4. Stopped'
    BY <1>1 DEF Order, Stopped, mainVars
  <2>5. QED
    BY <2>2, <2>3, <2>4 DEF Order
<1>4. Counting'
  BY <1>1, CountingMoves
<1>5. QED
  BY <1>2, <1>3, <1>4 DEF IInv

\* A request's last step: it gives back what it has and is answered.
LEMMA AnsweredKeeps ==
    ASSUME IInv, NEW r \in Requests, InFlight(r), Goto(r, "answered"),
           free' = free + Held(pc[r]), UNCHANGED <<mainVars, left>>,
           refused' = refused \/ (closed /\ refused' = refused \union {r})
    PROVE  IInv'
<1>1. TypeOK /\ Order /\ Counting /\ r \in Clients /\ r \notin Jobs
  BY JobOrRequest DEF IInv
<1>2. TypeOK'
  <2>1. free' \in Nat /\ free' = free + Held(pc[r]) - Held("answered")
    BY <1>1 DEF TypeOK, Held
  <2>2. Rest'
    BY <1>1, RestStays DEF TypeOK
  <2>3. QED
    BY <1>1, <2>1, <2>2, MoveKeepsType DEF Labels
<1>3. Order'
  BY <1>1, RequestMoves
<1>4. Counting'
  BY <1>1, CountingMoves
<1>5. QED
  BY <1>2, <1>3, <1>4 DEF IInv

LEMMA RequestKeeps ==
    ASSUME IInv, NEW r \in Requests, Request(r)
    PROVE  IInv'
<1>1. free \in Nat
  BY DEF IInv, TypeOK
<1>2. CASE Accept(r)
  BY <1>2, AcceptKeeps
<1>3. CASE Answer(r)
  <2>1. /\ InFlight(r) /\ Goto(r, "answered") /\ UNCHANGED <<mainVars, left, refused>>
        /\ free' = free + Held(pc[r])
    BY <1>1, <1>3 DEF Answer, InFlight, Release, Held
  <2>2. QED
    BY <2>1, AnsweredKeeps
<1>4. CASE AnswerClosed(r)
  <2>1. /\ InFlight(r) /\ Goto(r, "answered") /\ UNCHANGED <<mainVars, left>>
        /\ closed /\ refused' = refused \union {r}
        /\ free' = free + Held(pc[r])
    BY <1>1, <1>4 DEF AnswerClosed, InFlight, Held
  <2>2. QED
    BY <2>1, AnsweredKeeps
<1>5. QED
  BY <1>2, <1>3, <1>4 DEF Request

--------------------------------------------------------------------------------
(* Init and main's steps.                                                   *)

LEMMA InitInv == Init => IInv
<1> SUFFICES ASSUME Init PROVE IInv
  OBVIOUS
<1>1. \A p \in Clients : pc[p] = "idle"
  BY DEF Init
<1>2. TypeOK
  <2>1. Users = {} /\ Cardinality(Users) = 0
    BY <1>1, FS_EmptySet DEF Users
  <2>2. free \in Nat /\ free + Cardinality(Users) = MaxConns
    BY <2>1, ProcessesAssumption DEF Init
  <2>3. cancelled \in BOOLEAN /\ registered \in BOOLEAN /\ serverErr \in BOOLEAN
        /\ timedOut \in BOOLEAN /\ closed \in BOOLEAN
    BY Zenon DEF Init
  <2>4. pc \in [Clients -> Labels] /\ left \in [Jobs -> Nat] /\ refused \subseteq Requests
    BY DEF Init, Labels
  <2>5. QED
    BY <2>2, <2>3, <2>4 DEF TypeOK, Init, Labels, Users
<1>3. Order
  BY <1>1 DEF Init, Order, NotStarted, Ended, JobsBeforeClose, Drain, Stopped
<1>4. Counting
  BY <1>1, JobOrRequest DEF Counting
<1>5. QED
  BY <1>2, <1>3, <1>4 DEF IInv

\* Steps that leave the clients where they are.
LEMMA ClientsStay ==
    ASSUME IInv, UNCHANGED <<free, pc, left, refused>>, Rest', Order'
    PROVE  IInv'
<1>1. TypeOK'
  BY DEF IInv, TypeOK, Rest
<1>2. Counting'
  BY DEF IInv, Counting
<1>3. QED
  BY <1>1, <1>2 DEF IInv

LEMMA StartKeeps == ASSUME IInv, Start PROVE IInv'
<1>1. /\ main = "warm" /\ main' = "serve"
      /\ UNCHANGED <<cancelled, registered, serverErr, timedOut, closed, free, left, refused>>
      /\ \A p \in Clients : pc[p] = "idle"
  BY DEF Start, IInv, Order, NotStarted
<1>2. pc' \in [Clients -> {"fetch", "select", "idle"}]
  BY DEF Start
<1>3. TypeOK'
  <2>1. Users = {} /\ Users' = {}
    BY <1>1, <1>2 DEF Users
  <2>2. free' \in Nat /\ free' + Cardinality(Users') = MaxConns
    BY <1>1, <2>1 DEF IInv, TypeOK, Users
  <2>3. Rest'
    BY <1>1 DEF IInv, TypeOK, Rest
  <2>4. QED
    BY <1>2, <2>2, <2>3 DEF TypeOK, Rest, Users
<1>4. Order'
  BY <1>1 DEF IInv, Order, NotStarted, Ended, JobsBeforeClose, Drain, Stopped
<1>5. Counting'
  BY <1>2, JobOrRequest DEF Counting
<1>6. QED
  BY <1>3, <1>4, <1>5 DEF IInv

\* A step before the goroutines run, which may end the process.
LEMMA EarlyStepKeeps ==
    ASSUME IInv, main \in {"migrate", "connect"}, main' \in {"connect", "warm", "exited"},
           UNCHANGED <<cancelled, registered, serverErr, timedOut, closed, free, pc, left, refused>>
    PROVE  IInv'
<1>1. TypeOK /\ Order /\ ~closed
  BY DEF IInv, Order, Ended
<1>2. \A p \in Clients : pc[p] = "idle"
  BY <1>1 DEF Order, NotStarted
<1>3. \A r \in Requests : ~InFlight(r)
  BY <1>2, JobOrRequest DEF InFlight
<1>4. Rest'
  BY <1>1 DEF TypeOK, Rest
<1>5. NotStarted' /\ Ended'
  BY <1>1, <1>2 DEF NotStarted, Ended, JobsBeforeClose
<1>6. Drain'
  BY <1>1, <1>3 DEF Order, Drain, InFlight
<1>7. Stopped'
  BY <1>1 DEF Order, Stopped
<1>8. QED
  BY <1>4, <1>5, <1>6, <1>7, ClientsStay DEF Order

LEMMA MainKeeps ==
    ASSUME IInv, Main \/ Signal \/ ServerFails
    PROVE  IInv'
<1>1. TypeOK /\ Order
  BY DEF IInv
<1>2. CASE Migrate
  <2>1. /\ main \in {"migrate", "connect"} /\ main' \in {"connect", "warm", "exited"}
        /\ UNCHANGED <<cancelled, registered, serverErr, timedOut, closed, free, pc, left, refused>>
    BY <1>2 DEF Migrate
  <2>2. QED
    BY <1>1, <2>1, EarlyStepKeeps
<1>3. CASE Connect
  <2>1. /\ main \in {"migrate", "connect"} /\ main' \in {"connect", "warm", "exited"}
        /\ UNCHANGED <<cancelled, registered, serverErr, timedOut, closed, free, pc, left, refused>>
    BY <1>3 DEF Connect
  <2>2. QED
    BY <1>1, <2>1, EarlyStepKeeps
<1>4. CASE Start
  BY <1>4, StartKeeps
<1>5. CASE Notice
  BY <1>1, <1>5, ClientsStay
     DEF Notice, TypeOK, Rest, Order, NotStarted, Ended, JobsBeforeClose, Drain, Stopped, InFlight
<1>6. CASE Drained
  BY <1>1, <1>6, ClientsStay
     DEF Drained, TypeOK, Rest, Order, NotStarted, Ended, JobsBeforeClose, Drain, Stopped, InFlight
<1>7. CASE DrainTimesOut
  BY <1>1, <1>7, ClientsStay
     DEF DrainTimesOut, TypeOK, Rest, Order, NotStarted, Ended, JobsBeforeClose, Drain, Stopped, InFlight
<1>8. CASE WorkersDone
  BY <1>1, <1>8, ClientsStay
     DEF WorkersDone, TypeOK, Rest, Order, NotStarted, Ended, JobsBeforeClose, Drain, Stopped, InFlight
<1>9. CASE TaskDone
  BY <1>1, <1>9, ClientsStay
     DEF TaskDone, TypeOK, Rest, Order, NotStarted, Ended, JobsBeforeClose, Drain, Stopped, InFlight, Jobs
<1>10. CASE Exit
  BY <1>1, <1>10, ClientsStay
     DEF Exit, TypeOK, Rest, Order, NotStarted, Ended, JobsBeforeClose, Drain, Stopped, InFlight
<1>11. CASE Signal
  BY <1>1, <1>11, ClientsStay
     DEF Signal, TypeOK, Rest, Order, NotStarted, Ended, JobsBeforeClose, Drain, Stopped, InFlight
<1>12. CASE ServerFails
  BY <1>1, <1>12, ClientsStay
     DEF ServerFails, TypeOK, Rest, Order, NotStarted, Ended, JobsBeforeClose, Drain, Stopped, InFlight
<1>13. QED
  BY <1>2, <1>3, <1>4, <1>5, <1>6, <1>7, <1>8, <1>9, <1>10, <1>11, <1>12 DEF Main

LEMMA Step == IInv /\ [Next]_vars => IInv'
<1> SUFFICES ASSUME IInv, [Next]_vars PROVE IInv'
  OBVIOUS
<1>1. CASE UNCHANGED vars
  BY <1>1 DEF IInv, TypeOK, Order, NotStarted, Ended, JobsBeforeClose, Drain, Stopped, InFlight, Counting,
              vars, mainVars
<1>2. ASSUME NEW p \in Clients, Acquire(p) PROVE IInv'
  BY <1>2, AcquireKeeps
<1>3. ASSUME NEW j \in Jobs, Job(j) PROVE IInv'
  <2>1. CASE TimerFires(j)
    BY <2>1, TimerFiresKeeps
  <2>2. CASE NoticeDone(j)
    BY <2>2, NoticeDoneKeeps
  <2>3. CASE StatementEnds(j)
    BY <2>3, AfterStatementKeeps DEF StatementEnds
  <2>4. CASE StatementAborts(j)
    BY <2>4, AfterStatementKeeps DEF StatementAborts
  <2>5. QED
    BY <1>3, <2>1, <2>2, <2>3, <2>4 DEF Job
<1>4. QED
  BY <1>1, <1>2, <1>3, FetchReturnsKeeps, RequestKeeps, MainKeeps DEF Next

LEMMA Inductive == Spec => []IInv
BY InitInv, Step, PTL DEF Spec

\* Type correctness; with it, that connections are neither lost nor handed out twice.
THEOREM TypeCorrect == Spec => []TypeOK
<1>1. IInv => TypeOK
  BY DEF IInv
<1>2. QED
  BY Inductive, <1>1, PTL

\* No worker and no task outlives the store, for any jobs and any pool.
THEOREM NothingUsesClosedStore == Spec => []JobsBeforeClose
<1>1. IInv => JobsBeforeClose
  BY DEF IInv, Order, Ended
<1>2. QED
  BY Inductive, <1>1, PTL

\* A shutdown within its ten seconds cuts no request off and refuses none; only after a
\* failed listener, whose stop() lets go of the signals, can a signal end it earlier.
THEOREM RequestsAreDrained == Spec => []DrainedUnlessTimedOut
<1>1. IInv => DrainedUnlessTimedOut
  BY DEF IInv, Order, Drain, Stopped, DrainedUnlessTimedOut
<1>2. QED
  BY Inductive, <1>1, PTL
================================================================================
