CONSTANTS
    bcv = bcv
    binance = binance
    task = task
    r1 = r1
    r2 = r2
    Workers <- BothWorkers
    Task = task
    Requests <- TwoRequests
    Statements <- TwoEach
    MaxConns = 2
SPECIFICATION FairSpec
INVARIANTS
    TypeOK
    JobsBeforeClose
    DrainedUnlessTimedOut
PROPERTIES
    MainExits
    RequestsAnswered
CHECK_DEADLOCK FALSE
