CONSTANTS
    FetchTime <- PageTimes
    InsertTime <- SlowDatabase
    MaxTime = 3600
    Nil = Nil
SPECIFICATION Spec
INVARIANTS
    TypeOK
    StaleMeansFailing
PROPERTY
    NoBurst
CHECK_DEADLOCK FALSE
