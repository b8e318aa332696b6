CONSTANTS
    FetchTime <- UnderAMinute
    PublishAt <- Afternoon
    RestartAt <- Never
    MaxRestarts = 0
    FirstDay = 2
    LastDay = 7
    Nil = Nil
SPECIFICATION Spec
PROPERTY
    NoRepeatedPublication
CHECK_DEADLOCK FALSE
