CONSTANTS
    FetchTime <- UnderAMinute
    PublishAt <- Afternoon
    RestartAt <- Deployments
    MaxRestarts = 1
    FirstDay = 2
    LastDay = 7
    Nil = Nil
SPECIFICATION Spec
INVARIANTS
    TypeOK
    AttemptsInWindow
    AgeImpliesFailing
    PublishedIsStored
    HealthyAfterPublication
CHECK_DEADLOCK FALSE
