CONSTANTS
    Provider <- UsdtJob
    Applies <- UsdtApplies
    Threshold <- UsdtThreshold
    Consolidated <- Usdt
    Value = {v1, v2}
    Client = {k1}
    Nil = Nil
    v1 = v1
    v2 = v2
    MaxTime = 2
    MaxFails = 4
SYMMETRY Symmetry
SPECIFICATION Spec
INVARIANTS
    TypeOK
    ApplyProgress
    FlagTracksStreak
    StateMatchesStore
    RowsOfOneFetch
PROPERTIES
    FreshAnswer
    HealthyAnswer
    HealthyUnlessLost
    OneQuotePerProvider
