CONSTANTS
    Provider <- BothJobs
    Applies <- BothApplies
    Threshold <- BothThreshold
    Consolidated <- None
    Value = {v1}
    Client = {}
    Nil = Nil
    v1 = v1
    v2 = v2
    MaxTime = 0
    MaxFails = 3
SPECIFICATION FairSpec
PROPERTIES
    ProvidersRecover
    RowsCatchUp
