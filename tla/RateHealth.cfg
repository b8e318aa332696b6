CONSTANTS
    Provider <- BcvJob
    Applies <- BcvApplies
    Threshold <- BcvThreshold
    Consolidated <- None
    Value = {v1}
    Client = {k1}
    Nil = Nil
    v1 = v1
    v2 = v2
    MaxTime = 2
    MaxFails = 3
SPECIFICATION Spec
PROPERTIES
    HealthyMeansFreshRows
