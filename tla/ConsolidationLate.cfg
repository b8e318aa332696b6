CONSTANTS
    Currencies <- OneCurrency
    MaxDay = 2
    MaxFetches = 2
SPECIFICATION Spec
INVARIANT
    NoObservationLost
CHECK_DEADLOCK FALSE
