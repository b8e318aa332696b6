CONSTANTS
    Currencies <- TwoCurrencies
    MaxDay = 3
    MaxFetches = 3
SPECIFICATION TimelySpec
INVARIANTS
    TypeOK
    EveryObservationOnce
    RawOrAverage
    DoneHasNoRaw
PROPERTY
    AtomicConsolidation
CHECK_DEADLOCK FALSE
