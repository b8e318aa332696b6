CONSTANT
    LastMinute = 10080
SPECIFICATION Spec
INVARIANTS
    Daily
    Opening
    BusinessDate
    OneNight
    HistoryDates
CHECK_DEADLOCK FALSE
