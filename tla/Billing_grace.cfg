SPECIFICATION BillingSpec
CONSTANTS
    Operators = {o1, o2}
    Schedulers = {k1}
    Plans = {1, 2}
    Cycles = {"monthly"}
    Month = 1
    Year = 2
    Grace = 1
    Horizon = 4
    MaxCalls = 3
    MaxSubscriptions = 1
INVARIANTS StatusFitsPeriod PeriodsAreCharged
PROPERTIES LapsedIsSuspended
CHECK_DEADLOCK FALSE
