\* One execution at a time, an honest counter, a store that fails, late totals.
SPECIFICATION FairSpec
CONSTANTS
    NoValue = NoValue
    Executions = {c1}
    Interval = 1
    DayLength = 1
    LeaseLength = 1
    Window = 2
    Lookback = 2
    CooldownBase = 2
    CooldownMax = 12
    Failures = {}
    Shapes = {"dated"}
    Faults = {"store"}
    MayOutlive = FALSE
    MayLag = TRUE
    Honest = TRUE
    MaxReading = 0
    Uses = {0, 1}
    MaxTime = 3
    MaxRateLimits = 9
PROPERTIES
    SuccessMeansStored
    QueueIsBounded
    CycleReturns
CHECK_DEADLOCK FALSE
