\* A crash between the write and the queue.
SPECIFICATION Spec
CONSTANTS
    NoValue = NoValue
    Executions = {c1}
    Interval = 1
    DayLength = 2
    LeaseLength = 1
    Window = 2
    Lookback = 2
    CooldownBase = 2
    CooldownMax = 12
    Failures = {}
    Shapes = {"dated"}
    Faults = {"crash"}
    MayOutlive = FALSE
    MayLag = TRUE
    Honest = TRUE
    MaxReading = 0
    Uses = {0, 1}
    MaxTime = 2
    MaxRateLimits = 9
INVARIANT UnresolvedIsQueued
CHECK_DEADLOCK FALSE
