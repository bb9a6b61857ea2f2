\* One execution at a time, and a midnight in the middle of a slot.
SPECIFICATION Spec
CONSTANTS
    NoValue = NoValue
    Executions = {c1}
    Interval = 2
    DayLength = 3
    LeaseLength = 1
    Window = 2
    Lookback = 2
    CooldownBase = 2
    CooldownMax = 12
    Failures = {}
    Shapes = {"dated"}
    Faults = {}
    MayOutlive = FALSE
    MayLag = FALSE
    Honest = TRUE
    MaxReading = 0
    Uses = {0, 1}
    MaxTime = 3
    MaxRateLimits = 9
INVARIANT DerivedFromRaw
CHECK_DEADLOCK FALSE
