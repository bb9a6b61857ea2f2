\* Two executions that may outlive their leases; one cycle may be rate limited.
SPECIFICATION Spec
CONSTANTS
    NoValue = NoValue
    Executions = {c1, c2}
    Interval = 1
    DayLength = 1
    LeaseLength = 1
    Window = 2
    Lookback = 2
    CooldownBase = 2
    CooldownMax = 12
    Failures = {"RATE_LIMITED"}
    Shapes = {"single", "otherDay"}
    Faults = {}
    MayOutlive = TRUE
    MayLag = TRUE
    Honest = FALSE
    MaxReading = 1
    Uses = {0}
    MaxTime = 1
    MaxRateLimits = 1
INVARIANTS
    NoRequestInCooldown
    NumberOnlyWhenResolved
    BaselinePrecedes
PROPERTIES
    RawOnlyImproves
    OnlyTheHolderReleases
    ImplementsSeries
SYMMETRY Symmetry
CHECK_DEADLOCK FALSE
