\* Two executions that take the lease within the slot they start in and end, or are
\* killed, within the lease; two instants in each slot, so that a cycle may take the
\* lease after a later one of its slot, and may end in a later slot.
SPECIFICATION Spec
CONSTANTS
    NoValue = NoValue
    Executions = {c1, c2}
    Interval = 2
    DayLength = 4
    LeaseLength = 2
    Window = 2
    Lookback = 2
    CooldownBase = 2
    CooldownMax = 12
    Failures = {"OTHER"}
    Shapes = {"single", "dated", "undated", "otherDay", "unreadable", "empty"}
    Faults = {"crash", "shutdown"}
    MayOutlive = FALSE
    MayLag = FALSE
    Honest = TRUE
    MaxReading = 0
    Uses = {1}
    MaxTime = 4
    MaxRateLimits = 9
INVARIANTS
    TypeOK
    MutualExclusion
    IntervalsTile
    DerivedFromRaw
    IntervalsAreTrue
    QueueNamesTheDay
PROPERTY
    NumberStays
SYMMETRY Symmetry
CHECK_DEADLOCK FALSE
