\* The default interval of 300 s.
SPECIFICATION Spec
CONSTANTS
    Interval = 600
    Timeout = 30
    MaxAttempts = 3
    BaseDelay = 2
    RateLimitBaseDelay = 10
    MaxDelay = 30
    DefaultBudget = 90
    MinLease = 120
    Starts = {"profile", "energy"}
    Durations = {0, 7, 30}
INVARIANTS
    TypeOK
    WithinLease
PROPERTY OverrunIsOneAttempt
CHECK_DEADLOCK FALSE
