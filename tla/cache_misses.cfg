\* One session, and a failure before the first refresh succeeds.
SPECIFICATION Spec
CONSTANTS
    NoValue = NoValue
    Sessions = {u1}
    Interval = 4
    Overlap = 2
    RefreshEvery = 1
    CommitDelay = 1
    LoadTime = 1
    MayFailFirst = TRUE
    MayUndo = FALSE
    Beginnings = {0}
    Endings = {2}
    MaxTime = 3
    MaxVersion = 2
PROPERTY RefreshCatchesUp
CHECK_DEADLOCK FALSE
