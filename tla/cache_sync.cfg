\* Two sessions; a change and a load together take no longer than the overlap.
SPECIFICATION Spec
CONSTANTS
    NoValue = NoValue
    Sessions = {u1, u2}
    Interval = 4
    Overlap = 2
    RefreshEvery = 1
    CommitDelay = 1
    LoadTime = 1
    MayFailFirst = FALSE
    MayUndo = FALSE
    Beginnings = {0}
    Endings = {2}
    MaxTime = 3
    MaxVersion = 2
INVARIANTS
    TypeOK
    NothingIsMissed
    GapsAreExact
PROPERTY RefreshCatchesUp
SYMMETRY Symmetry
CHECK_DEADLOCK FALSE
