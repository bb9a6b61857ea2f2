\* Two sessions, one of which clears the cache while the other stores a range.
SPECIFICATION Spec
CONSTANTS
    NoValue = NoValue
    Sessions = {u1, u2}
    Interval = 4
    Overlap = 2
    RefreshEvery = 1
    CommitDelay = 1
    LoadTime = 1
    MayFailFirst = FALSE
    MayUndo = TRUE
    Beginnings = {0}
    Endings = {2}
    MaxTime = 3
    MaxVersion = 2
PROPERTY CoverageHasItsRows
SYMMETRY Symmetry
CHECK_DEADLOCK FALSE
