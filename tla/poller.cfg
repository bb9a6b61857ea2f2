\* A poller whose timers may fire early and late, and the pages over its series.
SPECIFICATION FairSpec
CONSTANTS
    NoValue = NoValue
    Interval = 3
    DayLength = 6
    MaxTime = 9
    MaxCycle = 2
    MaxEarly = 1
    MaxLate = 1
    Widths = {2, 3, 4, 6}
INVARIANTS
    TypeOK
    StopIsPrompt
    BarsAddUp
    CompleteBarIsWhole
    CompleteRangeHidesAtMostOne
    TotalIsConsumed
PROPERTIES
    SkipsAtMostOneSlot
    SignalStops
    PollerImplementsSeries
CHECK_DEADLOCK FALSE
