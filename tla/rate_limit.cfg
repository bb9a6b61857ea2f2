\* The scheduler may miss slots, as long as the longest cooldown if need be.
SPECIFICATION Spec
CONSTANTS
    Base = 2
    Maximum = 12
    MaxMissed = 12
INVARIANT TypeOK
PROPERTIES
    RateIsReduced
    PausesLetItRecover
