\* Every slot has its cycle.
SPECIFICATION Spec
CONSTANTS
    Base = 2
    Maximum = 12
    MaxMissed = 0
PROPERTY CadenceResumes
