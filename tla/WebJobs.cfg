SPECIFICATION FairSpec
CONSTANTS
    NumSlots = 2
    MaxJobs = 2
    Mixes <- MCMixes
    MaxConns = 1
    MaxWork = 1
    MaxLosses = 1
INVARIANTS
    DeviceExclusive
    CancelStopsSoon
    JobPinsNormal
    ResultsBeforeState
PROPERTIES
    JobEnds
CHECK_DEADLOCK FALSE
