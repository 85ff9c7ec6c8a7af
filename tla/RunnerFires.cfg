CONSTANTS
    MaxFires = 6
    MaxBusy = 3
    MaxOverlap = 2
    MaxCycles = 2
    MaxWork = 4
SPECIFICATION Spec
INVARIANTS TypeOK FirableIsPinned  DoneIsRecorded BadRunsDegrade
PROPERTIES HealthFollowsRuns
CHECK_DEADLOCK FALSE
