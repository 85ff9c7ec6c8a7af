CONSTANTS
    MaxFires = 1
    MaxBusy = 1
    MaxOverlap = 1
    MaxCycles = 2
    MaxWork = 3
SPECIFICATION Spec
PROPERTIES PreDeployedStaysOut
CHECK_DEADLOCK FALSE
