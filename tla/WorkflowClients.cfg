CONSTANTS
    MaxExecs = 1
    MaxAttempts = 2
    MaxLate = 1
    MaxRequests = 2
SPECIFICATION ClientsSpec
INVARIANTS ClientsTypeOK DeployedIsPinned TestedHasPassingRun CompletedIsSettled
PROPERTIES KeepsLifecycle
CHECK_DEADLOCK FALSE
