CONSTANTS
    MaxExecs = 2
    MaxAttempts = 1
    MaxLate = 1
SPECIFICATION FairSpec
INVARIANTS PinnedWasApprovedAndBuilt RefusedNeverDeploys
PROPERTIES ApprovalIsNotDropped EveryExecutionCloses
CHECK_DEADLOCK FALSE
