CONSTANTS
    Executions = {1}
    Calls = {1, 2}
    MaxEntries = 2
    Validations = {1, 2}
    Fetches = {f1}
SPECIFICATION EitherSpec
INVARIANTS SandboxesTypeOK CleanRunsEnded
PROPERTIES AnsweredCallsAreReported EverySandboxEnds  KeepsContract
CHECK_DEADLOCK FALSE
