CONSTANTS
    MaxStarts = 2
    MaxTime = 2
    MaxNames = 1
    MaxEvents = 4
    Users = {10}
    Callers = {1, 2, 10}
SPECIFICATION Spec
INVARIANTS TenantIsToldByItsCreators ReadyIsSeeded
PROPERTIES AnswersAreTraced
CHECK_DEADLOCK FALSE
