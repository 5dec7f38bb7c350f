SPECIFICATION Spec
CONSTANTS
    Requests = {"r1", "r2"}
    Scenarios <- MCScenarios
INVARIANT AmountReserved
CHECK_DEADLOCK FALSE
