SPECIFICATION MCSpec
CONSTANTS
    Workers = {w1, w2}
    Requests = {"p1", "p2", "n1"}
    Primary <- MCPrimary
    Room = 1
    MaxHandles = 2
    Works = {"a"}
    Callers = {"k1", "k2"}
    Demands <- MCDemands
    MaxCalls = 2
    MaxCrashes = 1
    Faults = {"call", "abort", "cancel"}
INVARIANTS NoLostWakeup StartedHasOwner
PROPERTY WaitingEnds
\* A worker that is not there is disabled: the program ends.  All callers have
\* returned.
CHECK_DEADLOCK FALSE
