\* One fault of any kind, an upgrade or a termination at any time.
SPECIFICATION FairSpec
CONSTANTS
    Faults = {"api", "ticket", "seal", "proof", "push", "exec", "age", "late", "reorg", "deals", "expiry", "fault", "restart"}
    Commands = {"MarkForUpdate", "Terminate"}
    MaxFails = 1
    MaxPieces = 1
    MaxQueue = 4
PROPERTY Settles
\* A removed sector, or one a handler gave up on, stays as it is.
CHECK_DEADLOCK FALSE
