\* A sector with two faults of any kind (one, with two pieces), an upgrade or a
\* termination at any time.
SPECIFICATION MCSpec
CONSTANTS
    WindowLen = 2
    Lookback = 1
    SubmitConfidence = 1
    ChallengeConfidence = 0
    MaxHeight = 4
    MaxHeads = 3
    EmptyWindows <- MCEmptyWindows
    Faults = {"notify", "query", "version"}
    SealingFaults = {"api", "ticket", "seal", "proof", "push", "exec", "age", "late", "reorg", "deals", "expiry", "fault", "restart"}
    Commands = {"MarkForUpdate", "Terminate"}
    MaxFails = 2
    MaxPieces = 2
    MaxQueue = 4
INVARIANTS
    OneSubmission
    CompleteIsValid
    CurrentIsLive
    NoMissedSubmit
    NeverStranded
    SealedIsProven
    RemovalSafe
    ReplicaMatchesChain
    OneLiveMessage
\* The prover was shut down.  A removed sector, or one a handler gave up on,
\* stays as it is.
CHECK_DEADLOCK FALSE
