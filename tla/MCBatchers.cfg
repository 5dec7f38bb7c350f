SPECIFICATION FairSpec
CONSTANTS
    Kinds = {"precommit", "commit", "terminate"}
    Sectors = {1, 2, 3}
    Callers = {1, 2, 3}
    Partition <- MCPartition
    Deadline <- MCDeadline
    Deadlines = 4
    SectorsOf <- MCSectorsOf
    Ahead = {1, 3}
    MaxBatch = 2
    MinBatch = 1
    MaxWait = 3
    Slack = 1
    AddressedSectorsMax = 2
    DeclarationsMax = 2
    Faults = {"api", "push", "ctx", "gone", "stop"}
    MaxFails = 1
INVARIANTS WaitingIsTodo AnswersMatch
PROPERTIES CutoffKept EveryCallAnswered
\* The batcher was stopped.
CHECK_DEADLOCK FALSE
