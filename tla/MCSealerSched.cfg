\* A worker's session check may fail and succeed again; or workers restart and
\* sectors are forced out of the sealing states.
SPECIFICATION FairSpec
CONSTANTS
    Tasks = {1, 2, 3}
    Workers = {w1}
    SchedWindows = 2
    MaxConcurrent = 1
    Scenarios <- MCScenarios
INVARIANTS ResourcesInUse InOnePlace
PROPERTY HandedOverAnswered
\* An index that is out of range ends the program.
CHECK_DEADLOCK FALSE
