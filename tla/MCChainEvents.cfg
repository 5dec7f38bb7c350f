SPECIFICATION FairSpec
CONSTANTS
    g = g
    a1 = a1
    a2 = a2
    a4 = a4
    a5 = a5
    b2 = b2
    b3 = b3
    Nil = Nil
    Genesis = g
    TipSets <- MCTipSets
    Parent <- MCParent
    Height <- MCHeight
    ChangeTs = {a2, b3}
    MessageTs = {a1}
    Callers = {1}
    HandlerHeights = {2, 3}
    HandlerConfidences = {0, 2}
    TriggerArgs <- MCTriggerArgs
    GcConfidence = 2
    Faults = {"drop", "api", "handler"}
    MaxMoves = 3
    MaxDrops = 1
    MaxNotifs = 2
INVARIANTS CacheMatchesChain HeightsMatchChain EventsMatchChain
PROPERTY CatchesUp
\* The bound on head changes ends every behaviour.
CHECK_DEADLOCK FALSE
