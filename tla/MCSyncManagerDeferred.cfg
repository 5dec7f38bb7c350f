SPECIFICATION Spec
CONSTANTS
    TipSets <- MCTipSets
    Parent <- MCParent
    Weight <- MCWeight
    Height <- MCHeight
    Peers = {p1, p2}
    BootstrapPeerThreshold = 2
    MaxSyncWorkers = 3
    RecentSyncBufferSize = 2
    MaxHeads = 9
    None = None
PROPERTY DeferredProcessed
\* All heads were announced and no worker is left.
CHECK_DEADLOCK FALSE
