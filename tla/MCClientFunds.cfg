\* Two regimes: a push or a message may fail and the node may stop between two
\* calls of process(); or every API call may fail, and it may stop anywhere.
SPECIFICATION MCSpec
CONSTANTS
    q1 = q1
    q2 = q2
    w1 = w1
    w2 = w2
    NoWallet = NoWallet
    Reqs <- MCReqs
    Wallets <- MCWallets
    Requests <- MCRequests
    MaxAvail = 2
    Regimes <- MCRegimes
    Payments = {"r1", "r2", "r3"}
    Scenarios <- MCScenarios
INVARIANTS OneMessage ReservationsHeld StoreMatchesChain ReservedBacked
PROPERTIES ReservedKept EveryRequestReturns CallsReturn
\* The system stops when every request was answered.
CHECK_DEADLOCK FALSE
