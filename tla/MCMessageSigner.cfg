SPECIFICATION Spec
CONSTANTS
    Addrs = {"l", "r"}
    Local = "l"
    Remote = {"r"}
    Premiums = {4, 6}
    SignPremium = 4
    RemotePremiums = {4}
    MaxSigns = 2
    MaxMessages = 3
    MaxNonce = 1
    MaxHeight = 2
    MaxHeads = 2
    MaxNonceGap = 1
    MaxActorPendingMessages = 2
    MaxUntrustedActorPendingMessages = 1
    SizeLimitHigh = 2
    SizeLimitLow = 1
    Balance = 9
    Priority = {}
    PoolFaults = {"signature", "store", "clear", "crash"}
    MaxPoolFaults = 1
INVARIANTS NonceIsNext PoolCounts LocalKept NonceNotReused
\* The bounds on messages and on changes of the head end every behaviour.
CHECK_DEADLOCK FALSE
