SPECIFICATION FairSpec
CONSTANTS
    s1 = s1
    o1 = o1
    o2 = o2
    o3 = o3
    c1 = c1
    c2 = c2
    c3 = c3
    NoObj = NoObj
    Sectors <- MCSectors
    Calls <- MCCalls
    Objs <- MCObjs
    FileTypes <- MCFileTypes
    Requests <- MCRequests
INVARIANT NoLostWakeup
PROPERTIES ImplementsSectorLocks EveryCallReturns
\* The system stops when every call has returned.
CHECK_DEADLOCK FALSE
