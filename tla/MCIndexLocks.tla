---------------------------- MODULE MCIndexLocks ----------------------------
(* Small instances of IndexLocks for TLC. *)
EXTENDS IndexLocks, TLC

CONSTANTS s1, o1, o2, o3, c1, c2, c3

MCSectors == {s1}
MCCalls == {c1, c2, c3}
MCObjs == {o1, o2, o3}
MCFileTypes == {"sealed", "cache"}

Req(s, rd, wr, b) == [sector |-> s, read |-> rd, write |-> wr, blocking |-> b]

\* Requests the storage manager makes: read, write, read one type and write
\* another (SealPreCommit2 and Commit1) with StorageLock; write both (finalize)
\* and the empty request with StorageTryLock.
MCRequests ==
    { Req(s1, {"sealed"}, {}, TRUE), Req(s1, {}, {"sealed"}, TRUE), Req(s1, {"sealed"}, {"cache"}, TRUE),
      Req(s1, {}, {"sealed", "cache"}, FALSE), Req(s1, {}, {}, FALSE) }
=============================================================================
