----------------------------- MODULE IndexLocks -----------------------------
(***************************************************************************)
(* The sector locks of the storage index (storage/paths/index_locks.go and *)
(* index_locks_util.go).  Every StorageLock / StorageTryLock call names a  *)
(* sector, a set of file types to read and a set of file types to write.   *)
(* A granted lock lives as long as the context of its call: a goroutine    *)
(* waits for ctx.Done() and gives the lock back.                           *)
(*                                                                         *)
(*  - A sectorLock is an object of its own: the map i.locks points to it,  *)
(*    calls keep a pointer to it, and it leaves the map when its reference *)
(*    count reaches zero.  Objs are the objects there can be, fresh the    *)
(*    ones not allocated yet.                                              *)
(*  - Each of Calls is one call, with the request it makes chosen by the   *)
(*    caller.  Unknown file types cannot be named by a request.            *)
(*  - A critical section of i.lk or of cond.L is one action: nothing       *)
(*    blocks inside either, except that the release goroutine takes cond.L *)
(*    while it holds i.lk, and no one takes i.lk while holding cond.L.     *)
(*  - The reference count is not given back when a call fails: the code    *)
(*    returns before it starts the release goroutine.                      *)
(***************************************************************************)
EXTENDS Naturals, FiniteSets

CONSTANTS
    Sectors,    \* abi.SectorID
    FileTypes,  \* the bits of storiface.SectorFileType
    Calls,      \* the StorageLock and StorageTryLock calls of a behaviour
    Requests,   \* the requests a caller may make
    Objs,       \* the sectorLock objects that may be allocated
    NoObj       \* nil

ASSUME IndexLocksAssumption ==
    /\ IsFiniteSet(Calls)
    /\ Requests \subseteq [sector : Sectors, read : SUBSET FileTypes,
                           write : SUBSET FileTypes, blocking : BOOLEAN]
    /\ NoObj \notin Objs

VARIABLES
    locks,      \* indexLocks.locks
    fresh,      \* the objects that were never allocated
    r,          \* sectorLock.r: readers per file type
    w,          \* sectorLock.w: the file types locked for writing
    refs,       \* sectorLock.refs
    pc,         \* where each call is
    ctxDone,    \* the calls whose context is done
    req,        \* the request of each call
    obj         \* slk: the object a call works on

vars == <<locks, fresh, r, w, refs, pc, ctxDone, req, obj>>

PC == {"idle", "trying", "waiting", "woken", "held", "released", "failed"}

\* The calls that have a pointer to a sectorLock they may still use.
Active(c) == pc[c] \in {"trying", "waiting", "woken", "held"}

Holds(c, o) == pc[c] = "held" /\ obj[c] = o

-----------------------------------------------------------------------------
Init ==
    /\ locks = [s \in Sectors |-> NoObj]
    /\ fresh = Objs
    /\ r = [o \in Objs |-> [t \in FileTypes |-> 0]]
    /\ w = [o \in Objs |-> {}]
    /\ refs = [o \in Objs |-> 0]
    /\ pc = [c \in Calls |-> "idle"]
    /\ ctxDone = {}
    /\ req \in [Calls -> Requests]
    /\ obj = [c \in Calls |-> NoObj]

\* sectorLock.canLock: no reader of a type to be written, and no writer of
\* any type that is wanted.
canLock(o, read, write) ==
    /\ \A t \in write : r[o][t] = 0
    /\ w[o] \cap (read \cup write) = {}

\* lockWith before lockFn: an empty request is refused; otherwise the lock of
\* the sector is looked up or allocated, and its reference count incremented.
lockWithEmpty(c) ==
    /\ pc[c] = "idle"
    /\ req[c].read \cup req[c].write = {}
    /\ pc' = [pc EXCEPT ![c] = "failed"]
    /\ UNCHANGED <<locks, fresh, r, w, refs, ctxDone, req, obj>>

lockWithRef(c) ==
    /\ pc[c] = "idle"
    /\ req[c].read \cup req[c].write # {}
    /\ LET s == req[c].sector IN
       \E o \in Objs :
          /\ \/ locks[s] = o /\ UNCHANGED <<locks, fresh>>
             \/ /\ locks[s] = NoObj
                /\ o \in fresh
                /\ fresh' = fresh \ {o}
                /\ locks' = [locks EXCEPT ![s] = o]
          /\ refs' = [refs EXCEPT ![o] = @ + 1]
          /\ obj' = [obj EXCEPT ![c] = o]
    /\ pc' = [pc EXCEPT ![c] = "trying"]
    /\ UNCHANGED <<r, w, ctxDone, req>>

\* sectorLock.tryLock succeeds, in tryLockSafe or in an iteration of lock.
tryLock(c) ==
    LET o == obj[c]
        q == req[c] IN
    /\ pc[c] = "trying"
    /\ canLock(o, q.read, q.write)
    /\ r' = [r EXCEPT ![o] = [t \in FileTypes |-> @[t] + IF t \in q.read THEN 1 ELSE 0]]
    /\ w' = [w EXCEPT ![o] = @ \cup q.write]
    /\ pc' = [pc EXCEPT ![c] = "held"]
    /\ UNCHANGED <<locks, fresh, refs, ctxDone, req, obj>>

\* tryLock fails: StorageTryLock returns false; StorageLock takes the channel
\* of the condition before it gives cond.L back, and waits on it.
tryLockFails(c) ==
    /\ pc[c] = "trying"
    /\ ~ canLock(obj[c], req[c].read, req[c].write)
    /\ pc' = [pc EXCEPT ![c] = IF req[c].blocking THEN "waiting" ELSE "failed"]
    /\ UNCHANGED <<locks, fresh, r, w, refs, ctxDone, req, obj>>

\* Mutant: ctxCond.Wait listens to the context only.
WakeDone(c) ==
    /\ pc[c] = "woken" /\ c \in ctxDone
    /\ pc' = [pc EXCEPT ![c] = "trying"]
    /\ UNCHANGED <<locks, fresh, r, w, refs, ctxDone, req, obj>>

\* ctxCond.Wait returns because the channel was closed ...
Wake(c) ==
    /\ pc[c] = "woken"
    /\ pc' = [pc EXCEPT ![c] = "trying"]
    /\ UNCHANGED <<locks, fresh, r, w, refs, ctxDone, req, obj>>

\* ... or because the context is done (select picks either when both are).
WaitFails(c) ==
    /\ pc[c] \in {"waiting", "woken"}
    /\ c \in ctxDone
    /\ pc' = [pc EXCEPT ![c] = "failed"]
    /\ UNCHANGED <<locks, fresh, r, w, refs, ctxDone, req, obj>>

\* The caller cancels its context, or it times out, at any moment.
CtxDone(c) ==
    /\ c \notin ctxDone
    /\ pc[c] # "released" /\ pc[c] # "failed"
    /\ ctxDone' = ctxDone \cup {c}
    /\ UNCHANGED <<locks, fresh, r, w, refs, pc, req, obj>>

\* Mutant: unlock does not broadcast.
BroadcastNobody(o, c) ==
    pc' = [pc EXCEPT ![c] = "released"]

\* ctxCond.Broadcast: everyone waiting on the condition of o is woken up.
Broadcast(o, c) ==
    pc' = [x \in Calls |-> IF x = c THEN "released"
                           ELSE IF pc[x] = "waiting" /\ obj[x] = o THEN "woken"
                           ELSE pc[x]]

\* sectorLock.unlock
unlock(c) ==
    LET o == obj[c]
        q == req[c] IN
    /\ r' = [r EXCEPT ![o] = [t \in FileTypes |-> @[t] - IF t \in q.read THEN 1 ELSE 0]]
    /\ w' = [w EXCEPT ![o] = @ \ q.write]
    /\ Broadcast(o, c)

\* Mutant: the lock leaves the map while others still refer to it.
unrefAlwaysDeletes(o, s) ==
    /\ refs' = [refs EXCEPT ![o] = @ - 1]
    /\ locks' = [locks EXCEPT ![s] = NoObj]

\* The reference is given back, and an unreferenced lock leaves the map.
unref(o, s) ==
    /\ refs' = [refs EXCEPT ![o] = @ - 1]
    /\ locks' = IF refs'[o] = 0 THEN [locks EXCEPT ![s] = NoObj] ELSE locks

\* The goroutine that lockWith starts gives the lock back once the context of
\* the call is done.
Release(c) ==
    /\ pc[c] = "held"
    /\ c \in ctxDone
    /\ unlock(c)
    /\ unref(obj[c], req[c].sector)
    /\ UNCHANGED <<fresh, ctxDone, req, obj>>

CallStep(c) == \/ lockWithEmpty(c) \/ lockWithRef(c) \/ tryLock(c) \/ tryLockFails(c)
               \/ Wake(c) \/ WaitFails(c) \/ Release(c)

Next == \E c \in Calls : CallStep(c) \/ CtxDone(c)

\* Goroutines are scheduled, and a holder's context ends: every caller in the
\* repository cancels the context it locks with when its operation is over.
Fairness == \A c \in Calls : /\ WF_vars(CallStep(c))
                             /\ WF_vars(pc[c] = "held" /\ CtxDone(c))

Spec == Init /\ [][Next]_vars

FairSpec == Spec /\ Fairness

-----------------------------------------------------------------------------
TypeOK ==
    /\ locks \in [Sectors -> Objs \cup {NoObj}]
    /\ fresh \in SUBSET Objs
    /\ r \in [Objs -> [FileTypes -> Nat]]
    /\ w \in [Objs -> SUBSET FileTypes]
    /\ refs \in [Objs -> Nat]
    /\ pc \in [Calls -> PC]
    /\ ctxDone \in SUBSET Calls
    /\ req \in [Calls -> Requests]
    /\ obj \in [Calls -> Objs \cup {NoObj}]

\* Two calls that hold locks of one sector never conflict: what one writes the
\* other neither reads nor writes.  This is what sectorLock.canLock is for, and
\* it rests on both calls having met the same sectorLock object.
MutualExclusion ==
    \A c, d \in Calls :
        /\ c # d
        /\ pc[c] = "held" /\ pc[d] = "held"
        /\ req[c].sector = req[d].sector
        => req[c].write \cap (req[d].read \cup req[d].write) = {}

\* A lock that is still referenced by a running call is the one the map holds
\* for its sector: the reference count never lets delete(i.locks, sector) drop
\* a lock somebody waits on or holds.
ReferencedIsMapped == \A c \in Calls : Active(c) => locks[req[c].sector] = obj[c]

\* A call that sleeps in ctxCond.Wait and was not woken up has a reason to: its
\* request really conflicts with the locks held.  A wake-up is never lost.
NoLostWakeup ==
    \A c \in Calls :
        pc[c] = "waiting" => ~ canLock(obj[c], req[c].read, req[c].write)

\* When the contexts of holders end, every StorageLock call returns: it is
\* granted the lock, or its own context ended first.  The calls of a behaviour
\* are finitely many: canLock gives a writer no precedence, so an unending
\* stream of readers may keep one waiting for ever.
EveryCallReturns ==
    \A c \in Calls : pc[c] = "trying" ~> pc[c] \in {"held", "released", "failed"}

-----------------------------------------------------------------------------
\* What a caller sees of where its call is.
statusOf(p) == IF p = "idle" THEN "new"
               ELSE IF p = "held" THEN "granted"
               ELSE IF p \in {"released", "failed"} THEN "over" ELSE "asked"

SL == INSTANCE SectorLocks
        WITH status <- [c \in Calls |-> statusOf(pc[c])], ended <- ctxDone, request <- req

\* The lock objects, counters, write bits, reference counts and wake-ups of
\* indexLocks implement the locks of SectorLocks: no call is granted a lock that
\* conflicts with a granted one (canLock), none is refused by StorageTryLock
\* without one, and a lock is kept until the context of its call ends.
ImplementsSectorLocks == SL!Spec

=============================================================================
