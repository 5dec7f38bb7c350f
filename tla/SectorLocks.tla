---------------------------- MODULE SectorLocks ----------------------------
(***************************************************************************)
(* What callers of StorageLock and StorageTryLock (SectorIndex,            *)
(* storage/paths/index.go) are promised, without a word on how: a call     *)
(* asks for a sector, file types to read and file types to write, is       *)
(* granted them when no granted call conflicts, and keeps them until its   *)
(* context ends.  It is refused for a reason only: nothing was asked for,  *)
(* a StorageTryLock met a conflict, or the context of a StorageLock ended. *)
(***************************************************************************)
CONSTANTS
    Calls,
    Requests    \* records of a sector, read and write types, and whether the call blocks

VARIABLES
    status,     \* call -> "new", "asked", "granted" or "over"
    ended,      \* the calls whose context ended
    request     \* call -> what it asks for

vars == <<status, ended, request>>

Init ==
    /\ status = [c \in Calls |-> "new"]
    /\ ended = {}
    /\ request \in [Calls -> Requests]

empty(q) == q.read \cup q.write = {}

\* One of the two writes what the other reads or writes.
conflict(p, q) ==
    /\ p.sector = q.sector
    /\ \/ p.write \cap (q.read \cup q.write) # {}
       \/ q.write \cap (p.read \cup p.write) # {}

\* Calls that stand in the way of c.
Blockers(c) == {d \in Calls \ {c} : status[d] = "granted" /\ conflict(request[c], request[d])}

become(c, st) == status' = [status EXCEPT ![c] = st] /\ UNCHANGED <<ended, request>>

Ask(c) == status[c] = "new" /\ ~ empty(request[c]) /\ become(c, "asked")

Grant(c) == status[c] = "asked" /\ Blockers(c) = {} /\ become(c, "granted")

Refuse(c) ==
    /\ \/ status[c] = "new" /\ empty(request[c])
       \/ status[c] = "asked" /\ ~ request[c].blocking /\ Blockers(c) # {}
       \/ status[c] = "asked" /\ request[c].blocking /\ c \in ended
    /\ become(c, "over")

GiveBack(c) == status[c] = "granted" /\ c \in ended /\ become(c, "over")

ContextEnds(c) ==
    /\ ended' = ended \cup {c}
    /\ UNCHANGED <<status, request>>

Next == \E c \in Calls : Ask(c) \/ Grant(c) \/ Refuse(c) \/ GiveBack(c) \/ ContextEnds(c)

Spec == Init /\ [][Next]_vars

=============================================================================
