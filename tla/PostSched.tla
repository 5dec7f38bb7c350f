----------------------------- MODULE PostSched -----------------------------
(***************************************************************************)
(* The scheduler of window and winning proofs (storage/sealer/             *)
(* sched_post.go) and its callers (manager_post.go): workers register, a   *)
(* goroutine per registration watches the worker's session, and each       *)
(* request holds a worker's resources while it works.  A request of a      *)
(* window proof is primary: it waits until some worker has room.           *)
(*                                                                         *)
(* A worker that reconnects with its session unchanged registers again,    *)
(* with a new handle whose resources are all free; a handle is numbered.   *)
(***************************************************************************)
EXTENDS Naturals, FiniteSets

CONSTANTS
    Workers,
    Requests,
    Primary,        \* the requests of window proofs
    Room,           \* how many proofs a worker computes at a time
    MaxHandles      \* bound: registrations of a worker

ASSUME PostSchedAssumption ==
    Primary \subseteq Requests /\ IsFiniteSet(Requests) /\ Room \in Nat \ {0} /\ MaxHandles \in Nat \ {0}

VARIABLES
    workers,    \* worker -> number of its handle in ps.workers, 0 if none
    handles,    \* worker -> number of registrations so far
    enabled,    \* worker -> Enabled of its handle
    watchers,   \* the goroutines of watch: pairs of a worker and a handle
    ended,      \* the workers whose session is over
    req,        \* request -> where it is, and the worker and handle it uses
    crashed     \* a worker that is not there was enabled or disabled

vars == <<workers, handles, enabled, watchers, ended, req, crashed>>

present == {w \in Workers : workers[w] # 0}

Init ==
    /\ workers = [w \in Workers |-> 0] /\ handles = [w \in Workers |-> 0]
    /\ enabled = [w \in Workers |-> FALSE]
    /\ watchers = {} /\ ended = {} /\ crashed = FALSE
    /\ req = [r \in Requests |-> [pc |-> "new", worker |-> "none", handle |-> 0]]

\* active of the handle n of worker w
active(w, n) == Cardinality({r \in Requests : req[r] = [pc |-> "working", worker |-> w, handle |-> n]})

\* readyWorkers: the workers that can handle the request
readyWorkers == {w \in present : active(w, workers[w]) < Room}

\* Mutant: those that wait are not told.
stillAsleep(rs) == rs

\* cond.Broadcast: the requests rs where all that waited are awake
broadcast(rs) == [r \in Requests |-> IF rs[r].pc = "asleep" THEN [rs[r] EXCEPT !.pc = "waiting"] ELSE rs[r]]

-----------------------------------------------------------------------------
\* MaybeAddWorker, for a worker that computes this kind of proof
MaybeAddWorker(w) ==
    /\ ~ crashed /\ w \notin ended
    /\ handles[w] < MaxHandles
    /\ handles' = [handles EXCEPT ![w] = @ + 1]
    /\ workers' = [workers EXCEPT ![w] = handles'[w]]
    /\ enabled' = [enabled EXCEPT ![w] = TRUE]
    /\ watchers' = watchers \cup {<<w, handles'[w]>>}
    /\ req' = broadcast(req)
    /\ UNCHANGED <<ended, crashed>>

\* The worker stops or restarts.
SessionEnds(w) ==
    /\ handles[w] > 0 /\ w \notin ended
    /\ ended' = ended \cup {w}
    /\ UNCHANGED <<workers, handles, enabled, watchers, req, crashed>>

\* watch: the session check of g succeeds or fails, and the worker is enabled
\* or disabled
Watch(g) ==
    LET w == g[1] IN
    /\ ~ crashed
    /\ \E ok \in IF w \in ended THEN {FALSE} ELSE BOOLEAN :
         IF w \in present
         THEN enabled' = [enabled EXCEPT ![w] = ok] /\ UNCHANGED crashed
         ELSE crashed' = TRUE /\ UNCHANGED enabled
    /\ UNCHANGED <<workers, handles, watchers, ended, req>>

\* watch: another session answers; delWorker
WatchEnds(g) ==
    LET w == g[1] IN
    /\ ~ crashed /\ w \in ended
    /\ watchers' = watchers \ {g}
    /\ workers' = [workers EXCEPT ![w] = 0]
    /\ UNCHANGED <<handles, enabled, ended, req, crashed>>

-----------------------------------------------------------------------------
CanSched == \E w \in present : enabled[w]

\* GenerateWindowPoSt, GenerateWinningPoSt: without a worker the proof is
\* computed by the miner
Generate(r) ==
    /\ ~ crashed /\ req[r].pc = "new"
    /\ req' = [req EXCEPT ![r].pc = IF CanSched THEN "scheduling" ELSE "local"]
    /\ UNCHANGED <<workers, handles, enabled, watchers, ended, crashed>>

\* what becomes of a request when no worker has room
noRoom(r) == IF r \in Primary THEN "asleep" ELSE "failed"

\* Schedule up to the call of the worker, or the second half of cond.Wait
Schedule(r) ==
    /\ ~ crashed /\ req[r].pc \in {"scheduling", "waiting"}
    /\ \/ /\ req[r].pc = "scheduling" /\ present = {}
          /\ req' = [req EXCEPT ![r].pc = "failed"]
       \/ /\ req[r].pc = "waiting" \/ present # {}
          /\ readyWorkers = {}
          /\ req' = [req EXCEPT ![r].pc = noRoom(r)]
       \/ \E w \in readyWorkers :
             req' = [req EXCEPT ![r] = [pc |-> "working", worker |-> w, handle |-> workers[w]]]
    /\ UNCHANGED <<workers, handles, enabled, watchers, ended, crashed>>

\* The worker answers: the resources are freed and all that wait are told.
Done(r) ==
    /\ ~ crashed /\ req[r].pc = "working"
    /\ req' = broadcast([req EXCEPT ![r].pc = "done"])
    /\ UNCHANGED <<workers, handles, enabled, watchers, ended, crashed>>

Next ==
    \/ \E w \in Workers : MaybeAddWorker(w) \/ SessionEnds(w)
    \/ \E g \in watchers : Watch(g) \/ WatchEnds(g)
    \/ \E r \in Requests : Generate(r) \/ Schedule(r) \/ Done(r)

Spec == Init /\ [][Next]_vars

-----------------------------------------------------------------------------
TypeOK ==
    /\ workers \in [Workers -> 0..MaxHandles] /\ handles \in [Workers -> 0..MaxHandles]
    /\ enabled \in [Workers -> BOOLEAN] /\ crashed \in BOOLEAN
    /\ watchers \subseteq Workers \X (1..MaxHandles) /\ ended \subseteq Workers
    /\ req \in [Requests -> [pc : {"new", "local", "scheduling", "waiting", "asleep", "working", "failed", "done"},
                             worker : Workers \cup {"none"}, handle : 0..MaxHandles]]

\* A request of a window proof that sleeps has no worker it could use: no
\* wake-up is lost, whether a proof ends, a worker registers or one goes.
NoLostWakeup == \A r \in Requests : req[r].pc = "asleep" => readyWorkers = {}

\* A window proof never fails for lack of room, only when there is no worker.
PrimaryNeverTurnedAway ==
    [][\A r \in Primary : req[r].pc # "failed" /\ req'[r].pc = "failed" => present = {}]_vars

started(r) == req[r].pc # "working" /\ req'[r].pc = "working"

\* A request is given to a worker whose handle has room: the proofs that a
\* handle computes at a time are at most Room.
RoomKept == \A w \in Workers, n \in 1..MaxHandles : active(w, n) <= Room

\* What NoLostWakeup and RoomKept need to be inductive.
IInv == TypeOK /\ NoLostWakeup /\ RoomKept

\* "if the gpus of the worker are insufficient ... it cannot be scheduled"
\* (sched_post.go:123), whichever handle the worker is known by.
GpusSuffice == \A w \in Workers : Cardinality({r \in Requests : req[r].pc = "working" /\ req[r].worker = w}) <= Room

\* "... or it's disabled, it cannot be scheduled" (sched_post.go:123)
OnlyEnabled == [][\A r \in Requests : started(r) => enabled[req'[r].worker]]_vars
=============================================================================
