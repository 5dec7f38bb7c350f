--------------------------- MODULE ManagerProofs ---------------------------
(***************************************************************************)
(* Two parts of the storage manager, for any workers, requests, works and  *)
(* callers.  The PoSt scheduler never gives resources twice and loses no   *)
(* wake-up.  In the call tracker a record that says a piece of work was    *)
(* started has an owner: its invariant adds the type and that only callers *)
(* of tracked work wait for a result, which a simple call never does.      *)
(***************************************************************************)
EXTENDS MCManager, FiniteSetTheorems, TLAPS

-----------------------------------------------------------------------------
(* The PoSt scheduler. *)

\* the requests that work on handle n of worker w
Using(w, n) == {r \in Requests : req[r] = [pc |-> "working", worker |-> w, handle |-> n]}

\* As many requests use a handle as active says, and they are finitely many.
LEMMA ActiveCounts ==
    \A w, n : /\ active(w, n) = Cardinality(Using(w, n)) /\ IsFiniteSet(Using(w, n)) /\ active(w, n) \in Nat
<1> SUFFICES ASSUME NEW w, NEW n
             PROVE  active(w, n) = Cardinality(Using(w, n)) /\ IsFiniteSet(Using(w, n)) /\ active(w, n) \in Nat
    OBVIOUS
<1>1. active(w, n) = Cardinality(Using(w, n))  BY DEF active, Using
<1>2. Using(w, n) \subseteq Requests  BY DEF Using
<1>3. IsFiniteSet(Requests)  BY PostSchedAssumption
<1>4. IsFiniteSet(Using(w, n))  BY <1>2, <1>3, FS_Subset
<1> QED  BY <1>1, <1>4, FS_CardinalityType

\* The same, of the next state.
LEMMA ActiveCountsNext ==
    \A w, n : /\ active(w, n)' = Cardinality(Using(w, n)') /\ IsFiniteSet(Using(w, n)') /\ active(w, n)' \in Nat
<1> SUFFICES ASSUME NEW w, NEW n
             PROVE  active(w, n)' = Cardinality(Using(w, n)') /\ IsFiniteSet(Using(w, n)') /\ active(w, n)' \in Nat
    OBVIOUS
<1>1. active(w, n)' = Cardinality(Using(w, n)')  BY DEF active, Using
<1>2. Using(w, n)' \subseteq Requests  BY DEF Using
<1>3. IsFiniteSet(Requests)  BY PostSchedAssumption
<1>4. IsFiniteSet(Using(w, n)')  BY <1>2, <1>3, FS_Subset
<1> QED  BY <1>1, <1>4, FS_CardinalityType

\* A handle that no request joins is not used by more.
LEMMA FewerUse ==
    ASSUME NEW w, NEW n, Using(w, n)' \subseteq Using(w, n)
    PROVE  active(w, n)' <= active(w, n)
BY ActiveCounts, ActiveCountsNext, FS_Subset

\* A handle that no request leaves is not used by fewer.
LEMMA MoreUse ==
    ASSUME NEW w, NEW n, Using(w, n) \subseteq Using(w, n)'
    PROVE  active(w, n) <= active(w, n)'
BY ActiveCounts, ActiveCountsNext, FS_Subset

\* A request that joins counts once.
LEMMA OneMoreUses ==
    ASSUME NEW w, NEW n, NEW r, Using(w, n)' \subseteq Using(w, n) \cup {r}
    PROVE  active(w, n)' <= active(w, n) + 1
<1>1. IsFiniteSet(Using(w, n) \cup {r})  BY ActiveCounts, FS_AddElement
<1>2. Cardinality(Using(w, n)') <= Cardinality(Using(w, n) \cup {r})  BY <1>1, FS_Subset
<1>3. Cardinality(Using(w, n) \cup {r}) \in {Cardinality(Using(w, n)), Cardinality(Using(w, n)) + 1}
      BY ActiveCounts, FS_AddElement
<1> QED  BY <1>2, <1>3, ActiveCounts, ActiveCountsNext

\* Initially nothing is scheduled.
LEMMA InitIInv == Init => IInv
<1> SUFFICES ASSUME Init PROVE IInv
    OBVIOUS
<1> USE PostSchedAssumption
<1>1. TypeOK
  <2>1. 0 \in 0..MaxHandles  OBVIOUS
  <2>2. enabled \in [Workers -> BOOLEAN] /\ crashed \in BOOLEAN  BY Zenon DEF Init
  <2> QED  BY <2>1, <2>2 DEF Init, TypeOK
<1>2. NoLostWakeup  BY DEF Init, NoLostWakeup
<1>3. ASSUME NEW w \in Workers, NEW n \in 1..MaxHandles PROVE active(w, n) <= Room
  <2>1. Using(w, n) = {}  BY DEF Init, Using
  <2> QED  BY <2>1, ActiveCounts, FS_EmptySet
<1> QED  BY <1>1, <1>2, <1>3 DEF IInv, RoomKept

\* Types are kept by every step.
LEMMA TypeKept == TypeOK /\ [Next]_vars => TypeOK'
<1> SUFFICES ASSUME TypeOK, [Next]_vars PROVE TypeOK'
    OBVIOUS
<1> USE PostSchedAssumption DEF TypeOK
<1>1. ASSUME NEW w \in Workers, MaybeAddWorker(w) PROVE TypeOK'
  <2>1. handles[w] + 1 \in 1..MaxHandles  BY <1>1 DEF MaybeAddWorker
  <2>2. handles' \in [Workers -> 0..MaxHandles] /\ handles'[w] = handles[w] + 1  BY <1>1, <2>1 DEF MaybeAddWorker
  <2>3. workers' \in [Workers -> 0..MaxHandles]  BY <1>1, <2>1, <2>2 DEF MaybeAddWorker
  <2>4. watchers' \subseteq Workers \X (1..MaxHandles)  BY <1>1, <2>1, <2>2 DEF MaybeAddWorker
  <2>5. req' \in [Requests -> [pc : {"new", "local", "scheduling", "waiting", "asleep", "working", "failed", "done"},
                             worker : Workers \cup {"none"}, handle : 0..MaxHandles]]
        BY <1>1 DEF MaybeAddWorker, broadcast
  <2> QED  BY <1>1, <2>2, <2>3, <2>4, <2>5 DEF MaybeAddWorker
<1>2. ASSUME NEW w \in Workers, SessionEnds(w) PROVE TypeOK'
      BY <1>2 DEF SessionEnds
<1>3. ASSUME NEW g \in watchers, Watch(g) PROVE TypeOK'
      BY Zenon, <1>3 DEF Watch
<1>4. ASSUME NEW g \in watchers, WatchEnds(g) PROVE TypeOK'
      BY <1>4 DEF WatchEnds
<1>5. ASSUME NEW r \in Requests, Generate(r) PROVE TypeOK'
      BY <1>5 DEF Generate
<1>6. ASSUME NEW r \in Requests, Schedule(r) PROVE TypeOK'
      BY <1>6 DEF Schedule, noRoom, readyWorkers, present
<1>7. ASSUME NEW r \in Requests, Done(r) PROVE TypeOK'
      BY <1>7 DEF Done, broadcast
<1>8. CASE UNCHANGED vars  BY <1>8 DEF vars
<1> QED  BY <1>1, <1>2, <1>3, <1>4, <1>5, <1>6, <1>7, <1>8 DEF Next

\* Of a step that leaves every handle with the requests it has, and adds no
\* worker.
LEMMA SameUse ==
    ASSUME IInv, TypeOK',
           \A w, n : Using(w, n)' = Using(w, n),
           \A w \in Workers : workers'[w] \in {0, workers[w]},
           \A r \in Requests : req'[r].pc = "asleep" => req[r].pc = "asleep" \/ readyWorkers = {}
    PROVE  NoLostWakeup' /\ RoomKept'
<1>1. \A w, n : active(w, n)' = active(w, n)  BY ActiveCounts, ActiveCountsNext
<1>2. readyWorkers' \subseteq readyWorkers  BY <1>1 DEF readyWorkers, present
<1>3. NoLostWakeup'  BY <1>2 DEF IInv, NoLostWakeup
<1>4. RoomKept'  BY <1>1 DEF IInv, RoomKept
<1> QED  BY <1>3, <1>4

\* After a broadcast nobody sleeps, and no handle is used by more.
LEMMA AfterBroadcast ==
    ASSUME IInv, NEW rs, req' = broadcast(rs),
           \A r \in Requests : rs[r] = req[r] \/ rs[r].pc = "done"
    PROVE  NoLostWakeup' /\ RoomKept'
<1>1. NoLostWakeup'  BY DEF NoLostWakeup, broadcast, IInv, TypeOK
<1>2. ASSUME NEW w, NEW n PROVE Using(w, n)' \subseteq Using(w, n)
      BY DEF Using, broadcast, IInv, TypeOK
<1>3. RoomKept'
  <2> SUFFICES ASSUME NEW w \in Workers, NEW n \in 1..MaxHandles PROVE active(w, n)' <= Room
      BY DEF RoomKept
  <2>1. active(w, n)' <= active(w, n)  BY <1>2, FewerUse
  <2>2. active(w, n) <= Room  BY DEF IInv, RoomKept
  <2> QED  BY <2>1, <2>2, ActiveCounts, ActiveCountsNext, PostSchedAssumption
<1> QED  BY <1>1, <1>3

\* Every step keeps the invariant.
LEMMA StepIInv == IInv /\ [Next]_vars => IInv'
<1> SUFFICES ASSUME IInv, [Next]_vars PROVE IInv'
    OBVIOUS
<1> USE PostSchedAssumption
<1>t. TypeOK /\ TypeOK'  BY TypeKept DEF IInv
<1>1. ASSUME NEW w \in Workers, MaybeAddWorker(w) PROVE NoLostWakeup' /\ RoomKept'
      BY <1>1, AfterBroadcast DEF MaybeAddWorker
<1>2. ASSUME NEW w \in Workers, SessionEnds(w) PROVE NoLostWakeup' /\ RoomKept'
  <2>1. \A v, n : Using(v, n)' = Using(v, n)  BY <1>2 DEF SessionEnds, Using
  <2> QED  BY <1>2, <1>t, <2>1, SameUse DEF SessionEnds
<1>3. ASSUME NEW g \in watchers, Watch(g) PROVE NoLostWakeup' /\ RoomKept'
  <2>1. \A v, n : Using(v, n)' = Using(v, n)  BY <1>3 DEF Watch, Using
  <2> QED  BY <1>3, <1>t, <2>1, SameUse DEF Watch
<1>4. ASSUME NEW g \in watchers, WatchEnds(g) PROVE NoLostWakeup' /\ RoomKept'
  <2>1. \A v, n : Using(v, n)' = Using(v, n)  BY <1>4 DEF WatchEnds, Using
  <2>2. \A w \in Workers : workers'[w] \in {0, workers[w]}  BY <1>4, <1>t DEF WatchEnds, TypeOK
  <2> QED  BY <1>4, <1>t, <2>1, <2>2, SameUse DEF WatchEnds
<1>5. ASSUME NEW r \in Requests, Generate(r) PROVE NoLostWakeup' /\ RoomKept'
  <2>1. \A v, n : Using(v, n)' = Using(v, n)  BY <1>5, <1>t DEF Generate, Using, TypeOK
  <2>2. \A s \in Requests : req'[s].pc = "asleep" => req[s].pc = "asleep"
        BY <1>5, <1>t DEF Generate, TypeOK
  <2> QED  BY <1>5, <1>t, <2>1, <2>2, SameUse DEF Generate
<1>6. ASSUME NEW r \in Requests, Schedule(r) PROVE NoLostWakeup' /\ RoomKept'
  <2>a. CASE \E pc \in {"failed", "asleep"} : req' = [req EXCEPT ![r].pc = pc]
                                              /\ (pc = "asleep" => readyWorkers = {})
    <3>1. PICK pc \in {"failed", "asleep"} : req' = [req EXCEPT ![r].pc = pc]
                                              /\ (pc = "asleep" => readyWorkers = {})
          BY Zenon, <2>a
    <3>2. req[r].pc # "working"  BY <1>6 DEF Schedule
    <3>3. \A v, n : Using(v, n)' = Using(v, n)  BY <3>1, <3>2, <1>t DEF Using, TypeOK
    <3>4. \A s \in Requests : req'[s].pc = "asleep" => req[s].pc = "asleep" \/ readyWorkers = {}
          BY <3>1, <1>t DEF TypeOK
    <3>5. workers' = workers  BY <1>6 DEF Schedule
    <3> QED  BY <3>3, <3>4, <3>5, <1>t, SameUse
  <2>b. ASSUME NEW w \in readyWorkers,
               req' = [req EXCEPT ![r] = [pc |-> "working", worker |-> w, handle |-> workers[w]]]
        PROVE NoLostWakeup' /\ RoomKept'
    <3>1. req[r].pc # "working" /\ workers' = workers  BY <1>6 DEF Schedule
    <3>2. \A v, n : Using(v, n) \subseteq Using(v, n)'  BY <2>b, <3>1, <1>t DEF Using, TypeOK
    <3>3. \A v, n : Using(v, n)' \subseteq Using(v, n) \cup {r}  BY <2>b, <1>t DEF Using, TypeOK
    <3>4. \A v, n : ~ (v = w /\ n = workers[w]) => Using(v, n)' \subseteq Using(v, n)
          BY <2>b, <1>t DEF Using, TypeOK
    <3>5. w \in Workers /\ active(w, workers[w]) < Room  BY <2>b DEF readyWorkers, present
    <3>6. NoLostWakeup'
      <4>1. \A v, n : active(v, n) <= active(v, n)'  BY <3>2, MoreUse
      <4>2. readyWorkers' \subseteq readyWorkers
        <5>1. \A v \in Workers : workers'[v] = workers[v]  BY <3>1
        <5> QED  BY <4>1, <3>1, <5>1, ActiveCounts, ActiveCountsNext DEF readyWorkers, present
      <4>3. \A s \in Requests : req'[s].pc = "asleep" => req[s].pc = "asleep"  BY <2>b, <1>t DEF TypeOK
      <4> QED  BY <4>2, <4>3 DEF IInv, NoLostWakeup
    <3>7. RoomKept'
      <4> SUFFICES ASSUME NEW v \in Workers, NEW n \in 1..MaxHandles PROVE active(v, n)' <= Room
          BY DEF RoomKept
      <4>1. CASE v = w /\ n = workers[w]
        <5>1. active(v, n)' <= active(v, n) + 1  BY <3>3, OneMoreUses
        <5> QED  BY <5>1, <4>1, <3>5, ActiveCounts, ActiveCountsNext
      <4>2. CASE ~ (v = w /\ n = workers[w])
        <5>1. active(v, n)' <= active(v, n)  BY <4>2, <3>4, FewerUse
        <5>2. active(v, n) <= Room  BY DEF IInv, RoomKept
        <5> QED  BY <5>1, <5>2, ActiveCounts, ActiveCountsNext
      <4> QED  BY <4>1, <4>2
    <3> QED  BY <3>6, <3>7
  <2> QED  BY <1>6, <2>a, <2>b DEF Schedule, noRoom
<1>7. ASSUME NEW r \in Requests, Done(r) PROVE NoLostWakeup' /\ RoomKept'
  <2>1. \A s \in Requests : [req EXCEPT ![r].pc = "done"][s] = req[s] \/ [req EXCEPT ![r].pc = "done"][s].pc = "done"
        BY <1>t DEF TypeOK
  <2> QED  BY Zenon, <1>7, <2>1, AfterBroadcast DEF Done
<1>8. CASE UNCHANGED vars
  <2>1. \A v, n : Using(v, n)' = Using(v, n)  BY <1>8 DEF vars, Using
  <2> QED  BY <1>8, <1>t, <2>1, SameUse DEF vars, IInv
<1> QED  BY <1>t, <1>1, <1>2, <1>3, <1>4, <1>5, <1>6, <1>7, <1>8 DEF Next, IInv

\* No request of a window proof sleeps while a worker has room for it
\* (readyWorkers, Schedule and the broadcasts of sched_post.go), for any
\* workers, requests and room.
THEOREM NoLostWakeupHolds == Spec => []NoLostWakeup
<1>1. IInv => NoLostWakeup  BY DEF IInv
<1> QED  BY InitIInv, StepIInv, <1>1, PTL DEF Spec

\* No handle of a worker computes more proofs at a time than it has room for:
\* readyWorkers and active are read and written under one lock.
THEOREM RoomKeptHolds == Spec => []RoomKept
<1>1. IInv => RoomKept  BY DEF IInv
<1> QED  BY InitIInv, StepIInv, <1>1, PTL DEF Spec

\* Every variable keeps its type.
THEOREM TypeCorrect == Spec => []TypeOK
<1>1. IInv => TypeOK  BY DEF IInv
<1> QED  BY InitIInv, StepIInv, <1>1, PTL DEF Spec

\* A window proof is turned away only when there is no worker at all: Schedule
\* makes primary requests wait for room.
THEOREM PrimaryWaits == Spec => PrimaryNeverTurnedAway
<1>1. ASSUME TypeOK, [Next]_vars
      PROVE  [\A r \in Primary : req[r].pc # "failed" /\ req'[r].pc = "failed" => present = {}]_vars
  <2> SUFFICES ASSUME NEW r \in Primary, req[r].pc # "failed", req'[r].pc = "failed" PROVE present = {}
      OBVIOUS
  <2>p. r \in Requests  BY PostSchedAssumption
  <2>1. ASSUME NEW w \in Workers, MaybeAddWorker(w) \/ SessionEnds(w) PROVE FALSE
        BY <1>1, <2>1, <2>p DEF MaybeAddWorker, SessionEnds, broadcast, TypeOK
  <2>2. ASSUME NEW g \in watchers, Watch(g) \/ WatchEnds(g) PROVE FALSE
        BY Zenon, <2>2 DEF Watch, WatchEnds
  <2>3. ASSUME NEW s \in Requests, Generate(s) PROVE FALSE
        BY <1>1, <2>3, <2>p DEF Generate, TypeOK
  <2>4. ASSUME NEW s \in Requests, Schedule(s) PROVE present = {}
        BY <1>1, <2>4, <2>p DEF Schedule, noRoom, TypeOK
  <2>5. ASSUME NEW s \in Requests, Done(s) PROVE FALSE
        BY <1>1, <2>5, <2>p DEF Done, broadcast, TypeOK
  <2> QED  BY <1>1, <2>1, <2>2, <2>3, <2>4, <2>5 DEF Next, vars
<1> QED  BY <1>1, TypeCorrect, PTL DEF Spec, PrimaryNeverTurnedAway

-----------------------------------------------------------------------------
(* The call tracker. *)

AwaitsWork == \A k \in Callers : caller[k].pc \in {"await", "waiting", "woken"} => caller[k].work \in Works

TrackInv == CT!TypeOK /\ AwaitsWork /\ CT!StartedHasOwner

\* The part of the type that is not about callers.
TrackerType ==
    /\ work \in [Works -> [status : CT!Statuses, call : CT!CallOrNone]]
    /\ callToWork \in [CT!Calls -> Works \cup {"none"}] /\ results \in [Works -> CT!CallOrNone]
    /\ callRes \in [CT!Calls -> {"none", "empty", "full"}] /\ sends \subseteq CT!Calls /\ waitRes \subseteq Works
    /\ calls \in [CT!Calls -> CT!CallType]
    /\ crashes \in 0..MaxCrashes

\* Caller k goes to p; everybody keeps the work it asks for and what it owns.
Moves(k, p) ==
    /\ caller' \in [Callers -> CT!CallerType]
    /\ \A j \in Callers : /\ caller'[j].work = caller[j].work
                          /\ caller[j].owner => caller'[j].owner
                          /\ caller'[j].pc = IF j = k THEN p ELSE caller[j].pc

-----------------------------------------------------------------------------
\* ends is such a move.
LEMMA EndsMoves ==
  ASSUME caller \in [Callers -> CT!CallerType], NEW k \in Callers, NEW out \in CT!Outs, CT!ends(k, out)
  PROVE  Moves(k, "ending")
<1>1. "ending" \in CT!Pcs
  BY DEF CT!Pcs
<1>2. caller' \in [Callers -> CT!CallerType]
  BY ZenonT(40), <1>1 DEF CT!ends, CT!CallerType
<1> QED BY <1>2 DEF CT!ends, Moves, CT!CallerType

\* gets is such a move.
LEMMA GetsMoves ==
  ASSUME caller \in [Callers -> CT!CallerType], NEW k \in Callers, NEW c \in CT!CallOrNone, CT!gets(k, c)
  PROVE  Moves(k, "ending")
<1>1. "ending" \in CT!Pcs /\ "result" \in CT!Outs
  BY DEF CT!Pcs, CT!Outs
<1>2. caller' \in [Callers -> CT!CallerType]
  BY ZenonT(40), <1>1 DEF CT!gets, CT!CallerType
<1> QED BY <1>2 DEF CT!gets, Moves, CT!CallerType

\* A caller that only goes on moves.
LEMMA GoesMoves ==
  ASSUME caller \in [Callers -> CT!CallerType], NEW k \in Callers, NEW p \in CT!Pcs,
         caller' = [caller EXCEPT ![k].pc = p]
  PROVE  Moves(k, p)
<1>1. caller' \in [Callers -> CT!CallerType]
  BY DEF CT!CallerType
<1> QED BY <1>1 DEF Moves, CT!CallerType

\* A caller that begins a piece of work moves and owns it.
LEMMA BeginsMoves ==
  ASSUME caller \in [Callers -> CT!CallerType], NEW k \in Callers,
         caller' = [caller EXCEPT ![k] = [@ EXCEPT !.pc = "scheduled", !.owner = TRUE]]
  PROVE  Moves(k, "scheduled") /\ caller'[k].owner
<1>1. "scheduled" \in CT!Pcs
  BY DEF CT!Pcs
<1>2. caller' \in [Callers -> CT!CallerType]
  BY ZenonT(40), <1>1 DEF CT!CallerType
<1> QED BY <1>2 DEF Moves, CT!CallerType

\* A caller that is given the identifier of a call moves.
LEMMA CallsMoves ==
  ASSUME caller \in [Callers -> CT!CallerType], NEW k \in Callers, NEW p \in CT!Pcs, NEW c \in CT!CallOrNone,
         caller' = [caller EXCEPT ![k] = [@ EXCEPT !.pc = p, !.call = c]]
  PROVE  Moves(k, p)
<1>1. caller' \in [Callers -> CT!CallerType]
  BY ZenonT(40) DEF CT!CallerType
<1> QED BY <1>1 DEF Moves, CT!CallerType

\* A step keeps StartedHasOwner if no other work becomes started, and a caller
\* that owned a started work and moved still runs or cancels it.
LEMMA OwnersStay ==
  ASSUME CT!StartedHasOwner, NEW k \in Callers, NEW p \in CT!Pcs, Moves(k, p),
         \A w \in Works : work'[w].status = "started" => work[w].status = "started",
         \/ p \in {"scheduled", "called", "ending"}
         \/ caller[k].pc \notin {"scheduled", "called", "ending"}
         \/ caller[k].work \in Works => work'[caller[k].work].status # "started"
  PROVE  CT!StartedHasOwner'
BY DEF CT!StartedHasOwner, Moves

\* A step keeps the invariant if it keeps its parts.
LEMMA PartsMakeInv ==
  ASSUME caller' \in [Callers -> CT!CallerType], TrackerType', AwaitsWork', CT!StartedHasOwner'
  PROVE  TrackInv'
BY DEF TrackerType, TrackInv, CT!TypeOK

\* The initial states.
LEMMA InitTrackInv == CT!CallTrackerConstants /\ CT!Init => TrackInv
BY DEF CT!CallTrackerConstants, CT!Init, TrackInv, CT!TypeOK, AwaitsWork, CT!StartedHasOwner, CT!NewCaller,
       CT!NoWork, CT!NoCall, CT!Calls, CT!CallType, CT!CallerType, CT!CallOrNone, CT!Statuses, CT!Pcs, CT!Outs

\* What a caller does keeps the invariant.
LEMMA CallerStepTrackInv ==
  ASSUME CT!CallTrackerConstants, TrackInv, NEW k \in Callers, CT!CallerStep(k) \/ CT!Cancelled(k)
  PROVE  TrackInv'
<1>c. caller \in [Callers -> CT!CallerType]
  BY DEF TrackInv, CT!TypeOK
<1>t. TrackerType
  BY DEF TrackInv, CT!TypeOK, TrackerType
<1>o. CT!StartedHasOwner /\ AwaitsWork
  BY DEF TrackInv
<1>k. /\ caller[k].work \in Works \cup {"simple"} /\ caller[k].call \in CT!CallOrNone
      /\ "simple" \notin Works
      /\ CT!NoCall \in CT!CallOrNone /\ CT!NoCall \notin CT!Calls /\ CT!CallOrNone = CT!Calls \cup {CT!NoCall}
  BY <1>c DEF CT!CallerType, CT!CallOrNone, CT!CallTrackerConstants, CT!Calls, CT!NoCall
<1>p. /\ \A p \in {"scheduled", "called", "await", "waiting", "receiving", "ending", "returned"} : p \in CT!Pcs
      /\ \A out \in {"error", "busy", "empty"} : out \in CT!Outs
      /\ \A s \in {"none", "started", "running", "done"} : s \in CT!Statuses
  BY DEF CT!Pcs, CT!Outs, CT!Statuses
<1>m. ASSUME NEW p \in CT!Pcs, Moves(k, p), p \in {"await", "waiting", "woken"} => caller[k].work \in Works
      PROVE  caller' \in [Callers -> CT!CallerType] /\ AwaitsWork'
  BY <1>m, <1>o DEF Moves, AwaitsWork
<1>1. CASE CT!GetWork(k)
  <2>1. CASE caller[k].work = "simple"
    <3>1. Moves(k, "scheduled") /\ work' = work
      BY <1>1, <2>1, <1>c, <1>p, GoesMoves DEF CT!GetWork
    <3>2. TrackerType'
      BY <1>1, <1>t, <3>1 DEF CT!GetWork, TrackerType
    <3> QED BY <3>1, <3>2, <1>m, <1>p, <1>o, OwnersStay, PartsMakeInv
  <2>2. CASE caller[k].work # "simple" /\ work[caller[k].work].status # "none"
    <3>1. Moves(k, "await") /\ work' = work /\ caller[k].pc = "idle"
      BY <1>1, <2>2, <1>c, <1>p, GoesMoves DEF CT!GetWork, CT!at
    <3>2. TrackerType'
      BY <1>1, <1>t, <3>1 DEF CT!GetWork, TrackerType
    <3> QED BY <3>1, <3>2, <2>2, <1>k, <1>m, <1>p, <1>o, OwnersStay, PartsMakeInv
  <2>3. CASE caller[k].work # "simple" /\ work[caller[k].work].status = "none"
    <3>1. /\ Moves(k, "scheduled") /\ caller'[k].owner
          /\ work' = [work EXCEPT ![caller[k].work] = [status |-> "started", call |-> CT!NoCall]]
          /\ caller[k].pc = "idle"
      BY Zenon, <1>1, <2>3, <1>c, BeginsMoves DEF CT!GetWork, CT!at
    <3>2. TrackerType'
      BY ZenonT(40), <1>1, <1>t, <1>k, <1>p, <3>1 DEF CT!GetWork, TrackerType
    <3>3. CT!StartedHasOwner'
      BY SMTT(30), <3>1, <1>o, <1>t, <1>k, <2>3 DEF CT!StartedHasOwner, Moves, TrackerType
    <3> QED BY SMTT(30), <3>1, <3>2, <3>3, <1>m, <1>p, PartsMakeInv
  <2> QED BY <2>1, <2>2, <2>3
<1>2. CASE CT!ScheduleFails(k)
  <2>1. Moves(k, "ending") /\ work' = work
    BY <1>2, <1>c, <1>p, EndsMoves DEF CT!ScheduleFails, CT!tracker
  <2>2. TrackerType'
    BY <1>2, <1>t DEF CT!ScheduleFails, TrackerType, CT!tracker
  <2> QED BY <2>1, <2>2, <1>m, <1>p, <1>o, OwnersStay, PartsMakeInv
<1>3. CASE CT!CallWorker(k)
  <2>1. Moves(k, "called") /\ work' = work
    BY ZenonT(40), <1>3, <1>c, <1>k, <1>p, GoesMoves, CallsMoves DEF CT!CallWorker, CT!tracker
  <2>2. calls' \in [CT!Calls -> CT!CallType]
    <3>1. calls \in [CT!Calls -> CT!CallType]
      BY <1>t DEF TrackerType
    <3>2. [state |-> "running", work |-> caller[k].work] \in CT!CallType
      BY <1>k DEF CT!CallType
    <3> QED BY ZenonT(40), <1>3, <3>1, <3>2 DEF CT!CallWorker
  <2>3. TrackerType'
    BY Zenon, <1>3, <1>t, <2>2 DEF CT!CallWorker, TrackerType, CT!tracker
  <2> QED BY <2>1, <2>3, <1>m, <1>p, <1>o, OwnersStay, PartsMakeInv
<1>4. CASE CT!StartWork(k)
  <2>1. caller[k].work \in Works
    BY <1>4, <1>k DEF CT!StartWork
  <2>2. CASE work[caller[k].work].status = "none" \/ caller[k].call = CT!NoCall
    <3>1. Moves(k, "ending")
      BY <1>4, <2>2, <1>c, <1>p, EndsMoves DEF CT!StartWork
    <3>2. TrackerType'
      BY <1>4, <2>2, <1>t, <1>p DEF CT!StartWork, TrackerType
    <3>3. \A w \in Works : work'[w].status = "started" => work[w].status = "started"
      BY <1>4, <2>2, <1>t DEF CT!StartWork, TrackerType
    <3> QED BY <3>1, <3>2, <3>3, <1>m, <1>p, <1>o, OwnersStay, PartsMakeInv
  <2>3. CASE work[caller[k].work].status # "none" /\ caller[k].call # CT!NoCall
    <3>1. Moves(k, "await")
      BY <1>4, <2>3, <1>c, <1>p, GoesMoves DEF CT!StartWork
    <3>2. TrackerType'
      BY <1>4, <2>1, <2>3, <1>t, <1>k, <1>p DEF CT!StartWork, TrackerType
    <3>3. /\ \A w \in Works : work'[w].status = "started" => work[w].status = "started"
          /\ work'[caller[k].work].status # "started"
      BY SMTT(30), <1>4, <2>1, <2>3, <1>t DEF CT!StartWork, TrackerType
    <3> QED BY <2>1, <3>1, <3>2, <3>3, <1>m, <1>p, <1>o, OwnersStay, PartsMakeInv
  <2> QED BY <2>2, <2>3
<1>5. CASE CT!WaitWork(k)
  <2>1. caller[k].work \in Works /\ caller[k].pc = "await"
    BY Zenon, <1>5, <1>o DEF CT!WaitWork, AwaitsWork, CT!at
  <2>2. work[caller[k].work].call \in CT!CallOrNone /\ results[caller[k].work] \in CT!CallOrNone
    BY SMTT(30), <2>1, <1>t DEF TrackerType
  <2>3. Moves(k, "ending") \/ Moves(k, "waiting")
    <3>1. CASE \E out \in CT!Outs : CT!ends(k, out)
      BY <3>1, <1>c, EndsMoves
    <3>2. CASE \E c \in CT!CallOrNone : CT!gets(k, c)
      BY SMTT(30), <3>2, <1>c, GetsMoves
    <3>3. CASE caller' = [caller EXCEPT ![k] = [@ EXCEPT !.pc = "waiting", !.call = work[caller[k].work].call]]
      BY ZenonT(40), <3>3, <1>c, <1>p, <2>2, CallsMoves
    <3> QED BY Zenon, <1>5, <1>p, <2>2, <3>1, <3>2, <3>3 DEF CT!WaitWork
  <2>w. work' = work \/ work' = [work EXCEPT ![caller[k].work] = CT!NoWork]
    BY Zenon, <1>5 DEF CT!WaitWork, CT!done, CT!tracker
  <2>4. TrackerType'
    <3>1. work' \in [Works -> [status : CT!Statuses, call : CT!CallOrNone]]
      BY SMTT(30), <1>t, <1>k, <1>p, <2>w DEF TrackerType, CT!NoWork
    <3>2. /\ callToWork' \in [CT!Calls -> Works \cup {"none"}]
          /\ callRes' \in [CT!Calls -> {"none", "empty", "full"}]
      BY ZenonT(40), <1>5, <1>t DEF CT!WaitWork, TrackerType, CT!done, CT!tracker
    <3>3. results' \in [Works -> CT!CallOrNone] /\ sends' \subseteq CT!Calls /\ waitRes' \subseteq Works
      BY ZenonT(40), <1>5, <1>t, <1>k, <2>1 DEF CT!WaitWork, TrackerType, CT!done, CT!tracker
    <3>4. calls' = calls /\ crashes' = crashes
      BY Zenon, <1>5 DEF CT!WaitWork
    <3> QED BY <1>t, <3>1, <3>2, <3>3, <3>4 DEF TrackerType
  <2>5. \A w \in Works : work'[w].status = "started" => work[w].status = "started"
    BY <1>t, <2>w DEF TrackerType, CT!NoWork
  <2> QED BY <2>1, <2>3, <2>4, <2>5, <1>m, <1>p, <1>o, OwnersStay, PartsMakeInv
<1>6. CASE CT!Woken(k)
  <2>1. caller[k].work \in Works /\ caller[k].pc = "woken"
    BY <1>6, <1>o DEF CT!Woken, AwaitsWork, CT!at
  <2>2. results[caller[k].work] \in CT!CallOrNone
    BY <2>1, <1>t DEF TrackerType
  <2>3. Moves(k, "ending")
    BY <1>6, <1>c, <1>p, <2>2, EndsMoves, GetsMoves DEF CT!Woken
  <2>4. TrackerType'
    BY Zenon, <1>6, <1>t, <1>k, <1>p, <2>1, <2>2 DEF CT!Woken, TrackerType, CT!done, CT!NoWork
  <2>5. \A w \in Works : work'[w].status = "started" => work[w].status = "started"
    BY <1>6, <1>t, <2>1 DEF CT!Woken, TrackerType, CT!done, CT!NoWork
  <2> QED BY <2>1, <2>3, <2>4, <2>5, <1>m, <1>p, <1>o, OwnersStay, PartsMakeInv
<1>7. CASE CT!WaitCall(k)
  <2>1. Moves(k, "ending") \/ Moves(k, "receiving")
    BY <1>7, <1>c, <1>p, EndsMoves, GoesMoves DEF CT!WaitCall
  <2>2. TrackerType'
    BY <1>7, <1>t DEF CT!WaitCall, TrackerType
  <2>3. work' = work /\ caller[k].work \notin Works
    BY <1>7, <1>k DEF CT!WaitCall
  <2> QED BY <2>1, <2>2, <2>3, <1>m, <1>p, <1>o, OwnersStay, PartsMakeInv
<1>8. CASE CT!Receive(k)
  <2>1. Moves(k, "ending") /\ work' = work
    BY <1>8, <1>c, <1>k, GetsMoves DEF CT!Receive
  <2>2. TrackerType'
    BY Zenon, <1>8, <1>t DEF CT!Receive, TrackerType
  <2> QED BY <2>1, <2>2, <1>m, <1>p, <1>o, OwnersStay, PartsMakeInv
<1>9. CASE CT!End(k)
  <2>1. Moves(k, "returned")
    BY Zenon, <1>9, <1>c, <1>p, GoesMoves DEF CT!End
  <2>2. TrackerType'
    BY Zenon, <1>9, <1>t, <1>k, <1>p DEF CT!End, TrackerType, CT!NoWork
  <2>3. \A w \in Works : work'[w].status = "started" => work[w].status = "started"
    BY <1>9, <1>t DEF CT!End, TrackerType, CT!NoWork
  <2>4. CASE caller[k].owner
    <3>1. caller[k].work \in Works => work'[caller[k].work].status # "started"
      BY <1>9, <1>t, <2>4 DEF CT!End, CT!cancels, TrackerType, CT!NoWork
    <3> QED BY <2>1, <2>2, <2>3, <3>1, <1>m, <1>p, <1>o, OwnersStay, PartsMakeInv
  <2>5. CASE ~ caller[k].owner
    <3>1. CT!StartedHasOwner'
      BY <2>1, <2>3, <2>5, <1>o DEF CT!StartedHasOwner, Moves
    <3> QED BY <2>1, <2>2, <3>1, <1>m, <1>p, PartsMakeInv
  <2> QED BY <2>4, <2>5
<1>10. CASE CT!Cancelled(k)
  <2>1. Moves(k, "ending") /\ work' = work
    BY <1>10, <1>c, <1>p, EndsMoves DEF CT!Cancelled
  <2>2. TrackerType'
    BY Zenon, <1>10, <1>t DEF CT!Cancelled, TrackerType
  <2> QED BY <2>1, <2>2, <1>m, <1>p, <1>o, OwnersStay, PartsMakeInv
<1> QED BY <1>1, <1>2, <1>3, <1>4, <1>5, <1>6, <1>7, <1>8, <1>9, <1>10 DEF CT!CallerStep

\* A result that is returned, or an abort, keeps the invariant.
LEMMA ReturnTrackInv ==
  ASSUME CT!CallTrackerConstants, TrackInv, NEW c \in CT!Calls, CT!returnResult(c),
         calls' \in [CT!Calls -> CT!CallType],
         UNCHANGED crashes
  PROVE  TrackInv'
<1>c. caller \in [Callers -> CT!CallerType]
  BY DEF TrackInv, CT!TypeOK
<1>t. TrackerType
  BY DEF TrackInv, CT!TypeOK, TrackerType
<1>1. TrackerType'
  BY SMTT(30), <1>t DEF TrackerType, CT!returnResult, CT!returnedStatus, CT!CallOrNone, CT!Statuses
<1>2. caller' \in [Callers -> CT!CallerType]
  <2>1. "woken" \in CT!Pcs
    BY DEF CT!Pcs
  <2> QED BY <1>c, <2>1 DEF CT!returnResult, CT!wokenUp, CT!CallerType
<1>3. \A k \in Callers :
        /\ caller'[k].work = caller[k].work /\ caller'[k].owner = caller[k].owner
        /\ \/ caller'[k].pc = caller[k].pc
           \/ caller[k].pc = "waiting" /\ caller'[k].pc = "woken"
  BY <1>c DEF CT!returnResult, CT!wokenUp, CT!CallerType, CT!at
<1>4. AwaitsWork'
  BY <1>3 DEF TrackInv, AwaitsWork
<1>5. \A w \in Works : work'[w].status = "started" => work[w].status = "started"
  BY <1>t DEF TrackerType, CT!returnResult, CT!returnedStatus
<1>6. CT!StartedHasOwner'
  BY <1>3, <1>5 DEF TrackInv, CT!StartedHasOwner
<1> QED BY <1>1, <1>2, <1>4, <1>6, PartsMakeInv

\* What happens to a call keeps the invariant.
LEMMA CallStepTrackInv ==
  ASSUME CT!CallTrackerConstants, TrackInv, NEW c \in CT!Calls, CT!CallStep(c) \/ CT!Abort(c)
  PROVE  TrackInv'
<1>t. calls \in [CT!Calls -> CT!CallType]
  BY DEF TrackInv, CT!TypeOK
<1>1. CASE CT!SendResult(c)
  BY <1>1 DEF TrackInv, CT!TypeOK, AwaitsWork, CT!StartedHasOwner, CT!SendResult
<1>2. CASE CT!WorkerDone(c)
  <2>1. calls' \in [CT!Calls -> CT!CallType]
    BY <1>t, <1>2 DEF CT!WorkerDone, CT!CallType
  <2> QED BY <1>2, <2>1 DEF TrackInv, CT!TypeOK, AwaitsWork, CT!StartedHasOwner, CT!WorkerDone, CT!tracker
<1>3. CASE CT!ReturnResult(c)
  <2>1. calls' \in [CT!Calls -> CT!CallType]
    BY <1>t, <1>3 DEF CT!ReturnResult, CT!CallType
  <2> QED BY <1>3, <2>1, ReturnTrackInv DEF CT!ReturnResult
<1>4. CASE CT!Abort(c)
  BY <1>t, <1>4, ReturnTrackInv DEF CT!Abort
<1> QED BY <1>1, <1>2, <1>3, <1>4 DEF CT!CallStep

\* setupWorkTracker keeps the invariant.
LEMMA RestartTrackInv ==
  ASSUME CT!CallTrackerConstants, TrackInv, CT!Restart
  PROVE  TrackInv'
<1>c. caller \in [Callers -> CT!CallerType]
  BY DEF TrackInv, CT!TypeOK
<1>t. TrackerType
  BY DEF TrackInv, CT!TypeOK, TrackerType
<1>1. work' \in [Works -> [status : CT!Statuses, call : CT!CallOrNone]]
  BY <1>t DEF CT!Restart, TrackerType, CT!NoWork, CT!Statuses, CT!CallOrNone
<1>2. callToWork' \in [CT!Calls -> Works \cup {"none"}]
  BY DEF CT!Restart
<1>3. crashes' \in 0..MaxCrashes
  BY SMTT(30), <1>t DEF CT!CallTrackerConstants, CT!Restart, TrackerType
<1>4. TrackerType'
  BY <1>t, <1>1, <1>2, <1>3 DEF CT!Restart, TrackerType, CT!CallOrNone
<1>5. caller' \in [Callers -> CT!CallerType]
  <2>1. "idle" \in CT!Pcs /\ "none" \in CT!Outs /\ CT!NoCall \in CT!CallOrNone
    BY DEF CT!Pcs, CT!Outs, CT!CallOrNone
  <2> QED BY <1>c, <2>1 DEF CT!Restart, CT!NewCaller, CT!CallerType
<1>6. AwaitsWork'
  BY <1>c DEF TrackInv, AwaitsWork, CT!Restart, CT!NewCaller, CT!at
<1>7. CT!StartedHasOwner'
  BY <1>t DEF CT!StartedHasOwner, CT!Restart, CT!NoWork, TrackerType
<1> QED BY <1>4, <1>5, <1>6, <1>7, PartsMakeInv

-----------------------------------------------------------------------------
\* A record of started work always has an owner that will run or cancel it
\* (getWork, startWork and the cancel function of manager_calltracker.go),
\* whatever fails and wherever the manager restarts.
THEOREM StartedIsOwned == CT!Spec => []StartedHasOwner
<1>c. CT!CallTrackerConstants
  BY CallTrackerAssumption
<1>1. CT!Init => TrackInv
  BY <1>c, InitTrackInv
<1>2. TrackInv /\ [CT!Next]_(CT!vars) => TrackInv'
  <2> SUFFICES ASSUME TrackInv, [CT!Next]_(CT!vars) PROVE TrackInv'
    OBVIOUS
  <2>1. CASE UNCHANGED CT!vars
    BY <2>1 DEF CT!vars, TrackInv, CT!TypeOK, AwaitsWork, CT!StartedHasOwner
  <2> QED BY <1>c, <2>1, CallerStepTrackInv, CallStepTrackInv, RestartTrackInv DEF CT!Next
<1>3. TrackInv => StartedHasOwner
  BY DEF TrackInv, StartedHasOwner
<1> QED BY <1>1, <1>2, <1>3, PTL DEF CT!Spec
=============================================================================
