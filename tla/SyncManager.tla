---------------------------- MODULE SyncManager ----------------------------
(***************************************************************************)
(* The sync manager (chain/sync_manager.go): one scheduler goroutine that  *)
(* receives the heads peers announce and schedules them onto sync workers. *)
(* A head that extends what is being synced waits in pend, one that is     *)
(* heavier but unrelated gets a worker of its own or waits in deferred.    *)
(*                                                                         *)
(*  - A tipset is a member of TipSets with its parent and its weight       *)
(*    (ParentWeight); tipsets that are not announced (the ancestors of the *)
(*    tree) are in Parent's range only.                                    *)
(*  - A worker is its doSync call: it ends, in success or failure, and the *)
(*    scheduler handles its status.  Worker ids only have to be new; the   *)
(*    smallest one that no worker had before the step is used, and started *)
(*    stands for nextWorker > 0.                                           *)
(*  - The map sm.state is iterated in any order.                           *)
(*  - history serves State() only and is left out, as is the merging of    *)
(*    tipsets under LOTUS_SYNC_FORMTS_PEND, which is off by default.       *)
(***************************************************************************)
EXTENDS Naturals, Sequences, SequencesExt, FiniteSets

CONSTANTS
    TipSets,
    Parent,                 \* Parents(): tipset -> tipset
    Weight,                 \* ParentWeight(): tipset -> number
    Height,                 \* tipset -> number
    Peers,
    BootstrapPeerThreshold,
    MaxSyncWorkers,         \* 5
    RecentSyncBufferSize,   \* 10
    MaxHeads,               \* bound: announced heads
    None

ASSUME SyncManagerAssumption ==
    /\ {MaxSyncWorkers, RecentSyncBufferSize, BootstrapPeerThreshold} \subseteq Nat \ {0}
    /\ DOMAIN Parent = TipSets
    /\ Weight \in [TipSets -> Nat] /\ Height \in [TipSets -> Nat]
    /\ \A t \in TipSets : Parent[t] \in TipSets => Weight[Parent[t]] < Weight[t]
    /\ None \notin TipSets

VARIABLES
    started,        \* nextWorker > 0
    heads,          \* peer -> its head, before the start
    state,          \* worker id -> the tipset it syncs
    pend, deferred, \* syncBucketSet: sequences of buckets, which are sequences of tipsets
    recent,         \* syncBuffer: the last tipsets synced
    initialSyncDone,
    ticking,        \* the ticker runs
    announced       \* heads announced so far

vars == <<started, heads, state, pend, deferred, recent, initialSyncDone, ticking, announced>>

active == {state[i] : i \in DOMAIN state}

-----------------------------------------------------------------------------
(* Tipsets, the sync buffer and the bucket sets *)

isHeavier(a, b) == Weight[a] > Weight[b]

\* syncBuffer.Push on the buffer r, newest entry last
Push(r, ts) ==
    LET s == Append(r, ts)
    IN  IF Len(s) > RecentSyncBufferSize THEN Tail(s) ELSE s

\* syncBuffer.Synced
Synced(r, ts) == \E i \in DOMAIN r : r[i] = ts \/ isHeavier(r[i], ts)

\* syncTargetBucket.sameChainAs
sameChainAs(b, ts) == \E i \in DOMAIN b : ts = b[i] \/ ts = Parent[b[i]] \/ Parent[ts] = b[i]

\* syncTargetBucket.add
add(b, ts) == IF \E i \in DOMAIN b : b[i] = ts THEN b ELSE Append(b, ts)

\* the first position of the largest weight in ws
firstMax(ws) ==
    CHOOSE i \in DOMAIN ws : \A j \in DOMAIN ws : ws[j] < ws[i] \/ (ws[j] = ws[i] /\ i <= j)

\* syncTargetBucket.heaviestTipSet
heaviestTipSet(b) == b[firstMax([i \in DOMAIN b |-> Weight[b[i]]])]

\* the position of the bucket with the heaviest tipset
heaviestBucket(bs) == firstMax([i \in DOMAIN bs |-> Weight[heaviestTipSet(bs[i])]])

\* syncBucketSet.RelatedToAny
RelatedToAny(bs, ts) == \E i \in DOMAIN bs : sameChainAs(bs[i], ts)

\* syncBucketSet.Insert
Insert(bs, ts) ==
    IF RelatedToAny(bs, ts)
    THEN LET i == CHOOSE i \in DOMAIN bs : /\ sameChainAs(bs[i], ts)
                                          /\ \A j \in 1..(i - 1) : ~ sameChainAs(bs[j], ts)
         IN  [bs EXCEPT ![i] = add(@, ts)]
    ELSE Append(bs, <<ts>>)

\* syncBucketSet.Heaviest
Heaviest(bs) == IF bs = <<>> THEN None ELSE heaviestTipSet(bs[heaviestBucket(bs)])

\* syncBucketSet.Pop: the bucket with the heaviest tipset, and what is left
popped(bs) == bs[heaviestBucket(bs)]
afterPop(bs) == RemoveAt(bs, heaviestBucket(bs))

\* syncBucketSet.PopRelated: all related buckets in one, and what is left
relatedBucket(bs, ts) == FlattenSeq(SelectSeq(bs, LAMBDA b : sameChainAs(b, ts)))

\* Mutant: the buckets that were popped are not removed.
unrelatedAll(bs, ts) == bs

unrelated(bs, ts) == SelectSeq(bs, LAMBDA b : ~ sameChainAs(b, ts))

-----------------------------------------------------------------------------
(* Selecting targets.  The outcome of a selection is the tipset to work on *)
(* (None when there is no work) and the two queues it leaves.              *)

outcome(ts, p, d) == [target |-> ts, pend |-> p, deferred |-> d]

\* selectDeferredSyncTarget, lines 478-482
converges(w, ts) == Parent[ts] = w

\* selectDeferredSyncTarget with the workers syncing act: the loop pops a
\* bucket and skips it, moves it to pend, or selects it.  The inner loop
\* decides on the first worker the iteration happens to yield; without
\* workers it decides nothing and the next bucket is popped.
RECURSIVE selectDeferredSyncTarget(_, _, _, _)
selectDeferredSyncTarget(act, rec, p, d) ==
    IF d = <<>> THEN {outcome(None, p, d)}
    ELSE LET ts == heaviestTipSet(popped(d))
             rest == afterPop(d)
             skip == selectDeferredSyncTarget(act, rec, p, rest)
             toPend == selectDeferredSyncTarget(act, rec, Insert(p, ts), rest)
         IN  CASE Synced(rec, ts)     -> skip
               [] RelatedToAny(p, ts) -> toPend
               [] act = {}            -> skip
               [] OTHER -> UNION {IF w = ts \/ isHeavier(w, ts) THEN skip
                                  ELSE IF converges(w, ts) THEN toPend
                                  ELSE {outcome(ts, p, rest)} : w \in act}

\* selectSyncTarget, lines 434-447
worthwhile(act, rec, done, ts) ==
    /\ ~ isHeavier(done, ts)
    /\ \A w \in act : ~ isHeavier(w, ts)
    /\ ~ Synced(rec, ts)

\* Mutant: a sync that failed is tried again.
selectSyncTargetRetry(act, rec, done) ==
    IF Synced(rec, done) THEN {outcome(None, unrelated(pend, done), deferred)} ELSE {outcome(done, pend, deferred)}

\* selectSyncTarget after the worker of done has ended
selectSyncTarget(act, rec, done) ==
    LET related == relatedBucket(pend, done)
        rest == unrelated(pend, done)
    IN  IF related # <<>> /\ worthwhile(act, rec, done, heaviestTipSet(related))
        THEN {outcome(heaviestTipSet(related), rest, deferred)}
        ELSE selectDeferredSyncTarget(act, rec, rest, deferred)

\* addSyncTarget, line 414
mustDefer == ~ initialSyncDone \/ Cardinality(DOMAIN state) >= MaxSyncWorkers

\* addSyncTarget: the first loop over the workers ends at the first one that
\* syncs ts or its parent
addSyncTarget(ts) ==
    LET ignored == outcome(None, pend, deferred)
        pending == outcome(None, Insert(pend, ts), deferred)
    IN  CASE Synced(recent, ts) -> {ignored}
          [] ~ Synced(recent, ts) /\ active = {} -> {outcome(ts, pend, deferred)}
          [] ~ Synced(recent, ts) /\ active # {} ->
               IF ts \in active \/ Parent[ts] \in active
               THEN (IF ts \in active THEN {ignored} ELSE {})
                    \cup (IF Parent[ts] \in active THEN {pending} ELSE {})
               ELSE IF RelatedToAny(pend, ts) THEN {pending}
               ELSE IF \/ \E w \in active : isHeavier(w, ts)
                       \/ Heaviest(pend) # None /\ isHeavier(Heaviest(pend), ts)
               THEN {ignored}
               ELSE IF mustDefer THEN {outcome(None, pend, Insert(deferred, ts))}
               ELSE {outcome(ts, pend, deferred)}

-----------------------------------------------------------------------------
Init ==
    /\ started = FALSE /\ heads = [p \in Peers |-> None]
    /\ state = <<>> /\ pend = <<>> /\ deferred = <<>> /\ recent = <<>>
    /\ initialSyncDone = FALSE /\ ticking = TRUE /\ announced = 0

\* spawnWorker on the workers s, unless the target is None
spawn(s, ts) ==
    IF ts = None THEN s
    ELSE LET used == DOMAIN s \cup DOMAIN state
             id == CHOOSE i \in 1..(Cardinality(used) + 1) : i \notin used
         IN  [i \in DOMAIN s \cup {id} |-> IF i = id THEN ts ELSE s[i]]

\* selectInitialSyncTarget: the heads sorted by height, in any order of the map
\* where the heights are equal, go into buckets
initialTargets(hs) ==
    {Heaviest(FoldLeft(Insert, <<>>, s)) :
        s \in {q \in SetToSeqs(hs) : \A i, j \in DOMAIN q : i < j => Height[q[i]] <= Height[q[j]]}}

\* handlePeerHead before the start
FirstHeads(p, ts) ==
    /\ ~ started /\ announced < MaxHeads
    /\ announced' = announced + 1
    /\ LET hs == [heads EXCEPT ![p] = ts]
           tracked == {q \in Peers : hs[q] # None}
       IN  \/ /\ Cardinality(tracked) < BootstrapPeerThreshold
              /\ heads' = hs
              /\ UNCHANGED <<started, state>>
           \/ /\ Cardinality(tracked) >= BootstrapPeerThreshold
              /\ \E t \in initialTargets({hs[q] : q \in tracked}) : state' = spawn(state, t)
              /\ started' = TRUE
              /\ heads' = [q \in Peers |-> None]
    /\ UNCHANGED <<pend, deferred, recent, initialSyncDone, ticking>>

\* handlePeerHead once started
PeerHead(ts) ==
    /\ started /\ announced < MaxHeads
    /\ announced' = announced + 1
    /\ \E o \in addSyncTarget(ts) :
          /\ pend' = o.pend /\ deferred' = o.deferred
          /\ state' = spawn(state, o.target)
    /\ UNCHANGED <<started, heads, recent, initialSyncDone, ticking>>

\* handleWorkerStatus, lines 251-257
recentAfter(ts, ok) == IF ok THEN Push(recent, ts) ELSE recent

\* handleWorkerStatus: doSync of worker id ended, fast or slowly
WorkerDone(id, ok, fast) ==
    LET done == state[id]
        left == [i \in DOMAIN state \ {id} |-> state[i]]
    IN  /\ recent' = recentAfter(done, ok)
        /\ initialSyncDone' = (initialSyncDone \/ (ok /\ fast))
        /\ \E o \in selectSyncTarget({left[i] : i \in DOMAIN left}, recent', done) :
              /\ pend' = o.pend /\ deferred' = o.deferred
              /\ state' = spawn(left, o.target)
        /\ UNCHANGED <<started, heads, ticking, announced>>

room(s) == Cardinality(DOMAIN s) < MaxSyncWorkers

\* handleInitialSyncDone: what the loop may end with
RECURSIVE rampUp(_, _, _)
rampUp(s, p, d) ==
    IF ~ room(s) THEN {[state |-> s, pend |-> p, deferred |-> d]}
    ELSE UNION {IF o.target = None
                THEN {[state |-> s, pend |-> o.pend, deferred |-> o.deferred]}
                ELSE rampUp(spawn(s, o.target), o.pend, o.deferred) :
                o \in selectDeferredSyncTarget({s[i] : i \in DOMAIN s}, recent, p, d)}

\* The ticker fires after the initial sync was done.
InitialSyncDone ==
    /\ ticking /\ initialSyncDone
    /\ ticking' = FALSE
    /\ \E r \in rampUp(state, pend, deferred) :
          state' = r.state /\ pend' = r.pend /\ deferred' = r.deferred
    /\ UNCHANGED <<started, heads, recent, initialSyncDone, announced>>

WorkerEnds == \E id \in DOMAIN state, ok, fast \in BOOLEAN : WorkerDone(id, ok, fast)

Next ==
    \/ \E p \in Peers, ts \in TipSets : FirstHeads(p, ts)
    \/ \E ts \in TipSets : PeerHead(ts)
    \/ WorkerEnds
    \/ InitialSyncDone

Spec == Init /\ [][Next]_vars

\* doSync ends: its requests have timeouts and its context is cancelled on Stop.
\* This is the weak fairness of WorkerEnds, which is enabled while there are
\* workers.
FairSpec == Spec /\ ([]<>(state = <<>>) \/ []<><<WorkerEnds>>_vars)

-----------------------------------------------------------------------------
Bucket == {s \in Seq(TipSets) : s # <<>>}

TypeOK ==
    /\ started \in BOOLEAN /\ initialSyncDone \in BOOLEAN /\ ticking \in BOOLEAN
    /\ heads \in [Peers -> TipSets \cup {None}]
    /\ DOMAIN state \subseteq 1..(MaxSyncWorkers + 1) /\ active \subseteq TipSets
    /\ pend \in Seq(Bucket) /\ deferred \in Seq(Bucket)
    /\ recent \in Seq(TipSets) /\ Len(recent) <= RecentSyncBufferSize
    /\ announced \in 0..MaxHeads

\* There are never more than MaxSyncWorkers workers, and a single one until the
\* initial sync is done, whichever way a worker is started.
WorkersBounded ==
    /\ Cardinality(DOMAIN state) <= MaxSyncWorkers
    /\ ~ initialSyncDone => Cardinality(DOMAIN state) <= 1

\* Nothing waits in pend for a worker that is not there: every bucket holds a
\* tipset that extends what some worker syncs, so that it is popped when the
\* worker ends.
PendAnchored ==
    \A i \in DOMAIN pend : \E j \in DOMAIN pend[i] : Parent[pend[i][j]] \in active

\* With finitely many heads announced the workers come to an end, whatever
\* fails: nothing is synced again and again.
SyncingEnds == <>[](state = <<>>)

\* "schedules them onto sync workers, deduplicating processing for already-active
\* syncs" (line 51): no two workers sync the same tipset.
NoDuplicateSync == \A i, j \in DOMAIN state : state[i] = state[j] => i = j

\* "it will be processed once a worker is freed from syncing a chain (or the
\* initial sync finishes)" (line 413): a deferred tipset that leaves the queue is
\* being synced or pending, or something at least as heavy was or is synced.
DeferredProcessed ==
    [][\A i \in DOMAIN deferred :
          LET ts == heaviestTipSet(deferred[i]) IN
          \/ RelatedToAny(deferred', ts)
          \/ ts \in active' \/ RelatedToAny(pend', ts)
          \/ Synced(recent', ts) \/ \E w \in active' : isHeavier(w, ts)]_vars
=============================================================================
