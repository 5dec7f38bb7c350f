---------------------------- MODULE ChainEvents ----------------------------
(***************************************************************************)
(* How parts of the node learn about the chain (chain/events).  One        *)
(* goroutine (observer.go) turns the head changes of the node into one     *)
(* revert or one apply at a time, and tells three observers in turn: the   *)
(* cache of recent tipsets (tscache.go), the height events                 *)
(* (events_height.go) and the head change events (events_called.go).       *)
(* ChainAt, StateChanged and Called run in goroutines of their callers,    *)
(* beside the loop.                                                        *)
(*                                                                         *)
(* The tree of tipsets is a constant.  The state somebody watches changes  *)
(* in the tipsets ChangeTs; the message somebody waits for is in the       *)
(* tipsets MessageTs, and runs in their children.  Of the handlers the     *)
(* model keeps whether they were run and with which tipset.                *)
(***************************************************************************)
EXTENDS Integers, Sequences, FiniteSets

SqX == INSTANCE SequencesExt
FsX == INSTANCE FiniteSetsExt

CONSTANTS
    TipSets, Genesis, Parent, Height,
    ChangeTs, MessageTs,
    Nil,
    Callers,        \* calls of ChainAt, StateChanged or Called
    HandlerHeights, HandlerConfidences,     \* the arguments of ChainAt
    TriggerArgs,    \* of the others: what they wait for, confidence, timeout, and whether the handler wants more
    GcConfidence,
    Faults,         \* "drop" (the node closes the subscription), "api" (a call to it fails), "handler"
    MaxMoves,       \* bound: changes of the node's head
    MaxDrops,       \* bound: failures
    MaxNotifs       \* bound: notifications in the channel

NoTimeout == -1

ASSUME ChainEventsAssumption ==
    /\ Genesis \in TipSets /\ Nil \notin TipSets /\ ChangeTs \subseteq TipSets /\ MessageTs \subseteq TipSets
    /\ Parent \in [TipSets \ {Genesis} -> TipSets] /\ Height \in [TipSets -> Nat]
    /\ \A t \in TipSets \ {Genesis} : Height[Parent[t]] < Height[t]
    /\ GcConfidence \in Nat \ {0} /\ HandlerConfidences \subseteq 0..GcConfidence
    /\ TriggerArgs \subseteq [of : {"change", "message"}, confidence : Nat, timeout : Nat \cup {NoTimeout}, more : BOOLEAN]
    /\ Faults \subseteq {"drop", "api", "handler"}

VARIABLES
    chain, top, moves,  \* the node: its head, the greatest height it had, changes so far
    conn, notifs,       \* the subscription, and what is in its channel
    drops,
    ohead,              \* observer.head
    loop,               \* where the loop of the observer is
    cache,              \* the tipSetCache
    hhead, lastGc,      \* heightEvents.head and lastGc
    tsHeights, triggerHeights,  \* the handlers in the two maps
    hnd,                \* the handlers, with the call of ChainAt that brings each
    lastTs,             \* hcEvents.lastTs
    queue,              \* the events of confQueue and revertQueue
    trig                \* hcEvents.triggers and timeouts, with the call that brings each

node == <<chain, top, moves>>
sub == <<conn, notifs, drops>>
heights == <<hhead, lastGc, tsHeights, triggerHeights, hnd>>
called == <<lastTs, queue, trig>>
vars == <<node, sub, ohead, loop, cache, heights, called>>

-----------------------------------------------------------------------------
(* The chain. *)

Line[t \in TipSets] == IF t = Genesis THEN <<t>> ELSE Append(Line[Parent[t]], t)
OnChain(t) == {Line[t][k] : k \in DOMAIN Line[t]}

\* The first tipset at height h or above, on the chain of t.
AfterHeight(h, t) ==
    CHOOSE x \in OnChain(t) :
        /\ Height[x] >= h
        /\ \A y \in OnChain(t) : Height[y] >= h => Height[x] <= Height[y]

Shared(a, b) == Cardinality(OnChain(a) \cap OnChain(b))
Path(a, b) ==
    [rev |-> SqX!Reverse(SubSeq(Line[a], Shared(a, b) + 1, Len(Line[a]))),
     app |-> SubSeq(Line[b], Shared(a, b) + 1, Len(Line[b]))]

-----------------------------------------------------------------------------
(* The ring buffer of recent tipsets, whose last slot is the head. *)

Cap == GcConfidence
EmptyCache == [byHeight |-> [i \in 0..Cap-1 |-> Nil], start |-> 0, len |-> 0, byKey |-> {}]
Slot(c, k) == (c.start + k) % Cap
Best(c) == c.byHeight[c.start]

\* Mutant: the null rounds before the tipset leave no empty slots.
addNoNulls(c, to) ==
    IF c.len > 0 /\ (Height[Best(c)] >= Height[to] \/ Best(c) # Parent[to]) THEN c
    ELSE [byHeight |-> [c.byHeight EXCEPT ![Slot(c, 1)] = to],
          start |-> Slot(c, 1),
          len |-> FsX!Min({Cap, c.len + 1}),
          byKey |-> (c.byKey \ {c.byHeight[Slot(c, 1)]}) \cup {to}]

\* Null rounds before the tipset get empty slots; what was in the slots is forgotten.
add(c, to) ==
    LET nulls == IF c.len = 0 THEN 0 ELSE Height[to] - Height[Best(c)] - 1
        over == {Slot(c, k) : k \in 1..nulls + 1}
        last == Slot(c, nulls + 1)
    IN  IF c.len > 0 /\ (Height[Best(c)] >= Height[to] \/ Best(c) # Parent[to]) THEN c
        ELSE [byHeight |-> [i \in 0..Cap-1 |-> IF i = last THEN to
                                               ELSE IF i \in over THEN Nil ELSE c.byHeight[i]],
              start |-> last,
              len |-> FsX!Min({Cap, c.len + nulls + 1}),
              byKey |-> (c.byKey \ {c.byHeight[i] : i \in over}) \cup {to}]

\* The head goes, and with it the null rounds below it.
revert(c, ts) ==
    LET gone == FsX!Min({k \in 1..c.len : k = c.len \/ c.byHeight[Slot(c, -k)] # Nil})
    IN  IF c.len = 0 \/ Best(c) # ts THEN c
        ELSE [byHeight |-> [c.byHeight EXCEPT ![c.start] = Nil],
              start |-> Slot(c, -gone),
              len |-> c.len - gone,
              byKey |-> c.byKey \ {ts}]

\* ChainGetTipSetAfterHeight, for a height not above that of ts.
get(c, h, ts) ==
    LET back == Height[ts] - h
        found == {i \in 0..c.len - 1 : c.byHeight[Slot(c, i - back)] # Nil}
    IN  IF c.len = 0 \/ ts \notin c.byKey THEN AfterHeight(h, ts)
        ELSE IF back = 0 THEN ts
        ELSE IF back > c.len THEN AfterHeight(h, ts)
        ELSE IF found = {} THEN Nil
        ELSE c.byHeight[Slot(c, FsX!Min(found) - back)]

-----------------------------------------------------------------------------
Idle == [step |-> "next", rev |-> <<>>, app |-> <<>>, kind |-> "none", from |-> Nil, to |-> Nil, at |-> 0]
NewHandler == [pc |-> "none", height |-> 0, confidence |-> 0, head |-> Nil, ts |-> Nil, called |-> FALSE]
NewTrigger == [pc |-> "none", of |-> "change", confidence |-> 0, timeout |-> NoTimeout, more |-> FALSE,
               disabled |-> FALSE, calls |-> 0, base |-> Nil]

Init ==
    /\ chain = Genesis /\ top = Height[Genesis] /\ moves = 0
    /\ conn = "up" /\ notifs = <<>> /\ drops = 0
    /\ ohead = Genesis /\ loop = Idle /\ cache = EmptyCache
    /\ hhead = Genesis /\ lastGc = 0 /\ tsHeights = {} /\ triggerHeights = {}
    /\ hnd = [i \in Callers |-> NewHandler]
    /\ lastTs = Genesis /\ queue = {} /\ trig = [j \in Callers |-> NewTrigger]

free(i) == hnd[i].pc = "none" /\ trig[i].pc = "none"
fails(kind) == kind \in Faults /\ drops < MaxDrops /\ drops' = drops + 1

(* The node takes another head.  It never goes back further than GcConfidence, which is *)
(* twice the finality of the chain.                                                     *)
SetHead(t) ==
    /\ t # chain /\ moves < MaxMoves /\ Len(notifs) < MaxNotifs
    /\ Height[Line[t][Shared(chain, t)]] >= top - GcConfidence
    /\ chain' = t /\ moves' = moves + 1 /\ top' = FsX!Max({top, Height[t]})
    /\ notifs' = IF conn = "up" THEN Append(notifs, Path(chain, t)) ELSE notifs
    /\ UNCHANGED <<conn, drops, ohead, loop, cache, heights, called>>

-----------------------------------------------------------------------------
(* The observer. *)

atRest == loop.step = "next" /\ loop.rev = <<>> /\ loop.app = <<>>

Drop ==
    /\ conn = "up" /\ atRest /\ fails("drop")
    /\ conn' = "down" /\ notifs' = <<>>
    /\ UNCHANGED <<node, ohead, loop, cache, heights, called>>

\* Mutant: after a reconnection the observer starts from the new head.
catchUpNot == Path(chain, chain)

\* The way from the last tipset that was applied to the head of the new subscription.
catchUp == Path(ohead, chain)

Connect ==
    /\ conn = "down" /\ conn' = "up"
    /\ loop' = [loop EXCEPT !.rev = catchUp.rev, !.app = catchUp.app]
    /\ UNCHANGED <<node, notifs, drops, ohead, cache, heights, called>>

Take ==
    /\ conn = "up" /\ atRest /\ notifs # <<>>
    /\ loop' = [loop EXCEPT !.rev = Head(notifs).rev, !.app = Head(notifs).app]
    /\ notifs' = Tail(notifs)
    /\ UNCHANGED <<node, conn, drops, ohead, cache, heights, called>>

fits == IF loop.rev # <<>> THEN Head(loop.rev) = ohead ELSE Parent[Head(loop.app)] = ohead

(* A head change that does not fit, or a tipset that cannot be loaded: the loop gives up *)
(* and subscribes again.                                                                 *)
Bail ==
    /\ loop.step = "next" /\ ~atRest
    /\ fits => Len(loop.rev) = 1 /\ Parent[Head(loop.rev)] \notin cache.byKey
    /\ fails("api")
    /\ loop' = Idle /\ conn' = "down" /\ notifs' = <<>>
    /\ UNCHANGED <<node, ohead, cache, heights, called>>

RevertNext ==
    /\ loop.step = "next" /\ loop.rev # <<>> /\ fits
    /\ LET from == Head(loop.rev)
           to == IF Len(loop.rev) > 1 THEN loop.rev[2] ELSE Parent[from]
       IN  /\ ohead' = to
           /\ cache' = revert(cache, from)
           /\ loop' = [loop EXCEPT !.step = "head", !.rev = Tail(@), !.kind = "revert", !.from = from, !.to = to]
    /\ UNCHANGED <<node, sub, heights, called>>

ApplyNext ==
    /\ loop.step = "next" /\ loop.rev = <<>> /\ loop.app # <<>> /\ fits
    /\ LET to == Head(loop.app)
       IN  /\ ohead' = to
           /\ cache' = add(cache, to)
           /\ loop' = [loop EXCEPT !.step = "head", !.app = Tail(@), !.kind = "apply", !.from = ohead, !.to = to]
    /\ UNCHANGED <<node, sub, heights, called>>

-----------------------------------------------------------------------------
(* The height events, in the loop. *)

triggerAt(i) == hnd[i].height + hnd[i].confidence

updateHead ==
    LET to == Height[loop.to] target == to - GcConfidence
    IN  /\ hhead' = loop.to
        /\ IF to < lastGc + 2 * GcConfidence THEN UNCHANGED <<lastGc, tsHeights, triggerHeights>>
           ELSE /\ lastGc' = to
                /\ tsHeights' = {i \in tsHeights : hnd[i].height >= target}
                /\ triggerHeights' = {i \in triggerHeights : triggerAt(i) >= target}

UpdateHead ==
    /\ loop.step = "head"
    /\ updateHead
    /\ loop' = [loop EXCEPT !.step = "heights", !.at = Height[loop.from] + IF loop.kind = "apply" THEN 1 ELSE 0]
    /\ UNCHANGED <<node, sub, ohead, cache, hnd, called>>

\* The handlers to run when height h is applied.
triggered(h) == {i \in triggerHeights : triggerAt(i) = h /\ ~hnd[i].called}

(* One height between the two tipsets.  ChainAt may register a handler between two of them. *)
ApplyHeight ==
    /\ loop.step = "heights" /\ loop.kind = "apply"
    /\ hnd' = [i \in Callers |->
                  [hnd[i] EXCEPT !.ts = IF i \in tsHeights /\ hnd[i].height = loop.at THEN loop.to ELSE @,
                                 !.called = @ \/ i \in triggered(loop.at)]]
    /\ loop' = [loop EXCEPT !.at = @ + 1, !.step = IF loop.at = Height[loop.to] THEN "hc" ELSE @]
    /\ UNCHANGED <<node, sub, ohead, cache, hhead, lastGc, tsHeights, triggerHeights, called>>

lastReverted == Height[loop.to] + 1

RevertHeight ==
    /\ loop.step = "heights" /\ loop.kind = "revert"
    /\ hnd' = [i \in Callers |->
                  IF i \in tsHeights /\ hnd[i].height = loop.at
                  THEN [hnd[i] EXCEPT !.ts = Nil, !.called = FALSE] ELSE hnd[i]]
    /\ loop' = [loop EXCEPT !.at = @ - 1, !.step = IF loop.at = lastReverted THEN "hc" ELSE @]
    /\ UNCHANGED <<node, sub, ohead, cache, hhead, lastGc, tsHeights, triggerHeights, called>>

-----------------------------------------------------------------------------
(* ChainAt, in the goroutine of its caller.  The handler is its own until it is in the maps. *)

keepsMaps == UNCHANGED <<tsHeights, triggerHeights>>
asCaller == UNCHANGED <<node, sub, ohead, loop, cache, hhead, lastGc, called>>

registers(i, r) ==
    /\ hnd' = [hnd EXCEPT ![i] = [r EXCEPT !.pc = "registered"]]
    /\ tsHeights' = tsHeights \cup {i} /\ triggerHeights' = triggerHeights \cup {i}

\* One turn of the loop of ChainAt, up to where it lets go of the lock.
looks(i, r) ==
    IF Height[hhead] < r.height /\ ~r.called THEN registers(i, r)
    ELSE /\ hnd' = [hnd EXCEPT ![i] = [r EXCEPT !.pc = "unlocked", !.head = hhead]]
         /\ keepsMaps

ChainAt(i, h, c) ==
    /\ free(i)
    /\ looks(i, [NewHandler EXCEPT !.height = h, !.confidence = c])
    /\ asCaller

\* The handler was run on a head that is no longer there.
ChainAtUndo(i) ==
    /\ hnd[i].pc = "unlocked" /\ Height[hnd[i].head] < hnd[i].height
    /\ hnd' = [hnd EXCEPT ![i].called = FALSE, ![i].pc = "relock"]
    /\ keepsMaps /\ asCaller

(* The tipset is looked up; a run on another tipset is reverted; the handler is run when *)
(* the confidence is reached, and need not be kept when it is beyond any reorganisation. *)
ChainAtRun(i) ==
    LET r == hnd[i]
        head == Height[r.head]
        ts == IF head = r.height THEN r.head ELSE get(cache, r.height, r.head)
        runs == head >= r.height + r.confidence /\ ~(r.called /\ ts = r.ts)
    IN  /\ r.pc = "unlocked" /\ head >= r.height
        /\ hnd' = [hnd EXCEPT ![i].ts = ts,
                              ![i].called = (@ /\ ts = r.ts) \/ runs,
                              ![i].pc = IF runs /\ head >= r.height + GcConfidence THEN "returned" ELSE "relock"]
        /\ keepsMaps /\ asCaller

\* The lookup, or a handler, fails: the handler is not kept.
ChainAtFails(i) ==
    /\ hnd[i].pc = "unlocked" /\ fails("handler")
    /\ hnd' = [hnd EXCEPT ![i].pc = "failed"]
    /\ keepsMaps
    /\ UNCHANGED <<node, conn, notifs, ohead, loop, cache, hhead, lastGc, called>>

\* Mutant: the handler is registered whatever the head is by now.
staleNot(r) == FALSE

\* The head changed while the lock was released.
stale(r) == r.head # hhead

ChainAtLock(i) ==
    LET r == hnd[i]
    IN  /\ r.pc = "relock"
        /\ IF stale(r) THEN looks(i, r) ELSE registers(i, r)
        /\ asCaller

-----------------------------------------------------------------------------
(* The head change events. *)

asWatcher == UNCHANGED <<node, sub, ohead, loop, cache, heights, lastTs, queue>>

\* The tipsets whose application is the event.
EventTs(of) == IF of = "change" THEN ChangeTs ELSE {t \in TipSets \ {Genesis} : Parent[t] \in MessageTs}

(* The check tells whether it has happened already; then there is no timeout. *)
OnHeadChanged(j, a) ==
    LET done == EventTs(a.of) \cap OnChain(lastTs) # {}
    IN  /\ free(j)
        /\ trig' = [trig EXCEPT ![j] = [pc |-> "checked", of |-> a.of, confidence |-> a.confidence, more |-> a.more,
                                        timeout |-> IF done \/ a.timeout = NoTimeout THEN NoTimeout
                                                    ELSE a.timeout + a.confidence,
                                        disabled |-> done /\ ~a.more, calls |-> 0, base |-> Nil]]
        /\ asWatcher

(* StateChanged and Called add the matcher after they let go of the lock of OnHeadChanged. *)
AddMatcher(j) ==
    /\ trig[j].pc = "checked"
    /\ trig' = [trig EXCEPT ![j].pc = "matching", ![j].base = lastTs]
    /\ asWatcher

queueForConfidence(to) ==
    queue \cup {[trig |-> j, ts |-> to, state |-> "queued"]
                  : j \in {k \in Callers : trig[k].pc = "matching" /\ to \in EventTs(trig[k].of)}}

dueAt(e, tr) == Height[e.ts] + tr[e.trig].confidence

ready(e, s, at) == dueAt(e, s.trig) = at /\ e.state # "called" /\ ~s.trig[e.trig].disabled

\* s is the queue and the triggers; the handlers of the triggers errs fail.
applyWithConfidence(s, at, errs) ==
    LET now == {e \in s.queue : ready(e, s, at)}
        ran(j) == {e \in now : e.trig = j /\ j \notin errs}
    IN  [queue |-> {IF e \notin now THEN e ELSE [e EXCEPT !.state = IF e.trig \in errs THEN "failed" ELSE "called"]
                      : e \in s.queue},
         trig |-> [j \in Callers |-> IF ran(j) = {} THEN s.trig[j]
                                      ELSE [s.trig[j] EXCEPT !.calls = 1, !.disabled = ~s.trig[j].more]]]

applyTimeouts(s, at, errs) ==
    [s EXCEPT !.trig = [j \in Callers |->
        LET t == s.trig[j]
        IN  IF t.timeout = at /\ t.pc # "none" /\ t.calls = 0 /\ ~t.disabled /\ j \notin errs
            THEN [t EXCEPT !.disabled = ~t.more] ELSE t]]

HcApply(errs) ==
    LET start == [queue |-> queueForConfidence(loop.to), trig |-> trig]
        upTo[h \in Height[loop.from]..Height[loop.to]] ==
            IF h = Height[loop.from] THEN start
            ELSE applyTimeouts(applyWithConfidence(upTo[h - 1], h, errs), h, errs)
    IN  /\ loop.step = "hc" /\ loop.kind = "apply"
        /\ queue' = upTo[Height[loop.to]].queue /\ trig' = upTo[Height[loop.to]].trig
        /\ lastTs' = loop.to
        /\ loop' = [loop EXCEPT !.step = "next"]
        /\ UNCHANGED <<node, conn, notifs, ohead, cache, heights>>
        /\ IF errs = {} THEN UNCHANGED drops ELSE fails("handler")

\* Mutant: only events that were called are taken from the queue.
forgottenCalled(ts) == {e \in queue : e.ts = ts /\ e.state = "called"}

\* The events of the tipset that goes; the handler of one that was called is told.
forgotten(ts) == {e \in queue : Height[e.ts] = Height[ts]}

\* base is a history variable: where the chain last was without an event the matcher saw.
HcRevert ==
    /\ loop.step = "hc" /\ loop.kind = "revert"
    /\ queue' = queue \ forgotten(loop.from)
    /\ trig' = [j \in Callers |-> IF trig[j].base = loop.from THEN [trig[j] EXCEPT !.base = loop.to] ELSE trig[j]]
    /\ lastTs' = loop.to
    /\ loop' = [loop EXCEPT !.step = "next"]
    /\ UNCHANGED <<node, sub, ohead, cache, heights>>

-----------------------------------------------------------------------------
Observer == Connect \/ Take \/ RevertNext \/ ApplyNext \/ UpdateHead \/ ApplyHeight \/ RevertHeight
               \/ HcRevert \/ \E errs \in SUBSET Callers : HcApply(errs)
Caller(i) == ChainAtUndo(i) \/ ChainAtRun(i) \/ ChainAtLock(i)

Next ==
    \/ \E t \in TipSets : SetHead(t)
    \/ Observer \/ Drop \/ Bail
    \/ \E i \in Callers :
          \/ Caller(i) \/ ChainAtFails(i) \/ AddMatcher(i)
          \/ \E h \in HandlerHeights, c \in HandlerConfidences : ChainAt(i, h, c)
          \/ \E a \in TriggerArgs : OnHeadChanged(i, a)

Spec == Init /\ [][Next]_vars

(* The loop and the callers of ChainAt are goroutines; the loop subscribes again after a second. *)
FairSpec == Spec /\ WF_vars(Observer) /\ \A i \in Callers : WF_vars(Caller(i))

-----------------------------------------------------------------------------
(* Between two changes the ring buffer holds exactly the top of the observer's chain, null *)
(* rounds included, and can look up by key exactly what it holds: reorganisations, null    *)
(* rounds and the wrap at its capacity leave nothing stale in it (tscache.go).             *)
CacheMatchesChain ==
    loop.step = "next" =>
        /\ \A k \in 0..cache.len - 1 :
              LET at == {t \in OnChain(ohead) : Height[t] = Height[ohead] - k}
              IN  cache.byHeight[Slot(cache, -k)] = IF at = {} THEN Nil ELSE CHOOSE t \in at : TRUE
        /\ cache.byKey = {cache.byHeight[i] : i \in 0..Cap-1} \ {Nil}

(* Between two changes, a handler that ChainAt registered is called when the chain is at its *)
(* trigger height, and not called when the chain is below its height, however ChainAt and    *)
(* the loop were interleaved (events_height.go).                                             *)
HeightsMatchChain ==
    loop.step = "next" =>
        \A i \in Callers :
            hnd[i].pc = "registered" =>
                IF hnd[i].called THEN Height[hhead] >= hnd[i].height ELSE Height[hhead] < triggerAt(i)

(* What the comment on ChainAt says: "ts passed to handlers is the tipset at the specified    *)
(* epoch, or above if lower tipsets were null" (events_height.go:51).  The cache counts back  *)
(* from its own head even when it is asked about another one (tscache.go:107), so a tipset    *)
(* that reaches the cache while ChainAt looks up gives the handler a tipset that is too high. *)
TsAtHeight ==
    loop.step = "next" =>
        \A i \in Callers :
            hnd[i].pc = "registered" /\ hnd[i].called => hnd[i].ts = AfterHeight(hnd[i].height, hhead)

(* Between two changes the queue holds, for every matcher, exactly the events of the tipsets  *)
(* of the chain that were applied since it was added, and none that has its confidence was    *)
(* left out, whatever was reverted and applied again (events_called.go).                      *)
EventsMatchChain ==
    loop.step = "next" =>
        \A j \in Callers :
            trig[j].pc = "matching" =>
                /\ {e.ts : e \in {q \in queue : q.trig = j}} =
                      EventTs(trig[j].of) \cap (OnChain(lastTs) \ OnChain(trig[j].base))
                /\ \A e \in queue :
                      e.trig = j /\ e.state = "queued" =>
                          trig[j].disabled \/ Height[lastTs] < dueAt(e, trig)

(* The three observers end at the head of the node, even when the subscription was closed and *)
(* head changes were lost in between (observer.go).                                           *)
CatchesUp == <>[](ohead = chain /\ hhead = chain /\ lastTs = chain)
=============================================================================
