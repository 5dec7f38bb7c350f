------------------------------- MODULE WdPost -------------------------------
(***************************************************************************)
(* The change handler of the window PoSt scheduler                         *)
(* (storage/wdpost/wdpost_changehandler.go): a prover loop that generates  *)
(* the proofs of one proving window at a time, and a submitter loop that   *)
(* submits them when the chain is far enough into the window.  Both are    *)
(* driven by head changes, and by the goroutines they started themselves   *)
(* when these report back.                                                 *)
(*                                                                         *)
(*  - Windows follow each other without gap: window w is open for heights  *)
(*    Open(w) to Close(w) - 1.  Proving periods only number the windows.   *)
(*  - update() hands a head change first to the prover, then to the        *)
(*    submitter (updating); each loop handles one message at a time.       *)
(*  - A goroutine that has finished is blocked on the channel of its loop  *)
(*    until the loop takes the result: an abort may come in between.       *)
(*  - A postWindow that is replaced in the map keeps its goroutine: gone   *)
(*    marks the submissions whose postWindow was replaced.                 *)
(*  - The channel posts.added (capacity 16) is not filled by the windows   *)
(*    of a model, so add never blocks.                                     *)
(*  - A submission pushes its messages to the message pool and does not    *)
(*    wait for them; how they are executed is only logged.  The chain      *)
(*    accepts a message whose ChainCommitRand is its own ticket of the     *)
(*    commit epoch: a revert of that epoch makes the message worthless.    *)
(*  - Null rounds are not modelled: a revert from height r on leaves the   *)
(*    tickets of the epochs below r as they are.                           *)
(***************************************************************************)
EXTENDS Integers, Sequences, FiniteSets

CONSTANTS
    WindowLen,              \* WPoStChallengeWindow
    Lookback,               \* WPoStChallengeLookback
    SubmitConfidence,       \* 4
    ChallengeConfidence,    \* 1
    MaxHeight,              \* bound: the chain height
    MaxHeads,               \* bound: head changes
    EmptyWindows,           \* the windows without anything to prove
    Faults                  \* what may fail: "notify" (ChainNotify is interrupted), "query"
                            \* (of the proving deadline), "version" (of the network version)

ASSUME WdPostAssumption ==
    /\ {WindowLen, MaxHeight, MaxHeads} \subseteq Nat \ {0}
    /\ {SubmitConfidence, ChallengeConfidence} \subseteq Nat
    /\ SubmitConfidence < WindowLen /\ Lookback \in 1..WindowLen
    /\ Faults \subseteq {"notify", "query", "version"}

Window(h) == h \div WindowLen
Windows == 0..(Window(MaxHeight) + 2)
Open(w) == w * WindowLen
Close(w) == Open(w) + WindowLen
Challenge(w) == Open(w) - Lookback

VARIABLES
    head,       \* the height of the chain
    heads,      \* head changes so far
    updating,   \* where update() is: "no", "prover", "submitter"
    hc,         \* the head change update() is handing over; revert -1 is nil
    current,    \* proveHandler.current: a generation, 0 is nil
    gens,       \* the generations started: window, aborted, state
    cache,      \* postsCache.cache: the windows with proofs
    added,      \* postsCache.added
    postWindows,    \* submitHandler.postWindows: window -> submitState, "none" if absent
    currentTS,  \* submitHandler.currentTS, -1 is nil
    subs,       \* the submissions started: window, low (the lowest height reverted since
                \* the tipset it was started with, -1 is none), gone, state
    pushed,     \* the messages pushed: window, commit epoch, valid (the chain accepts it)
    behind,     \* the lowest height reverted since the tipset of currentTS, -1 is none
    failed,     \* windows whose submission failed since the last head change
    missed,     \* history: the loops were not told of some revert
    stopped     \* shutdown was called

prover == <<current, gens, cache, added>>
submitter == <<postWindows, currentTS, subs, failed>>
vars == <<head, heads, updating, hc, prover, submitter, pushed, behind, missed, stopped>>

-----------------------------------------------------------------------------
noChange == [revert |-> -1, advance |-> 0]

Init ==
    /\ head = 0 /\ heads = 0
    /\ updating = "no" /\ hc = noChange
    /\ current = 0 /\ gens = <<>>
    /\ cache = {} /\ added = <<>>
    /\ postWindows = [w \in Windows |-> "none"] /\ currentTS = -1
    /\ subs = <<>> /\ pushed = {} /\ behind = -1 /\ failed = {}
    /\ missed = FALSE /\ stopped = FALSE

\* A revert from height r on, if there is one, changes the ticket of epoch e.
Changes(r, e) == r # -1 /\ r <= e

\* The lowest height reverted, by a revert from r on after others from low on
lowest(low, r) == IF r # -1 /\ (low = -1 \/ r < low) THEN r ELSE low

\* The head goes up (r is -1), or tipsets from height r on are reverted and
\* others applied.
ChainMoves(r, a) ==
    /\ IF r = -1 THEN a > head ELSE a >= r
    /\ head' = a
    /\ pushed' = {[m EXCEPT !.valid = @ /\ ~ Changes(r, m.epoch)] : m \in pushed}
    /\ subs' = [s \in DOMAIN subs |-> IF subs[s].state = "running"
                                      THEN [subs[s] EXCEPT !.low = lowest(@, r)] ELSE subs[s]]
    /\ behind' = lowest(behind, r)

\* WindowPoStScheduler.Run takes a notification and calls update().  When the
\* notification channel was interrupted, the new head is reported as the
\* current one and what was reverted meanwhile is not.
HeadChange ==
    /\ updating = "no" /\ heads < MaxHeads /\ ~ stopped
    /\ \E r \in {-1} \cup 1..head, a \in 1..MaxHeight :
          /\ ChainMoves(r, a)
          /\ \/ hc' = [revert |-> r, advance |-> a] /\ UNCHANGED missed
             \/ /\ "notify" \in Faults /\ r # -1
                /\ hc' = [revert |-> -1, advance |-> a] /\ missed' = TRUE
    /\ heads' = heads + 1
    /\ updating' = "prover"
    /\ UNCHANGED <<prover, postWindows, currentTS, failed, stopped>>

\* StateMinerProvingDeadline fails in update(): the head change is logged and
\* dropped.
UpdateFails ==
    /\ "query" \in Faults
    /\ updating = "no" /\ heads < MaxHeads /\ ~ stopped
    /\ \E r \in {-1} \cup 1..head, a \in 1..MaxHeight :
          ChainMoves(r, a) /\ missed' = (missed \/ r # -1)
    /\ heads' = heads + 1
    /\ UNCHANGED <<updating, hc, prover, postWindows, currentTS, failed, stopped>>

-----------------------------------------------------------------------------
\* processHeadChange, lines 213-222: the current proof expires
Expires(g) == g # 0 /\ hc.advance >= Close(gens[g].w)

abortGen(g) == [gens EXCEPT ![g].aborted = TRUE]

\* processHeadChange, lines 229-235: the first window from the current one on
\* that has no proofs yet
nextToProve ==
    CHOOSE w \in Windows : /\ w >= Window(hc.advance) /\ w \notin cache
                           /\ \A v \in Windows : v >= Window(hc.advance) /\ v < w => v \in cache

\* proveHandler.processHeadChange
ProverHead ==
    /\ updating = "prover" /\ ~ stopped
    /\ updating' = "submitter"
    /\ LET gs == IF Expires(current) THEN abortGen(current) ELSE gens
           w == nextToProve IN
       \/ /\ current # 0 /\ ~ Expires(current)
          /\ UNCHANGED <<current, gens>>
       \/ /\ current = 0 \/ Expires(current)
          /\ hc.advance < Challenge(w) + ChallengeConfidence
          /\ current' = 0 /\ gens' = gs
       \/ /\ current = 0 \/ Expires(current)
          /\ hc.advance >= Challenge(w) + ChallengeConfidence
          /\ gens' = Append(gs, [w |-> w, aborted |-> FALSE, state |-> "running"])
          /\ current' = Len(gens')
    /\ UNCHANGED <<missed, head, heads, hc, cache, added, submitter, pushed, behind, stopped>>

\* The goroutine of startGeneratePoST is done; an abort need not make it fail.
GenerateDone(g) ==
    /\ gens[g].state = "running" /\ ~ stopped
    /\ \E res \in {"ok", "error"} : gens' = [gens EXCEPT ![g].state = res]
    /\ UNCHANGED <<missed, head, heads, updating, hc, current, cache, added, submitter, pushed, behind, stopped>>

\* Mutant: a failed proof is not cleared.
currentAfterErrorKept(g) == current

\* processPostResult, lines 257-262
currentAfterError(g) == IF current = g THEN 0 ELSE current

\* proveHandler.processPostResult and postsCache.add
ProverResult(g) ==
    /\ ~ stopped
    /\ \/ /\ gens[g].state = "error"
          /\ current' = currentAfterError(g)
          /\ UNCHANGED <<cache, added>>
       \/ /\ gens[g].state = "ok"
          /\ current' = 0
          /\ cache' = cache \cup {gens[g].w}
          /\ added' = Append(added, gens[g].w)
    /\ gens' = [gens EXCEPT ![g].state = "done"]
    /\ UNCHANGED <<missed, head, heads, updating, hc, submitter, pushed, behind, stopped>>

-----------------------------------------------------------------------------
\* submitIfReady for window w in state, at height h: the state it moves to
submitIfReady(h, w, state) ==
    IF /\ state = "Start"
       /\ h < Close(w)
       /\ h >= Open(w) + SubmitConfidence
       /\ w \in cache
    THEN IF w \in EmptyWindows THEN "Complete" ELSE "Submitting"
    ELSE state

revertedToPrevDL(w) == hc.revert # -1 /\ hc.revert < Open(w)
expired(w) == hc.advance >= Close(w)

\* processHeadChangeForPW, lines 414-431: the submission of w is aborted and
\* its postWindow replaced
replaces(w) == postWindows[w] = "Submitting" /\ (revertedToPrevDL(w) \/ expired(w))

\* Mutant: a completed submission is repeated only after a revert of more than
\* its challenge.
resetsLate(w) == postWindows[w] = "Complete" /\ hc.revert # -1 /\ hc.revert < Challenge(w)

\* processHeadChangeForPW, lines 432-437
resets(w) == postWindows[w] = "Complete" /\ revertedToPrevDL(w)

live(s) == ~ subs[s].gone /\ subs[s].state # "done"

\* Mutant: a window that is being submitted is submitted again.
startedAgain(old) == {w \in Windows : postWindows'[w] = "Submitting"}

\* startSubmitPoST for the windows whose state changes to Submitting
started(old) == {w \in Windows : postWindows'[w] = "Submitting" /\ old[w] # "Submitting"}
startSubmit(old, ss, low) ==
    subs' = IF started(old) = {} THEN ss
            ELSE Append(ss, [w |-> CHOOSE w \in started(old) : TRUE, low |-> low, gone |-> FALSE,
                             state |-> "running"])

\* submitHandler.processHeadChange
SubmitterHead ==
    /\ updating = "submitter" /\ ~ stopped
    /\ updating' = "no" /\ hc' = noChange
    /\ currentTS' = hc.advance
    /\ LET before == [w \in Windows |->
                        IF replaces(w) \/ resets(w) \/ (postWindows[w] = "none" /\ w = Window(hc.advance))
                        THEN "Start" ELSE postWindows[w]]
           ss == [s \in DOMAIN subs |-> IF live(s) /\ replaces(subs[s].w)
                                        THEN [subs[s] EXCEPT !.gone = TRUE] ELSE subs[s]]
       IN  /\ postWindows' = [w \in Windows |-> submitIfReady(hc.advance, w, before[w])]
           /\ startSubmit(before, ss, -1)
    /\ failed' = {} /\ behind' = -1
    /\ UNCHANGED <<missed, head, heads, prover, pushed, stopped>>

\* Mutant: a proof that is ready waits for the next head change.
readyIgnored(w) == postWindows

\* processPostReady
ready(w) == [postWindows EXCEPT ![w] = submitIfReady(currentTS, w, @)]

PostReady ==
    /\ ~ stopped /\ added # <<>>
    /\ added' = Tail(added)
    /\ postWindows' = ready(Head(added))
    /\ startSubmit(postWindows, subs, behind)
    /\ UNCHANGED <<missed, head, heads, updating, hc, current, gens, cache, currentTS, pushed, behind,
                   failed, stopped>>

\* runSubmitPoST, lines 156-162: the epoch of the commit randomness
CommitEpochs(w) == {Challenge(w)} \cup (IF "version" \in Faults THEN {Open(w)} ELSE {})

\* The goroutine of startSubmitPoST is done: its messages, with the randomness of
\* the chain of the tipset it was started with, are in the message pool, or one of
\* them could not be pushed.  An abort need not make it fail.  low is of no more use.
SubmitDone(s) ==
    /\ subs[s].state = "running" /\ ~ stopped
    /\ \/ /\ subs' = [subs EXCEPT ![s] = [@ EXCEPT !.state = "error", !.low = -1]]
          /\ UNCHANGED pushed
       \/ /\ subs' = [subs EXCEPT ![s] = [@ EXCEPT !.state = "ok", !.low = -1]]
          /\ \E e \in CommitEpochs(subs[s].w) :
                pushed' = pushed \cup {[w |-> subs[s].w, epoch |-> e,
                                        valid |-> ~ Changes(subs[s].low, e)]}
    /\ UNCHANGED <<missed, head, heads, updating, hc, prover, postWindows, currentTS, behind, failed,
                   stopped>>

\* The callback given to startSubmitPoST holds on to its own postWindow, which
\* is no longer in the map once it was replaced.
applies(s) == ~ subs[s].gone

\* processSubmitResult
SubmitResult(s) ==
    /\ ~ stopped
    /\ subs[s].state \in {"ok", "error"}
    /\ LET w == subs[s].w IN
       IF ~ applies(s) THEN UNCHANGED <<postWindows, failed>>
       ELSE /\ postWindows' = [postWindows EXCEPT ![w] =
                                  IF subs[s].state = "ok" THEN "Complete" ELSE "Start"]
            /\ failed' = IF subs[s].state = "ok" THEN failed ELSE failed \cup {w}
    /\ subs' = [subs EXCEPT ![s].state = "done"]
    /\ UNCHANGED <<missed, head, heads, updating, hc, prover, currentTS, pushed, behind, stopped>>

\* shutdown: both loops return, aborting what they know of.
Shutdown ==
    /\ ~ stopped
    /\ stopped' = TRUE
    /\ gens' = IF current = 0 THEN gens ELSE abortGen(current)
    /\ subs' = [s \in DOMAIN subs |-> [subs[s] EXCEPT !.gone = TRUE]]
    /\ UNCHANGED <<missed, head, heads, updating, hc, current, cache, added, postWindows, currentTS, pushed,
                   behind, failed>>

Next ==
    \/ HeadChange \/ UpdateFails \/ ProverHead \/ SubmitterHead \/ PostReady \/ Shutdown
    \/ \E g \in DOMAIN gens : GenerateDone(g) \/ ProverResult(g)
    \/ \E s \in DOMAIN subs : SubmitDone(s) \/ SubmitResult(s)

Spec == Init /\ [][Next]_vars

-----------------------------------------------------------------------------
SubmitStates == {"none", "Start", "Submitting", "Complete"}

TypeOK ==
    /\ head \in 0..MaxHeight /\ heads \in 0..MaxHeads
    /\ updating \in {"no", "prover", "submitter"}
    /\ hc \in [revert : {-1} \cup 1..MaxHeight, advance : 0..MaxHeight]
    /\ current \in 0..Len(gens)
    /\ gens \in Seq([w : Windows, aborted : BOOLEAN, state : {"running", "ok", "error", "done"}])
    /\ cache \in SUBSET Windows /\ added \in Seq(Windows)
    /\ postWindows \in [Windows -> SubmitStates]
    /\ currentTS \in {-1} \cup 0..MaxHeight
    /\ subs \in Seq([w : Windows, low : {-1} \cup 1..MaxHeight, gone : BOOLEAN,
                     state : {"running", "ok", "error", "done"}])
    /\ pushed \in SUBSET [w : Windows, epoch : Int, valid : BOOLEAN]
    /\ failed \in SUBSET Windows
    /\ behind \in {-1} \cup 1..MaxHeight
    /\ {missed, stopped} \subseteq BOOLEAN

\* The proof the prover waits for is being generated: its result will come and
\* clear p.current, so that no dead proof keeps later windows from being proved.
CurrentIsLive ==
    current # 0 /\ ~ stopped => gens[current].state # "done" /\ ~ gens[current].aborted

\* A window is in SubmitStateSubmitting exactly while one submission of it is
\* under way that was not aborted, whatever late results come in.
OneSubmission ==
    ~ stopped => \A w \in Windows :
        Cardinality({s \in DOMAIN subs : live(s) /\ subs[s].w = w})
            = IF postWindows[w] = "Submitting" THEN 1 ELSE 0

\* Some message of w has the commit randomness of the opening of the window,
\* because the network version could not be queried.
VersionUnknown(w) == \E m \in pushed : m.w = w /\ m.epoch = Open(w)

\* Once a head change is handled, a window that counts as submitted has a message
\* in the pool, or on chain, that the chain as it is now accepts: a submission that
\* a revert made worthless is repeated ("reset the submit state to the starting
\* state, so that it can be resubmitted", line 433), also when it completes after
\* the revert.  The reset depends on the opening of the window, the randomness on
\* its challenge.  Excepted are reverts the loops were not told of, and
\* submissions with the randomness of the opening itself, which a revert to
\* exactly that height changes without a reset.
CompleteIsValid ==
    updating = "no" /\ ~ missed => \A w \in Windows \ EmptyWindows :
        postWindows[w] = "Complete" /\ ~ VersionUnknown(w) => \E m \in pushed : m.w = w /\ m.valid

\* A proof that is ready while the chain is high enough in its window is never
\* left lying: it is submitted, its submission failed at this head, or the
\* submitter still has to hear that it was added.
NoMissedSubmit ==
    ~ stopped => \A w \in cache :
        /\ postWindows[w] = "Start" /\ w \notin failed
        /\ currentTS >= Open(w) + SubmitConfidence /\ currentTS < Close(w)
        => \E i \in DOMAIN added : added[i] = w

\* No submission goes on for a window the chain has left, as long as every
\* revert was reported to the loops.
SubmissionsInWindow ==
    updating = "no" /\ ~ missed => \A s \in DOMAIN subs :
        live(s) => currentTS >= Open(subs[s].w) /\ currentTS < Close(subs[s].w)

\* "Only generate one proof at a time" (line 224): generations that were not
\* aborted never run side by side.
OneProofAtATime ==
    Cardinality({g \in DOMAIN gens : gens[g].state = "running" /\ ~ gens[g].aborted}) <= 1
=============================================================================
