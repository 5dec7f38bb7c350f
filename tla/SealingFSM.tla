----------------------------- MODULE SealingFSM -----------------------------
(***************************************************************************)
(* The life of one sector in the storage miner (storage/pipeline): the     *)
(* state machine loop around SealingPlanners, the handler of every state,  *)
(* the deal input that feeds a sector, operator commands, process          *)
(* restarts, and the chain the handlers look at.                           *)
(*                                                                         *)
(* While a handler runs (busy) events queue up; when it is done the        *)
(* planner of the current state takes the queue. A handler is one action:  *)
(* it reads the chain, pushes at most one message, and sends at most one   *)
(* event; only handleTerminating is two, as what it decides depends on two *)
(* reads of the newest chain. A process that dies loses queue, callbacks,  *)
(* timers and deal input, and keeps the SectorInfo: dying between Send and *)
(* the next Plan is dying after a push and before its result is stored.    *)
(*                                                                         *)
(* Every outcome a healthy system does not produce costs one of MaxFails.  *)
(***************************************************************************)
EXTENDS SealingPlanners, FiniteSets

CONSTANTS
    Faults,      \* kinds of faults that may happen
    Commands,    \* operator commands that may be given, each once
    MaxFails,    \* bound on the number of faults
    MaxPieces,   \* bound on the pieces offered to the sector
    MaxQueue     \* bound on the events ReleaseSectorKeyFailed piles up

FaultKinds == {"api", "ticket", "seal", "proof", "push", "exec", "age", "late",
               "reorg", "deals", "expiry", "fault", "restart"}

CommandKinds == {"MarkForUpdate", "StartPacking", "AbortUpgrade", "Remove", "Terminate"}

ASSUME SealingAssumption ==
    /\ Faults \subseteq FaultKinds
    /\ Commands \subseteq CommandKinds
    /\ MaxFails \in Nat /\ MaxPieces \in Nat /\ MaxQueue \in Nat

VARIABLES
    s,        \* the SectorInfo in the state store
    pending,  \* events queued for the sector's state machine
    busy,     \* a handler is running
    paused,   \* the last handler returned without an event, for a reason it logs
    calls,    \* registered ChainAt callbacks that have not fired
    input,    \* the sector in openSectors, assignedPieces, sectorTimers, available
    chain,    \* what the chain knows of the sector
    msgs,     \* the messages pushed for the sector, per kind
    old,      \* tickets up to this one are too old to precommit
    deal,     \* the deal of the offered pieces: its current id, and whether it expired
    fails,    \* faults left
    given,    \* operator commands given
    offered,  \* pieces offered so far
    reads,    \* handleTerminating is between its two reads of the chain
    past      \* history: the kinds of messages pushed by a process that died before it
              \* stored them; "ticket", if no ticket could be had; "torn", if
              \* handleTerminating's reads were of a chain before and after a commit

env == <<calls, input, chain, msgs, old, deal, given, offered, reads, past>>
vars == <<s, pending, busy, paused, calls, input, chain, msgs, old, deal, fails, given, offered, reads, past>>

NoPre == [ticket |-> 0, at |-> 0, late |-> FALSE]

NoInput == [open |-> FALSE, assigned |-> FALSE, timer |-> "none", available |-> FALSE]

MsgKinds == {"pre", "com", "upd", "ter"}

Init ==
    /\ s = NewSector
    /\ \E e \in {"SectorStart", "SectorStartCC"} : pending = <<Ev(e)>>
    /\ busy = FALSE /\ paused = FALSE
    /\ calls = <<>>
    /\ input = NoInput
    /\ chain = [pre |-> NoPre, alloc |-> FALSE, sector |-> "none", sealed |-> "none"]
    /\ msgs = [k \in MsgKinds |-> <<>>]
    /\ old = 0
    /\ deal = [id |-> 1, expired |-> FALSE]
    /\ fails = MaxFails
    /\ given = {} /\ offered = 0 /\ reads = FALSE /\ past = {}

----------------------------------------------------------------------------
(* The state machine loop (go-statemachine) around Sealing.Plan.           *)

NoHandler == {"Undefined", "Removed"}

(* Plan swallows a planner error: the events counted are gone, no handler  *)
(* runs.                                                                   *)
Plan ==
    /\ ~busy /\ pending # <<>>
    /\ \E r \in {plan(pending, s)} :
          /\ s' = r.s
          /\ pending' = SubSeq(pending, r.n + 1, Len(pending))
          /\ busy' = (~r.err /\ r.s.state \notin NoHandler)
          /\ paused' = (paused /\ r.err)
    /\ UNCHANGED <<fails, env>>

In(states) == busy /\ s.state \in states

Ok == UNCHANGED fails
Fault(k) == k \in Faults /\ fails > 0 /\ fails' = fails - 1

SendEvent(ev) == busy' = FALSE /\ pending' = Append(pending, ev) /\ UNCHANGED <<s, paused>>
Send(e) == SendEvent(Ev(e))

(* The handler returns without an event; Pause when it gives up.           *)
Return == busy' = FALSE /\ UNCHANGED <<s, pending, paused>>
Pause == busy' = FALSE /\ paused' = TRUE /\ UNCHANGED <<s, pending>>

ApiError == Fault("api") /\ Pause

sentKind ==
    [SectorPreCommitted |-> "pre", SectorPreCommitBatchSent |-> "pre",
     SectorCommitSubmitted |-> "com", SectorCommitAggregateSent |-> "com",
     SectorReplicaUpdateSubmitted |-> "upd", SectorTerminating |-> "ter"]

(* The process dies; restartSectors sends SectorRestart to every sector.   *)
Dies ==
    /\ pending' = <<Ev("SectorRestart")>>
    /\ busy' = FALSE /\ paused' = FALSE
    /\ calls' = <<>> /\ input' = NoInput /\ reads' = FALSE
    /\ past' = past \cup {sentKind[e] : e \in DOMAIN sentKind \cap {pending[i].e : i \in 1..Len(pending)}}
    /\ UNCHANGED <<s, chain, msgs, old, deal, given, offered>>

(* What the miner actor accepts.                                           *)
dealLives(id) == id = 0 \/ (id = deal.id /\ ~deal.expired)

Valid(k, m) ==
    CASE k = "pre" -> ~chain.alloc /\ m.ticket > old /\ dealLives(m.dealID)
      [] k = "com" -> /\ chain.pre # NoPre /\ ~chain.pre.late
                      /\ m.proof = <<chain.pre.ticket, chain.pre.at>> /\ dealLives(m.dealID)
      [] k = "upd" -> chain.sector = "live" /\ chain.sealed = "original" /\ dealLives(m.dealID)
      [] k = "ter" -> chain.sector \in {"live", "faulty"}

(* sendMsg: gas estimation runs the message and refuses one that fails.    *)
Push(k, m) == Valid(k, m) /\ msgs' = [msgs EXCEPT ![k] = Append(@, m)]
PushFails(k, m) == (IF Valid(k, m) THEN Fault("push") ELSE Ok) /\ UNCHANGED msgs

preCommitMsg == [ticket |-> s.ticket, dealID |-> s.dealID, st |-> "pending"]
commitMsg == [proof |-> s.proof, dealID |-> s.dealID, st |-> "pending"]
updateMsg == [dealID |-> s.dealID, st |-> "pending"]

Receipt(k, i) == msgs[k][i].st

----------------------------------------------------------------------------
(* input.go: deals on their way into the sector.                           *)

\* Mutant: a sector that is open already gets no timer.
handleWaitDealsArmsOnce ==
    /\ In({"WaitDeals", "SnapDealsWaitDeals"})
    /\ LET stopped == IF input.timer = "armed" THEN "spent" ELSE input.timer IN
       \/ input.assigned /\ Ok /\ Send("SectorAddPiece") /\ UNCHANGED input
       \/ /\ ~input.assigned /\ Ok
          /\ input.timer = "spent" \/ s.created
          /\ Send("SectorStartPacking")
          /\ input' = [input EXCEPT !.open = FALSE, !.timer = stopped]
       \/ /\ ~input.assigned /\ input.timer # "spent" /\ s.created
          /\ ApiError
          /\ input' = [input EXCEPT !.open = FALSE, !.timer = stopped]
       \/ /\ ~input.assigned /\ input.timer # "spent" /\ Ok
          /\ Return
          /\ input' = [input EXCEPT !.open = TRUE, !.timer = IF s.created /\ ~input.open THEN "armed" ELSE @]
    /\ UNCHANGED <<calls, chain, msgs, old, deal, given, offered, reads, past>>

(* maybeStartSealing stops the timer first: one that fired, or was stopped *)
(* before, starts the sector at once.                                      *)
handleWaitDeals ==
    /\ In({"WaitDeals", "SnapDealsWaitDeals"})
    /\ LET stopped == IF input.timer = "armed" THEN "spent" ELSE input.timer IN
       \/ input.assigned /\ Ok /\ Send("SectorAddPiece") /\ UNCHANGED input
       \/ /\ ~input.assigned /\ Ok
          /\ input.timer = "spent" \/ s.created
          /\ Send("SectorStartPacking")
          /\ input' = [input EXCEPT !.open = FALSE, !.timer = stopped]
       \/ /\ ~input.assigned /\ input.timer # "spent" /\ s.created
          /\ ApiError
          /\ input' = [input EXCEPT !.open = FALSE, !.timer = stopped]
       \/ /\ ~input.assigned /\ input.timer # "spent" /\ Ok
          /\ Return
          /\ input' = [input EXCEPT !.open = TRUE, !.timer = IF s.created THEN "armed" ELSE @]
    /\ UNCHANGED <<calls, chain, msgs, old, deal, given, offered, reads, past>>

(* updateInput: a pending piece is matched to the open sector.             *)
AcceptPiece ==
    /\ input.open /\ offered < MaxPieces
    /\ offered' = offered + 1
    /\ input' = [input EXCEPT !.assigned = TRUE]
    /\ pending' = Append(pending, Ev("SectorAddPiece"))
    /\ UNCHANGED <<s, busy, paused, calls, chain, msgs, old, deal, fails, given, reads, past>>

TimerFires ==
    /\ input.timer = "armed"
    /\ input' = [input EXCEPT !.timer = "spent"]
    /\ pending' = Append(pending, Ev("SectorStartPacking"))
    /\ UNCHANGED <<s, busy, paused, calls, chain, msgs, old, deal, fails, given, offered, reads, past>>

(* A piece the sector has no room left for is refused.  An assigned piece  *)
(* is always found: it leaves pendingPieces only with its assignment, in   *)
(* handlePacking.                                                          *)
handleAddPiece ==
    /\ In({"AddPiece", "SnapDealsAddPiece"})
    /\ input' = [input EXCEPT !.assigned = FALSE]
    /\ \/ Ok /\ SendEvent(EvV("SectorPieceAdded", IF input.assigned THEN deal.id ELSE 0))
       \/ input.assigned /\ hasDeals(s) /\ Ok /\ SendEvent(EvV("SectorPieceAdded", 0))
       \/ input.assigned /\ Fault("seal") /\ Send("SectorAddPieceFailed")
    /\ UNCHANGED <<calls, chain, msgs, old, deal, given, offered, reads, past>>

handleAddPieceFailed ==
    /\ In({"AddPieceFailed", "SnapDealsAddPieceFailed"})
    /\ Ok /\ Send("SectorRetryWaitDeals")
    /\ UNCHANGED env

handlePacking ==
    /\ In({"Packing", "SnapDealsPacking"})
    /\ input' = [input EXCEPT !.open = FALSE, !.assigned = FALSE]
    /\ IF s.state = "SnapDealsPacking" /\ ~hasDeals(s)
       THEN Ok /\ Send("SectorAbortUpgrade")
       ELSE \/ Ok /\ Send("SectorPacked")
            \/ Fault("seal") /\ Pause
    /\ UNCHANGED <<calls, chain, msgs, old, deal, given, offered, reads, past>>

----------------------------------------------------------------------------
(* checks.go: what a handler concludes from the chain.                     *)

checkPieces ==
    CASE ~hasDeals(s) -> "ok"
      [] hasDeals(s) /\ s.dealID # deal.id -> "InvalidDeals"
      [] hasDeals(s) /\ s.dealID = deal.id -> IF deal.expired THEN "ExpiredDeals" ELSE "ok"

(* A deal that cannot be looked up counts as invalid (checks.go:73-76).    *)
LookupFails == Fault("api") /\ hasDeals(s)

checkPrecommit ==
    IF checkPieces # "ok" THEN checkPieces
    ELSE IF s.comm = 0 THEN "BadCommD"
    ELSE IF chain.pre # NoPre
      THEN IF chain.pre.ticket # s.ticket THEN "BadTicket" ELSE "PrecommitOnChain"
    ELSE IF chain.alloc THEN "SectorNumberAllocated"
    ELSE IF s.ticket <= old THEN "ExpiredTicket"
    ELSE "ok"

checkCommit(proof) ==
    IF s.seed = 0 THEN "BadSeed"
    ELSE IF chain.pre = NoPre
      THEN IF ~chain.alloc THEN "NoPrecommit"
           ELSE IF s.commitMessage # 0 THEN "CommitWaitFailed" ELSE "other"
    ELSE IF chain.pre.at # s.seed THEN "BadSeed"
    ELSE IF proof # <<chain.pre.ticket, chain.pre.at>> \/ s.ticket # chain.pre.ticket
      THEN "InvalidProof"
    ELSE checkPieces

checkReplicaUpdate ==
    IF checkPieces # "ok" THEN checkPieces
    ELSE IF ~hasDeals(s) \/ ~s.ccUpdate THEN "other"
    ELSE IF ~s.updateSealed THEN "BadRU"
    ELSE IF ~s.updateProof THEN "BadPR"
    ELSE "ok"

sectorActive == chain.sector = "live"

----------------------------------------------------------------------------
(* states_sealing.go, up to the precommit.                                 *)

(* An API error before the allocation is known sends an empty ticket.      *)
handleGetTicket ==
    /\ In({"GetTicket"})
    /\ LET refused == IF s.commitMessage # 0 THEN "SectorCommitFailed" ELSE "SectorRemove"
       IN \/ Fault("api") /\ SendEvent(EvV("SectorTicket", 0)) /\ UNCHANGED past
          \/ /\ Fault("ticket") /\ past' = past \cup {"ticket"}
             /\ Send(IF chain.alloc THEN refused ELSE "SectorSealPreCommit1Failed")
          \/ /\ Ok /\ UNCHANGED past
             /\ IF chain.alloc /\ (chain.pre = NoPre \/ chain.pre.late)
                THEN Send(refused)
                ELSE SendEvent(EvV("SectorTicket",
                                   IF chain.pre = NoPre THEN old + 1 ELSE chain.pre.ticket))
    /\ UNCHANGED <<calls, input, chain, msgs, old, deal, given, offered, reads>>

\* Mutant: the newest ticket counts as expired.
handlePreCommit1OffByOne ==
    /\ In({"PreCommit1"})
    /\ \/ ApiError
       \/ LookupFails /\ SendEvent(EvV("SectorInvalidDealIDs", "PreCommit1"))
       \/ Ok /\ checkPieces = "InvalidDeals" /\ SendEvent(EvV("SectorInvalidDealIDs", "PreCommit1"))
       \/ Ok /\ checkPieces = "ExpiredDeals" /\ Send("SectorDealsExpired")
       \/ /\ checkPieces = "ok"
          /\ IF s.ticket <= old + 1 /\ (chain.pre = NoPre \/ chain.pre.late)
             THEN Ok /\ Send("SectorOldTicket")
             ELSE \/ Ok /\ Send("SectorPreCommit1")
                  \/ Fault("seal") /\ Send("SectorSealPreCommit1Failed")
    /\ UNCHANGED env

handlePreCommit1 ==
    /\ In({"PreCommit1"})
    /\ \/ ApiError
       \/ LookupFails /\ SendEvent(EvV("SectorInvalidDealIDs", "PreCommit1"))
       \/ Ok /\ checkPieces = "InvalidDeals" /\ SendEvent(EvV("SectorInvalidDealIDs", "PreCommit1"))
       \/ Ok /\ checkPieces = "ExpiredDeals" /\ Send("SectorDealsExpired")
       \/ /\ checkPieces = "ok"
          /\ IF s.ticket <= old /\ (chain.pre = NoPre \/ chain.pre.late)
             THEN Ok /\ Send("SectorOldTicket")
             ELSE \/ Ok /\ Send("SectorPreCommit1")
                  \/ Fault("seal") /\ Send("SectorSealPreCommit1Failed")
    /\ UNCHANGED env

handlePreCommit2 ==
    /\ In({"PreCommit2"})
    /\ \/ Ok /\ SendEvent(EvV("SectorPreCommit2", s.ticket))
       \/ Fault("seal") /\ \E e \in {"SectorSealPreCommit2Failed", "SectorSealPreCommit1Failed"} : Send(e)
    /\ UNCHANGED env

(* The events handlers send for a failed checkPrecommit.                   *)
precommitCheckFailed(err, ret) ==
    \/ err \in {"BadCommD", "ExpiredTicket", "BadTicket"} /\ Send("SectorSealPreCommit1Failed")
    \/ err = "InvalidDeals" /\ SendEvent(EvV("SectorInvalidDealIDs", ret))
    \/ err = "ExpiredDeals" /\ Send("SectorDealsExpired")
    \/ err = "SectorNumberAllocated" /\ Pause

(* preCommitInfo followed by the push of the message, by the sector's own  *)
(* handler or by the batcher it waits for.                                 *)
submitPreCommit(sent) ==
    LET err == checkPrecommit IN
    \/ ApiError /\ UNCHANGED msgs
    \/ /\ Fault("api") /\ err = "ok" /\ UNCHANGED msgs
       /\ \E e \in {"SectorChainPreCommitFailed", "SectorSealPreCommit1Failed"} : Send(e)
    \/ PushFails("pre", preCommitMsg) /\ err = "ok" /\ Send("SectorChainPreCommitFailed")
    \/ LookupFails /\ precommitCheckFailed("InvalidDeals", "PreCommitting") /\ UNCHANGED msgs
    \/ Ok /\ precommitCheckFailed(err, "PreCommitting") /\ UNCHANGED msgs
    \/ Ok /\ err = "PrecommitOnChain" /\ Send("SectorPreCommitLanded") /\ UNCHANGED msgs
    \/ /\ Ok /\ err = "ok"
       /\ Push("pre", preCommitMsg)
       /\ SendEvent(EvV(sent, Len(msgs["pre"]) + 1))

handlePreCommitting ==
    /\ In({"PreCommitting"})
    /\ \/ Ok /\ Send("SectorPreCommitBatch") /\ UNCHANGED msgs
       \/ submitPreCommit("SectorPreCommitted")
    /\ UNCHANGED <<calls, input, chain, old, deal, given, offered, reads, past>>

handleSubmitPreCommitBatch ==
    /\ In({"SubmitPreCommitBatch"})
    /\ submitPreCommit("SectorPreCommitBatchSent")
    /\ UNCHANGED <<calls, input, chain, old, deal, given, offered, reads, past>>

(* Once landed, the deals are looked up for a database of the miner: a     *)
(* failed lookup is logged and its nil result used.                        *)
handlePreCommitWait ==
    /\ In({"PreCommitWait", "PreCommitBatchWait"})
    /\ LET st == IF s.preCommitMessage = 0 THEN "none" ELSE Receipt("pre", s.preCommitMessage) IN
       \/ Ok /\ st = "none" /\ Send("SectorChainPreCommitFailed") /\ UNCHANGED env
       \/ Fault("api") /\ st # "none" /\ Send("SectorChainPreCommitFailed") /\ UNCHANGED env
       \/ Ok /\ st = "ok" /\ Send("SectorPreCommitLanded") /\ UNCHANGED env
       \/ Ok /\ st \in {"gas", "funds"} /\ Send("SectorRetryPreCommit") /\ UNCHANGED env
       \/ Ok /\ st = "failed" /\ Send("SectorChainPreCommitFailed") /\ UNCHANGED env
       \/ Fault("api") /\ st = "ok" /\ hasDeals(s) /\ Dies

(* The seed callback is registered for the precommit's current epoch.      *)
handleWaitSeed ==
    /\ In({"WaitSeed"})
    /\ \/ ApiError /\ UNCHANGED calls
       \/ Ok /\ chain.pre = NoPre /\ Send("SectorChainPreCommitFailed") /\ UNCHANGED calls
       \/ /\ Ok /\ chain.pre # NoPre /\ Return
          /\ calls' = Append(calls, EvV("SectorSeedReady", chain.pre.at))
    /\ UNCHANGED <<input, chain, msgs, old, deal, given, offered, reads, past>>

(* ChainAt fires: the handlers' callbacks send the event they were         *)
(* registered with; the one for the seed reports that the randomness could *)
(* not be read, or gives up without a chain head.                          *)
CallbackFires ==
    /\ calls # <<>>
    /\ calls' = Tail(calls)
    /\ \/ Ok /\ pending' = Append(pending, Head(calls)) /\ UNCHANGED paused
       \/ /\ Fault("api") /\ Head(calls).e = "SectorSeedReady"
          /\ \/ pending' = Append(pending, Ev("SectorChainPreCommitFailed")) /\ UNCHANGED paused
             \/ paused' = TRUE /\ UNCHANGED pending
    /\ UNCHANGED <<s, busy, input, chain, msgs, old, deal, given, offered, reads, past>>

----------------------------------------------------------------------------
(* states_sealing.go, from the proof to Proving.                           *)

commitMessageFound == s.commitMessage # 0 /\ Receipt("com", s.commitMessage) # "pending"

(* checkCommit on a fresh proof; FinalizeEarly decides between the events. *)
proofComputed(proof) ==
    IF checkCommit(proof) # "ok" THEN Send("SectorCommitFailed")
    ELSE \E e \in {"SectorCommitted", "SectorProofReady"} : SendEvent(EvV(e, proof))

(* A search for the commit message that fails counts as not found.  What   *)
(* checkCommit could not read fails the commit like what it refused.       *)
handleCommitting ==
    /\ In({"Committing"})
    /\ \/ Ok /\ commitMessageFound /\ Send("SectorRetryCommitWait")
       \/ Fault("api") /\ commitMessageFound /\ s.comm # 0 /\ proofComputed(<<s.comm, s.seed>>)
       \/ /\ ~commitMessageFound
          /\ \/ ApiError
             \/ Ok /\ s.comm = 0 /\ Send("SectorCommitFailed")
             \/ /\ s.comm # 0 /\ Fault("seal")
                /\ \E e \in {"SectorComputeProofFailed", "SectorRemoteCommit1Failed"} : Send(e)
             \/ s.comm # 0 /\ Fault("api") /\ Send("SectorCommitFailed")
             \/ s.comm # 0 /\ Fault("proof") /\ proofComputed(NoProof)
             \/ s.comm # 0 /\ Ok /\ proofComputed(<<s.comm, s.seed>>)
    /\ UNCHANGED env

handleFinalizeSector ==
    /\ In({"CommitFinalize", "FinalizeSector"})
    /\ \/ Ok /\ Send("SectorFinalized")
       \/ Ok /\ ~hasDeals(s) /\ Send("SectorFinalizedAvailable")
       \/ Fault("seal") /\ Send("SectorFinalizeFailed")
    /\ UNCHANGED env

pushCommit(sent) ==
    /\ Push("com", commitMsg)
    /\ SendEvent(EvV(sent, Len(msgs["com"]) + 1))

handleSubmitCommit ==
    /\ In({"SubmitCommit"})
    /\ \/ Ok /\ Send("SectorSubmitCommitAggregate") /\ UNCHANGED msgs
       \/ ApiError /\ UNCHANGED msgs
       \/ Fault("api") /\ Send("SectorCommitFailed") /\ UNCHANGED msgs
       \/ Ok /\ checkCommit(s.proof) # "ok" /\ Send("SectorCommitFailed") /\ UNCHANGED msgs
       \/ PushFails("com", commitMsg) /\ checkCommit(s.proof) = "ok" /\ Send("SectorCommitFailed")
       \/ Ok /\ checkCommit(s.proof) = "ok" /\ pushCommit("SectorCommitSubmitted")
    /\ UNCHANGED <<calls, input, chain, old, deal, given, offered, reads, past>>

(* The batcher pushes, refuses the sector, or fails as a whole.            *)
handleSubmitCommitAggregate ==
    /\ In({"SubmitCommitAggregate"})
    /\ \/ Ok /\ s.comm = 0 /\ Send("SectorCommitFailed") /\ UNCHANGED msgs
       \/ ApiError /\ UNCHANGED msgs
       \/ /\ s.comm # 0 /\ PushFails("com", commitMsg)
          /\ \/ Send("SectorCommitFailed")
             \/ checkCommit(s.proof) = "ok" /\ Send("SectorRetrySubmitCommit")
       \/ Ok /\ s.comm # 0 /\ pushCommit("SectorCommitAggregateSent")
    /\ UNCHANGED <<calls, input, chain, old, deal, given, offered, reads, past>>

\* Mutant: a failed receipt is taken for a landed one.
handleCommitWaitAnyExit ==
    /\ In({"CommitWait", "CommitAggregateWait"})
    /\ \/ s.commitMessage = 0 /\ Ok /\ Send("SectorCommitFailed")
       \/ /\ s.commitMessage # 0
          /\ LET st == Receipt("com", s.commitMessage) IN
             \/ Fault("api") /\ Send("SectorCommitFailed")
             \/ Ok /\ st \in {"gas", "funds"} /\ Send("SectorRetrySubmitCommit")
             \/ Ok /\ st = "failed" /\ Send("SectorProving")
             \/ Ok /\ st = "ok" /\ Send(IF chain.sector # "none" THEN "SectorProving"
                                        ELSE "SectorCommitFailed")
    /\ UNCHANGED env

handleCommitWait ==
    /\ In({"CommitWait", "CommitAggregateWait"})
    /\ \/ s.commitMessage = 0 /\ Ok /\ Send("SectorCommitFailed")
       \/ /\ s.commitMessage # 0
          /\ LET st == Receipt("com", s.commitMessage) IN
             \/ Fault("api") /\ Send("SectorCommitFailed")
             \/ Ok /\ st \in {"gas", "funds"} /\ Send("SectorRetrySubmitCommit")
             \/ Ok /\ st = "failed" /\ Send("SectorCommitFailed")
             \/ Ok /\ st = "ok" /\ Send(IF chain.sector # "none" THEN "SectorProving"
                                        ELSE "SectorCommitFailed")
    /\ UNCHANGED env

----------------------------------------------------------------------------
(* states_failed.go.                                                       *)

handleSealPrecommit1Failed ==
    /\ In({"SealPreCommit1Failed"})
    /\ Ok /\ Send("SectorRetrySealPreCommit1")
    /\ UNCHANGED env

handleSealPrecommit2Failed ==
    /\ In({"SealPreCommit2Failed"})
    /\ Ok /\ Send(IF s.pc2Fails > 3 THEN "SectorRetrySealPreCommit1" ELSE "SectorRetrySealPreCommit2")
    /\ UNCHANGED env

\* Mutant: the precommit message is not searched for.
handlePreCommitFailedNoSearch ==
    /\ In({"PreCommitFailed"})
    /\ LET st  == "none"
           err == checkPrecommit
       IN \/ ApiError
          \/ Fault("api") /\ st # "none" /\ Send("SectorRetryPreCommitWait")
          \/ Fault("api") /\ st \in {"none", "funds", "failed"} /\ err = "PrecommitOnChain" /\ Send("SectorRetryPreCommit")
          \/ Ok /\ st \in {"pending", "ok"} /\ Send("SectorRetryPreCommitWait")
          \/ Ok /\ st = "gas" /\ Send("SectorRetryPreCommit")
          \/ /\ LookupFails /\ st \in {"none", "funds", "failed"}
             /\ precommitCheckFailed("InvalidDeals", "PreCommitFailed")
          \/ Ok /\ st \in {"none", "funds", "failed"} /\ precommitCheckFailed(err, "PreCommitFailed")
          \/ /\ Ok /\ st \in {"none", "funds", "failed"} /\ err = "PrecommitOnChain"
             /\ IF s.preCommitMessage = 0 THEN Send("SectorPreCommitLanded")
                ELSE IF chain.pre.ticket # s.comm THEN Pause ELSE Send("SectorRetryWaitSeed")
          \/ Ok /\ st \in {"none", "funds", "failed"} /\ err = "ok" /\ Send("SectorRetryPreCommit")
    /\ UNCHANGED env

handlePreCommitFailed ==
    /\ In({"PreCommitFailed"})
    /\ LET st  == IF s.preCommitMessage = 0 THEN "none" ELSE Receipt("pre", s.preCommitMessage)
           err == checkPrecommit
       IN \/ ApiError
          \/ Fault("api") /\ st # "none" /\ Send("SectorRetryPreCommitWait")
          \/ Fault("api") /\ st \in {"none", "funds", "failed"} /\ err = "PrecommitOnChain" /\ Send("SectorRetryPreCommit")
          \/ Ok /\ st \in {"pending", "ok"} /\ Send("SectorRetryPreCommitWait")
          \/ Ok /\ st = "gas" /\ Send("SectorRetryPreCommit")
          \/ /\ LookupFails /\ st \in {"none", "funds", "failed"}
             /\ precommitCheckFailed("InvalidDeals", "PreCommitFailed")
          \/ Ok /\ st \in {"none", "funds", "failed"} /\ precommitCheckFailed(err, "PreCommitFailed")
          \/ /\ Ok /\ st \in {"none", "funds", "failed"} /\ err = "PrecommitOnChain"
             /\ IF s.preCommitMessage = 0 THEN Send("SectorPreCommitLanded")
                ELSE IF chain.pre.ticket # s.comm THEN Pause ELSE Send("SectorRetryWaitSeed")
          \/ Ok /\ st \in {"none", "funds", "failed"} /\ err = "ok" /\ Send("SectorRetryPreCommit")
    /\ UNCHANGED env

handleComputeProofFailed ==
    /\ In({"ComputeProofFailed"})
    /\ Ok /\ Send(IF s.invalidProofs > 1 THEN "SectorSealPreCommit1Failed" ELSE "SectorRetryComputeProof")
    /\ UNCHANGED env

handleRemoteCommitFailed ==
    /\ In({"RemoteCommitFailed"})
    /\ Ok /\ Send("SectorRetryComputeProof")
    /\ UNCHANGED env

commitCheckFailed(err) ==
    \/ err = "BadSeed" /\ Send("SectorRetryWaitSeed")
    \/ err = "InvalidProof" /\ Send(IF s.invalidProofs > 0 THEN "SectorSealPreCommit1Failed"
                                    ELSE "SectorRetryInvalidProof")
    \/ err = "NoPrecommit" /\ Send("SectorRetryPreCommit")
    \/ err = "InvalidDeals" /\ SendEvent(EvV("SectorInvalidDealIDs", "CommitFailed"))
    \/ err = "ExpiredDeals" /\ Send("SectorDealsExpired")
    \/ err = "CommitWaitFailed" /\ Send("SectorRetryCommitWait")
    \/ err = "other" /\ Pause

handleCommitFailed ==
    /\ In({"CommitFailed"})
    /\ LET st == IF s.commitMessage = 0 THEN "none" ELSE Receipt("com", s.commitMessage)
       IN \/ ApiError
          \/ Fault("api") /\ st # "none" /\ Send("SectorRetryCommitWait")
          \/ Ok /\ st \in {"pending", "ok"} /\ Send("SectorRetryCommitWait")
          \/ Ok /\ st = "gas" /\ Send("SectorRetrySubmitCommit")
          \/ /\ LookupFails /\ st \in {"none", "funds", "failed"} /\ checkCommit(s.proof) = checkPieces
             /\ commitCheckFailed("InvalidDeals")
          \/ Ok /\ st \in {"none", "funds", "failed"} /\ commitCheckFailed(checkCommit(s.proof))
          \/ Ok /\ st \in {"none", "funds", "failed"} /\ checkCommit(s.proof) = "ok" /\ Send("SectorRetryComputeProof")
    /\ UNCHANGED env

handleFinalizeFailed ==
    /\ In({"CommitFinalizeFailed", "FinalizeFailed", "FinalizeReplicaUpdateFailed"})
    /\ Ok /\ Send("SectorRetryFinalize")
    /\ UNCHANGED env

handleDealsExpired ==
    /\ In({"DealsExpired"})
    /\ \/ ApiError
       \/ Ok /\ (IF chain.sector = "none" THEN Send("SectorRemove") ELSE Pause)
    /\ UNCHANGED env

(* RecoverDealIDs and SnapDealsRecoverDealIDs differ in what they fail     *)
(* with.  A deal that cannot be looked up is recovered like an invalid     *)
(* one, and given up if the recovery cannot be made either.                *)
handleRecoverDealIDs ==
    /\ In({"RecoverDealIDs", "SnapDealsRecoverDealIDs"})
    /\ LET failWith == IF s.state = "RecoverDealIDs" THEN "SectorRemove" ELSE "SectorAbortUpgrade"
       IN \/ ApiError
          \/ LookupFails /\ (SendEvent(EvV("SectorUpdateDealIDs", deal.id)) \/ Send(failWith))
          \/ Ok /\ checkPieces = "ExpiredDeals" /\ Pause
          \/ Ok /\ checkPieces = "ok" /\ SendEvent(EvV("SectorUpdateDealIDs", 0))
          \/ /\ checkPieces = "InvalidDeals"
             /\ \/ Ok /\ SendEvent(EvV("SectorUpdateDealIDs", deal.id))
                \/ Fault("deals") /\ Send(failWith)
    /\ UNCHANGED env

----------------------------------------------------------------------------
(* states_replica_update.go and the failure states of an upgrade.          *)

updateCheckFailed(err) ==
    \/ err = "InvalidDeals" /\ SendEvent(EvV("SectorInvalidDealIDs", ""))
    \/ err = "ExpiredDeals" /\ Send("SectorDealsExpired")

handleReplicaUpdate ==
    /\ In({"UpdateReplica"})
    /\ \/ Ok /\ ~hasDeals(s) /\ Send("SectorAbortUpgrade")
       \/ /\ hasDeals(s)
          /\ \/ ApiError
             \/ LookupFails /\ updateCheckFailed("InvalidDeals")
             \/ Ok /\ updateCheckFailed(checkPieces)
             \/ Ok /\ checkPieces = "ok" /\ Send("SectorReplicaUpdate")
             \/ Fault("seal") /\ checkPieces = "ok" /\ Send("SectorUpdateReplicaFailed")
    /\ UNCHANGED env

handleProveReplicaUpdate ==
    /\ In({"ProveReplicaUpdate"})
    /\ \/ Ok /\ ~s.updateSealed /\ Pause
       \/ ApiError
       \/ Ok /\ s.updateSealed /\ ~sectorActive /\ Send("SectorAbortUpgrade")
       \/ /\ s.updateSealed /\ sectorActive
          /\ \/ LookupFails /\ updateCheckFailed("InvalidDeals")
             \/ Ok /\ updateCheckFailed(checkPieces)
             \/ Ok /\ checkPieces = "ok" /\ Send("SectorProveReplicaUpdate")
             \/ Fault("seal") /\ Send("SectorProveReplicaUpdateFailed")
    /\ UNCHANGED env

handleFinalizeReplicaUpdate ==
    /\ In({"FinalizeReplicaUpdate"})
    /\ \/ Ok /\ Send("SectorFinalized")
       \/ Fault("seal") /\ Send("SectorFinalizeFailed")
    /\ UNCHANGED env

handleSubmitReplicaUpdate ==
    /\ In({"SubmitReplicaUpdate"})
    /\ \/ ApiError /\ UNCHANGED msgs
       \/ LookupFails /\ Send("SectorSubmitReplicaUpdateFailed") /\ UNCHANGED msgs
       \/ Ok /\ checkReplicaUpdate # "ok" /\ Send("SectorSubmitReplicaUpdateFailed") /\ UNCHANGED msgs
       \/ PushFails("upd", updateMsg) /\ Send("SectorSubmitReplicaUpdateFailed")
       \/ /\ Ok /\ checkReplicaUpdate = "ok"
          /\ Push("upd", updateMsg)
          /\ SendEvent(EvV("SectorReplicaUpdateSubmitted", Len(msgs["upd"]) + 1))
    /\ UNCHANGED <<calls, input, chain, old, deal, given, offered, reads, past>>

\* Mutant: the upgrade is given up when waiting for the message fails.
handleReplicaUpdateWaitAborts ==
    /\ In({"ReplicaUpdateWait"})
    /\ \/ s.updateMessage = 0 /\ Ok /\ Send("SectorSubmitReplicaUpdateFailed")
       \/ /\ s.updateMessage # 0
          /\ LET st == Receipt("upd", s.updateMessage) IN
             \/ Fault("api") /\ Send("SectorAbortUpgrade")
             \/ Ok /\ st \in {"gas", "funds", "failed"} /\ Send("SectorSubmitReplicaUpdateFailed")
             \/ Ok /\ st = "ok" /\ Send(IF chain.sector = "none" THEN "SectorSubmitReplicaUpdateFailed"
                                        ELSE IF chain.sealed # "update" THEN "SectorAbortUpgrade"
                                        ELSE "SectorReplicaUpdateLanded")
    /\ UNCHANGED env

handleReplicaUpdateWait ==
    /\ In({"ReplicaUpdateWait"})
    /\ \/ s.updateMessage = 0 /\ Ok /\ Send("SectorSubmitReplicaUpdateFailed")
       \/ /\ s.updateMessage # 0
          /\ LET st == Receipt("upd", s.updateMessage) IN
             \/ Fault("api") /\ Send("SectorSubmitReplicaUpdateFailed")
             \/ Ok /\ st \in {"gas", "funds", "failed"} /\ Send("SectorSubmitReplicaUpdateFailed")
             \/ Ok /\ st = "ok" /\ Send(IF chain.sector = "none" THEN "SectorSubmitReplicaUpdateFailed"
                                        ELSE IF chain.sealed # "update" THEN "SectorAbortUpgrade"
                                        ELSE "SectorReplicaUpdateLanded")
    /\ UNCHANGED env

(* Retried until the callback is registered, so API errors leave no trace. *)
handleUpdateActivating ==
    /\ In({"UpdateActivating"})
    /\ Ok
    /\ IF s.updateMessage = 0 THEN Pause /\ UNCHANGED calls
       ELSE Return /\ calls' = Append(calls, Ev("SectorUpdateActive"))
    /\ UNCHANGED <<input, chain, msgs, old, deal, given, offered, reads, past>>

handleReleaseSectorKey ==
    /\ In({"ReleaseSectorKey"})
    /\ \/ Ok /\ Send("SectorKeyReleased")
       \/ Fault("seal") /\ Send("SectorReleaseKeyFailed")
    /\ UNCHANGED env

(* Sends again and again while an event it cannot consume heads the queue. *)
handleReleaseSectorKeyFailed ==
    /\ In({"ReleaseSectorKeyFailed"})
    /\ Len(pending) < MaxQueue
    /\ Ok /\ Send("SectorUpdateActive")
    /\ UNCHANGED env

handleSubmitReplicaUpdateFailed ==
    /\ In({"ReplicaUpdateFailed"})
    /\ LET st  == IF s.updateMessage = 0 THEN "none" ELSE Receipt("upd", s.updateMessage)
           err == checkReplicaUpdate
       IN \/ ApiError
          \/ Fault("api") /\ st # "none" /\ Send("SectorRetrySubmitReplicaUpdateWait")
          \/ Ok /\ st \in {"pending", "ok"} /\ Send("SectorRetrySubmitReplicaUpdateWait")
          \/ Ok /\ st = "gas" /\ Send("SectorRetrySubmitReplicaUpdate")
          \/ LookupFails /\ st \in {"none", "funds", "failed"} /\ updateCheckFailed("InvalidDeals")
          \/ /\ Ok /\ st \in {"none", "funds", "failed"}
             /\ \/ err = "BadRU" /\ Send("SectorRetryReplicaUpdate")
                \/ err = "BadPR" /\ Send("SectorRetryProveReplicaUpdate")
                \/ updateCheckFailed(err)
                \/ err = "other" /\ Pause
                \/ err = "ok" /\ Send(IF sectorActive THEN "SectorRetrySubmitReplicaUpdate"
                                      ELSE "SectorAbortUpgrade")
    /\ UNCHANGED env

handleDealsExpiredSnapDeals ==
    /\ In({"SnapDealsDealsExpired"})
    /\ Ok /\ (IF s.ccUpdate THEN Send("SectorAbortUpgrade") ELSE Pause)
    /\ UNCHANGED env

handleAbortUpgrade ==
    /\ In({"AbortUpgrade"})
    /\ \/ Ok /\ (IF s.ccUpdate THEN Send("SectorRevertUpgradeToProving") ELSE Pause)
       \/ Fault("seal") /\ Pause
    /\ UNCHANGED env

----------------------------------------------------------------------------
(* states_proving.go.                                                      *)

handleProvingSector ==
    /\ In({"Proving"})
    /\ Ok /\ Return
    /\ input' = [input EXCEPT !.available = FALSE]
    /\ UNCHANGED <<calls, chain, msgs, old, deal, given, offered, reads, past>>

handleAvailableSector ==
    /\ In({"Available"})
    /\ Ok /\ Return
    /\ input' = [input EXCEPT !.available = TRUE]
    /\ UNCHANGED <<calls, chain, msgs, old, deal, given, offered, reads, past>>

(* maybeUpgradeSector picks the sector for pending deals.                  *)
StartUpgrade ==
    /\ input.available /\ sectorActive /\ offered < MaxPieces
    /\ input' = [input EXCEPT !.available = FALSE]
    /\ pending' = Append(pending, Ev("SectorStartCCUpdate"))
    /\ UNCHANGED <<s, busy, paused, calls, chain, msgs, old, deal, fails, given, offered, reads, past>>

(* handleTerminating finds no sector on chain, and goes on to look for a   *)
(* precommit: the chain may move in between.                               *)
TerminatingNoSector ==
    /\ In({"Terminating"}) /\ ~reads
    /\ chain.sector = "none" /\ reads' = TRUE
    /\ UNCHANGED <<s, pending, busy, paused, fails, calls, input, chain, msgs, old, deal, given, offered, past>>

handleTerminating ==
    /\ In({"Terminating"})
    /\ \/ Fault("api") /\ Send("SectorTerminateFailed") /\ UNCHANGED <<msgs, past>>
       \/ /\ Ok /\ reads /\ UNCHANGED msgs
          /\ Send(IF chain.pre # NoPre THEN "SectorTerminateFailed" ELSE "SectorRemove")
          /\ past' = IF chain.pre = NoPre /\ chain.sector # "none" THEN past \cup {"torn"} ELSE past
       \/ /\ Fault("push") /\ ~reads /\ chain.sector \in {"live", "faulty"}
          /\ Send("SectorTerminateFailed") /\ UNCHANGED <<msgs, past>>
       \/ /\ Ok /\ ~reads /\ chain.sector = "terminated" /\ UNCHANGED <<msgs, past>>
          /\ \/ Send("SectorRemove")
             \/ SendEvent(EvV("SectorTerminating", 0))
       \/ /\ Ok /\ ~reads /\ Push("ter", [st |-> "pending"]) /\ UNCHANGED past
          /\ SendEvent(EvV("SectorTerminating", Len(msgs["ter"]) + 1))
    /\ reads' = FALSE
    /\ UNCHANGED <<calls, input, chain, old, deal, given, offered>>

\* Mutant: the exit code of the message is not looked at.
handleTerminateWaitAnyExit ==
    /\ In({"TerminateWait"})
    /\ \/ s.terminateMessage = 0 /\ Ok /\ Pause
       \/ /\ s.terminateMessage # 0
          /\ LET st == Receipt("ter", s.terminateMessage) IN
             \/ Fault("api") /\ Send("SectorTerminateFailed")
             \/ Ok /\ st \in {"gas", "funds", "failed"} /\ Send("SectorTerminated")
             \/ Ok /\ st = "ok" /\ Send("SectorTerminated")
    /\ UNCHANGED env

handleTerminateWait ==
    /\ In({"TerminateWait"})
    /\ \/ s.terminateMessage = 0 /\ Ok /\ Pause
       \/ /\ s.terminateMessage # 0
          /\ LET st == Receipt("ter", s.terminateMessage) IN
             \/ Fault("api") /\ Send("SectorTerminateFailed")
             \/ Ok /\ st \in {"gas", "funds", "failed"} /\ Send("SectorTerminateFailed")
             \/ Ok /\ st = "ok" /\ Send("SectorTerminated")
    /\ UNCHANGED env

handleTerminateFinality ==
    /\ In({"TerminateFinality"})
    /\ \/ Ok /\ Send("SectorRemove")
       \/ Fault("api") /\ Send("SectorTerminateFailed")
    /\ UNCHANGED env

handleTerminateFailed ==
    /\ In({"TerminateFailed"})
    /\ \/ Ok /\ (IF chain.pre # NoPre THEN Pause ELSE Send("SectorTerminate"))
       \/ Fault("api") /\ Send("SectorTerminate")
    /\ UNCHANGED env

handleRemoving ==
    /\ In({"Removing"})
    /\ \/ Ok /\ Send("SectorRemoved")
       \/ Fault("seal") /\ Send("SectorRemoveFailed")
    /\ UNCHANGED env

handleRemoveFailed ==
    /\ In({"RemoveFailed"})
    /\ Ok /\ Send("SectorRemove")
    /\ UNCHANGED env

----------------------------------------------------------------------------
(* The chain, as the handlers use it.                                      *)

Landed(k, m) ==
    CASE k = "pre" -> [chain EXCEPT !.pre = [ticket |-> m.ticket, at |-> 1, late |-> FALSE],
                                    !.alloc = TRUE]
      [] k = "com" -> [chain EXCEPT !.pre = NoPre, !.sector = "live", !.sealed = "original"]
      [] k = "upd" -> [chain EXCEPT !.sealed = "update"]
      [] k = "ter" -> [chain EXCEPT !.sector = "terminated"]

Execute ==
    /\ \E k \in MsgKinds : \E i \in 1..Len(msgs[k]) :
          /\ Receipt(k, i) = "pending"
          /\ \/ /\ Valid(k, msgs[k][i]) /\ Ok
                /\ msgs' = [msgs EXCEPT ![k][i].st = "ok"]
                /\ chain' = Landed(k, msgs[k][i])
             \/ /\ Ok /\ ~Valid(k, msgs[k][i])
                /\ msgs' = [msgs EXCEPT ![k][i].st = "failed"] /\ UNCHANGED chain
             \/ /\ Fault("exec") /\ Valid(k, msgs[k][i])
                /\ \E st \in {"gas", "funds", "failed"} : msgs' = [msgs EXCEPT ![k][i].st = st]
                /\ UNCHANGED chain
    /\ UNCHANGED <<s, pending, busy, paused, calls, input, old, deal, given, offered, reads, past>>

(* The prove-commit deadline passes; cron drops the precommit.             *)
PreCommitExpires ==
    /\ chain.pre # NoPre
    /\ \/ ~chain.pre.late /\ Fault("late") /\ chain' = [chain EXCEPT !.pre.late = TRUE]
       \/ chain.pre.late /\ Ok /\ chain' = [chain EXCEPT !.pre = NoPre]
    /\ UNCHANGED <<s, pending, busy, paused, calls, input, msgs, old, deal, given, offered, reads, past>>

(* A reorganisation moves the precommit to another epoch.                  *)
PreCommitMoves ==
    /\ Fault("reorg") /\ chain.pre # NoPre /\ chain.pre.at = 1
    /\ chain' = [chain EXCEPT !.pre.at = 2]
    /\ UNCHANGED <<s, pending, busy, paused, calls, input, msgs, old, deal, given, offered, reads, past>>

SectorFaults ==
    /\ chain.sector \in {"live", "faulty"} /\ Fault("fault")
    /\ chain' = [chain EXCEPT !.sector = IF @ = "live" THEN "faulty" ELSE "live"]
    /\ UNCHANGED <<s, pending, busy, paused, calls, input, msgs, old, deal, given, offered, reads, past>>

TicketAges ==
    /\ Fault("age") /\ old' = old + 1
    /\ UNCHANGED <<s, pending, busy, paused, calls, input, chain, msgs, deal, given, offered, reads, past>>

DealChanges ==
    /\ hasDeals(s)
    /\ \/ Fault("deals") /\ deal.id = 1 /\ deal' = [deal EXCEPT !.id = 2]
       \/ Fault("expiry") /\ ~deal.expired /\ deal' = [deal EXCEPT !.expired = TRUE]
    /\ UNCHANGED <<s, pending, busy, paused, calls, input, chain, msgs, old, given, offered, reads, past>>

----------------------------------------------------------------------------
(* Commands and restarts.                                                  *)

(* MarkForUpgrade refuses a sector that is not an active CC sector.        *)
mayCommand(c) ==
    c = "MarkForUpdate" => s.state = "Proving" /\ ~hasDeals(s) /\ sectorActive

commandEvent ==
    [MarkForUpdate |-> "SectorMarkForUpdate", StartPacking |-> "SectorStartPacking",
     AbortUpgrade |-> "SectorAbortUpgrade", Remove |-> "SectorRemove",
     Terminate |-> "SectorTerminate"]

Command ==
    /\ \E c \in Commands \ given :
          /\ mayCommand(c)
          /\ given' = given \cup {c}
          /\ pending' = Append(pending, Ev(commandEvent[c]))
          /\ input' = IF c = "AbortUpgrade" THEN [input EXCEPT !.available = FALSE] ELSE input
    /\ UNCHANGED <<s, busy, paused, calls, chain, msgs, old, deal, fails, offered, reads, past>>

Restart == Fault("restart") /\ s.state # "Undefined" /\ Dies

----------------------------------------------------------------------------
Handle ==
    \/ handleWaitDeals \/ handleAddPiece \/ handleAddPieceFailed \/ handlePacking
    \/ handleGetTicket \/ handlePreCommit1 \/ handlePreCommit2
    \/ handlePreCommitting \/ handleSubmitPreCommitBatch \/ handlePreCommitWait
    \/ handleWaitSeed \/ handleCommitting \/ handleFinalizeSector
    \/ handleSubmitCommit \/ handleSubmitCommitAggregate \/ handleCommitWait
    \/ handleSealPrecommit1Failed \/ handleSealPrecommit2Failed \/ handlePreCommitFailed
    \/ handleComputeProofFailed \/ handleRemoteCommitFailed \/ handleCommitFailed
    \/ handleFinalizeFailed \/ handleDealsExpired \/ handleRecoverDealIDs
    \/ handleReplicaUpdate \/ handleProveReplicaUpdate \/ handleFinalizeReplicaUpdate
    \/ handleSubmitReplicaUpdate \/ handleReplicaUpdateWait \/ handleUpdateActivating
    \/ handleReleaseSectorKey \/ handleReleaseSectorKeyFailed
    \/ handleSubmitReplicaUpdateFailed \/ handleDealsExpiredSnapDeals \/ handleAbortUpgrade
    \/ handleProvingSector \/ handleAvailableSector \/ TerminatingNoSector \/ handleTerminating
    \/ handleTerminateWait \/ handleTerminateFinality \/ handleTerminateFailed
    \/ handleRemoving \/ handleRemoveFailed

Next ==
    \/ Plan \/ Handle
    \/ AcceptPiece \/ TimerFires \/ StartUpgrade \/ CallbackFires
    \/ Execute \/ PreCommitExpires \/ PreCommitMoves \/ SectorFaults
    \/ TicketAges \/ DealChanges
    \/ Command \/ Restart

Spec == Init /\ [][Next]_vars

(* The loop and its goroutines keep running, messages are executed, epochs *)
(* pass, timers fire. Faults, commands, offered pieces and restarts need   *)
(* not happen.                                                             *)
FairSpec ==
    /\ Spec
    /\ WF_vars(Plan) /\ WF_vars(Handle)
    /\ WF_vars(Execute) /\ WF_vars(CallbackFires) /\ WF_vars(TimerFires)
    /\ WF_vars(PreCommitExpires)

----------------------------------------------------------------------------
(* Properties.                                                             *)

Upgrading == {"SnapDealsWaitDeals", "SnapDealsAddPiece", "SnapDealsAddPieceFailed",
              "SnapDealsPacking", "UpdateReplica", "ProveReplicaUpdate", "FinalizeReplicaUpdate",
              "FinalizeReplicaUpdateFailed", "SubmitReplicaUpdate", "ReplicaUpdateWait",
              "ReplicaUpdateFailed", "SnapDealsDealsExpired", "SnapDealsRecoverDealIDs",
              "UpdateActivating", "ReleaseSectorKey", "ReleaseSectorKeyFailed", "AbortUpgrade"}

Sealed == {"FinalizeSector", "FinalizeFailed", "Proving", "Available"} \cup Upgrading

Resting == {"Proving", "Available", "Removed", "Undefined"}

(* The SectorInfo is well formed: it is in a state that has a planner, its *)
(* message references point at messages that were pushed, and only         *)
(* RecoverDealIDs holds a return state.                                    *)
TypeOK ==
    /\ s.state \in SectorStates
    /\ s.ret \in {"", "PreCommit1", "PreCommitting", "PreCommitFailed", "CommitFailed"}
    /\ s.preCommitMessage \in 0..Len(msgs["pre"]) /\ s.commitMessage \in 0..Len(msgs["com"])
    /\ s.updateMessage \in 0..Len(msgs["upd"]) /\ s.terminateMessage \in 0..Len(msgs["ter"])
    /\ busy \in BOOLEAN /\ paused \in BOOLEAN
    /\ fails \in 0..MaxFails /\ given \subseteq Commands /\ offered \in 0..MaxPieces
    /\ s.ret # "" => s.state \in {"RecoverDealIDs", "Terminating", "TerminateWait", "TerminateFinality",
                                  "TerminateFailed", "Removing", "RemoveFailed", "Removed"}

(* No sector is left behind: when nothing runs and nothing is queued, the  *)
(* sector is proving or removed, is open for deals with a timer that ends  *)
(* the wait once it has one, waits for a ChainAt callback that is          *)
(* registered, or a handler gave up and logged why. An                     *)
(* event the planner of the current state does not know would be dropped   *)
(* (fsm.go:814-819) and leave it in the middle of the pipeline for good.   *)
(* The one that is: GetTicket does not know SectorSealPreCommit1Failed,    *)
(* which its own handler sends when it can get no ticket                   *)
(* (states_sealing.go:209). planCommitting                                 *)
(* drops the handler, not the event, when a command meets it.              *)
NeverStranded ==
    ~busy /\ pending = <<>> /\ ~paused /\ given \cap {"StartPacking", "AbortUpgrade"} = {} =>
        \/ s.state \in Resting
        \/ /\ s.state \in {"WaitDeals", "SnapDealsWaitDeals"}
           /\ input.open /\ (s.created => input.timer = "armed")
        \/ s.state = "GetTicket" /\ "ticket" \in past
        \/ s.state = "WaitSeed" /\ \E i \in 1..Len(calls) : calls[i].e = "SectorSeedReady"
        \/ s.state = "UpdateActivating" /\ \E i \in 1..Len(calls) : calls[i].e = "SectorUpdateActive"

(* A sector the miner treats as sealed (finalizing, proving, available for *)
(* or under upgrade) was proven on chain (states_sealing.go:915-923).      *)
SealedIsProven == s.state \in Sealed => chain.sector # "none"

(* Unless the operator asks for it, the pipeline deletes no sector that is *)
(* on chain and not terminated (states_failed.go:394-408: "First make vary *)
(* sure the sector isn't committed"; states_proving.go:43-45: "See if      *)
(* sector is live. If not, goto removing").  The exception: the commit was *)
(* executed between the two reads of handleTerminating, the first of which *)
(* sees no sector yet and the second no precommit any more.                *)
RemovalSafe ==
    s.state \in {"Removing", "RemoveFailed", "Removed"} /\ "Remove" \notin given /\ "torn" \notin past =>
        chain.sector \in {"none", "terminated"}

(* A sector that is back in Proving holds the data the chain holds it to:  *)
(* the updated replica and its deals if the update landed, the original    *)
(* pieces with all traces of the upgrade gone if it did not                *)
(* (fsm_events.go:333-338 and 464-473).                                    *)
ReplicaMatchesChain ==
    s.state \in {"Proving", "Available"} /\ "upd" \notin past /\ "AbortUpgrade" \notin given =>
        /\ s.ccUpdate = (chain.sealed = "update")
        /\ s.pieces # "none"
        /\ ~s.ccUpdate => ~s.updateSealed /\ s.updateMessage = 0

(* While an earlier commit message may still be executed no second one is  *)
(* pushed, unless the process died before it stored the first one          *)
(* (states_failed.go:284-310, states_sealing.go:595-607).                  *)
OneLiveMessage ==
    \A k \in {"pre", "com", "upd"} \ past :
        Cardinality({i \in 1..Len(msgs[k]) : Receipt(k, i) = "pending"}) <= 1

(* What keeps a sector going round for ever (README, known departures):    *)
(* a commit or an update nobody knows was pushed, a precommit gone from    *)
(* the chain, a commit that failed while it is in SectorInfo and nobody    *)
(* else commits the sector, an update that ran out of gas.                 *)
KnownLoop ==
    \/ past \cap {"com", "upd"} # {}
    \/ /\ chain.alloc /\ chain.pre = NoPre /\ chain.sector = "none"
       /\ s.state \in {"PreCommitWait", "PreCommitBatchWait", "WaitSeed", "PreCommitFailed"}
    \/ /\ s.commitMessage # 0 /\ Receipt("com", s.commitMessage) \in {"gas", "funds", "failed"}
       /\ chain.sector = "none"
       /\ s.state \notin {"Terminating", "TerminateWait", "TerminateFinality", "TerminateFailed",
                          "Removing", "RemoveFailed", "RecoverDealIDs", "FailedUnrecoverable"}
    \/ s.updateMessage # 0 /\ Receipt("upd", s.updateMessage) = "gas"
    \/ s.state = "ReleaseSectorKeyFailed"
    \/ given \cap {"StartPacking", "AbortUpgrade"} # {}

(* Every sector settles: once faults stop it ends up proving, available,   *)
(* waiting for its first deal, removed, or in a state a handler refused to *)
(* leave by itself.                                                        *)
Settles ==
    <>[](\/ s.state \in {"Proving", "Available", "Removed"}
         \/ s.state \in {"WaitDeals", "SnapDealsWaitDeals"} /\ ~s.created
         \/ paused
         \/ s.state = "GetTicket" /\ ~busy /\ "ticket" \in past
         \/ KnownLoop)
=============================================================================
