-------------------------- MODULE SealingPlanners --------------------------
(***************************************************************************)
(* The pure half of a sector's state machine (storage/pipeline/fsm.go and  *)
(* fsm_events.go): the planner of every state, what each event writes into *)
(* the SectorInfo, and how a planner walks over the queued events.         *)
(*                                                                         *)
(* An event is [e |-> its type, v |-> its payload, 0 when it has none].    *)
(* A SectorInfo keeps the fields that decide which way a handler goes.     *)
(* Left out: ReceiveSector (import from another host), the deprecated      *)
(* Empty and PackingFailed, and Faulty/FaultReported/FaultedFinal, whose   *)
(* events nothing in the repository sends.                                 *)
(***************************************************************************)
EXTENDS Naturals, Sequences, SequencesExt

Ev(e) == [e |-> e, v |-> 0]
EvV(e, v) == [e |-> e, v |-> v]

Nobody == [x \in {} |-> ""]

NoProof == <<0, 0>>

(* SectorInfo of a sector that does not exist yet.                         *)
NewSector ==
    [state |-> "Undefined", ret |-> "", created |-> FALSE,
     pieces |-> "none", ccPieces |-> "none", ccUpdate |-> FALSE, dealID |-> 0,
     ticket |-> 0, comm |-> 0, pc2Fails |-> 0, invalidProofs |-> 0,
     preCommitMessage |-> 0, seed |-> 0, proof |-> NoProof, commitMessage |-> 0,
     updateSealed |-> FALSE, updateProof |-> FALSE, updateMessage |-> 0,
     terminateMessage |-> 0]

hasDeals(s) == s.pieces = "deals"

----------------------------------------------------------------------------
(* fsmPlanners: for every state the events its planner handles. A value is *)
(* the next state (on, onWithCB), "more" (apply: stay and take the next    *)
(* event) or "return" (onReturning: go to the recorded return state).      *)

sealingPlanners ==
    [Undefined |-> [SectorStart |-> "WaitDeals", SectorStartCC |-> "Packing"],
     WaitDeals |-> [SectorAddPiece |-> "AddPiece", SectorStartPacking |-> "Packing"],
     AddPiece |-> [SectorPieceAdded |-> "WaitDeals", SectorStartPacking |-> "more",
                   SectorAddPiece |-> "more", SectorAddPieceFailed |-> "AddPieceFailed"],
     Packing |-> [SectorPacked |-> "GetTicket"],
     GetTicket |-> [SectorTicket |-> "PreCommit1", SectorCommitFailed |-> "CommitFailed"],
     PreCommit1 |-> [SectorPreCommit1 |-> "PreCommit2",
                     SectorSealPreCommit1Failed |-> "SealPreCommit1Failed",
                     SectorDealsExpired |-> "DealsExpired",
                     SectorInvalidDealIDs |-> "RecoverDealIDs", SectorOldTicket |-> "GetTicket"],
     PreCommit2 |-> [SectorPreCommit2 |-> "PreCommitting",
                     SectorSealPreCommit2Failed |-> "SealPreCommit2Failed",
                     SectorSealPreCommit1Failed |-> "SealPreCommit1Failed"],
     PreCommitting |-> [SectorPreCommitBatch |-> "SubmitPreCommitBatch",
                        SectorPreCommitted |-> "PreCommitWait",
                        SectorSealPreCommit1Failed |-> "SealPreCommit1Failed",
                        SectorChainPreCommitFailed |-> "PreCommitFailed",
                        SectorPreCommitLanded |-> "WaitSeed",
                        SectorDealsExpired |-> "DealsExpired",
                        SectorInvalidDealIDs |-> "RecoverDealIDs"],
     SubmitPreCommitBatch |-> [SectorPreCommitBatchSent |-> "PreCommitBatchWait",
                               SectorSealPreCommit1Failed |-> "SealPreCommit1Failed",
                               SectorChainPreCommitFailed |-> "PreCommitFailed",
                               SectorPreCommitLanded |-> "WaitSeed",
                               SectorDealsExpired |-> "DealsExpired",
                               SectorInvalidDealIDs |-> "RecoverDealIDs"],
     PreCommitBatchWait |-> [SectorChainPreCommitFailed |-> "PreCommitFailed",
                             SectorPreCommitLanded |-> "WaitSeed",
                             SectorRetryPreCommit |-> "PreCommitting"],
     PreCommitWait |-> [SectorChainPreCommitFailed |-> "PreCommitFailed",
                        SectorPreCommitLanded |-> "WaitSeed",
                        SectorRetryPreCommit |-> "PreCommitting"],
     WaitSeed |-> [SectorSeedReady |-> "Committing",
                   SectorChainPreCommitFailed |-> "PreCommitFailed"],
     CommitFinalize |-> [SectorFinalized |-> "SubmitCommit",
                         SectorFinalizedAvailable |-> "SubmitCommit",
                         SectorFinalizeFailed |-> "CommitFinalizeFailed"],
     SubmitCommit |-> [SectorCommitSubmitted |-> "CommitWait",
                       SectorSubmitCommitAggregate |-> "SubmitCommitAggregate",
                       SectorCommitFailed |-> "CommitFailed"],
     SubmitCommitAggregate |-> [SectorCommitAggregateSent |-> "CommitAggregateWait",
                                SectorCommitFailed |-> "CommitFailed",
                                SectorRetrySubmitCommit |-> "SubmitCommit"],
     CommitWait |-> [SectorProving |-> "FinalizeSector", SectorCommitFailed |-> "CommitFailed",
                     SectorRetrySubmitCommit |-> "SubmitCommit"],
     CommitAggregateWait |-> [SectorProving |-> "FinalizeSector",
                              SectorCommitFailed |-> "CommitFailed",
                              SectorRetrySubmitCommit |-> "SubmitCommit"],
     FinalizeSector |-> [SectorFinalized |-> "Proving", SectorFinalizedAvailable |-> "Available",
                         SectorFinalizeFailed |-> "FinalizeFailed",
                         SectorCommitted |-> "SubmitCommit"]]

snapPlanners ==
    [SnapDealsWaitDeals |-> [SectorAddPiece |-> "SnapDealsAddPiece",
                             SectorStartPacking |-> "SnapDealsPacking",
                             SectorAbortUpgrade |-> "AbortUpgrade"],
     SnapDealsAddPiece |-> [SectorPieceAdded |-> "SnapDealsWaitDeals",
                            SectorStartPacking |-> "more", SectorAddPiece |-> "more",
                            SectorAddPieceFailed |-> "SnapDealsAddPieceFailed",
                            SectorAbortUpgrade |-> "AbortUpgrade"],
     SnapDealsPacking |-> [SectorPacked |-> "UpdateReplica", SectorAbortUpgrade |-> "AbortUpgrade"],
     UpdateReplica |-> [SectorReplicaUpdate |-> "ProveReplicaUpdate",
                        SectorUpdateReplicaFailed |-> "ReplicaUpdateFailed",
                        SectorDealsExpired |-> "SnapDealsDealsExpired",
                        SectorInvalidDealIDs |-> "SnapDealsRecoverDealIDs",
                        SectorAbortUpgrade |-> "AbortUpgrade"],
     ProveReplicaUpdate |-> [SectorProveReplicaUpdate |-> "FinalizeReplicaUpdate",
                             SectorProveReplicaUpdateFailed |-> "ReplicaUpdateFailed",
                             SectorDealsExpired |-> "SnapDealsDealsExpired",
                             SectorInvalidDealIDs |-> "SnapDealsRecoverDealIDs",
                             SectorAbortUpgrade |-> "AbortUpgrade"],
     FinalizeReplicaUpdate |-> [SectorFinalized |-> "SubmitReplicaUpdate",
                                SectorFinalizeFailed |-> "FinalizeReplicaUpdateFailed"],
     SubmitReplicaUpdate |-> [SectorReplicaUpdateSubmitted |-> "ReplicaUpdateWait",
                              SectorSubmitReplicaUpdateFailed |-> "ReplicaUpdateFailed"],
     ReplicaUpdateWait |-> [SectorReplicaUpdateLanded |-> "UpdateActivating",
                            SectorSubmitReplicaUpdateFailed |-> "ReplicaUpdateFailed",
                            SectorAbortUpgrade |-> "AbortUpgrade"],
     UpdateActivating |-> [SectorUpdateActive |-> "ReleaseSectorKey"],
     ReleaseSectorKey |-> [SectorKeyReleased |-> "Proving",
                           SectorReleaseKeyFailed |-> "ReleaseSectorKeyFailed"]]

failurePlanners ==
    [AddPieceFailed |-> [SectorRetryWaitDeals |-> "WaitDeals", SectorStartPacking |-> "more",
                         SectorAddPiece |-> "more"],
     SealPreCommit1Failed |-> [SectorRetrySealPreCommit1 |-> "PreCommit1"],
     SealPreCommit2Failed |-> [SectorRetrySealPreCommit1 |-> "PreCommit1",
                               SectorRetrySealPreCommit2 |-> "PreCommit2"],
     PreCommitFailed |-> [SectorRetryPreCommit |-> "PreCommitting",
                          SectorRetryPreCommitWait |-> "PreCommitWait",
                          SectorRetryWaitSeed |-> "WaitSeed",
                          SectorSealPreCommit1Failed |-> "SealPreCommit1Failed",
                          SectorPreCommitLanded |-> "WaitSeed",
                          SectorDealsExpired |-> "DealsExpired",
                          SectorInvalidDealIDs |-> "RecoverDealIDs"],
     ComputeProofFailed |-> [SectorRetryComputeProof |-> "Committing",
                             SectorSealPreCommit1Failed |-> "SealPreCommit1Failed"],
     RemoteCommitFailed |-> [SectorRetryComputeProof |-> "Committing"],
     CommitFinalizeFailed |-> [SectorRetryFinalize |-> "CommitFinalize"],
     CommitFailed |-> [SectorSealPreCommit1Failed |-> "SealPreCommit1Failed",
                       SectorRetryWaitSeed |-> "WaitSeed",
                       SectorRetryComputeProof |-> "Committing",
                       SectorRetryInvalidProof |-> "Committing",
                       SectorRetryPreCommitWait |-> "PreCommitWait",
                       SectorChainPreCommitFailed |-> "PreCommitFailed",
                       SectorRetryPreCommit |-> "PreCommitting",
                       SectorRetryCommitWait |-> "CommitWait",
                       SectorRetrySubmitCommit |-> "SubmitCommit",
                       SectorDealsExpired |-> "DealsExpired",
                       SectorInvalidDealIDs |-> "RecoverDealIDs",
                       SectorTicketExpired |-> "Removing"],
     FinalizeFailed |-> [SectorRetryFinalize |-> "FinalizeSector"],
     DealsExpired |-> Nobody,
     RecoverDealIDs |-> [SectorUpdateDealIDs |-> "return"],
     SnapDealsAddPieceFailed |-> [SectorRetryWaitDeals |-> "SnapDealsWaitDeals",
                                  SectorStartPacking |-> "more", SectorAddPiece |-> "more",
                                  SectorAbortUpgrade |-> "AbortUpgrade"],
     SnapDealsDealsExpired |-> [SectorAbortUpgrade |-> "AbortUpgrade"],
     SnapDealsRecoverDealIDs |-> [SectorUpdateDealIDs |-> "SubmitReplicaUpdate",
                                  SectorAbortUpgrade |-> "AbortUpgrade"],
     ReplicaUpdateFailed |-> [SectorRetrySubmitReplicaUpdateWait |-> "ReplicaUpdateWait",
                              SectorRetrySubmitReplicaUpdate |-> "SubmitReplicaUpdate",
                              SectorRetryReplicaUpdate |-> "UpdateReplica",
                              SectorRetryProveReplicaUpdate |-> "ProveReplicaUpdate",
                              SectorInvalidDealIDs |-> "SnapDealsRecoverDealIDs",
                              SectorDealsExpired |-> "SnapDealsDealsExpired",
                              SectorAbortUpgrade |-> "AbortUpgrade"],
     ReleaseSectorKeyFailed |-> [SectorUpdateActive |-> "ReleaseSectorKey"],
     FinalizeReplicaUpdateFailed |-> [SectorRetryFinalize |-> "FinalizeReplicaUpdate"]]

provingPlanners ==
    [Proving |-> [SectorMarkForUpdate |-> "Available"],
     Available |-> [SectorStartCCUpdate |-> "SnapDealsWaitDeals",
                    SectorAbortUpgrade |-> "Proving"],
     Terminating |-> [SectorTerminating |-> "TerminateWait",
                      SectorTerminateFailed |-> "TerminateFailed"],
     TerminateWait |-> [SectorTerminated |-> "TerminateFinality",
                        SectorTerminateFailed |-> "TerminateFailed"],
     TerminateFinality |-> [SectorTerminateFailed |-> "TerminateFailed"],
     TerminateFailed |-> Nobody,
     RemoveFailed |-> Nobody]

(* The planners built with planOneOrIgnore.                                *)
ignoringPlanners ==
    [AbortUpgrade |-> [SectorRevertUpgradeToProving |-> "Proving"],
     Removing |-> [SectorRemoved |-> "Removed", SectorRemoveFailed |-> "RemoveFailed"]]

fsmPlanners ==
    sealingPlanners @@ snapPlanners @@ failurePlanners @@ provingPlanners @@ ignoringPlanners

SectorStates == DOMAIN fsmPlanners \cup {"Committing", "Removed"}

----------------------------------------------------------------------------
(* What an event writes into the SectorInfo.                               *)

Globals == {"SectorRestart", "SectorTerminate", "SectorRemove"}

Ignorable == {"SectorStartPacking"}

applyGlobal(ev, s) ==
    CASE ev.e = "SectorRestart" -> s
      [] ev.e = "SectorTerminate" -> [s EXCEPT !.state = "Terminating"]
      [] ev.e = "SectorRemove" -> [s EXCEPT !.state = "Removing"]

(* SectorAddPiece, SectorPieceAdded, SectorPacked.                         *)
applyInput(ev, s) ==
    CASE ev.e = "SectorAddPiece" -> [s EXCEPT !.created = TRUE]
      [] ev.e = "SectorPieceAdded" -> IF ev.v = 0 THEN s
                                      ELSE [s EXCEPT !.pieces = "deals", !.dealID = ev.v]
      [] ev.e = "SectorPacked" -> IF hasDeals(s) THEN s ELSE [s EXCEPT !.pieces = "filler"]
      [] OTHER -> s

(* The counters the recovery paths read.                                   *)
Capped(n, max) == IF n < max THEN n + 1 ELSE max
MaxPC2Fails == 4
MaxInvalidProofs == 2

applySealing(ev, s) ==
    CASE ev.e = "SectorTicket" -> [s EXCEPT !.ticket = ev.v]
      [] ev.e = "SectorPreCommit1" -> [s EXCEPT !.pc2Fails = 0]
      [] ev.e = "SectorPreCommit2" -> [s EXCEPT !.comm = ev.v]
      [] ev.e \in {"SectorPreCommitted", "SectorPreCommitBatchSent"} ->
             [s EXCEPT !.preCommitMessage = ev.v]
      [] ev.e = "SectorSeedReady" -> [s EXCEPT !.seed = ev.v]
      [] ev.e = "SectorCommitted" -> [s EXCEPT !.proof = ev.v]
      [] ev.e = "SectorProofReady" -> IF ev.v = NoProof THEN s ELSE [s EXCEPT !.proof = ev.v]
      [] ev.e \in {"SectorCommitSubmitted", "SectorCommitAggregateSent"} ->
             [s EXCEPT !.commitMessage = ev.v]
      [] ev.e = "SectorSealPreCommit1Failed" ->
             [s EXCEPT !.invalidProofs = 0, !.pc2Fails = 0]
      [] ev.e = "SectorSealPreCommit2Failed" ->
             [s EXCEPT !.invalidProofs = 0, !.pc2Fails = Capped(s.pc2Fails, MaxPC2Fails)]
      [] ev.e \in {"SectorRetryComputeProof", "SectorRetryInvalidProof"} ->
             [s EXCEPT !.invalidProofs = Capped(s.invalidProofs, MaxInvalidProofs)]
      [] ev.e = "SectorInvalidDealIDs" -> [s EXCEPT !.ret = ev.v]
      [] ev.e = "SectorUpdateDealIDs" -> [s EXCEPT !.dealID = IF ev.v = 0 THEN @ ELSE ev.v]
      [] ev.e = "SectorTerminating" -> [s EXCEPT !.terminateMessage = ev.v]
      [] OTHER -> s

applyUpgrade(ev, s) ==
    CASE ev.e = "SectorStartCCUpdate" ->
             [s EXCEPT !.ccUpdate = TRUE, !.ccPieces = s.pieces, !.pieces = "none"]
      [] ev.e = "SectorReplicaUpdate" -> [s EXCEPT !.updateSealed = TRUE]
      [] ev.e = "SectorProveReplicaUpdate" -> [s EXCEPT !.updateProof = TRUE]
      [] ev.e = "SectorReplicaUpdateSubmitted" -> [s EXCEPT !.updateMessage = ev.v]
      [] ev.e = "SectorRevertUpgradeToProving" ->
             [s EXCEPT !.ccUpdate = FALSE, !.updateSealed = FALSE, !.updateProof = FALSE,
                       !.updateMessage = 0, !.pieces = s.ccPieces, !.ccPieces = "none"]
      [] OTHER -> s

applyEvent(ev, s) == applyUpgrade(ev, applySealing(ev, applyInput(ev, s)))

----------------------------------------------------------------------------
(* The walks over the queued events. The result is the SectorInfo, the     *)
(* number of events consumed, and whether the planner failed.              *)

Planned(s, n, err) == [s |-> s, n |-> n, err |-> err]

(* planOne: skip what is applied in place or ignorable, act on the first   *)
(* other event.                                                            *)
planOne(t, evs, s) ==
    LET skips(ev) == /\ ev.e \notin Globals
                     /\ IF ev.e \in DOMAIN t THEN t[ev.e] = "more" ELSE ev.e \in Ignorable
        i  == SelectInSeq(evs, LAMBDA ev : ~skips(ev))
        ev == evs[i]
        to == t[ev.e]
    IN CASE i = 0 -> Planned(s, Len(evs), FALSE)
         [] i # 0 /\ ev.e \in Globals -> Planned(applyGlobal(ev, s), i, FALSE)
         [] i # 0 /\ ev.e \notin Globals \cup DOMAIN t -> Planned(s, i, TRUE)
         [] i # 0 /\ ev.e \in DOMAIN t ->
                IF to # "return" THEN Planned([applyEvent(ev, s) EXCEPT !.state = to], i, FALSE)
                ELSE IF s.ret = "" THEN Planned(applyEvent(ev, s), i, TRUE)
                ELSE Planned([applyEvent(ev, s) EXCEPT !.state = s.ret, !.ret = ""], i, FALSE)

planOneOrIgnore(t, evs, s) == [planOne(t, evs, s) EXCEPT !.err = FALSE]

(* planCommitting's switch on one event, i events already consumed. `stop' *)
(* is a return inside the loop; an unknown event is not consumed.          *)
committingTo ==
    [SectorCommitted |-> "SubmitCommit", SectorProofReady |-> "CommitFinalize",
     SectorComputeProofFailed |-> "ComputeProofFailed",
     SectorRemoteCommit1Failed |-> "RemoteCommitFailed",
     SectorRemoteCommit2Failed |-> "RemoteCommitFailed",
     SectorSealPreCommit1Failed |-> "SealPreCommit1Failed",
     SectorCommitFailed |-> "CommitFailed", SectorRetryCommitWait |-> "CommitWait"]

committingStep(acc, ev) ==
    LET s == acc.s
        keepsProof == ev.e = "SectorCommitted" /\ ev.v = NoProof
        carries == ev.e \in {"SectorCommitted", "SectorProofReady"} /\ ~keepsProof
    IN IF acc.stop THEN acc
       ELSE IF ev.e \in Globals
         THEN [acc EXCEPT !.s = applyGlobal(ev, s), !.n = @ + 1, !.stop = ev.e # "SectorRestart"]
       ELSE IF ev.e = "SectorSeedReady"
         THEN IF ev.v = s.seed THEN [acc EXCEPT !.n = @ + 1]
              ELSE [acc EXCEPT !.s = [applyEvent(ev, s) EXCEPT !.state = "Committing"],
                               !.n = @ + 1, !.stop = TRUE]
       ELSE IF ev.e \in DOMAIN committingTo
         THEN [acc EXCEPT !.s = [(IF carries THEN applyEvent(ev, s) ELSE s)
                                     EXCEPT !.state = committingTo[ev.e]],
                          !.n = @ + 1]
       ELSE [acc EXCEPT !.stop = TRUE, !.err = TRUE]

planCommitting(evs, s) ==
    LET r == FoldLeft(committingStep, [s |-> s, n |-> 0, stop |-> FALSE, err |-> FALSE], evs)
    IN Planned(r.s, r.n, r.err)

finalRemoved(evs, s) == Planned(s, Len(evs), FALSE)

(* The planner of the sector's state, applied to the queued events.        *)
applyPlanner(evs, s) ==
    CASE s.state = "Committing" -> planCommitting(evs, s)
      [] s.state = "Removed" -> finalRemoved(evs, s)
      [] s.state \in DOMAIN ignoringPlanners ->
             planOneOrIgnore(ignoringPlanners[s.state], evs, s)
      [] OTHER -> planOne(fsmPlanners[s.state], evs, s)

(* plan: whatever takes the sector to ReleaseSectorKeyFailed, or finds it  *)
(* there and is no error, is reported as not processed.                    *)
plan(evs, s) ==
    LET r == applyPlanner(evs, s)
    IN IF ~r.err /\ r.s.state = "ReleaseSectorKeyFailed" THEN [r EXCEPT !.n = 0] ELSE r
=============================================================================
