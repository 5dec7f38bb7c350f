----------------------------- MODULE MCManager -----------------------------
(***************************************************************************)
(* Two parts of the storage manager that share no state, in one instance   *)
(* for TLC: PostSched with two window proofs and a winning proof, and      *)
(* CallTracker with two callers of the same work, or one of them and a     *)
(* simple call.  The variable part says which of the two moves.            *)
(***************************************************************************)
EXTENDS PostSched

CONSTANTS Works, Callers, Demands, MaxCalls, MaxCrashes, Faults

VARIABLES part, work, callToWork, results, callRes, sends, waitRes, calls, caller, crashes

CT == INSTANCE CallTracker

ASSUME CallTrackerAssumption == CT!CallTrackerConstants

MCPrimary == {r \in Requests : r \in {"p1", "p2"}}
MCDemands == {[k \in Callers |-> "a"], [k \in Callers |-> IF k = "k1" THEN "a" ELSE "simple"]}

trackerVars == <<work, callToWork, results, callRes, sends, waitRes, calls, caller, crashes>>
allVars == <<vars, trackerVars, part>>

\* The part that does not move has one initial state.
MCInit ==
    /\ Init /\ CT!Init
    /\ part \in {"post", "calls"}
    /\ part = "post" => \A k \in Callers : caller[k].work # "simple"

PostSchedStep == part = "post" /\ Next /\ UNCHANGED <<part, trackerVars>>
CallTrackerStep == part = "calls" /\ CT!Next /\ UNCHANGED <<part, vars>>

\* Goroutines run and workers end their work and keep returning it.
MCSpec ==
    /\ MCInit /\ [][PostSchedStep \/ CallTrackerStep]_allVars
    /\ \A k \in Callers : WF_allVars(part = "calls" /\ CT!CallerStep(k) /\ UNCHANGED <<part, vars>>)
    /\ \A c \in CT!Calls : WF_allVars(part = "calls" /\ CT!CallStep(c) /\ UNCHANGED <<part, vars>>)

\* A record that says a piece of work was started has an owner that will still
\* run or cancel it: otherwise the work could not be asked for again.
StartedHasOwner == CT!StartedHasOwner

\* Who waits for a piece of work is told when its result comes, whatever calls
\* failed or were aborted, as long as the manager does not restart.
WaitingEnds == CT!WaitingEnds
=============================================================================
