----------------------------- MODULE MCSectors -----------------------------
(***************************************************************************)
(* The two parts of a miner that bring a sector to the chain and keep it   *)
(* there, which share no state, in one instance for TLC: WdPost on a chain *)
(* of a few short windows, of which the first has nothing to prove, and    *)
(* SealingFSM with a sector that is offered one or two pieces.  The        *)
(* variable part says which of the two moves.                              *)
(***************************************************************************)
EXTENDS WdPost

CONSTANTS SealingFaults, Commands, MaxFails, MaxPieces, MaxQueue

VARIABLES part, s, pending, busy, paused, calls, input, chain, msgs, old, deal, fails, given, offered,
          reads, past

SF == INSTANCE SealingFSM WITH Faults <- SealingFaults

MCEmptyWindows == {0}

sealingVars == <<s, pending, busy, paused, calls, input, chain, msgs, old, deal, fails, given, offered,
                 reads, past>>
allVars == <<vars, sealingVars, part>>

\* The part that does not move has one initial state.
MCInit ==
    /\ Init /\ SF!Init
    /\ part \in {"wdpost", "sealing"}
    /\ part = "wdpost" => pending[1] = SF!Ev("SectorStart")

WdPostStep == part = "wdpost" /\ Next /\ UNCHANGED <<part, sealingVars>>

\* bound: with a second piece, one fault less
FaultsLeft == offered > 1 => fails > 0

SealingStep == part = "sealing" /\ SF!Next /\ FaultsLeft' /\ UNCHANGED <<part, vars>>

MCSpec == MCInit /\ [][WdPostStep \/ SealingStep]_allVars

\* A sector that is not finished has something that will move it on.
NeverStranded == SF!NeverStranded

\* A sector that has left the sealing states for Proving is one the chain knows
\* as proven.
SealedIsProven == SF!SealedIsProven

\* Unless the operator asks for it, the pipeline deletes no sector that is on
\* chain and not terminated.
RemovalSafe == SF!RemovalSafe

\* A sector that is back in Proving holds the data the chain holds it to.
ReplicaMatchesChain == SF!ReplicaMatchesChain

\* While an earlier message may still be executed no second one is pushed.
OneLiveMessage == SF!OneLiveMessage
=============================================================================
