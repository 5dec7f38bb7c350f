--------------------------- MODULE MCChainEvents ---------------------------
(***************************************************************************)
(* ChainEvents on a chain with a null round (height 3), a fork and one     *)
(* call.                                                                   *)
(***************************************************************************)
EXTENDS ChainEvents, TLC

CONSTANTS g, a1, a2, a4, a5, b2, b3
MCTipSets == {g, a1, a2, a4, a5, b2, b3}
MCParent == (a1 :> g) @@ (a2 :> a1) @@ (a4 :> a2) @@ (a5 :> a4) @@ (b2 :> a1) @@ (b3 :> b2)
MCHeight == (g :> 0) @@ (a1 :> 1) @@ (a2 :> 2) @@ (a4 :> 4) @@ (a5 :> 5) @@ (b2 :> 2) @@ (b3 :> 3)
MCTriggerArgs ==
    {[of |-> "change", confidence |-> 1, timeout |-> 3, more |-> m] : m \in BOOLEAN}
        \cup {[of |-> "message", confidence |-> 1, timeout |-> NoTimeout, more |-> FALSE]}
=============================================================================
