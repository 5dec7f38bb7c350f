------------------------------ MODULE MCPaych ------------------------------
(***************************************************************************)
(* Paych with a request that reserves, one that may only use what is there *)
(* and a context that ends while they are merged.                          *)
(***************************************************************************)
EXTENDS Paych

MCScenarios == {[want |-> [r \in {"r1", "r2"} |-> [amt |-> 1, reserve |-> TRUE, offChain |-> r = "r2"]],
                 faults |-> {"race"}]}
=============================================================================
