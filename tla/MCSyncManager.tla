--------------------------- MODULE MCSyncManager ---------------------------
(***************************************************************************)
(* SyncManager on a chain a, b, c, a fork f, g from a in which f is heavier *)
(* than b but lighter than c, and a tipset h of a fork that is seen        *)
(* without its ancestors and weighs as much as c.                          *)
(***************************************************************************)
EXTENDS SyncManager

MCTipSets == {"a", "b", "c", "f", "g", "h"}
MCParent == [t \in MCTipSets |->
    CASE t = "a" -> "genesis" [] t \in {"b", "f"} -> "a" [] t = "c" -> "b" [] t = "g" -> "f" [] t = "h" -> "i"]
MCWeight == [t \in MCTipSets |->
    CASE t = "a" -> 1 [] t = "b" -> 2 [] t = "f" -> 3 [] t \in {"c", "h"} -> 4 [] t = "g" -> 5]
MCHeight == [t \in MCTipSets |->
    CASE t = "a" -> 1 [] t \in {"b", "f"} -> 2 [] t \in {"c", "g", "h"} -> 3]
=============================================================================
