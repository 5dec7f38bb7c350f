----------------------------- MODULE MCBatchers -----------------------------
(***************************************************************************)
(* Batchers with three sectors, two of them in one partition.              *)
(***************************************************************************)
EXTENDS Batchers

MCPartition == [s \in Sectors |-> IF s = 3 THEN "q" ELSE "p"]
MCDeadline == [l \in {"p", "q"} |-> IF l = "p" THEN 0 ELSE 2]
MCSectorsOf == <<{1}, {2}, {2, 3}>>
=============================================================================
