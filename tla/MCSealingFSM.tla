---------------------------- MODULE MCSealingFSM ----------------------------
(* A sector with a few faults, offered one piece.                          *)
EXTENDS SealingFSM
=============================================================================
