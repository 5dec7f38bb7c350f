--------------------------- MODULE MCSealerSched ---------------------------
(***************************************************************************)
(* SealerSched with a few requests and a worker that does one thing of a   *)
(* class at a time.                                                        *)
(***************************************************************************)
EXTENDS SealerSched

\* Two P1 tasks and a worker whose session fails; a task that is prepared and
\* one that is ready, with all other faults; two that compete with a ready one.
MCScenarios == {[kind |-> <<"p1", "p1", "none">>, faults |-> {"session"}],
                [kind |-> <<"other", "ready", "none">>, faults |-> {"restart", "remove"}],
                [kind |-> <<"other", "ready", "other">>, faults |-> {"restart"}]}
=============================================================================
