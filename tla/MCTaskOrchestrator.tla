------------------------- MODULE MCTaskOrchestrator -------------------------
(* A plan of three tasks for TLC: b needs a completed, c needs b completed *)
(* or skipped.                                                             *)
EXTENDS TaskOrchestrator

CONSTANTS a, b, c

MCTasks == {a, b, c}
ChainDeps == {<<b, a>>, <<c, b>>}
ChainSkipOk == {<<c, b>>}
=============================================================================
