---------------------------- MODULE MCDagRunner ----------------------------
(* Small plans: two parallel tasks and one that needs both (a validation,  *)
(* which may ask for a review); or a chain of the three.                   *)
EXTENDS DagRunner

CONSTANTS a, b, c

MCTasks == {a, b, c}
FanInDeps == {<<c, a>>, <<c, b>>}
ChainDeps == {<<b, a>>, <<c, b>>}
=============================================================================
