--------------------------- MODULE MCResearchRun ---------------------------
(* Two branches of a plan, one with a follow-up task that may ask for a    *)
(* review, end to end; or the fan-in of DagRunner.                         *)
EXTENDS ResearchRun

CONSTANTS a, b, c

MCTasks == {a, b, c}
FanInDeps == {<<c, a>>, <<c, b>>}
BranchDeps == {<<c, b>>}
=============================================================================
