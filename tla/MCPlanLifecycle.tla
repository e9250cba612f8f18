-------------------------- MODULE MCPlanLifecycle --------------------------
(* PlanLifecycle on two dimensions.                                        *)
EXTENDS PlanLifecycle

CONSTANTS d1, d2, t1, t2

MCDims  == {d1, d2}
MCGaps  == {d2}
MCTopic == {t1, t2}

\* One configuration is cut to its first dimension, the other is not.
MCInputs == {[topic |-> t1, dims |-> <<d1, d2>>, depth |-> 1],
             [topic |-> t2, dims |-> <<d2, d1>>, depth |-> 2]}
=============================================================================
