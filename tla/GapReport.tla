----------------------------- MODULE GapReport -----------------------------
(***************************************************************************)
(* The report that asks for more research: a dimension of the project's    *)
(* configuration whose coverage is low, or whose sources are not           *)
(* independent, is a gap until the user dismisses it.  The report is       *)
(* computed from the rows of tasks, nodes, claims and sources; which       *)
(* dimension a row belongs to is found through its text, as no row has a   *)
(* column for it.                                                          *)
(*                                                                         *)
(* Coverage is counted in 150ths, which makes the weights integers: 60 for *)
(* the tasks, 9 for each of five node types, 6 for each of five claims, 5  *)
(* for each of three source types.  The report's rounding to four decimals *)
(* does not matter below a hundred tasks.                                  *)
(***************************************************************************)
EXTENDS Integers, FiniteSets

CONSTANTS
    Dimensions,
    Names,      \* for each dimension, those whose name its own name contains
    Findings,   \* for each dimension, the nodes a run finds on it
    MaxPlans    \* bound: plans generated

\* SourceRecord: the first segment of its canonical URL, the host behind it.
\* A claim is known by its support.  KnowledgeNodeRecord.
Source == [first : STRING, host : STRING, type : STRING, good : BOOLEAN]
Claim  == [id : Nat, supported : BOOLEAN]
Node   == [type : STRING, claims : SUBSET Claim, sources : SUBSET Source]

VARIABLES
    dimensions,  \* of the latest research configuration
    plans,       \* how many plans were generated
    tasks,       \* rows: the dimension the title names, the plan, what became of it
    nodes,       \* rows: the node, its tags, the dimension it was found for
    decisions    \* gap_decisions, "none" where there is no row

vars == <<dimensions, plans, tasks, nodes, decisions>>

Init ==
    /\ dimensions \in SUBSET Dimensions \ {{}}
    /\ plans = 0 /\ tasks = {} /\ nodes = {}
    /\ decisions = [d \in Dimensions |-> "none"]

-----------------------------------------------------------------------------
(* compute, for a way to tell which nodes are a dimension's, and which     *)
(* sources are independent.                                                *)

Least(a, b) == IF a < b THEN a ELSE b

\* task_in_dimension: the dimension's name occurs in the title or the key.
TasksOf(d) == {t \in tasks : d \in Names[t.dimension]}

\* node_in_dimension: one of the tags is the dimension's name.
Tagged(d) == {n \in nodes : d \in n.tags}

\* source_domain: the canonical URL up to the first slash.
Domain(s) == s.first

TypesIn(rows)   == {n.node.type : n \in rows}
ClaimsIn(rows)  == {c \in UNION {n.node.claims : n \in rows} : c.supported}
SourcesIn(rows) == UNION {n.node.sources : n \in rows}

\* The 150ths of a dimension's coverage that its rows are worth.
Breadth(rows)   == 9 * Least(Cardinality(TypesIn(rows)), 5)
Density(rows)   == 6 * Least(Cardinality(ClaimsIn(rows)), 5)
Diversity(rows) == 5 * Least(Cardinality({s.type : s \in SourcesIn(rows)}), 3)

\* Coverage below 0.6, multiplied by the number of tasks; completion is 0
\* without tasks.
CoverageBelow(d, rows) ==
    LET total == Cardinality(TasksOf(d))
        done  == Cardinality({t \in TasksOf(d) : t.completed})
        worth == Breadth(rows) + Density(rows) + Diversity(rows)
    IN  IF total = 0 THEN worth < 90 ELSE 60 * done + total * worth < 90 * total

\* Fewer than two sources of quality that differ in the domain.
Quality(rows)         == {s \in SourcesIn(rows) : s.good}
SourcesBelow(domains) == Cardinality(domains) < 2

\* dimension_report
Gap(d) == CoverageBelow(d, Tagged(d)) \/ SourcesBelow({Domain(s) : s \in Quality(Tagged(d))})

\* gap_report: nothing before there are tasks, and nothing dismissed.
Reported ==
    IF \A d \in dimensions : TasksOf(d) = {} THEN {}
    ELSE {d \in dimensions : Gap(d) /\ decisions[d] # "dismissed"}

-----------------------------------------------------------------------------
(* What changes the rows.                                                  *)

\* A later configuration is the one that counts.
Configure ==
    /\ \E ds \in SUBSET Dimensions \ {{}} : dimensions' = ds
    /\ UNCHANGED <<plans, tasks, nodes, decisions>>

\* A plan has tasks for every dimension; those of older plans stay.  (What it
\* carries over is PlanLifecycle's subject.)
Plan ==
    /\ plans < MaxPlans /\ plans' = plans + 1
    /\ tasks' = tasks \cup
          {[dimension |-> d, plan |-> plans', followUp |-> FALSE, completed |-> FALSE] :
              d \in dimensions}
    /\ UNCHANGED <<dimensions, nodes, decisions>>

Complete ==
    /\ \E t \in tasks : ~t.completed
          /\ tasks' = (tasks \ {t}) \cup {[t EXCEPT !.completed = TRUE]}
    /\ UNCHANGED <<dimensions, plans, nodes, decisions>>

\* write_node: a node of the worker's has no tags.
Tags(n) == {}

\* The result records of a run of the plan, for one of its dimensions.
Ingest ==
    /\ \E t \in tasks :
          nodes' = nodes \cup
              {[node |-> n, tags |-> Tags(n), from |-> t.dimension] : n \in Findings[t.dimension]}
    /\ UNCHANGED <<dimensions, plans, tasks, decisions>>

\* dismiss
Dismiss ==
    /\ \E d \in Reported : decisions' = [decisions EXCEPT ![d] = "dismissed"]
    /\ UNCHANGED <<dimensions, plans, tasks, nodes>>

\* approve: one more task whose title names the dimension, in the latest plan,
\* which must not have begun.
Accept ==
    /\ plans > 0 /\ \A t \in tasks : t.plan = plans => ~t.completed
    /\ \E d \in Reported :
          /\ decisions' = [decisions EXCEPT ![d] = "approved"]
          /\ tasks' = tasks \cup
                {[dimension |-> d, plan |-> plans, followUp |-> TRUE, completed |-> FALSE]}
    /\ UNCHANGED <<dimensions, plans, nodes>>

Next == Configure \/ Plan \/ Complete \/ Ingest \/ Dismiss \/ Accept

Spec == Init /\ [][Next]_vars

-----------------------------------------------------------------------------
\* What the runs found for a dimension, and who published it.
FoundFor(d) == {n \in nodes : n.from = d}
Host(s)     == s.host

\* A reported gap is one: of what the runs found for the dimension, coverage is
\* below 0.6 or fewer than two sources of quality are independent ("A gap is a
\* dimension below 0.6 coverage or with fewer than two independent quality
\* sources").
ReportedGapIsReal ==
    \A d \in Reported : \/ CoverageBelow(d, FoundFor(d))
                       \/ SourcesBelow({Host(s) : s \in Quality(FoundFor(d))})
=============================================================================
