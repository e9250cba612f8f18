------------------------ MODULE MCResultIngestion ------------------------
(***************************************************************************)
(* first and later are runs of one project, the later one continuing what  *)
(* the first found.  other researches the same topic in a project of its   *)
(* own, under the worker ids of first; stray adds evidence to a claim that *)
(* other found.  broken repeats content of first and ends in a claim about *)
(* a node nobody delivered; garbled ends in evidence without an anchor.    *)
(* An older build left a node, claim c1 and its evidence e1 in the project *)
(* of first.                                                               *)
(***************************************************************************)
EXTENDS ResultIngestion

Source(w, u)         == [kind |-> "source", id |-> w, url |-> u]
Content(w, k)        == [kind |-> "content", src |-> w, print |-> k]
Node(w, ss, cs)      == [kind |-> "node", id |-> w, srcs |-> ss, claims |-> cs]
Relation(w, m, n)    == [kind |-> "relation", id |-> w, from |-> m, to |-> n]
Claim(w, n, st)      == [kind |-> "claim", id |-> w, node |-> n, status |-> st]
Evidence(w, s, c)    == [kind |-> "evidence", id |-> w, src |-> s, claim |-> c,
                         anchor |-> "quote"]
Loose(w, s, c)       == [Evidence(w, s, c) EXCEPT !.anchor = "none"]
Report(w)            == [kind |-> "dropped", id |-> w]

FirstBatch == <<Source("s1", "u1"), Content("s1", "k1"), Node("n1", {"s1"}, {"c1"}),
                Node("n2", {}, {}), Relation("r1", "n1", "n2"), Claim("c1", "n1", "draft"),
                Report("d1"), Evidence("e1", "s1", "c1")>>
LaterBatch == <<Source("s9", "u1"), Content("s9", "k1"), Content("s9", "k2"),
                Content("s9", "none"), Evidence("e2", "s9", "c1"), Claim("c1", "n1", "confirmed"),
                Node("n1", {"s9"}, {}), Relation("r2", "n2", "n1")>>
BrokenBatch == <<Source("s1", "u1"), Content("s1", "k1"), Source("s2", "u2"),
                 Content("s2", "k3"), Claim("c3", "n9", "draft")>>

GarbledBatch == <<Source("s1", "u1"), Content("s1", "k3"), Loose("e8", "s1", "c1")>>

StrayBatch == <<Source("s1", "u1"), Evidence("e7", "s1", "c1")>>

MCRuns      == {"first", "later", "other", "stray", "broken", "garbled"}
MCProjectOf == [r \in MCRuns |-> IF r \in {"other", "stray"} THEN "B" ELSE "A"]
MCBatch     == [r \in MCRuns |-> CASE r = "later" -> LaterBatch
                                    [] r = "stray" -> StrayBatch
                                    [] r = "broken" -> BrokenBatch
                                    [] r = "garbled" -> GarbledBatch
                                    [] OTHER -> FirstBatch]

MCLegacy ==
    [source   |-> [k \in {<<"A", "u0">>} |-> 0],
     content  |-> [k \in {} |-> NoPath],
     node     |-> [k \in {<<"A", "n2">>} |-> [id |-> Raw("n2"), sources |-> {}, claims |-> {}]],
     relation |-> [k \in {} |-> <<>>],
     claim    |-> [k \in {Raw("c1")} |->
                    [project |-> "A", subject |-> Raw("n2"), status |-> "draft"]],
     evidence |-> [k \in {Raw("e1")} |-> [project |-> "A", source |-> 0]],
     link     |-> {<<Raw("c1"), Raw("e1")>>},
     delivered |-> {}]
=============================================================================
