------------------------- MODULE MCResearchStages -------------------------
(* Two sections that make the same claim, a follow-up in the first, which  *)
(* makes it too and names no node for its other claims, and two claims of  *)
(* different sections that contradict each other.                          *)
EXTENDS ResearchStages

CONSTANTS a, b, x, y, z, m, n, c, d, e, f

MCSections == {a, b}
MCSources  == {x, y, z}
MCNodes    == {m, n}
MCClaims   == {c, d, e, f}

\* A source a section finds, and one the follow-up does.
MCFound(kind, s) ==
    CASE kind = "followup" -> {z}
      [] s = a -> {x}
      [] s = b -> {y}

MCMentions(i) == CASE i = x -> {m} [] i = y -> {m, n} [] i = z -> {m}
MCAsserts(i)  == CASE i = x -> {c} [] i = y -> {c, d, e} [] i = z -> {c, e, f}
MCSubject(k)  == IF k \in {e, f} THEN n ELSE m
MCRivals(k, l) == {k, l} = {c, d}

\* Sources and claims are kept in the order of their names.
MCLast(S) ==
    CASE z \in S -> z [] y \in S -> y [] x \in S -> x
      [] f \in S -> f [] e \in S -> e [] d \in S -> d [] c \in S -> c
=============================================================================
