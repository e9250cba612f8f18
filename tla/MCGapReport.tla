---------------------------- MODULE MCGapReport ----------------------------
(* A run finds what it takes on "heat", and one thin node on "heat pumps".  *)
EXTENDS GapReport

MCDimensions == {"heat", "heat pumps"}

MCNames == [d \in MCDimensions |-> IF d = "heat" THEN {"heat"} ELSE MCDimensions]

A == [first |-> "https:", host |-> "a.org", type |-> "paper",  good |-> TRUE]
B == [first |-> "https:", host |-> "b.org", type |-> "report", good |-> TRUE]

MCFindings ==
    [d \in MCDimensions |->
        IF d = "heat"
        THEN {[type |-> t, claims |-> {[id |-> 1, supported |-> TRUE]}, sources |-> {A, B}] :
                 t \in {"Technology", "Company", "Product"}}
        ELSE {[type |-> "Technology", claims |-> {[id |-> 2, supported |-> FALSE]},
               sources |-> {A}]}]
=============================================================================
