--------------------------- MODULE MCVaultExport ---------------------------
(***************************************************************************)
(* A node, two sources whose titles differ in non-ASCII words only, a node *)
(* of a type without a folder, and the map, which links to all of them.    *)
(***************************************************************************)
EXTENDS VaultExport, TLC

CONSTANTS node, product, src1, src2, map, none, heat, survey, review

MCOrder  == <<node, product, src1, src2, map>>
MCKind   == (node :> "Concept") @@ (product :> "Product") @@ (src1 :> "Source")
            @@ (src2 :> "Source") @@ (map :> "Map")
MCTitle  == (node :> <<heat>>) @@ (product :> <<heat>>) @@ (src1 :> <<heat, survey>>)
            @@ (src2 :> <<heat, review>>) @@ (map :> <<survey>>)
MCInputs == [n \in {node, product, src1, src2, map} |->
                IF n = map THEN {node, map} ELSE {n}]
=============================================================================
