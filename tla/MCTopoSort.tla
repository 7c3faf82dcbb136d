----------------------------- MODULE MCTopoSort -----------------------------
(* Instances of TopoSort: every graph over three ids, every input of up to *)
(* four of them.                                                           *)
EXTENDS TopoSort

CONSTANTS n1, n2, n3

ThreeIds == {n1, n2, n3}
ThreeLex == n1 :> 1 @@ n2 :> 2 @@ n3 :> 3
AllGraphs == [ThreeIds -> SUBSET ThreeIds]
ShortInputs == UNION {[1 .. k -> ThreeIds] : k \in 0 .. 4}
=============================================================================
