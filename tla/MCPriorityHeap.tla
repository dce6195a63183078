--------------------------- MODULE MCPriorityHeap ---------------------------
(* Instances of PriorityHeap for TLC: interchangeable job indices. *)
EXTENDS PriorityHeap, TLC

CONSTANTS e1, e2, e3, e4, e5

FiveElems == {e1, e2, e3, e4, e5}
Symmetry == Permutations(FiveElems)
=============================================================================
