------------------------------- MODULE MCFlowGraph -------------------------------
(* Instances of FlowGraph and its searches: m1 is the node callers mark. *)
EXTENDS FlowGraphSearch, TLC
CONSTANTS m1, n2, n3
(* The nodes no caller marks are interchangeable.                              *)
Unmarked == Permutations({n2, n3})
=============================================================================
