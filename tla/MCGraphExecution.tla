---------------------------- MODULE MCGraphExecution ----------------------------
(***************************************************************************)
(* Instances of GraphExecution: small graphs with a fan-out, a converging  *)
(* node, a nested fan-out and a conditional edge.                          *)
(***************************************************************************)
EXTENDS GraphExecution

CONSTANTS c1, c2, c3, src, a, b, x, y, sink

Edge(from, to, type, accepts) ==
  [from |-> from, to |-> to, type |-> type, accepts |-> accepts]
Sequential(from, to) == Edge(from, to, "sequential", Lane)
Parallel(from, to) == Edge(from, to, "parallel", Lane)

(* src forks to a and b, which converge on sink. *)
DiamondNodes == {src, a, b, sink}
DiamondEdges == << Parallel(src, a), Parallel(src, b), Sequential(a, sink), Sequential(b, sink) >>
OneForkPaths == {<<>>, <<1>>, <<2>>}

(* src forks to a and b; a forks again, to x and y. *)
NestedNodes == {src, a, b, x, y}
NestedEdges == << Parallel(src, a), Parallel(src, b), Parallel(a, x), Parallel(a, y) >>
NestedPaths == OneForkPaths \cup {<<1, 3>>, <<1, 4>>}

(* The nested fan-out, with control packets sent ahead from src to x: what *)
(* execute_parallel forks, execute_sequential sends along the first edge.  *)
MixedEdges ==
  << Edge(src, x, "conditional", {"control"}), Parallel(src, b), Parallel(src, a),
     Parallel(a, x), Parallel(a, y), Edge(b, y, "fallback", {"bulk"}) >>
MixedPaths == {<<>>, <<2>>, <<3>>, <<3, 4>>, <<3, 5>>}

Pass(n) == [l \in Lane |-> {l}]
DiamondEmits == [n \in DiamondNodes |-> Pass(n)]
NestedEmits == [n \in NestedNodes |-> Pass(n)]
(* src may retag a bulk packet as control or interactive. *)
MixedEmits == [NestedEmits EXCEPT ![src]["bulk"] = Lane]

(* Where the branches converge, one packet of a lane makes the next wait.  *)
DiamondCapacity == [n \in DiamondNodes |-> IF n = sink THEN 1 ELSE 2]
NestedCapacity1 == [n \in NestedNodes |-> 1]
NestedCapacity2 == [n \in NestedNodes |-> 2]

EnterAtSrc == [c \in Call |-> src]
(* A third call enters at a, which is not an entry point. *)
ThirdAtA == [c \in Call |-> IF c = c3 THEN a ELSE src]
AllBulk == [c \in Call |-> "bulk"]
OneControl == [c \in Call |-> IF c = c1 THEN "control" ELSE "bulk"]
=============================================================================
