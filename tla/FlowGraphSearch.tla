----------------------------- MODULE FlowGraphSearch -----------------------------
(***************************************************************************)
(* The searches of a FlowGraph (crates/nyarix-graph/src/graph.rs):         *)
(* detect_cycle, a depth-first search over the adjacency index that starts *)
(* from the nodes in the order a HashMap yields them; find_path, a         *)
(* breadth-first one; and validate, which is built on both.  Each is       *)
(* compared with a definition over the edges Vec.                          *)
(***************************************************************************)
EXTENDS FlowGraph, FiniteSetsExt

RECURSIVE Dfs(_, _, _)
(* Mutant of Dfs: a node that is being visited counts as visited.           *)
DfsForgetsStack(n, visited, stack) ==
  LET follow(acc, next) ==
        IF acc.cycle # <<>> \/ <<n, next>> \in graph.allowed \/ next \in acc.visited
        THEN acc ELSE Dfs(next, acc.visited, Append(stack, n))
  IN FoldLeft(follow, [visited |-> visited \cup {n}, cycle |-> <<>>], graph.adjacency[n])

(* dfs_detect_cycle: the nodes on the stack are Visiting, those in visited *)
(* are Visited; the first edge back to the stack closes the cycle.         *)
Dfs(n, visited, stack) ==
  LET path == Append(stack, n)
      follow(acc, next) ==
        IF acc.cycle # <<>> \/ <<n, next>> \in graph.allowed THEN acc
        ELSE IF next \in Range(path)
        THEN [acc EXCEPT !.cycle =
                Append(SubSeq(path, SelectInSeq(path, LAMBDA m : m = next), Len(path)), next)]
        ELSE IF next \in acc.visited THEN acc
        ELSE Dfs(next, acc.visited, path)
      walked == FoldLeft(follow, [visited |-> visited, cycle |-> <<>>], graph.adjacency[n])
  IN [walked EXCEPT !.visited = @ \cup {n}]

(* detect_cycle, over the nodes in the given order: a cycle, or nothing. *)
DetectCycle(order) ==
  FoldLeft(LAMBDA acc, start : IF acc.cycle # <<>> \/ start \in acc.visited THEN acc
                               ELSE Dfs(start, acc.visited, <<>>),
           [visited |-> {}, cycle |-> <<>>], order).cycle

RECURSIVE Bfs(_, _)
(* The search of find_path from the nodes in the queue: who found whom.  A *)
(* predecessor, once set, is never changed, so that running on past the    *)
(* target gives the same path.                                             *)
Bfs(queue, predecessor) ==
  IF queue = <<>> THEN predecessor
  ELSE LET visit(acc, next) ==
             IF next \in DOMAIN acc.predecessor THEN acc
             ELSE [queue |-> Append(acc.queue, next),
                   predecessor |-> [m \in DOMAIN acc.predecessor \cup {next} |->
                     IF m = next THEN Head(queue) ELSE acc.predecessor[m]]]
           found == FoldLeft(visit, [queue |-> Tail(queue), predecessor |-> predecessor],
                             graph.adjacency[Head(queue)])
       IN Bfs(found.queue, found.predecessor)

RECURSIVE ReconstructPath(_, _, _)
ReconstructPath(predecessor, from, to) ==
  IF to = from THEN <<from>>
  ELSE Append(ReconstructPath(predecessor, from, predecessor[to]), to)

(* find_path: a path, or nothing. *)
FindPath(from, to) ==
  LET predecessor == Bfs(<<from>>, [m \in {from} |-> from])
  IN IF {from, to} \subseteq graph.nodes /\ to \in DOMAIN predecessor
     THEN ReconstructPath(predecessor, from, to) ELSE <<>>

Marked == graph.entry_points \cup graph.exit_points

Validate(order) ==
  /\ DetectCycle(order) = <<>>
  /\ \A entry \in graph.entry_points : \E exit \in graph.exit_points : FindPath(entry, exit) # <<>>
  /\ \A n \in graph.nodes \ Marked : Incoming(graph, n) # <<>> \/ graph.adjacency[n] # <<>>

(* record_graph_depth: the longest of the paths find_path returns between  *)
(* an entry and an exit point, in nodes.                                   *)
GraphDepth ==
  Max({0} \cup {Len(FindPath(entry, exit)) :
                  entry \in graph.entry_points, exit \in graph.exit_points})

-----------------------------------------------------------------------------
(* The edges cycle detection looks at. *)
Strict == [graph EXCEPT !.edges = SelectSeq(@, LAMBDA e : <<e.from, e.to>> \notin graph.allowed)]
Cyclic == \E e \in Range(Strict.edges) : e.from \in Reached(Strict, e.to)

(* Whatever order the HashMap yields the nodes in, detect_cycle finds a    *)
(* cycle if there is one without allowed feedback edges, and what it       *)
(* returns is one: edge by edge, with only the start repeated, at the end. *)
DetectsCycles ==
  \A order \in SetToSeqs(graph.nodes) :
    LET c == DetectCycle(order)
    IN /\ Cyclic <=> c # <<>>
       /\ c # <<>> =>
            /\ Len(c) > 1 /\ c[1] = Last(c)
            /\ Cardinality(Range(c)) = Len(c) - 1
            /\ \A i \in 1 .. Len(c) - 1 :
                 \E e \in Range(Strict.edges) : e.from = c[i] /\ e.to = c[i + 1]

(* find_path returns a path of the graph exactly where there is one, and   *)
(* one of "the fewest hops".                                               *)
PathsShortest ==
  \A from, to \in graph.nodes :
    LET p == FindPath(from, to)
        reach == Hops(graph, from)
        hops == {k \in 0 .. Cardinality(NodeId) : to \in reach[k]}
    IN /\ p = <<>> <=> hops = {}
       /\ p # <<>> =>
            /\ p[1] = from /\ Last(p) = to /\ Len(p) - 1 = Min(hops)
            /\ \A i \in 1 .. Len(p) - 1 :
                 \E e \in Range(graph.edges) : e.from = p[i] /\ e.to = p[i + 1]

(* validate accepts exactly the graphs it is documented to: acyclic but    *)
(* for allowed feedback, every entry point reaching an exit point, and no  *)
(* orphan that is neither.  (The order of the nodes is DetectsCycles'.)    *)
ValidatesWellFormed ==
  Validate(SetToSeq(graph.nodes)) <=>
    /\ ~Cyclic
    /\ \A n \in graph.entry_points : n \in graph.nodes
         /\ Reached(graph, n) \cap graph.exit_points \cap graph.nodes # {}
    /\ \A n \in graph.nodes \ Marked : \E e \in Range(graph.edges) : n \in {e.from, e.to}

(* What build_from_profile builds passes validate in every order, whatever *)
(* sources and sinks stand in the middle of the stack, and the depth       *)
(* recorded of it is its number of nodes.                                  *)
BuiltIsValid ==
  outcome = "built" =>
    /\ \A order \in SetToSeqs(graph.nodes) : Validate(order)
    /\ GraphDepth = Cardinality(graph.nodes)

(* The searches answer as their definitions over the edges do, in every    *)
(* graph that mutations or a profile can lead to.                          *)
SearchesAgree == DetectsCycles /\ PathsShortest /\ ValidatesWellFormed /\ BuiltIsValid
=============================================================================
