-------------------------------- MODULE FlowGraph --------------------------------
(***************************************************************************)
(* The topology of a FlowGraph (crates/nyarix-graph/src/graph.rs) and the  *)
(* operations that change it.  The edges Vec is kept beside an adjacency   *)
(* index; entry and exit points and allowed feedback edges are kept as     *)
(* they were last marked.  An operation that fails says so in outcome.     *)
(***************************************************************************)
EXTENDS Integers, Sequences, FiniteSets, SequencesExt

CONSTANTS
  NodeId,      (* The NodeIds in use.                                      *)
  MaxEdges,    (* Bound: edges in the graph.                               *)
  MaxMarks,    (* Bound: entry points, exit points, feedback edges, each.  *)
  Markable     (* The nodes callers of mark_* and allow_* name.            *)

ASSUME FlowGraphAssumption ==
  /\ IsFiniteSet(NodeId) /\ Markable \subseteq NodeId
  /\ MaxEdges \in Nat /\ MaxMarks \in Nat

NodeType == {"Source", "Sink", "Transformer"}
(* The type and the condition of an edge take no part in the topology. *)
Edge == [from : NodeId, to : NodeId]

FlowGraphs ==
  [nodes : SUBSET NodeId, edges : Seq(Edge), adjacency : [NodeId -> Seq(NodeId)],
   entry_points : SUBSET NodeId, exit_points : SUBSET NodeId, allowed : SUBSET (NodeId \X NodeId)]

VARIABLES
  graph,   (* The fields of FlowGraph.                                     *)
  outcome  (* What the last operation returned.                            *)

topologyVars == <<graph, outcome>>

Empty ==
  [nodes |-> {}, edges |-> <<>>, adjacency |-> [n \in NodeId |-> <<>>],
   entry_points |-> {}, exit_points |-> {}, allowed |-> {}]

-----------------------------------------------------------------------------
(* add_node marks sources and sinks, and keeps the edges of an id in use.  *)
WithNode(g, n, type) ==
  [g EXCEPT !.nodes = @ \cup {n},
            !.entry_points = IF type = "Source" THEN @ \cup {n} ELSE @,
            !.exit_points = IF type = "Sink" THEN @ \cup {n} ELSE @]

(* retain and filter: the elements of a sequence that are in S, in order.   *)
Only(s, S) ==
  LET kept[k \in 0 .. Len(s)] ==
        IF k = 0 THEN <<>>
        ELSE IF s[k] \in S THEN Append(kept[k - 1], s[k]) ELSE kept[k - 1]
  IN kept[Len(s)]

From(n) == {e \in Edge : e.from = n}
To(n) == {e \in Edge : e.to = n}
Away(n) == Edge \ (From(n) \cup To(n))
Outgoing(g, n) == Only(g.edges, From(n))
Incoming(g, n) == Only(g.edges, To(n))
Targets(es) == [i \in 1 .. Len(es) |-> es[i].to]

(* remove_node: everything that names the node goes, but for feedback.     *)
WithoutNode(g, n) ==
  [g EXCEPT !.nodes = @ \ {n},
            !.edges = Only(@, Away(n)),
            !.adjacency = [m \in NodeId |-> IF m = n THEN <<>>
                                          ELSE Only(@[m], NodeId \ {n})],
            !.entry_points = @ \ {n},
            !.exit_points = @ \ {n}]

Connectable(g, e) == e.from \in g.nodes /\ e.to \in g.nodes
WithEdge(g, e) ==
  [g EXCEPT !.adjacency[e.from] = Append(@, e.to), !.edges = Append(@, e)]

(* connect, one edge after the other up to the first that fails. *)
ConnectAll(g, es) ==
  LET done[k \in 0 .. Len(es)] ==
        IF k = 0 THEN [ok |-> TRUE, graph |-> g]
        ELSE LET prev == done[k - 1]
             IN IF prev.ok /\ Connectable(prev.graph, es[k])
                THEN [ok |-> TRUE, graph |-> WithEdge(prev.graph, es[k])]
                ELSE [ok |-> FALSE, graph |-> prev.graph]
  IN done[Len(es)]

(* Mutant of WithoutEdge: the last of the parallel edges goes instead.      *)
WithoutEdgeLast(g, i) ==
  LET e == g.edges[i]
      last == SelectLastInSeq(g.edges, LAMBDA d : d.from = e.from /\ d.to = e.to)
  IN [g EXCEPT !.edges = RemoveAt(@, last), !.adjacency[e.from] = RemoveFirst(@, e.to)]

(* The i-th edge goes, and the first of its target in the adjacency. *)
WithoutEdge(g, i) ==
  LET e == g.edges[i]
  IN [g EXCEPT !.edges = RemoveAt(@, i), !.adjacency[e.from] = RemoveFirst(@, e.to)]

-----------------------------------------------------------------------------
Ok(g) == graph' = g /\ outcome' = "ok"
Err == UNCHANGED graph /\ outcome' = "err"

AddNode(n, type) == Ok(WithNode(graph, n, type))

RemoveNode(n) ==
  \/ n \in graph.nodes /\ Ok(WithoutNode(graph, n))
  \/ n \notin graph.nodes /\ Err

Connect(e) ==
  \/ Connectable(graph, e) /\ Ok(WithEdge(graph, e))
  \/ ~Connectable(graph, e) /\ Err

Disconnect(from, to) ==
  LET i == SelectInSeq(graph.edges, LAMBDA e : e.from = from /\ e.to = to)
  IN IF i = 0 THEN Err ELSE Ok(WithoutEdge(graph, i))

MarkEntryPoint(n) == Ok([graph EXCEPT !.entry_points = @ \cup {n}])
MarkExitPoint(n) == Ok([graph EXCEPT !.exit_points = @ \cup {n}])
AllowFeedbackEdge(from, to) == Ok([graph EXCEPT !.allowed = @ \cup {<<from, to>>}])

(* Mutant of InsertAfter: the node is added before the ambiguity is seen.   *)
InsertAfterEager(after, n, type) ==
  LET out == Outgoing(graph, after)
      added == WithNode(graph, n, type)
      first == SelectInSeq(added.edges, LAMBDA e : e.from = after)
      es == IF out = <<>> THEN << [from |-> after, to |-> n] >>
            ELSE << [from |-> after, to |-> n],
                    [from |-> n, to |-> out[1].to] >>
      done == ConnectAll(IF out = <<>> THEN added ELSE WithoutEdge(added, first), es)
  IN \/ after \notin graph.nodes /\ Err
     \/ Len(out) > 1 /\ graph' = added /\ outcome' = "err"
     \/ /\ after \in graph.nodes /\ Len(out) <= 1
        /\ graph' = done.graph /\ outcome' = IF done.ok THEN "ok" ELSE "err"

(* insert_after: refuse an unknown node or an ambiguous place; then add    *)
(* the node and splice it into the one outgoing edge, or append it.        *)
InsertAfter(after, n, type) ==
  LET out == Outgoing(graph, after)
      added == WithNode(graph, n, type)
      first == SelectInSeq(added.edges, LAMBDA e : e.from = after)
      es == IF out = <<>> THEN << [from |-> after, to |-> n] >>
            ELSE << [from |-> after, to |-> n],
                    [from |-> n, to |-> out[1].to] >>
      done == ConnectAll(IF out = <<>> THEN added ELSE WithoutEdge(added, first), es)
  IN \/ (after \notin graph.nodes \/ Len(out) > 1) /\ Err
     \/ /\ after \in graph.nodes /\ Len(out) <= 1
        /\ graph' = done.graph /\ outcome' = IF done.ok THEN "ok" ELSE "err"

(* Mutant of Bridges: only the first successor is bridged to.               *)
BridgesFirst(ins, outs) ==
  [k \in 1 .. Len(ins) * Len(outs) |->
     [from |-> ins[((k - 1) \div Len(outs)) + 1].from, to |-> outs[1].to]]

(* The plain edges from every predecessor to every successor, in order. *)
Bridges(ins, outs) ==
  [k \in 1 .. Len(ins) * Len(outs) |->
     [from |-> ins[((k - 1) \div Len(outs)) + 1].from, to |-> outs[((k - 1) % Len(outs)) + 1].to]]

(* remove_and_reconnect: refuse many-to-many; remove the node, then        *)
(* connect its predecessors with its successors.                           *)
RemoveAndReconnect(n) ==
  LET ins == Incoming(graph, n)
      outs == Outgoing(graph, n)
      done == ConnectAll(WithoutNode(graph, n), Bridges(ins, outs))
  IN \/ (n \notin graph.nodes \/ (Len(ins) > 1 /\ Len(outs) > 1)) /\ Err
     \/ /\ n \in graph.nodes /\ (Len(ins) <= 1 \/ Len(outs) <= 1)
        /\ graph' = done.graph /\ outcome' = IF done.ok THEN "ok" ELSE "err"

(* build_from_profile marks the ends of the chain it has connected. *)
Chained(g, ids) ==
  IF ids = <<>> THEN g
  ELSE [g EXCEPT !.entry_points = @ \cup {Head(ids)}, !.exit_points = @ \cup {Last(ids)}]

WithNodes(ids, types) ==
  LET added[k \in 0 .. Len(ids)] ==
        IF k = 0 THEN Empty ELSE WithNode(added[k - 1], ids[k], types[k])
  IN added[Len(ids)]

(* build_from_profile: one new node per name of the stack, each connected  *)
(* to the next; a name that does not resolve fails the whole build.  (The  *)
(* last step is validate: BuiltIsValid says that it never fails.)          *)
BuildFromProfile(ids, types) ==
  LET pairs == IF ids = <<>> THEN <<>>
               ELSE [i \in 1 .. Len(ids) - 1 |-> [from |-> ids[i], to |-> ids[i + 1]]]
      done == ConnectAll(WithNodes(ids, types), pairs)
  IN \/ graph = Empty /\ "unknown" \in Range(types) /\ Err
     \/ /\ graph = Empty /\ "unknown" \notin Range(types) /\ done.ok
        /\ graph' = Chained(done.graph, ids) /\ outcome' = "built"

-----------------------------------------------------------------------------
TopologyInit == graph = Empty /\ outcome = "none"

(* A built graph may have more marks; mutations do not add to them. *)
WithinBounds(g, next) ==
  /\ Len(next.edges) <= MaxEdges
  /\ next.entry_points \subseteq g.entry_points \/ Cardinality(next.entry_points) <= MaxMarks
  /\ next.exit_points \subseteq g.exit_points \/ Cardinality(next.exit_points) <= MaxMarks
  /\ Cardinality(next.allowed) <= MaxMarks

(* The new node ids of a profile's stack. *)
Profiles == {ids \in SeqOf(NodeId, Cardinality(NodeId)) : IsInjective(ids)}

Mutate ==
  \/ \E n \in NodeId, type \in NodeType : AddNode(n, type)
  \/ \E n \in NodeId : RemoveNode(n)
  \/ \E e \in Edge : Connect(e)
  \/ \E from, to \in NodeId : Disconnect(from, to)
  \/ \E n \in Markable : MarkEntryPoint(n) \/ MarkExitPoint(n)
  \/ \E from, to \in Markable : AllowFeedbackEdge(from, to)
  \/ \E after, n \in NodeId, type \in NodeType : InsertAfter(after, n, type)
  \/ \E n \in NodeId : RemoveAndReconnect(n)

Build ==
  \E ids \in Profiles : \E types \in [DOMAIN ids -> NodeType \cup {"unknown"}] :
    BuildFromProfile(ids, types)

TopologyNext == Build \/ (Mutate /\ WithinBounds(graph, graph'))

TopologySpec == TopologyInit /\ [][TopologyNext]_topologyVars
-----------------------------------------------------------------------------
(* Type invariant of FlowGraph's fields; and no operation leaves an edge   *)
(* to or from a node that is not in the graph, which walk_node would find  *)
(* out as a MissingNode in the middle of a traversal.                      *)
NoDanglingEdge ==
  \A e \in Range(graph.edges) : e.from \in graph.nodes /\ e.to \in graph.nodes
TopologyTypeOK ==
  graph \in FlowGraphs /\ NoDanglingEdge /\ outcome \in {"none", "ok", "err", "built"}

(* "Kept in sync with edges": a node's adjacency lists the targets of its  *)
(* edges, one per edge and in the order of the edges Vec, whatever was     *)
(* spliced, bridged and removed in between.                                *)
AdjacencyInSync ==
  \A n \in NodeId :
    graph.adjacency[n] = Targets(Outgoing(graph, n))

(* The fields of a FlowGraph never contradict each other: walk_node finds  *)
(* every edge's target, and the searches walk the edges there are.         *)
GraphConsistent == TopologyTypeOK /\ AdjacencyInSync

(* The nodes that u reaches over the edges Vec, in at most so many hops. *)
Hops(g, u) ==
  LET within[k \in 0 .. Cardinality(NodeId)] ==
        IF k = 0 THEN {u}
        ELSE LET near == within[k - 1]
             IN near \cup {e.to : e \in {d \in Range(g.edges) : d.from \in near}}
  IN within
Reached(g, u) == Hops(g, u)[Cardinality(NodeId)]

(* The nodes other than n reach each other after a step as before it. *)
PathsAround(n) ==
  \A u \in (graph.nodes \cap graph'.nodes) \ {n} :
    Reached(graph, u) \ {n} = Reached(graph', u) \ {n}
(* insert_after and remove_and_reconnect splice: between the nodes that    *)
(* are there before and after, what reached what still does, and nothing   *)
(* else does.                                                              *)
SplicesKeepPaths ==
  [][/\ \A n \in graph.nodes \ graph'.nodes : RemoveAndReconnect(n) => PathsAround(n)
     /\ \A n \in graph'.nodes \ graph.nodes :
          (\E a \in NodeId, type \in NodeType : InsertAfter(a, n, type)) => PathsAround(n)]_topologyVars

(* An operation that fails leaves the graph as it was; the exception is    *)
(* remove_and_reconnect of a node with an edge to itself, which is gone    *)
(* when the bridge to it is refused.                                       *)
FailureKeepsGraph ==
  [][outcome' = "err" =>
       \/ graph' = graph
       \/ \E n \in graph.nodes : /\ \E e \in Range(graph.edges) : e.from = n /\ e.to = n
                                 /\ graph' = WithoutNode(graph, n)]_topologyVars
=============================================================================
