--------------------------- MODULE DependencyOrder ---------------------------
(***************************************************************************)
(* DependencyGraph of nyarix-loader (dependency_graph.rs): the load order  *)
(* of a set of packages, as the depth-first search computes it.            *)
(*                                                                         *)
(* A graph is a function from package names to the set of names each       *)
(* declares; names are numbers, in the order sort_unstable puts them.      *)
(***************************************************************************)
EXTENDS Integers, Sequences, SequencesExt

Ascending(S) == SetToSortSeq(S, LAMBDA a, b : a < b)

(* build: a later manifest of a name replaces an earlier one.               *)
Build(manifests) ==
    [name \in {manifests[i].name : i \in DOMAIN manifests} |->
        LET last == CHOOSE i \in DOMAIN manifests :
                        /\ manifests[i].name = name
                        /\ \A j \in DOMAIN manifests : manifests[j].name = name => j <= i
        IN  DOMAIN manifests[last].deps]

(* missing_dependencies: what is declared and no package here provides.     *)
MissingDependencies(graph) ==
    UNION {{<<name, d>> : d \in graph[name] \ DOMAIN graph} : name \in DOMAIN graph}

Begun == [done |-> {}, path |-> <<>>, order |-> <<>>, cycle |-> <<>>]

(* mutant: a package is placed before what it depends on                    *)
FinishFirst(s, name) ==
    [s EXCEPT !.path = Front(s.path), !.done = @ \cup {name}, !.order = <<name>> \o @]

(* name is left: every dependency of it has been placed.                    *)
Finish(s, name) ==
    [s EXCEPT !.path = Front(s.path), !.done = @ \cup {name}, !.order = Append(@, name)]

(* The cycle closed by meeting name again, from where it stands on the path.*)
CycleAt(path, name) ==
    LET start == CHOOSE i \in 1 .. Len(path) : path[i] = name
    IN  Append(SubSeq(path, start, Len(path)), name)

(* visit: an error stops the search wherever it is found.                   *)
RECURSIVE Visit(_, _, _), VisitAll(_, _, _)
Visit(graph, s, name) ==
    IF s.cycle # <<>> \/ name \in s.done THEN s
    ELSE IF \E i \in 1 .. Len(s.path) : s.path[i] = name
         THEN [s EXCEPT !.cycle = CycleAt(s.path, name)]
         ELSE LET below == VisitAll(graph, [s EXCEPT !.path = Append(@, name)],
                                    Ascending(graph[name] \cap DOMAIN graph))
              IN  IF below.cycle # <<>> THEN below ELSE Finish(below, name)
VisitAll(graph, s, names) ==
    IF names = <<>> THEN s
    ELSE VisitAll(graph, Visit(graph, s, Head(names)), Tail(names))

(* load_order: the order, or the cycle that precludes one.                  *)
LoadOrder(graph) == VisitAll(graph, Begun, Ascending(DOMAIN graph))
=============================================================================
