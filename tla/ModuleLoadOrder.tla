-------------------------- MODULE ModuleLoadOrder --------------------------
(***************************************************************************)
(* The dependency graph (dependency_graph.rs) over what load_modules read: *)
(* the packages it loaded are put in order, and what they miss is listed.  *)
(***************************************************************************)
EXTENDS ModuleLoading, DependencyOrder

(* The load order of the packages loaded lists each once and after all it    *)
(* depends on; it is refused exactly when they depend on each other in a     *)
(* circle, and the cycle reported is one.                                   *)
OrderIsTopological ==
    phase = "done" =>
        LET graph == Build([i \in {j \in Opened : candidates[j] \in valid} |-> AllManifests[i]])
            names == DOMAIN graph
            result == LoadOrder(graph)
            circular == \E S \in (SUBSET names) \ {{}} : \A a \in S : graph[a] \cap S # {}
        IN  IF circular
            THEN /\ Len(result.cycle) >= 2
                 /\ result.cycle[1] = result.cycle[Len(result.cycle)]
                 /\ \A i \in 1 .. Len(result.cycle) - 1 : result.cycle[i + 1] \in graph[result.cycle[i]]
            ELSE /\ result.cycle = <<>>
                 /\ Len(result.order) = Cardinality(names)
                 /\ \A a \in names : \E i \in 1 .. Len(result.order) :
                        /\ result.order[i] = a
                        /\ \A d \in graph[a] \cap names :
                               \E j \in 1 .. i - 1 : result.order[j] = d

(* The dependency graph and the resolver look for dependencies in different  *)
(* places, the names of the manifests and the index of the scan: while no    *)
(* file changes, what the one calls missing the other reports as a conflict, *)
(* unless every requirer can do without it.                                 *)
MissingIsReported ==
    phase = "done" /\ changes = 0 =>
        {pair[2] : pair \in MissingDependencies(Build(AllManifests))}
            \subseteq {c.name : c \in {d \in Conflicts : d.kind = "MissingDependency"}}
                      \cup UnavailableOptional

(* The dependency graph answers right: an order, a cycle or what is missing. *)
GraphAnswers == OrderIsTopological /\ MissingIsReported
=============================================================================
