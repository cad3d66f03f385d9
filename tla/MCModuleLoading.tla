--------------------------- MODULE MCModuleLoading ---------------------------
(* Packages for TLC: an application (1) in two versions, a library (2)      *)
(* in two versions, one of which depends on the application, and a tool (3). *)
(* The second directory has a file of its own, and one of the first again.   *)
EXTENDS ModuleLoadOrder

On(d, req, optional) == [x \in {d} |-> [req |-> req, optional |-> optional]]
Alone == [x \in {} |-> {}]
Pkg(name, version, minor, platforms, deps) ==
    [name |-> name, version |-> version, api |-> [major |-> 1, minor |-> minor],
     platforms |-> platforms, deps |-> deps]

MCDirOf == [f \in 1 .. 4 |-> IF f \in {1, 2} THEN 1 ELSE 2]
MCInode == [f \in 1 .. 4 |-> IF f = 4 THEN 1 ELSE f]
MCRuntimeApi == [major |-> 1, minor |-> 1]
MCManifests == {Pkg(1, 1, 1, {"linux"}, On(2, {1}, FALSE)),
                Pkg(1, 2, 1, {}, On(2, {2}, FALSE)),
                Pkg(2, 1, 2, {}, Alone),
                Pkg(2, 2, 1, {}, On(1, {1, 2}, FALSE)),
                Pkg(3, 1, 2, {"linux", "ios"}, On(2, {1, 2}, TRUE)),
                Pkg(3, 2, 0, {"ios"}, On(4, {1}, FALSE))}
=============================================================================
