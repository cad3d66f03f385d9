--------------------------- MODULE MCPackageFormat ---------------------------
(* PackageFormat for TLC: a payload, another spelling of the manifest's path, *)
(* an official and a community key.                                         *)
EXTENDS PackageFormat, TLC

MCMembers == {"payload/module.wasm"}
MCSpellings == {"./manifest.toml"}
MCTarPath(p) == IF p \in MCSpellings THEN ManifestPath ELSE p

(* Nothing tells one key from another, or one payload.                      *)
MCSymmetry == Permutations(Keys) \cup Permutations(Blobs)

(* A sort that turns equal paths round where the first path is a manifest's. *)
Before(slots, x) == {y \in slots : y.path = x.path /\ y.pos <= x.pos}
Behind(slots, x) == {y \in slots : y.path = x.path /\ y.pos >= x.pos}
MCPlace(slots, x) ==
    Cardinality(IF \E y \in slots : y.pos = 1 /\ y.path = ManifestPath
                THEN Behind(slots, x) ELSE Before(slots, x))
=============================================================================
