--------------------------- MODULE MCModuleEvents ---------------------------
(* ModuleEvents for TLC: two nodes that share a context, and subscriptions to one of two kinds.   *)
EXTENDS ModuleEvents

CONSTANTS n1, n2, k1, k2

MCNodes == {n1, n2}
MCShared == {}
MCKinds == {k1, k2}
MCFilters == {{k1}}
=============================================================================
