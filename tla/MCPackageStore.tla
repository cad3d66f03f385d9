------------------------------ MODULE MCPackageStore ------------------------------
(***************************************************************************)
(* An instance of PackageStore: a library in two versions, with two builds *)
(* of the first, one of which needs a package nobody has.  The path f3     *)
(* escapes payload/.                                                       *)
(***************************************************************************)
EXTENDS PackageStore
CONSTANTS lib, f1, f3

StoreBuilds == {"lib1", "lib1b", "lib2"}
StoreSlotOf == [b \in StoreBuilds |-> <<lib, IF b = "lib2" THEN 2 ELSE 1>>]
StoreFiles ==
  [b \in StoreBuilds |-> CASE b = "lib1" -> <<f1>> [] b = "lib1b" -> <<f3>> [] OTHER -> <<>>]
StoreNeeds == [b \in StoreBuilds |-> IF b = "lib1b" THEN {{}} ELSE {}]
StoreSize == [b \in StoreBuilds |-> IF b = "lib2" THEN 2 ELSE 1]
=============================================================================
