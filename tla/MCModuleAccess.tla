--------------------------- MODULE MCModuleAccess ---------------------------
(* ModuleAccess for TLC: a resolver that needs Dns and a tunnel that needs  *)
(* Network and depends on it.                                               *)
EXTENDS ModuleAccess

MCNames == {"dns", "tun"}
MCRequired == [m \in MCNames |-> IF m = "dns" THEN {"Dns"} ELSE {"Network", "Dns"}]
MCNeeds == [m \in MCNames |-> IF m = "dns" THEN {} ELSE {"dns"}]
MCGrants == {{"Network"}, {"Network", "Dns"}}
MCRequests == {[op |-> "file", path |-> "p"],
               [op |-> "net", host |-> "h", port |-> 443],
               [op |-> "net", host |-> "h", port |-> 80],
               [op |-> "dns", host |-> "h"],
               [op |-> "bind", port |-> 1023],
               [op |-> "bind", port |-> 1024]}
MCAllowedPaths == {}
MCAllowedNet == {<<"h", 443>>}
=============================================================================
