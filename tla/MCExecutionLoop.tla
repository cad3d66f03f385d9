----------------------------- MODULE MCExecutionLoop -----------------------------
(***************************************************************************)
(* Instances of ExecutionLoop: two nodes, a few packets, channels of one   *)
(* or two packets and the events each run allows.                          *)
(***************************************************************************)
EXTENDS ExecutionLoop
CONSTANTS n1, n2
=============================================================================
