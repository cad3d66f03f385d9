------------------------------ MODULE MCTelemetry -----------------------------
(* Telemetry for TLC: two calls measured side by side, or three that only   *)
(* the tracker sees.                                                        *)
EXTENDS Telemetry
TwoBounds == <<2, 4>>
Plan(a, b, c) == [x \in Calls |-> CASE x = "a" -> a [] x = "b" -> b [] x = "c" -> c]
SmallPlans ==
    { Plan("parallel", "parallel", "none"), Plan("sequential", "parallel", "none"),
      Plan("tracked", "tracked", "tracked") }
=============================================================================
