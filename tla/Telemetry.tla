------------------------------ MODULE Telemetry -------------------------------
(***************************************************************************)
(* What the engine measures: the MetricRegistry, the per-node and flow      *)
(* metrics of execution.rs, the ThroughputTracker, and the exports that     *)
(* read them while calls go on (export_json, export_graph, the debug dump). *)
(*                                                                         *)
(* Recording a metric takes two steps, the registry lookup that returns an  *)
(* Arc and the update of the metric behind it; other tasks run in between.  *)
(* The graph is one mutex: execute_sequential borrows it for the whole      *)
(* call, execute_parallel for each hop, build_debug_dump for the dump.      *)
(***************************************************************************)
EXTENDS Integers, Sequences, FiniteSets, SequencesExt, FiniteSetsExt, Functions

CONSTANTS
    Calls,       \* traversals of the graph
    Plans,       \* what the calls of a behaviour may be: [Calls -> Kind]
    Nodes,       \* names of the nodes' modules
    Flows,       \* FlowIds of the packets
    Lengths,     \* payload lengths
    Durations,   \* what process and whole traversals may take
    Budget,      \* max_processing_time the modules declare
    Bounds,      \* PROCESS_DURATION_BUCKETS_US
    Depths,      \* queue depths a node may be found with
    Window,      \* ThroughputTracker::window, in ticks
    MaxHops,     \* bound: nodes a call processes
    MaxTime      \* bound: ticks of the clock

(* No call; execute_parallel; execute_sequential with a tracker, with or    *)
(* without a MetricRegistry attached to both.                               *)
Kind == {"none", "parallel", "sequential", "tracked"}

(* Who may have the graph besides a call.                                   *)
NoOne == "no one"
Dump == "dump"

ASSUME TelemetryAssumption ==
    /\ {NoOne, Dump} \cap Calls = {}
    /\ Plans \subseteq [Calls -> Kind] /\ Lengths \subseteq Nat /\ Depths \subseteq Nat
    /\ IsFiniteSet(Flows) /\ Durations \subseteq Nat /\ Budget \in Nat /\ Bounds \in Seq(Nat \ {0})
    /\ \A i \in 1 .. Len(Bounds) - 1 : Bounds[i] < Bounds[i + 1]
    /\ Window \in Nat \ {0} /\ MaxHops \in Nat \ {0} /\ MaxTime \in Nat

VARIABLES
    now,       \* Instant::now()
    plan,      \* what each call is
    registry,  \* MetricRegistry: [metrics -> number of its Arc, 0 if not registered]
    metric,    \* [metrics -> what the Arcs made for it point to]
    made,      \* [metrics -> what was recorded, in ascending order; last of a gauge] (history)
    call,      \* [Calls -> where the call is]
    todo,      \* [Calls -> updates its recording function has left to do]
    held,      \* [Calls -> Arc it has looked up, or 0]
    graph,     \* who has the graph
    total,     \* ThroughputTracker::total
    flows,     \* ThroughputTracker::flows
    export     \* the export in progress, or the last one

vars == <<now, plan, registry, metric, made, call, todo, held, graph, total, flows, export>>

-----------------------------------------------------------------------------
(* The sum of a sequence of numbers.                                        *)
SumOf(s) ==
    LET upto[k \in 0 .. Len(s)] == IF k = 0 THEN 0 ELSE upto[k - 1] + s[k]
    IN  upto[Len(s)]

(* An ascending sequence with one more number, behind those not above it.   *)
Inserted(s, v) ==
    LET p == Min({i \in 0 .. Len(s) : i = Len(s) \/ v < s[i + 1]})
    IN  [i \in 1 .. Len(s) + 1 |-> IF i <= p THEN s[i] ELSE IF i = p + 1 THEN v ELSE s[i - 1]]

(* Metrics: the name within its scope.                                      *)
Counters == {"packets_total", "bytes_total", "packets_dropped"} \X {"flow"}
              \cup {"process_calls_total", "errors_total"} \X Nodes
Gauges == {<<"throughput_bytes_per_sec", "flow">>} \cup {"queue_depth"} \X Nodes
Histograms == {<<"packet_latency_us", "flow">>} \cup {"process_duration_us"} \X Nodes
MetricName == Counters \cup Gauges \cup Histograms

Buckets == 1 .. Len(Bounds) + 1
NewHistogram == [counts |-> [b \in Buckets |-> 0], sum |-> 0, count |-> 0]

(* The bucket observe counts a value in: the first bound not below it.      *)
BucketOf(v) == Min({b \in 1 .. Len(Bounds) : v <= Bounds[b]} \cup {Len(Bounds) + 1})

Observe(h, v) ==
    [counts |-> [h.counts EXCEPT ![BucketOf(v)] = @ + 1], sum |-> h.sum + v, count |-> h.count + 1]

(* Counter::increment, Gauge::set and Histogram::observe.                   *)
Update(m, old, v) ==
    CASE m \in Counters   -> old + v
      [] m \in Gauges     -> v
      [] m \in Histograms -> Observe(old, v)

NewMetric(m) == IF m \in Histograms THEN NewHistogram ELSE 0
Registered(m) == registry[m] # 0
Current(m) == metric[m][registry[m]]

(* mutant: a lookup registers the metric whether or not it is known         *)
EntryReplaces(m) ==
    /\ registry' = [registry EXCEPT ![m] = @ + 1]
    /\ metric' = [metric EXCEPT ![m] = Append(@, NewMetric(m))]

(* entry(..).or_default(), or_insert_with: the metric under this name.      *)
Entry(m) ==
    IF Registered(m) THEN UNCHANGED <<registry, metric>>
    ELSE /\ registry' = [registry EXCEPT ![m] = 1]
         /\ metric' = [metric EXCEPT ![m] = << NewMetric(m) >>]

-----------------------------------------------------------------------------
(* What the recording functions of execution.rs do, update by update.       *)
Op(name, scope, v) == [metric |-> <<name, scope>>, value |-> v]

RecordFlowEntry(len) ==
    << Op("packets_total", "flow", 1), Op("bytes_total", "flow", len) >>

RecordNodeMetrics(n, elapsed, depth, succeeded) ==
    << Op("process_calls_total", n, 1), Op("process_duration_us", n, elapsed), Op("queue_depth", n, depth) >>
      \o (IF succeeded THEN <<>> ELSE << Op("errors_total", n, 1) >>)

RecordFlowExit(elapsed, reachedExit) ==
    << IF reachedExit THEN Op("packet_latency_us", "flow", elapsed) ELSE Op("packets_dropped", "flow", 1) >>

(* A call looks up the metric it is to update next, and updates it.         *)
Lookup(c) ==
    /\ todo[c] # <<>> /\ held[c] = 0
    /\ Entry(Head(todo[c]).metric)
    /\ held' = [held EXCEPT ![c] = registry'[Head(todo[c]).metric]]
    /\ UNCHANGED <<now, plan, made, call, todo, graph, total, flows, export>>

Apply(c) ==
    /\ held[c] # 0
    /\ LET op == Head(todo[c])
       IN  /\ metric' = [metric EXCEPT ![op.metric][held[c]] = Update(op.metric, @, op.value)]
           /\ made' = [made EXCEPT ![op.metric] = IF op.metric \in Gauges THEN << op.value >>
                                                  ELSE Inserted(@, op.value)]
    /\ todo' = [todo EXCEPT ![c] = Tail(@)] /\ held' = [held EXCEPT ![c] = 0]
    /\ UNCHANGED <<now, plan, registry, call, graph, total, flows, export>>

Idle(c) == todo[c] = <<>>

-----------------------------------------------------------------------------
(* ThroughputTracker.                                                       *)

(* The entries before the first one that is recent enough are popped.       *)
Stale(w, cutoff) == Min({i \in 0 .. Len(w) : i = Len(w) \/ w[i + 1].at >= cutoff})
PruneWindow(w, cutoff) == SubSeq(w, Stale(w, cutoff) + 1, Len(w))

Prune(t, fs) ==
    <<PruneWindow(t, now - Window), [f \in Flows |-> PruneWindow(fs[f], now - Window)]>>

BytesOf(w) == SumOf([i \in DOMAIN w |-> w[i].bytes])
Elapsed(w) == IF w = <<>> THEN 0 ELSE w[Len(w)].at - w[1].at

Denominator(w) == IF Elapsed(w) > Window \/ Elapsed(w) = 0 THEN Window ELSE Elapsed(w)

(* Whole bytes per tick, as the gauge has them.                             *)
RateFromWindow(w) == BytesOf(w) \div Denominator(w)

(* export_gauges: the rate of the total, if a registry is attached.         *)
ExportGauges(t) == << Op("throughput_bytes_per_sec", "flow", RateFromWindow(t)) >>

Recorded(f, bytes) ==
    LET entry == [at |-> now, bytes |-> bytes]
    IN  Prune(Append(total, entry), [flows EXCEPT ![f] = Append(@, entry)])

-----------------------------------------------------------------------------
(* Calls.                                                                   *)

(* A recording function given no registry does nothing.                     *)
IfMeasured(c, ops) == IF plan[c] = "tracked" THEN <<>> ELSE ops

(* execute_sequential: the tracker, then the flow metrics; the graph is     *)
(* borrowed all along.  The tracker's gauge is the first update.            *)
StartSequential(c, f, len) ==
    /\ plan[c] \in {"sequential", "tracked"} /\ call[c].at = "idle" /\ graph = NoOne
    /\ graph' = c
    /\ LET after == Recorded(f, len)
       IN  /\ total' = after[1] /\ flows' = after[2]
           /\ todo' = [todo EXCEPT ![c] = IfMeasured(c,
                         ExportGauges(after[1]) \o RecordFlowEntry(len))]
    /\ call' = [call EXCEPT ![c].at = "walking"]
    /\ UNCHANGED <<now, plan, registry, metric, made, held, export>>

(* execute_parallel: no tracker, and no lock yet.                           *)
StartParallel(c, len) ==
    /\ plan[c] = "parallel" /\ call[c].at = "idle"
    /\ todo' = [todo EXCEPT ![c] = RecordFlowEntry(len)]
    /\ call' = [call EXCEPT ![c].at = "walking"]
    /\ UNCHANGED <<now, plan, registry, metric, made, held, graph, total, flows, export>>

(* record_and_check_processing_time, once process has returned.             *)
WithinBudget(elapsed) == elapsed <= Budget

(* A node processes a packet: it passes it on, absorbs it or fails; that it *)
(* took longer than its budget is found out after the call was recorded.    *)
Hop(c, n, elapsed, depth, outcome) ==
    /\ call[c].at = "walking" /\ Idle(c) /\ call[c].hops < MaxHops
    /\ graph = IF plan[c] = "parallel" THEN NoOne ELSE c
    /\ graph' = c
    /\ todo' = [todo EXCEPT ![c] = IfMeasured(c, RecordNodeMetrics(n, elapsed, depth, outcome # "error"))]
    /\ call' = [call EXCEPT ![c] = [at |-> "in node", hops |-> @.hops + 1,
                                   alive |-> outcome = "passed" /\ WithinBudget(elapsed)]]
    /\ UNCHANGED <<now, plan, registry, metric, made, held, total, flows, export>>

(* The hop is over: walk_node returns and drops its guard.                  *)
HopEnd(c) ==
    /\ call[c].at = "in node" /\ Idle(c)
    /\ call' = [call EXCEPT ![c].at = IF call[c].alive THEN "walking" ELSE "leaving"]
    /\ graph' = IF plan[c] = "parallel" THEN NoOne ELSE graph
    /\ UNCHANGED <<now, plan, registry, metric, made, todo, held, total, flows, export>>

(* The traversal is over.  A packet that has passed a node may be at an exit *)
(* point; else it is dropped: absorbed, or an error ends the call, as it    *)
(* does where the entry is refused, the payload rejected, a queue full or   *)
(* no edge accepts the packet.                                              *)
Leave(c, elapsed, reachedExit) ==
    /\ Idle(c)
    /\ \/ call[c].at = "walking" /\ (reachedExit => call[c].hops > 0)
       \/ call[c].at = "leaving" /\ ~reachedExit
    /\ todo' = [todo EXCEPT ![c] = IfMeasured(c, RecordFlowExit(elapsed, reachedExit))]
    /\ call' = [call EXCEPT ![c].at = "left"]
    /\ UNCHANGED <<now, plan, registry, metric, made, held, graph, total, flows, export>>

Return(c) ==
    /\ call[c].at = "left" /\ Idle(c)
    /\ call' = [call EXCEPT ![c].at = "done"]
    /\ graph' = IF graph = c THEN NoOne ELSE graph
    /\ UNCHANGED <<now, plan, registry, metric, made, todo, held, total, flows, export>>

-----------------------------------------------------------------------------
(* Exports.  The flow's metrics are copied like the nodes' and left out:    *)
(* nothing is said of them here.                                            *)

Phases == << {"process_calls_total", "errors_total"} \X Nodes, {"queue_depth"} \X Nodes,
             {"process_duration_us"} \X Nodes >>
Known(metrics) == {m \in metrics : Registered(m)}

NotExported == [phase |-> 0, dump |-> FALSE, owed |-> {}, seen |-> <<>>, nodes |-> <<>>]

BeginExport(dump) ==
    export' = [NotExported EXCEPT !.phase = 1, !.dump = dump, !.owed = Known(Phases[1])]

(* MetricRegistry::export_json, by whoever holds the registry.              *)
StartExport ==
    /\ export.phase = 0 /\ BeginExport(FALSE)
    /\ UNCHANGED <<now, plan, registry, metric, made, call, todo, held, graph, total, flows>>

(* mutant: the metrics are taken before the graph is                        *)
StartDumpUnlocked ==
    /\ export.phase = 0 /\ BeginExport(TRUE)
    /\ UNCHANGED <<now, plan, registry, metric, made, call, todo, held, graph, total, flows>>

(* build_debug_dump borrows the graph for both of its parts.                *)
StartDump ==
    /\ export.phase = 0 /\ graph = NoOne
    /\ graph' = Dump /\ BeginExport(TRUE)
    /\ UNCHANGED <<now, plan, registry, metric, made, call, todo, held, total, flows>>

(* A map with one more entry.                                               *)
With(f, x, v) == [y \in DOMAIN f \cup {x} |-> IF y = x THEN v ELSE f[y]]

(* One entry is copied; the map's iteration reaches all that were there     *)
(* when it began, and perhaps some that are registered meanwhile.           *)
ReadEntry(m) ==
    /\ export.phase \in DOMAIN Phases /\ m \in Known(Phases[export.phase]) \ DOMAIN export.seen
    /\ export' = [export EXCEPT !.seen = With(@, m, Current(m)), !.owed = @ \ {m}]
    /\ UNCHANGED <<now, plan, registry, metric, made, call, todo, held, graph, total, flows>>

NextPhase ==
    /\ export.phase \in DOMAIN Phases /\ export.owed = {}
    /\ export' = [export EXCEPT !.phase = @ + 1,
                    !.owed = IF export.phase < Len(Phases) THEN Known(Phases[export.phase + 1]) ELSE {}]
    /\ UNCHANGED <<now, plan, registry, metric, made, call, todo, held, graph, total, flows>>

(* node_metrics_export: nothing for a node nothing was recorded for.        *)
ValueOr0(m) == IF Registered(m) THEN Current(m) ELSE 0
ShownOf(n) == {"process_calls_total", "errors_total", "queue_depth"} \X {n}
NodeMetricsExport(n) == [m \in {x \in ShownOf(n) : Known(ShownOf(n)) # {}} |-> ValueOr0(m)]

(* export_graph, the second part of a dump, and the end of the borrow.      *)
ExportGraph ==
    /\ export.phase = Len(Phases) + 1 /\ export.dump
    /\ export' = [export EXCEPT !.phase = @ + 1, !.nodes = [n \in Nodes |-> NodeMetricsExport(n)]]
    /\ graph' = IF graph = Dump THEN NoOne ELSE graph
    /\ UNCHANGED <<now, plan, registry, metric, made, call, todo, held, total, flows>>

(* Time passes; bound: while a call that has a tracker only is to start.    *)
Tick ==
    /\ now < MaxTime /\ now' = now + 1
    /\ \E c \in Calls : plan[c] = "tracked" /\ call[c].at = "idle"
    /\ UNCHANGED <<plan, registry, metric, made, call, todo, held, graph, total, flows, export>>

-----------------------------------------------------------------------------
Init ==
    /\ now = 0 /\ plan \in Plans
    /\ registry = [m \in MetricName |-> 0] /\ metric = [m \in MetricName |-> <<>>]
    /\ made = [m \in MetricName |-> <<>>]
    /\ call = [c \in Calls |-> [at |-> "idle", hops |-> 0, alive |-> TRUE]]
    /\ todo = [c \in Calls |-> <<>>] /\ held = [c \in Calls |-> 0]
    /\ graph = NoOne /\ total = <<>> /\ flows = [f \in Flows |-> <<>>]
    /\ export = NotExported

CallStep(c) ==
    \/ \E len \in Lengths : StartParallel(c, len) \/ \E f \in Flows : StartSequential(c, f, len)
    \/ \E n \in Nodes, us \in Durations, d \in Depths, o \in {"passed", "absorbed", "error"} :
         Hop(c, n, us, d, o)
    \/ Lookup(c) \/ Apply(c) \/ HopEnd(c) \/ Return(c)
    \/ \E us \in Durations, reachedExit \in BOOLEAN : Leave(c, us, reachedExit)

ExportStep ==
    \/ StartExport \/ StartDump \/ NextPhase \/ ExportGraph
    \/ \E m \in MetricName : ReadEntry(m)

Next == (\E c \in Calls : CallStep(c)) \/ ExportStep \/ Tick

Spec == Init /\ [][Next]_vars

-----------------------------------------------------------------------------
(* HistogramSnapshot::percentile, for p = num / 100, as a fraction.         *)

(* mutant: the rank is rounded down                                         *)
RankFloor(num, count) == (num * count) \div 100

Rank(num, count) == (num * count + 99) \div 100

Cumulative(h, b) == SumOf([i \in 1 .. b |-> h.counts[i]])
Edge(b) == IF b = 0 THEN 0 ELSE Bounds[b]

None == [num |-> 0, den |-> 0]

Percentile(h, num) ==
    LET target == Rank(num, h.count)
        reached == {b \in 1 .. Len(Bounds) : target <= Cumulative(h, b)}
        b == Min(reached)
        width == Edge(b) - Edge(b - 1)
    IN  IF h.count = 0 THEN None
        ELSE IF Bounds = <<>> THEN [num |-> h.sum, den |-> h.count]
        ELSE IF reached = {} THEN [num |-> Last(Bounds), den |-> 1]
        ELSE IF h.counts[b] = 0 THEN [num |-> Edge(b - 1), den |-> 1]
        ELSE [num |-> Edge(b - 1) * h.counts[b] + (target - Cumulative(h, b - 1)) * width,
              den |-> h.counts[b]]

-----------------------------------------------------------------------------
(* Types; the graph is with a call in the middle of a hop, a sequential     *)
(* call or a dump.                                                          *)
TypeOK ==
    /\ now \in 0 .. MaxTime
    /\ \A m \in MetricName : registry[m] = Len(metric[m]) /\ registry[m] <= 1
    /\ \A c \in Calls : held[c] # 0 => held[c] = registry[Head(todo[c]).metric]
    /\ graph \in Calls \cup {NoOne, Dump}
    /\ \A c \in Calls : (call[c].at = "in node") => graph = c
    /\ graph = Dump => export.dump

(* Recording never loses an observation, although a task looks a metric up  *)
(* before it updates it and others may register it in between: what the     *)
(* registry has under a name is exactly what was recorded under it.         *)
NothingLost ==
    \A m \in MetricName : Registered(m) =>
        CASE m \in Counters   -> Current(m) = SumOf(made[m])
          [] m \in Gauges     -> Current(m) = (IF made[m] = <<>> THEN 0 ELSE Last(made[m]))
          [] m \in Histograms ->
               Current(m) = [counts |-> [b \in Buckets |->
                                           Cardinality({i \in 1 .. Len(made[m]) : BucketOf(made[m][i]) = b})],
                             sum |-> SumOf(made[m]), count |-> Len(made[m])]

(* An exported percentile is in the bucket of the observation it stands     *)
(* for, the ceil(p * n)-th smallest, however the buckets were filled.       *)
PercentileBrackets ==
    Bounds # <<>> => \A m \in Known(Histograms) : \A p \in {1, 50, 95, 99, 100} :
        LET h == Current(m)
            b == BucketOf(made[m][(p * h.count + 99) \div 100])
            v == Percentile(h, p)
        IN  IF h.count = 0 THEN v = None
            ELSE IF b > Len(Bounds) THEN v = [num |-> Last(Bounds), den |-> 1]
            ELSE Edge(b - 1) * v.den < v.num /\ v.num <= Edge(b) * v.den

(* An export is not a snapshot, but its durations are never behind its      *)
(* call counts by more than the one hop that may be in progress: counters   *)
(* are copied before histograms, and hops are recorded under the graph lock. *)
ExportCoherent ==
    \A n \in Nodes :
        LET calls == <<"process_calls_total", n>>
            durations == <<"process_duration_us", n>>
        IN  export.phase > Len(Phases) /\ calls \in DOMAIN export.seen =>
              export.seen[calls] <= 1 + (IF durations \in DOMAIN export.seen
                                         THEN export.seen[durations].count ELSE 0)

(* The two parts of a debug dump tell the same story, although they read    *)
(* the registry at different times while calls are under way: every metric  *)
(* shown with a node has the value the metrics part has for it, and no node *)
(* has failed more often than it was called.                                *)
DumpAgrees ==
    export.nodes # <<>> =>
        \A n \in Nodes :
            LET shown == export.nodes[n]
            IN  /\ \A m \in DOMAIN shown :
                     shown[m] = IF m \in DOMAIN export.seen THEN export.seen[m] ELSE 0
                /\ <<"errors_total", n>> \in DOMAIN shown =>
                     shown[<<"errors_total", n>>] <= shown[<<"process_calls_total", n>>]

(* The sum of a number of each flow.                                        *)
OverFlows(w) == LET ids == SetToSeq(Flows) IN SumOf([i \in DOMAIN ids |-> w[ids[i]]])

(* The tracker's total is its flows put together, after every pruning, and  *)
(* none of them spans more than the window.  What is made of it is not      *)
(* judged: over no elapsed time the rate is bytes per window, where         *)
(* throughput.rs:122 says zero.                                             *)
WindowsAgree ==
    /\ BytesOf(total) = OverFlows([f \in Flows |-> BytesOf(flows[f])])
    /\ Len(total) = OverFlows([f \in Flows |-> Len(flows[f])])
    /\ \A w \in {total} \cup Range(flows) : Elapsed(w) <= Window

(* Nothing recorded is lost, by the registry or by the tracker's windows.    *)
RecordsKept == TypeOK /\ NothingLost /\ WindowsAgree

(* What is exported while calls go on is consistent as far as it can be.     *)
ExportsAgree == ExportCoherent /\ DumpAgrees
==============================================================================
