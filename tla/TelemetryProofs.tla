--------------------------- MODULE TelemetryProofs ---------------------------
(***************************************************************************)
(* Theorems about Telemetry: what is exported while calls record is        *)
(* consistent as far as it can be (ExportsAgree), nothing that is recorded *)
(* is lost (RecordsKept), and a percentile brackets the observation it     *)
(* stands for (PercentileBrackets).                                        *)
(*                                                                         *)
(* ExportInv relates three things: what the call in the middle of a hop has *)
(* still to record (Listed, and OneHop: at most one call is), how far the  *)
(* metrics of a node may be apart meanwhile (Gaps), and what an export has *)
(* copied to what is registered now (Copied).  RecordInv adds that every   *)
(* metric holds what was recorded under its name (Kept), and WindowInv that *)
(* the tracker's total agrees with its flows not only now but for whatever *)
(* a later pruning leaves (Agreement).                                     *)
(***************************************************************************)
EXTENDS Telemetry, SequenceTheorems, FiniteSetTheorems, WellFoundedInduction, TLAPS

CallsOf(n) == <<"process_calls_total", n>>
DurationsOf(n) == <<"process_duration_us", n>>
DepthOf(n) == <<"queue_depth", n>>
ErrorsOf(n) == <<"errors_total", n>>

(* The metrics record_node_metrics updates.                                 *)
NodeMetrics == {"process_calls_total", "errors_total", "queue_depth", "process_duration_us"} \X Nodes

InNode(c) == call[c].at = "in node"

(* The durations observed for a node.                                       *)
Observed(n) == IF Registered(DurationsOf(n)) THEN Current(DurationsOf(n)).count ELSE 0

-----------------------------------------------------------------------------
(* Types.  What a list of updates holds is one operation per entry; the      *)
(* values of gauges may be anything.                                        *)

Ops(V) == [metric : MetricName, value : V]
Places == {"idle", "walking", "in node", "leaving", "left", "done"}

Metrics ==
    /\ registry \in [MetricName -> {0, 1}]
    /\ DOMAIN metric = MetricName
    /\ \A m \in MetricName : Registered(m) => DOMAIN metric[m] = {1}
    /\ \A m \in Counters : Registered(m) => Current(m) \in Nat
    /\ \A m \in Histograms : Registered(m) => Current(m).count \in Nat

Lists ==
    /\ \E V : todo \in [Calls -> Seq(Ops(V))]
    /\ held \in [Calls -> {0, 1}]
    /\ \A c \in Calls : held[c] = 1 => ~Idle(c) /\ Registered(todo[c][1].metric)
    /\ \A c \in Calls : \A i \in 1 .. Len(todo[c]) :
           todo[c][i].metric \notin Gauges => todo[c][i].value \in Nat

CallTypes ==
    /\ call \in [Calls -> [at : Places, hops : Nat, alive : BOOLEAN]]
    /\ \A c \in Calls : call[c].at = "idle" => Idle(c)

Types == Metrics /\ Lists /\ CallTypes

(* Who processes a packet has the graph; so at most one call does.          *)
OneHop == \A c \in Calls : InNode(c) => graph = c

(* What a call has left to do, by place: nothing about a node unless it is   *)
(* in one, and then the number of calls before the duration before whether  *)
(* it failed, each once.                                                    *)
ListedFor(c, n) ==
    LET s == todo[c]
    IN  \A i \in 1 .. Len(s) :
            /\ s[i].metric = CallsOf(n) => i = 1 /\ Len(s) >= 2 /\ s[2].metric = DurationsOf(n)
            /\ s[i].metric = DurationsOf(n) => i <= 2 /\ (i = 2 => s[1].metric = CallsOf(n))
            /\ s[i].metric = ErrorsOf(n) => i = Len(s)
            /\ s[i].metric \in {CallsOf(n), ErrorsOf(n)} => s[i].value = 1

Listed ==
    \A c \in Calls :
        /\ ~InNode(c) => \A i \in 1 .. Len(todo[c]) : todo[c][i].metric \notin NodeMetrics
        /\ \A n \in Nodes : ListedFor(c, n)

(* A call was counted at n whose duration is yet to be observed, or which    *)
(* failed and is yet to be counted as such.                                 *)
DurationDue(n) ==
    \E c \in Calls : InNode(c) /\ ~Idle(c) /\ todo[c][1].metric = DurationsOf(n)
ErrorDue(n) ==
    \E c \in Calls : /\ InNode(c) /\ ~Idle(c)
                     /\ todo[c][1].metric # CallsOf(n)
                     /\ todo[c][Len(todo[c])].metric = ErrorsOf(n)

Gaps ==
    \A n \in Nodes :
        /\ ValueOr0(CallsOf(n)) <= Observed(n) + (IF DurationDue(n) THEN 1 ELSE 0)
        /\ ValueOr0(ErrorsOf(n)) + (IF ErrorDue(n) THEN 1 ELSE 0) <= ValueOr0(CallsOf(n))

-----------------------------------------------------------------------------
(* The metrics by kind and by scope.                                        *)
LEMMA MetricKinds ==
    /\ NodeMetrics \subseteq MetricName
    /\ \A n \in Nodes : /\ {CallsOf(n), ErrorsOf(n)} \subseteq Counters \cap NodeMetrics
                        /\ DurationsOf(n) \in Histograms \cap NodeMetrics
                        /\ DepthOf(n) \in Gauges \cap NodeMetrics
    /\ Counters \cap Histograms = {} /\ Counters \cap Gauges = {} /\ Gauges \cap Histograms = {}
    /\ MetricName = Counters \cup Gauges \cup Histograms
BY DEF NodeMetrics, MetricName, Counters, Gauges, Histograms, CallsOf, ErrorsOf, DurationsOf, DepthOf

LEMMA NamesDiffer ==
    \A n, k \in Nodes :
        /\ CallsOf(n) # ErrorsOf(k) /\ CallsOf(n) # DurationsOf(k) /\ CallsOf(n) # DepthOf(k)
        /\ ErrorsOf(n) # DurationsOf(k) /\ ErrorsOf(n) # DepthOf(k) /\ DurationsOf(n) # DepthOf(k)
        /\ CallsOf(n) = CallsOf(k) \/ ErrorsOf(n) = ErrorsOf(k) \/ DurationsOf(n) = DurationsOf(k) => n = k
BY DEF CallsOf, ErrorsOf, DurationsOf, DepthOf

-----------------------------------------------------------------------------
(* Lists of updates.                                                        *)

(* What a list that is written down is.                                     *)
FlowList(s) ==
    /\ \E W : s \in Seq(Ops(W))
    /\ \A i \in 1 .. Len(s) : /\ s[i].metric \notin NodeMetrics
                              /\ s[i].metric \notin Gauges => s[i].value \in Nat

LEMMA NoList == FlowList(<<>>)
<1>1. <<>> \in Seq(Ops({}))
    OBVIOUS
<1>2. QED
    BY <1>1 DEF FlowList

LEMMA EntryList ==
    ASSUME NEW len \in Lengths
    PROVE  FlowList(RecordFlowEntry(len))
<1>1. len \in Nat
    BY TelemetryAssumption
<1>2. {<<"packets_total", "flow">>, <<"bytes_total", "flow">>} \subseteq MetricName \ NodeMetrics
    BY DEF MetricName, Counters, NodeMetrics
<1>3. RecordFlowEntry(len) \in Seq(Ops(Nat))
    BY <1>1, <1>2 DEF RecordFlowEntry, Op, Ops
<1>4. QED
    BY <1>1, <1>2, <1>3 DEF RecordFlowEntry, Op, FlowList

LEMMA SequentialList ==
    ASSUME NEW len \in Lengths, NEW t
    PROVE  FlowList(ExportGauges(t) \o RecordFlowEntry(len))
<1>1. len \in Nat
    BY TelemetryAssumption
<1>2. {<<"packets_total", "flow">>, <<"bytes_total", "flow">>, <<"throughput_bytes_per_sec", "flow">>}
          \subseteq MetricName \ NodeMetrics
    BY DEF MetricName, Counters, Gauges, NodeMetrics
<1>3. <<"throughput_bytes_per_sec", "flow">> \in Gauges
    BY DEF Gauges
<1> DEFINE rate == RateFromWindow(t)
           V == Nat \cup {rate}
           first == Op("throughput_bytes_per_sec", "flow", rate)
           others == RecordFlowEntry(len)
<1>4. /\ others = << Op("packets_total", "flow", 1), Op("bytes_total", "flow", len) >>
      /\ ExportGauges(t) = << first >>
    BY DEF RecordFlowEntry, ExportGauges
<1>5. /\ first \in Ops(V) /\ first.metric \in Gauges \ NodeMetrics
      /\ others \in Seq(Ops(V)) /\ Len(others) = 2
      /\ \A i \in 1 .. 2 : others[i].metric \notin NodeMetrics /\ others[i].value \in Nat
    <2> HIDE DEF rate, others
    <2> QED BY <1>1, <1>2, <1>3, <1>4 DEF Op, Ops
<1> HIDE DEF V, first, others
<1>6. <<first>> \in Seq(Ops(V)) /\ Len(<<first>>) = 1 /\ others \in Seq(Ops(V)) /\ Len(others) = 2
    BY <1>5
<1>7. /\ <<first>> \o others \in Seq(Ops(V))
      /\ Len(<<first>> \o others) = 3
      /\ \A i \in 1 .. 3 : (<<first>> \o others)[i] = IF i <= 1 THEN first ELSE others[i - 1]
    <2>1. /\ <<first>> \o others \in Seq(Ops(V))
          /\ Len(<<first>> \o others) = Len(<<first>>) + Len(others)
          /\ \A i \in 1 .. Len(<<first>>) + Len(others) :
                 (<<first>> \o others)[i] = IF i <= Len(<<first>>) THEN <<first>>[i] ELSE others[i - Len(<<first>>)]
        BY <1>6, ConcatProperties, Zenon
    <2>2. Len(<<first>>) = 1 /\ <<first>>[1] = first /\ Len(<<first>>) + Len(others) = 3
        BY <1>6
    <2>3. \A i \in 1 .. 3 : i <= 1 => i = 1
        OBVIOUS
    <2>4. QED
        BY <1>6, <2>1, <2>2, <2>3
<1>8. FlowList(<<first>> \o others)
    BY <1>5, <1>7 DEF FlowList
<1>9. QED
    BY <1>4, <1>8 DEF others

LEMMA ExitList ==
    ASSUME NEW us \in Durations, NEW r \in BOOLEAN
    PROVE  FlowList(RecordFlowExit(us, r))
<1>1. us \in Nat
    BY TelemetryAssumption
<1>2. {<<"packet_latency_us", "flow">>, <<"packets_dropped", "flow">>} \subseteq MetricName \ NodeMetrics
    BY DEF MetricName, Counters, Histograms, NodeMetrics
<1>3. RecordFlowExit(us, r) \in Seq(Ops(Nat))
    BY <1>1, <1>2 DEF RecordFlowExit, Op, Ops
<1>4. QED
    BY <1>1, <1>2, <1>3 DEF RecordFlowExit, Op, FlowList

(* What a hop is to record: the list is empty for a call without registry.  *)
HopList(s) ==
    /\ s \in Seq(Ops(Nat))
    /\ \A i \in 1 .. Len(s) : s[i].metric \notin Gauges => s[i].value \in Nat
    /\ \A n \in Nodes : \A i \in 1 .. Len(s) :
            /\ s[i].metric = CallsOf(n) => i = 1 /\ Len(s) >= 2 /\ s[2].metric = DurationsOf(n)
            /\ s[i].metric = DurationsOf(n) => i <= 2 /\ (i = 2 => s[1].metric = CallsOf(n))
            /\ s[i].metric = ErrorsOf(n) => i = Len(s)
            /\ s[i].metric \in {CallsOf(n), ErrorsOf(n)} => s[i].value = 1
    /\ s # <<>> => \A n \in Nodes : s[Len(s)].metric = ErrorsOf(n) => s[1].metric = CallsOf(n)

LEMMA NodeList ==
    ASSUME NEW n \in Nodes, NEW us \in Durations, NEW d \in Depths, NEW ok \in BOOLEAN
    PROVE  HopList(RecordNodeMetrics(n, us, d, ok)) /\ HopList(<<>>)
<1>1. us \in Nat /\ d \in Nat
    BY TelemetryAssumption
<1> DEFINE a == Op("process_calls_total", n, 1)
           b == Op("process_duration_us", n, us)
           q == Op("queue_depth", n, d)
           e == Op("errors_total", n, 1)
<1>2. /\ {a, b, q, e} \subseteq Ops(Nat)
      /\ a.metric = CallsOf(n) /\ b.metric = DurationsOf(n)
      /\ q.metric = DepthOf(n) /\ e.metric = ErrorsOf(n)
      /\ a.value = 1 /\ e.value = 1 /\ b.value \in Nat /\ q.value \in Nat
    BY <1>1, MetricKinds DEF Op, Ops, CallsOf, DurationsOf, DepthOf, ErrorsOf
<1>3. RecordNodeMetrics(n, us, d, ok) = <<a, b, q>> \o (IF ok THEN <<>> ELSE <<e>>)
    BY DEF RecordNodeMetrics
<1> HIDE DEF a, b, q, e
<1>4. <<a, b, q>> \in Seq(Ops(Nat)) /\ <<e>> \in Seq(Ops(Nat))
    BY <1>2
<1>5. /\ <<a, b, q>> \o <<e>> \in Seq(Ops(Nat))
      /\ Len(<<a, b, q>> \o <<e>>) = 4
      /\ \A i \in 1 .. 4 : (<<a, b, q>> \o <<e>>)[i] = IF i <= 3 THEN <<a, b, q>>[i] ELSE <<e>>[i - 3]
    BY <1>4, ConcatProperties
<1>6. HopList(<<a, b, q>> \o <<e>>)
    BY <1>2, <1>5, NamesDiffer DEF HopList
<1>7. HopList(<<a, b, q>>)
    BY <1>2, <1>4, NamesDiffer DEF HopList
<1>8. <<a, b, q>> \o <<>> = <<a, b, q>>
    BY <1>4, ConcatEmptySeq
<1>9. HopList(<<>>)
    BY DEF HopList
<1>10. QED
    BY <1>3, <1>6, <1>7, <1>8, <1>9

-----------------------------------------------------------------------------
(* Lookups and updates.                                                     *)

(* A lookup changes no metric that is registered; the one it registers, if   *)
(* any, is new.                                                             *)
LEMMA LookupEffect ==
    ASSUME Metrics, Lists, NEW c \in Calls, Lookup(c), NEW m0, m0 = todo[c][1].metric
    PROVE  /\ Metrics'
           /\ m0 \in MetricName /\ todo[c] # <<>>
           /\ \A m \in MetricName :
                  /\ m # m0 => registry'[m] = registry[m]
                  /\ Registered(m) => registry'[m] = registry[m] /\ Current(m)' = Current(m)
                  /\ ~Registered(m) /\ registry'[m] # 0 => Current(m)' = NewMetric(m)
           /\ registry'[m0] = 1 /\ held' = [held EXCEPT ![c] = 1]
<1>1. PICK V : todo \in [Calls -> Seq(Ops(V))]
    BY DEF Lists
<1>2. /\ todo[c] \in Seq(Ops(V)) /\ todo[c] # <<>> /\ Head(todo[c]).metric = m0
      /\ todo[c][1] \in Ops(V) /\ m0 \in MetricName
    <2>1. todo[c] \in Seq(Ops(V)) /\ todo[c] # <<>>
        BY <1>1 DEF Lookup
    <2>2. Head(todo[c]) = todo[c][1] /\ Head(todo[c]) \in Ops(V)
        BY <2>1
    <2>3. QED
        BY <2>1, <2>2 DEF Ops
<1>3. CASE Registered(m0)
    <2>1. UNCHANGED <<registry, metric>>
        BY <1>2, <1>3 DEF Lookup, Entry
    <2>2. registry[m0] = 1
        BY <1>2, <1>3 DEF Registered, Metrics
    <2>3. QED
        BY <2>1, <2>2, <1>2 DEF Metrics, Registered, Current, Lookup
<1>4. CASE ~Registered(m0)
    <2>1. /\ registry' = [registry EXCEPT ![m0] = 1]
          /\ metric' = [metric EXCEPT ![m0] = << NewMetric(m0) >>]
        BY <1>2, <1>4 DEF Lookup, Entry
    <2>2. /\ \A m \in MetricName \ {m0} : registry'[m] = registry[m] /\ metric'[m] = metric[m]
          /\ registry'[m0] = 1 /\ metric'[m0] = << NewMetric(m0) >>
          /\ registry' \in [MetricName -> {0, 1}] /\ DOMAIN metric' = MetricName
        BY <2>1, <1>2 DEF Metrics
    <2>3. Current(m0)' = NewMetric(m0)
        BY <2>2 DEF Current
    <2>4. /\ m0 \in Counters => NewMetric(m0) \in Nat
          /\ m0 \in Histograms => NewMetric(m0).count \in Nat
        BY MetricKinds DEF NewMetric, NewHistogram
    <2>5. DOMAIN << NewMetric(m0) >> = {1}
        OBVIOUS
    <2>6. Metrics'
        BY <2>2, <2>3, <2>4, <2>5, MetricKinds DEF Metrics, Registered, Current
    <2>7. QED
        BY <1>2, <1>4, <2>2, <2>3, <2>6 DEF Registered, Current, Lookup
<1>5. QED
    BY <1>3, <1>4

(* An update changes the metric it is of, and no other.                     *)
LEMMA ApplyEffect ==
    ASSUME Metrics, Lists, NEW c \in Calls, Apply(c),
           NEW m0, NEW v, m0 = todo[c][1].metric, v = todo[c][1].value
    PROVE  /\ Metrics'
           /\ m0 \in MetricName /\ Registered(m0) /\ todo[c] # <<>>
           /\ m0 \notin Gauges => v \in Nat
           /\ Current(m0)' = Update(m0, Current(m0), v)
           /\ registry' = registry
           /\ \A m \in MetricName \ {m0} : Current(m)' = Current(m)
<1>1. PICK V : todo \in [Calls -> Seq(Ops(V))]
    BY DEF Lists
<1>0. /\ held[c] # 0 /\ registry' = registry
      /\ metric' = [metric EXCEPT ![Head(todo[c]).metric][held[c]] =
                        Update(Head(todo[c]).metric, @, Head(todo[c]).value)]
    BY Zenon DEF Apply
<1>2. held[c] = 1 /\ todo[c] # <<>> /\ Registered(m0)
    BY <1>0 DEF Lists, Idle
<1>3. todo[c] \in Seq(Ops(V)) /\ Head(todo[c]) = todo[c][1] /\ todo[c][1] \in Ops(V) /\ 1 \in 1 .. Len(todo[c])
    BY <1>1, <1>2
<1>4. m0 \in MetricName
    BY <1>3 DEF Ops
<1>5. m0 \notin Gauges => v \in Nat
    BY <1>3 DEF Lists
<1>6. /\ metric' = [metric EXCEPT ![m0][1] = Update(m0, @, v)]
      /\ registry' = registry
    BY <1>0, <1>2, <1>3
<1>7. /\ registry[m0] = 1 /\ DOMAIN metric[m0] = {1}
      /\ Current(m0) = metric[m0][1]
    BY <1>2, <1>4 DEF Metrics, Registered, Current
<1>8. /\ DOMAIN metric' = MetricName
      /\ \A m \in MetricName \ {m0} : metric'[m] = metric[m]
      /\ DOMAIN metric'[m0] = {1}
      /\ metric'[m0][1] = Update(m0, metric[m0][1], v)
    BY <1>4, <1>6, <1>7 DEF Metrics
<1>9. /\ Current(m0)' = Update(m0, Current(m0), v)
      /\ \A m \in MetricName \ {m0} : Current(m)' = Current(m)
    BY <1>6, <1>7, <1>8 DEF Current
<1>10. /\ m0 \in Counters => Current(m0)' \in Nat
       /\ m0 \in Histograms => Current(m0)'.count \in Nat
    <2>1. m0 \in Counters => Current(m0)' = Current(m0) + v /\ Current(m0) \in Nat
        BY <1>2, <1>9, MetricKinds DEF Update, Metrics
    <2>2. m0 \in Histograms => Current(m0)'.count = Current(m0).count + 1 /\ Current(m0).count \in Nat
        BY <1>2, <1>9, MetricKinds DEF Update, Metrics, Observe
    <2>3. QED
        BY <2>1, <2>2, <1>5, MetricKinds
<1>11. Metrics'
    BY <1>6, <1>8, <1>9, <1>10, MetricKinds DEF Metrics, Registered
<1>12. QED
    BY <1>2, <1>4, <1>5, <1>6, <1>9, <1>11

(* What is left of a list once its first update is done.                    *)
LEMMA ListAdvances ==
    ASSUME Lists, NEW c \in Calls, todo[c] # <<>>,
           todo' = [todo EXCEPT ![c] = Tail(@)]
    PROVE  /\ Len(todo[c]) \in Nat \ {0} /\ Len(todo'[c]) = Len(todo[c]) - 1
           /\ \A i \in 1 .. Len(todo'[c]) : i + 1 \in 2 .. Len(todo[c]) /\ todo'[c][i] = todo[c][i + 1]
           /\ todo'[c] = <<>> <=> Len(todo[c]) = 1
           /\ 1 \in 1 .. Len(todo[c]) /\ Len(todo[c]) \in 1 .. Len(todo[c])
           /\ \A d \in Calls \ {c} : todo'[d] = todo[d]
           /\ \E V : todo' \in [Calls -> Seq(Ops(V))]
<1>1. PICK V : todo \in [Calls -> Seq(Ops(V))]
    BY DEF Lists
<1>2. /\ Tail(todo[c]) \in Seq(Ops(V)) /\ Len(Tail(todo[c])) = Len(todo[c]) - 1
      /\ \A i \in 1 .. Len(Tail(todo[c])) : Tail(todo[c])[i] = todo[c][i + 1]
    BY <1>1, HeadTailProperties
<1>3. Len(todo[c]) \in Nat \ {0}
    BY <1>1, EmptySeq
<1>4. Tail(todo[c]) = <<>> <=> Len(todo[c]) = 1
    <2>1. Tail(todo[c]) = <<>> <=> Len(Tail(todo[c])) = 0
        BY <1>2, EmptySeq
    <2>2. QED
        BY <1>2, <1>3, <2>1
<1>5. todo' \in [Calls -> Seq(Ops(V))] /\ todo'[c] = Tail(todo[c])
    BY <1>1, <1>2
<1>6. \A d \in Calls \ {c} : todo'[d] = todo[d]
    BY <1>1
<1>7. QED
    BY <1>2, <1>3, <1>4, <1>5, <1>6

(* A list is written down where none was left.                              *)
LEMMA ListAssigned ==
    ASSUME Lists, NEW c \in Calls, Idle(c),
           NEW W, NEW s \in Seq(Ops(W)),
           \A i \in 1 .. Len(s) : s[i].metric \notin Gauges => s[i].value \in Nat,
           todo' = [todo EXCEPT ![c] = s], UNCHANGED <<registry, held>>
    PROVE  /\ Lists'
           /\ todo'[c] = s /\ \A d \in Calls \ {c} : todo'[d] = todo[d]
<1>1. PICK V : todo \in [Calls -> Seq(Ops(V))]
    BY DEF Lists
<1>2. Ops(V) \subseteq Ops(V \cup W) /\ Ops(W) \subseteq Ops(V \cup W)
    BY DEF Ops
<1>3. \A d \in Calls : todo[d] \in Seq(Ops(V \cup W))
    BY <1>1, <1>2, SeqMonotonic
<1>4. s \in Seq(Ops(V \cup W))
    BY <1>2, SeqMonotonic
<1>5. /\ todo'[c] = s /\ \A d \in Calls \ {c} : todo'[d] = todo[d]
      /\ todo' \in [Calls -> Seq(Ops(V \cup W))]
    BY <1>1, <1>3, <1>4
<1>6. held[c] # 1
    BY DEF Lists
<1>7. Lists'
    <2>1. \E U : todo' \in [Calls -> Seq(Ops(U))]
        BY <1>5
    <2>2. \A d \in Calls : held'[d] = 1 => ~Idle(d)' /\ Registered(todo[d][1].metric)'
        BY <1>5, <1>6 DEF Lists, Idle, Registered
    <2>3. \A d \in Calls : \A i \in 1 .. Len(todo'[d]) :
              todo'[d][i].metric \notin Gauges => todo'[d][i].value \in Nat
        BY <1>5 DEF Lists
    <2>4. QED
        BY <2>1, <2>2, <2>3 DEF Lists
<1>8. QED
    BY <1>5, <1>7

-----------------------------------------------------------------------------
(* What the actions of a call do, as far as the metrics of nodes go: begin  *)
(* a list outside of nodes, begin a hop, end it, or work on the list.       *)

(* Call c has nothing to do with a node, and begins a list of none.         *)
Outside(c) ==
    /\ ~InNode(c) /\ ~InNode(c)' /\ Idle(c)
    /\ \E s : FlowList(s) /\ todo' = [todo EXCEPT ![c] = s]
    /\ \A d \in Calls \ {c} : call'[d] = call[d]
    /\ UNCHANGED <<registry, metric, held, export>>
    /\ graph' = graph \/ {graph, graph'} \subseteq {NoOne, c}
    /\ CallTypes'

(* Call c starts to process a packet in a node.                             *)
Enters(c) ==
    /\ ~InNode(c) /\ InNode(c)' /\ Idle(c)
    /\ \E s : HopList(s) /\ todo' = [todo EXCEPT ![c] = s]
    /\ \A d \in Calls \ {c} : call'[d] = call[d]
    /\ UNCHANGED <<registry, metric, held, export>>
    /\ graph \in {NoOne, c} /\ graph' = c
    /\ CallTypes'

(* Call c is done with a node.                                              *)
Exits(c) ==
    /\ InNode(c) /\ ~InNode(c)' /\ Idle(c)
    /\ \A d \in Calls \ {c} : call'[d] = call[d]
    /\ UNCHANGED <<registry, metric, held, export, todo>>
    /\ graph' \in {NoOne, graph}
    /\ CallTypes'

(* A step of c that writes its list or leaves it, and moves c away from      *)
(* the start.                                                               *)
LEMMA CallMoves ==
    ASSUME CallTypes, NEW c \in Calls,
           call' \in [Calls -> [at : Places, hops : Nat, alive : BOOLEAN]],
           call'[c].at # "idle", \A d \in Calls \ {c} : call'[d] = call[d],
           \A d \in Calls \ {c} : todo'[d] = todo[d]
    PROVE  CallTypes'
BY DEF CallTypes, Idle

LEMMA CallSteps ==
    ASSUME CallTypes, Lists, NEW c \in Calls, CallStep(c)
    PROVE  Outside(c) \/ Enters(c) \/ Exits(c) \/ Lookup(c) \/ Apply(c)
<1>1. /\ DOMAIN todo = Calls
      /\ call \in [Calls -> [at : Places, hops : Nat, alive : BOOLEAN]]
      /\ call[c].at = "idle" => Idle(c)
    BY DEF CallTypes, Lists
<1>2. ASSUME NEW len \in Lengths, StartParallel(c, len) PROVE Outside(c)
    <2>1. FlowList(RecordFlowEntry(len)) /\ todo' = [todo EXCEPT ![c] = RecordFlowEntry(len)]
        BY <1>2, EntryList DEF StartParallel
    <2>2. /\ call' \in [Calls -> [at : Places, hops : Nat, alive : BOOLEAN]]
          /\ call[c].at = "idle" /\ call'[c].at = "walking"
          /\ \A d \in Calls \ {c} : call'[d] = call[d] /\ todo'[d] = todo[d]
        BY <1>1, <1>2, <2>1 DEF StartParallel, Places
    <2>3. UNCHANGED <<registry, metric, held, export, graph>>
        BY <1>2 DEF StartParallel
    <2>4. QED
        BY <1>1, <2>1, <2>2, <2>3, CallMoves DEF Outside, InNode
<1>3. ASSUME NEW f \in Flows, NEW len \in Lengths, StartSequential(c, f, len) PROVE Outside(c)
    <2> DEFINE l == ExportGauges(Recorded(f, len)[1]) \o RecordFlowEntry(len)
               s == IF plan[c] = "tracked" THEN <<>> ELSE l
    <2>1. todo' = [todo EXCEPT ![c] = s]
        BY <1>3 DEF StartSequential, IfMeasured
    <2>2. FlowList(l)
        BY SequentialList
    <2> HIDE DEF l
    <2>3. FlowList(s)
        BY <2>2, NoList
    <2> HIDE DEF s
    <2>4. /\ call[c].at = "idle" /\ call' = [call EXCEPT ![c].at = "walking"]
          /\ graph = NoOne /\ graph' = c
          /\ UNCHANGED <<registry, metric, held, export>>
        BY <1>3 DEF StartSequential
    <2>5. /\ call' \in [Calls -> [at : Places, hops : Nat, alive : BOOLEAN]]
          /\ call'[c].at = "walking"
          /\ \A d \in Calls \ {c} : call'[d] = call[d] /\ todo'[d] = todo[d]
        BY <1>1, <2>1, <2>4 DEF Places
    <2>6. QED
        BY <1>1, <2>1, <2>3, <2>4, <2>5, CallMoves DEF Outside, InNode
<1>4. ASSUME NEW n \in Nodes, NEW us \in Durations, NEW d \in Depths,
             NEW o \in {"passed", "absorbed", "error"}, Hop(c, n, us, d, o)
      PROVE  Enters(c)
    <2> DEFINE l == RecordNodeMetrics(n, us, d, o # "error")
               s == IF plan[c] = "tracked" THEN <<>> ELSE l
               alive == o = "passed" /\ WithinBudget(us)
    <2>1. todo' = [todo EXCEPT ![c] = s]
        BY <1>4 DEF Hop, IfMeasured
    <2>2. HopList(l) /\ HopList(<<>>)
        BY NodeList
    <2> HIDE DEF l
    <2>3. HopList(s)
        BY <2>2
    <2> HIDE DEF s
    <2>4. /\ call[c].at = "walking" /\ Idle(c)
          /\ call' = [call EXCEPT ![c] = [at |-> "in node", hops |-> call[c].hops + 1,
                                         alive |-> alive]]
          /\ graph \in {NoOne, c} /\ graph' = c
          /\ UNCHANGED <<registry, metric, held, export>>
        BY <1>1, <1>4 DEF Hop
    <2>5. alive \in BOOLEAN
        OBVIOUS
    <2> HIDE DEF alive
    <2>6. /\ call' \in [Calls -> [at : Places, hops : Nat, alive : BOOLEAN]]
          /\ call'[c].at = "in node"
          /\ \A x \in Calls \ {c} : call'[x] = call[x] /\ todo'[x] = todo[x]
        <3> DEFINE h == call[c].hops + 1
                   r == [at |-> "in node", hops |-> h, alive |-> alive]
        <3>1. r \in [at : Places, hops : Nat, alive : BOOLEAN] /\ r.at = "in node"
            <4>1. call[c].hops + 1 \in Nat
                BY <1>1
            <4> HIDE DEF h
            <4>2. h \in Nat
                BY <4>1 DEF h
            <4>3. QED
                BY <2>5, <4>2, Zenon DEF Places
        <3> HIDE DEF r
        <3>2. call' = [call EXCEPT ![c] = r]
            BY <2>4 DEF r
        <3>3. QED
            BY <1>1, <2>1, <3>1, <3>2
    <2>7. QED
        BY <1>1, <2>1, <2>3, <2>4, <2>6, CallMoves DEF Enters, InNode
<1>5. ASSUME HopEnd(c) PROVE Exits(c)
    <2>1. /\ call[c].at = "in node" /\ Idle(c) /\ UNCHANGED <<registry, metric, held, export, todo>>
          /\ graph' \in {NoOne, graph}
          /\ call' = [call EXCEPT ![c].at = IF call[c].alive THEN "walking" ELSE "leaving"]
        BY <1>5 DEF HopEnd
    <2>2. /\ call' \in [Calls -> [at : Places, hops : Nat, alive : BOOLEAN]]
          /\ call'[c].at \in {"walking", "leaving"}
          /\ \A x \in Calls \ {c} : call'[x] = call[x] /\ todo'[x] = todo[x]
        BY <1>1, <2>1 DEF Places
    <2>3. QED
        BY <2>1, <2>2, CallMoves DEF Exits, InNode
<1>6. ASSUME NEW us \in Durations, NEW reachedExit \in BOOLEAN, Leave(c, us, reachedExit)
      PROVE  Outside(c)
    <2> DEFINE l == RecordFlowExit(us, reachedExit)
               s == IF plan[c] = "tracked" THEN <<>> ELSE l
    <2>1. todo' = [todo EXCEPT ![c] = s]
        BY <1>6 DEF Leave, IfMeasured
    <2>2. FlowList(l)
        BY <1>1, ExitList
    <2> HIDE DEF l
    <2>3. FlowList(s)
        BY <2>2, NoList
    <2> HIDE DEF s
    <2>4. /\ Idle(c) /\ call[c].at \in {"walking", "leaving"}
          /\ call' = [call EXCEPT ![c].at = "left"]
          /\ UNCHANGED <<registry, metric, held, graph, export>>
        BY <1>6 DEF Leave
    <2>5. /\ call' \in [Calls -> [at : Places, hops : Nat, alive : BOOLEAN]]
          /\ call'[c].at = "left"
          /\ \A x \in Calls \ {c} : call'[x] = call[x] /\ todo'[x] = todo[x]
        BY <1>1, <2>1, <2>4 DEF Places
    <2>6. QED
        BY <1>1, <2>1, <2>3, <2>4, <2>5, CallMoves DEF Outside, InNode
<1>7. ASSUME Return(c) PROVE Outside(c)
    <2>1. /\ Idle(c) /\ call[c].at = "left" /\ call' = [call EXCEPT ![c].at = "done"]
          /\ graph' = graph \/ {graph, graph'} \subseteq {NoOne, c}
          /\ UNCHANGED <<registry, metric, held, export, todo>>
        BY <1>7 DEF Return
    <2>2. /\ call' \in [Calls -> [at : Places, hops : Nat, alive : BOOLEAN]]
          /\ call'[c].at = "done"
          /\ \A x \in Calls \ {c} : call'[x] = call[x] /\ todo'[x] = todo[x]
        BY <1>1, <2>1 DEF Places
    <2>3. todo' = [todo EXCEPT ![c] = <<>>]
        BY <1>1, <2>1 DEF Idle, Lists
    <2>4. QED
        BY <2>1, <2>2, <2>3, NoList, CallMoves DEF Outside, InNode
<1>8. QED
    BY <1>2, <1>3, <1>4, <1>5, <1>6, <1>7 DEF CallStep

-----------------------------------------------------------------------------
(* What a step keeps of all this.                                           *)
Metered == Types /\ OneHop /\ Listed

LEMMA MeteredInit == Init => Metered /\ Gaps
<1> SUFFICES ASSUME Init PROVE Metered /\ Gaps
    OBVIOUS
<1>1. Metrics
    <2>1. \A m \in MetricName : ~Registered(m)
        BY DEF Init, Registered
    <2>2. QED
        BY <2>1, MetricKinds DEF Init, Metrics
<1>2. Lists
    <2>1. todo \in [Calls -> Seq(Ops({}))]
        BY DEF Init
    <2>2. QED
        BY <2>1 DEF Init, Lists, Idle
<1>3. CallTypes
    BY DEF Init, CallTypes, Places, Idle
<1>4. OneHop /\ Listed
    <2>1. \A c \in Calls : ~InNode(c) /\ Len(todo[c]) = 0
        BY DEF Init, InNode
    <2>2. QED
        BY <2>1 DEF OneHop, Listed, ListedFor
<1>5. Gaps
    <2>1. \A n \in Nodes : ~DurationDue(n) /\ ~ErrorDue(n)
        BY DEF Init, DurationDue, ErrorDue, InNode
    <2>2. \A n \in Nodes : /\ ValueOr0(CallsOf(n)) = 0 /\ ValueOr0(ErrorsOf(n)) = 0
                           /\ Observed(n) = 0
        BY MetricKinds DEF Init, ValueOr0, Observed, Registered
    <2>3. QED
        BY <2>1, <2>2 DEF Gaps
<1>6. QED
    BY <1>1, <1>2, <1>3, <1>4, <1>5 DEF Metered, Types

(* The values of a node's metrics are numbers.                              *)
LEMMA Values ==
    ASSUME Metrics, NEW n \in Nodes
    PROVE  ValueOr0(CallsOf(n)) \in Nat /\ ValueOr0(ErrorsOf(n)) \in Nat /\ Observed(n) \in Nat
BY MetricKinds DEF Metrics, ValueOr0, Observed

(* Nobody is in a node while somebody else has the graph.                   *)
LEMMA Alone ==
    ASSUME OneHop
    PROVE  /\ graph \in {NoOne, Dump} => \A d \in Calls : ~InNode(d)
           /\ \A c \in Calls : graph = c => \A d \in Calls \ {c} : ~InNode(d)
BY TelemetryAssumption DEF OneHop

LEMMA OutsideKeeps ==
    ASSUME Metered, Gaps, NEW c \in Calls, Outside(c)
    PROVE  Metered' /\ Gaps'
<1>1. PICK s : FlowList(s) /\ todo' = [todo EXCEPT ![c] = s]
    BY DEF Outside
<1>2. /\ Lists' /\ todo'[c] = s
      /\ \A d \in Calls \ {c} : todo'[d] = todo[d]
    <2>1. PICK W : s \in Seq(Ops(W))
        BY <1>1 DEF FlowList
    <2>2. \A i \in 1 .. Len(s) : s[i].metric \notin Gauges => s[i].value \in Nat
        BY <1>1 DEF FlowList
    <2>3. Lists /\ Idle(c) /\ UNCHANGED <<registry, held>>
        BY DEF Outside, Metered, Types
    <2>4. QED
        BY <1>1, <2>1, <2>2, <2>3, ListAssigned
<1>3. \A d \in Calls : InNode(d)' <=> InNode(d)
    BY DEF Outside, InNode
<1>4. OneHop'
    BY <1>3, Alone DEF Outside, OneHop, Metered
<1>5. Listed'
    <2>1. \A n \in Nodes : \A i \in 1 .. Len(s) :
              s[i].metric \notin {CallsOf(n), DurationsOf(n), ErrorsOf(n)}
        <3>1. \A i \in 1 .. Len(s) : s[i].metric \notin NodeMetrics
            BY <1>1 DEF FlowList
        <3>2. QED
            BY <3>1, MetricKinds
    <2>2. \A n \in Nodes : ListedFor(c, n)'
        BY <2>1, <1>2 DEF ListedFor
    <2>3. \A n \in Nodes : \A d \in Calls \ {c} : ListedFor(d, n)'
        BY <1>2 DEF ListedFor, Listed, Metered
    <2>4. QED
        <3>1. \A i \in 1 .. Len(s) : s[i].metric \notin NodeMetrics
            BY <1>1 DEF FlowList
        <3>2. \A d \in Calls : ~InNode(d) => \A i \in 1 .. Len(todo[d]) : todo[d][i].metric \notin NodeMetrics
            BY DEF Listed, Metered
        <3>3. QED
            BY <1>2, <1>3, <2>2, <2>3, <3>1, <3>2 DEF Listed
<1>6. Metrics' /\ CallTypes'
    BY DEF Metered, Types, Metrics, Outside, Registered, Current
<1>7. Gaps'
    <2>1. \A n \in Nodes : (DurationDue(n)' <=> DurationDue(n)) /\ (ErrorDue(n)' <=> ErrorDue(n))
        BY <1>2, <1>3 DEF DurationDue, ErrorDue, Outside, Idle
    <2>2. \A n \in Nodes : /\ ValueOr0(CallsOf(n))' = ValueOr0(CallsOf(n))
                           /\ ValueOr0(ErrorsOf(n))' = ValueOr0(ErrorsOf(n))
                           /\ Observed(n)' = Observed(n)
        BY DEF Outside, ValueOr0, Observed, Registered, Current
    <2>3. QED
        BY <2>1, <2>2 DEF Gaps
<1>8. QED
    BY <1>2, <1>4, <1>5, <1>6, <1>7 DEF Metered, Types

LEMMA EntersKeeps ==
    ASSUME Metered, Gaps, NEW c \in Calls, Enters(c)
    PROVE  Metered' /\ Gaps'
<1>1. PICK s : HopList(s) /\ todo' = [todo EXCEPT ![c] = s]
    BY DEF Enters
<1>2. /\ Lists' /\ todo'[c] = s
      /\ \A d \in Calls \ {c} : todo'[d] = todo[d]
    <2>1. s \in Seq(Ops(Nat)) /\ \A i \in 1 .. Len(s) : s[i].metric \notin Gauges => s[i].value \in Nat
        BY <1>1 DEF HopList
    <2>2. Lists /\ Idle(c) /\ UNCHANGED <<registry, held>>
        BY DEF Enters, Metered, Types
    <2>3. QED
        BY <1>1, <2>1, <2>2, ListAssigned
<1>3. /\ \A d \in Calls : ~InNode(d)
      /\ \A d \in Calls : InNode(d)' => d = c
    <2>1. \A d \in Calls : ~InNode(d)
        BY Alone DEF Enters, Metered
    <2>2. QED
        BY <2>1 DEF Enters, InNode
<1>4. OneHop'
    BY <1>3 DEF Enters, OneHop
<1>5. Listed'
    <2>1. \A n \in Nodes : ListedFor(c, n)'
        BY <1>1, <1>2 DEF ListedFor, HopList
    <2>2. \A n \in Nodes : \A d \in Calls \ {c} : ListedFor(d, n)'
        BY <1>2 DEF ListedFor, Listed, Metered
    <2>3. QED
        BY <1>2, <1>3, <2>1, <2>2 DEF Listed, Metered, Enters
<1>6. Metrics' /\ CallTypes'
    BY DEF Metered, Types, Metrics, Enters, Registered, Current
<1>7. Gaps'
    <2>1. \A n \in Nodes : ~DurationDue(n) /\ ~ErrorDue(n) /\ ~ErrorDue(n)'
        BY <1>1, <1>2, <1>3 DEF DurationDue, ErrorDue, Idle, HopList
    <2>2. \A n \in Nodes : /\ ValueOr0(CallsOf(n))' = ValueOr0(CallsOf(n))
                           /\ ValueOr0(ErrorsOf(n))' = ValueOr0(ErrorsOf(n))
                           /\ Observed(n)' = Observed(n)
        BY DEF Enters, ValueOr0, Observed, Registered, Current
    <2>3. \A n \in Nodes : ValueOr0(CallsOf(n)) \in Nat /\ Observed(n) \in Nat
        BY Values DEF Metered, Types
    <2>4. QED
        BY <2>1, <2>2, <2>3 DEF Gaps
<1>8. QED
    BY <1>2, <1>4, <1>5, <1>6, <1>7 DEF Metered, Types

LEMMA ExitsKeeps ==
    ASSUME Metered, Gaps, NEW c \in Calls, Exits(c)
    PROVE  Metered' /\ Gaps'
<1>1. /\ UNCHANGED <<registry, metric, held, todo>> /\ Idle(c)
      /\ \A d \in Calls \ {c} : call'[d] = call[d]
      /\ CallTypes' /\ ~InNode(c)'
    BY DEF Exits
<1>2. /\ \A d \in Calls : ~InNode(d)'
      /\ graph = c
    BY Alone DEF Exits, Metered, OneHop, InNode
<1>3. Metrics' /\ Lists'
    BY <1>1 DEF Metered, Types, Metrics, Lists, Registered, Current, Idle
<1>4. OneHop'
    BY <1>2 DEF OneHop
<1>5. Listed'
    <2>1. \A n \in Nodes : \A d \in Calls : ListedFor(d, n)'
        BY <1>1 DEF ListedFor, Listed, Metered
    <2>2. \A d \in Calls \ {c} : ~InNode(d)
        BY <1>2, Alone DEF Metered
    <2>3. \A d \in Calls : \A i \in 1 .. Len(todo[d]) : todo[d][i].metric \notin NodeMetrics
        BY <1>1, <2>2 DEF Listed, Metered, Idle
    <2>4. QED
        BY <1>1, <2>1, <2>3 DEF Listed
<1>6. Gaps'
    <2>1. \A n \in Nodes : ~DurationDue(n)' /\ ~ErrorDue(n)'
        BY <1>2 DEF DurationDue, ErrorDue
    <2>2. \A n \in Nodes : ~DurationDue(n) /\ ~ErrorDue(n)
        BY <1>1, <1>2, Alone DEF DurationDue, ErrorDue, Metered
    <2>3. \A n \in Nodes : /\ ValueOr0(CallsOf(n))' = ValueOr0(CallsOf(n))
                           /\ ValueOr0(ErrorsOf(n))' = ValueOr0(ErrorsOf(n))
                           /\ Observed(n)' = Observed(n)
        BY <1>1 DEF ValueOr0, Observed, Registered, Current
    <2>4. QED
        BY <2>1, <2>2, <2>3 DEF Gaps
<1>7. QED
    BY <1>1, <1>3, <1>4, <1>5, <1>6 DEF Metered, Types

(* A lookup registers a metric that nothing was recorded in yet.            *)
LEMMA LookupKeeps ==
    ASSUME Metered, Gaps, NEW c \in Calls, Lookup(c)
    PROVE  Metered' /\ Gaps'
<1>1. PICK m0 : m0 = todo[c][1].metric
    OBVIOUS
<1>2. /\ Metrics' /\ m0 \in MetricName /\ todo[c] # <<>>
      /\ \A m \in MetricName :
             /\ m # m0 => registry'[m] = registry[m]
             /\ Registered(m) => registry'[m] = registry[m] /\ Current(m)' = Current(m)
             /\ ~Registered(m) /\ registry'[m] # 0 => Current(m)' = NewMetric(m)
      /\ registry'[m0] = 1 /\ held' = [held EXCEPT ![c] = 1]
    BY <1>1, LookupEffect DEF Metered, Types
<1>3. UNCHANGED <<todo, call, graph, export>>
    BY DEF Lookup
<1>4. Lists'
    <2>1. held' \in [Calls -> {0, 1}] /\ \A d \in Calls \ {c} : held'[d] = held[d]
        BY <1>2 DEF Metered, Types, Lists
    <2>2. \A d \in Calls : held[d] = 1 => todo[d] # <<>> /\ Registered(todo[d][1].metric)
        BY DEF Metered, Types, Lists, Idle
    <2>3. \A d \in Calls : todo[d] # <<>> => todo[d][1].metric \in MetricName
        <3>1. PICK V : todo \in [Calls -> Seq(Ops(V))]
            BY DEF Metered, Types, Lists
        <3>2. \A d \in Calls : todo[d] # <<>> => todo[d][1] \in Ops(V)
            BY <3>1
        <3>3. QED
            BY <3>2 DEF Ops
    <2>4. \A d \in Calls : held'[d] = 1 => todo[d] # <<>> /\ registry'[todo[d][1].metric] # 0
        BY <1>1, <1>2, <2>1, <2>2, <2>3 DEF Registered
    <2>5. QED
        BY <1>3, <2>1, <2>4 DEF Metered, Types, Lists, Idle, Registered
<1>5. CallTypes' /\ OneHop' /\ Listed'
    <2>1. CallTypes' /\ OneHop'
        BY <1>3 DEF Metered, Types, CallTypes, OneHop, InNode, Idle
    <2>2. \A n \in Nodes : \A d \in Calls : ListedFor(d, n)'
        BY <1>3 DEF Metered, Listed, ListedFor
    <2>3. QED
        BY <1>3, <2>1, <2>2 DEF Metered, Listed, InNode
<1>6. Gaps'
    <2>1. \A n \in Nodes : (DurationDue(n)' <=> DurationDue(n)) /\ (ErrorDue(n)' <=> ErrorDue(n))
        BY <1>3 DEF DurationDue, ErrorDue, InNode, Idle
    <2>2. \A m \in MetricName : ~Registered(m) => registry[m] = 0
        BY DEF Registered
    <2>3. \A m \in Counters : ValueOr0(m)' = ValueOr0(m)
        <3>1. \A m \in Counters : NewMetric(m) = 0
            BY MetricKinds DEF NewMetric
        <3>2. QED
            BY <1>2, <2>2, <3>1, MetricKinds DEF ValueOr0, Registered
    <2>4. \A n \in Nodes : Observed(n)' = Observed(n)
        <3>1. \A m \in Histograms : NewMetric(m).count = 0
            BY DEF NewMetric, NewHistogram
        <3>2. QED
            BY <1>2, <2>2, <3>1, MetricKinds DEF Observed, Registered
    <2>5. QED
        BY <2>1, <2>3, <2>4, MetricKinds DEF Gaps
<1>7. QED
    BY <1>2, <1>4, <1>5, <1>6 DEF Metered, Types

(* An update behind the list's order keeps the gaps: only the one call in    *)
(* the middle of a hop updates a metric of a node.                          *)
LEMMA ApplyKeeps ==
    ASSUME Metered, Gaps, NEW c \in Calls, Apply(c)
    PROVE  Metered' /\ Gaps'
<1>1. PICK m0, v : m0 = todo[c][1].metric /\ v = todo[c][1].value
    OBVIOUS
<1>2. /\ Metrics' /\ m0 \in MetricName /\ Registered(m0) /\ todo[c] # <<>>
      /\ m0 \notin Gauges => v \in Nat
      /\ Current(m0)' = Update(m0, Current(m0), v)
      /\ registry' = registry
      /\ \A m \in MetricName \ {m0} : Current(m)' = Current(m)
    BY <1>1, ApplyEffect DEF Metered, Types
<1>3. /\ UNCHANGED <<call, graph, export>>
      /\ todo' = [todo EXCEPT ![c] = Tail(@)] /\ held' = [held EXCEPT ![c] = 0]
    BY Zenon DEF Apply
<1>4. /\ Len(todo[c]) \in Nat \ {0} /\ Len(todo'[c]) = Len(todo[c]) - 1
      /\ \A i \in 1 .. Len(todo'[c]) : i + 1 \in 2 .. Len(todo[c]) /\ todo'[c][i] = todo[c][i + 1]
      /\ todo'[c] = <<>> <=> Len(todo[c]) = 1
      /\ 1 \in 1 .. Len(todo[c]) /\ Len(todo[c]) \in 1 .. Len(todo[c])
      /\ \A d \in Calls \ {c} : todo'[d] = todo[d]
      /\ \E V : todo' \in [Calls -> Seq(Ops(V))]
    BY <1>2, <1>3, ListAdvances DEF Metered, Types
<1>5. Lists'
    <2>1. /\ held' \in [Calls -> {0, 1}] /\ held'[c] = 0
          /\ \A d \in Calls \ {c} : held'[d] = held[d]
        BY <1>3 DEF Metered, Types, Lists
    <2>2. ASSUME NEW d \in Calls, held'[d] = 1
          PROVE  todo'[d] # <<>> /\ registry'[todo'[d][1].metric] # 0
        <3>1. d \in Calls \ {c} /\ held[d] = 1 /\ todo'[d] = todo[d]
            BY <1>4, <2>1, <2>2
        <3>2. QED
            BY <1>2, <3>1 DEF Metered, Types, Lists, Idle, Registered
    <2>3. ASSUME NEW d \in Calls, NEW i \in 1 .. Len(todo'[d])
          PROVE  todo'[d][i].metric \notin Gauges => todo'[d][i].value \in Nat
        <3>1. \A j \in 1 .. Len(todo[d]) : todo[d][j].metric \notin Gauges => todo[d][j].value \in Nat
            BY DEF Metered, Types, Lists
        <3>2. CASE d = c
            BY <1>4, <3>1, <3>2
        <3>3. CASE d # c
            BY <1>4, <3>1, <3>3
        <3>4. QED
            BY <3>2, <3>3
    <2>4. QED
        BY <1>4, <2>1, <2>2, <2>3 DEF Lists, Idle, Registered
<1>6. CallTypes' /\ OneHop'
    <2>1. \A d \in Calls : call[d].at = "idle" => todo'[d] = <<>>
        BY <1>2, <1>4 DEF Metered, Types, CallTypes, Idle
    <2>2. QED
        BY <1>3, <2>1 DEF Metered, Types, CallTypes, Idle, OneHop, InNode
<1>7. Listed'
    <2>1. ASSUME NEW n \in Nodes PROVE ListedFor(c, n)'
        <3>1. ListedFor(c, n)
            BY DEF Metered, Listed
        <3> SUFFICES ASSUME NEW i \in 1 .. Len(todo'[c])
                     PROVE  LET t == todo'[c]
                            IN  /\ t[i].metric # CallsOf(n)
                                /\ t[i].metric = DurationsOf(n) => i = 1
                                /\ t[i].metric = ErrorsOf(n) => i = Len(t)
                                /\ t[i].metric \in {CallsOf(n), ErrorsOf(n)} => t[i].value = 1
            BY <1>4, NamesDiffer DEF ListedFor
        <3>2. i + 1 \in 2 .. Len(todo[c]) /\ todo'[c][i] = todo[c][i + 1] /\ i + 1 \in 1 .. Len(todo[c])
            <4>1. i + 1 \in 2 .. Len(todo[c]) /\ todo'[c][i] = todo[c][i + 1] /\ Len(todo[c]) \in Nat
                BY <1>4
            <4>2. QED
                BY <4>1
        <3>3. LET t == todo[c]
                  j == i + 1
              IN  /\ t[j].metric = CallsOf(n) => j = 1
                  /\ t[j].metric = DurationsOf(n) => j <= 2
                  /\ t[j].metric = ErrorsOf(n) => j = Len(t)
                  /\ t[j].metric \in {CallsOf(n), ErrorsOf(n)} => t[j].value = 1
            BY <3>1, <3>2 DEF ListedFor
        <3>4. QED
            BY <1>4, <3>2, <3>3
    <2>2. ASSUME NEW n \in Nodes, NEW d \in Calls \ {c} PROVE ListedFor(d, n)'
        BY <1>4 DEF Metered, Listed, ListedFor
    <2>3. \A d \in Calls : ~InNode(d)' => \A i \in 1 .. Len(todo'[d]) : todo'[d][i].metric \notin NodeMetrics
        <3>1. \A d \in Calls : ~InNode(d) => \A i \in 1 .. Len(todo[d]) : todo[d][i].metric \notin NodeMetrics
            BY DEF Metered, Listed
        <3>2. \A d \in Calls : InNode(d)' <=> InNode(d)
            BY <1>3 DEF InNode
        <3>3. ASSUME NEW d \in Calls, ~InNode(d), NEW i \in 1 .. Len(todo'[d])
              PROVE  todo'[d][i].metric \notin NodeMetrics
            <4>1. CASE d = c
                BY <1>4, <3>1, <3>3, <4>1
            <4>2. CASE d # c
                BY <1>4, <3>1, <3>3, <4>2
            <4>3. QED
                BY <4>1, <4>2
        <3>4. QED
            BY <3>2, <3>3
    <2>4. QED
        BY <2>1, <2>2, <2>3 DEF Listed
<1>8. ASSUME NEW m \in MetricName \ {m0}
      PROVE  /\ ValueOr0(m)' = ValueOr0(m) /\ Registered(m)' = Registered(m)
             /\ Current(m)' = Current(m)
    BY <1>2 DEF ValueOr0, Registered
<1>9. CASE ~InNode(c)
    <2>1. m0 \notin NodeMetrics
        BY <1>1, <1>4, <1>9 DEF Metered, Listed
    <2>2. \A n \in Nodes : (DurationDue(n)' <=> DurationDue(n)) /\ (ErrorDue(n)' <=> ErrorDue(n))
        BY <1>3, <1>4, <1>9 DEF DurationDue, ErrorDue, InNode, Idle
    <2>3. \A n \in Nodes : /\ ValueOr0(CallsOf(n))' = ValueOr0(CallsOf(n))
                           /\ ValueOr0(ErrorsOf(n))' = ValueOr0(ErrorsOf(n))
                           /\ Observed(n)' = Observed(n)
        BY <1>8, <2>1, MetricKinds DEF Observed
    <2>4. Gaps'
        BY <2>2, <2>3 DEF Gaps
    <2>5. QED
        BY <1>2, <1>5, <1>6, <1>7, <2>4 DEF Metered, Types
<1>10. CASE InNode(c)
    <2>1. \A d \in Calls \ {c} : ~InNode(d) /\ ~InNode(d)'
        BY <1>3, <1>10, Alone DEF Metered, OneHop, InNode
    <2> SUFFICES ASSUME NEW n \in Nodes
                 PROVE  /\ ValueOr0(CallsOf(n))' <= Observed(n)' + (IF DurationDue(n)' THEN 1 ELSE 0)
                        /\ ValueOr0(ErrorsOf(n))' + (IF ErrorDue(n)' THEN 1 ELSE 0) <= ValueOr0(CallsOf(n))'
        BY <1>2, <1>5, <1>6, <1>7 DEF Metered, Types, Gaps
    <2>0. /\ InNode(c)' /\ ~Idle(c)
          /\ Idle(c)' <=> Len(todo[c]) = 1
          /\ Len(todo[c]) # 1 => Len(todo[c]) >= 2
          /\ Len(todo[c]) # 1 => todo'[c][1] = todo[c][2]
          /\ Len(todo[c]) # 1 => todo'[c][Len(todo'[c])] = todo[c][Len(todo[c])]
        <3>1. InNode(c)' /\ ~Idle(c) /\ (Idle(c)' <=> Len(todo[c]) = 1)
            BY <1>2, <1>3, <1>4, <1>10 DEF InNode, Idle
        <3>2. Len(todo[c]) # 1 => 1 \in 1 .. Len(todo'[c]) /\ Len(todo'[c]) \in 1 .. Len(todo'[c])
            BY <1>4
        <3>3. QED
            BY <1>4, <3>1, <3>2
    <2>2. /\ DurationDue(n) <=> m0 = DurationsOf(n)
          /\ DurationDue(n)' <=> Len(todo[c]) # 1 /\ todo[c][2].metric = DurationsOf(n)
        BY <1>1, <1>10, <2>0, <2>1 DEF DurationDue
    <2>3. /\ ErrorDue(n) <=> m0 # CallsOf(n) /\ todo[c][Len(todo[c])].metric = ErrorsOf(n)
          /\ ErrorDue(n)' <=> /\ Len(todo[c]) # 1 /\ todo[c][2].metric # CallsOf(n)
                              /\ todo[c][Len(todo[c])].metric = ErrorsOf(n)
        BY <1>1, <1>10, <2>0, <2>1 DEF ErrorDue
    <2>4. /\ m0 = CallsOf(n) => v = 1 /\ Len(todo[c]) # 1 /\ todo[c][2].metric = DurationsOf(n)
          /\ m0 = ErrorsOf(n) => v = 1 /\ Len(todo[c]) = 1
        <3>1. ListedFor(c, n)
            BY DEF Metered, Listed
        <3>2. Len(todo[c]) >= 2 => Len(todo[c]) # 1
            BY <1>4
        <3>3. 1 \in 1 .. Len(todo[c])
            BY <1>4
        <3>4. QED
            BY <1>1, <3>1, <3>2, <3>3 DEF ListedFor
    <2>5. /\ ValueOr0(CallsOf(n)) \in Nat /\ ValueOr0(ErrorsOf(n)) \in Nat /\ Observed(n) \in Nat
          /\ ValueOr0(CallsOf(n)) <= Observed(n) + (IF DurationDue(n) THEN 1 ELSE 0)
          /\ ValueOr0(ErrorsOf(n)) + (IF ErrorDue(n) THEN 1 ELSE 0) <= ValueOr0(CallsOf(n))
        BY Values DEF Metered, Types, Gaps
    <2>6. CASE m0 = CallsOf(n)
        <3>1. v = 1 /\ Len(todo[c]) # 1 /\ todo[c][2].metric = DurationsOf(n)
            BY <2>4, <2>6
        <3>2. ValueOr0(CallsOf(n))' = ValueOr0(CallsOf(n)) + 1
            BY <1>2, <2>6, <3>1, MetricKinds DEF ValueOr0, Update, Registered
        <3>3. ValueOr0(ErrorsOf(n))' = ValueOr0(ErrorsOf(n)) /\ Observed(n)' = Observed(n)
            BY <1>8, <2>6, NamesDiffer, MetricKinds DEF Observed
        <3>4. QED
            BY <2>2, <2>3, <2>5, <2>6, <3>1, <3>2, <3>3, NamesDiffer
    <2>7. CASE m0 = DurationsOf(n)
        <3>1. Observed(n)' = Observed(n) + 1
            <4>1. Current(m0)' = Observe(Current(m0), v)
                BY <1>2, <2>7, MetricKinds DEF Update
            <4>2. Current(m0)'.count = Current(m0).count + 1
                BY <4>1 DEF Observe
            <4>3. QED
                BY <1>2, <2>7, <4>2 DEF Observed, Registered
        <3>2. /\ ValueOr0(ErrorsOf(n))' = ValueOr0(ErrorsOf(n))
              /\ ValueOr0(CallsOf(n))' = ValueOr0(CallsOf(n))
            BY <1>8, <2>7, NamesDiffer, MetricKinds
        <3>3. QED
            BY <2>2, <2>3, <2>5, <2>7, <3>1, <3>2, NamesDiffer
    <2>8. CASE m0 = ErrorsOf(n)
        <3>1. v = 1 /\ Len(todo[c]) = 1
            BY <2>4, <2>8
        <3>2. ValueOr0(ErrorsOf(n))' = ValueOr0(ErrorsOf(n)) + 1
            BY <1>2, <2>8, <3>1, MetricKinds DEF ValueOr0, Update, Registered
        <3>3. ValueOr0(CallsOf(n))' = ValueOr0(CallsOf(n)) /\ Observed(n)' = Observed(n)
            BY <1>8, <2>8, NamesDiffer, MetricKinds DEF Observed
        <3>4. ErrorsOf(n) # CallsOf(n) /\ ErrorsOf(n) # DurationsOf(n)
            BY NamesDiffer
        <3>5. ErrorDue(n) /\ ~ErrorDue(n)' /\ ~DurationDue(n) /\ ~DurationDue(n)'
            BY <1>1, <2>2, <2>3, <2>8, <3>1, <3>4
        <3>6. QED
            BY <2>5, <3>2, <3>3, <3>5
    <2>9. CASE m0 \notin {CallsOf(n), DurationsOf(n), ErrorsOf(n)}
        <3>1. /\ ValueOr0(ErrorsOf(n))' = ValueOr0(ErrorsOf(n))
              /\ ValueOr0(CallsOf(n))' = ValueOr0(CallsOf(n)) /\ Observed(n)' = Observed(n)
            BY <1>8, <2>9, MetricKinds DEF Observed
        <3>2. QED
            BY <2>2, <2>3, <2>5, <2>9, <3>1
    <2>10. QED
        BY <2>6, <2>7, <2>8, <2>9
<1>11. QED
    BY <1>9, <1>10

LEMMA CallKeeps ==
    ASSUME Metered, Gaps, NEW c \in Calls, CallStep(c)
    PROVE  Metered' /\ Gaps'
BY CallSteps, OutsideKeeps, EntersKeeps, ExitsKeeps, LookupKeeps, ApplyKeeps DEF Metered, Types

(* An export reads; a dump takes the graph only when nobody has it.         *)
LEMMA OtherKeeps ==
    ASSUME Metered, Gaps, ExportStep \/ Tick \/ UNCHANGED vars
    PROVE  Metered' /\ Gaps'
<1>1. UNCHANGED <<registry, metric, call, todo, held>>
    BY DEF ExportStep, StartExport, StartDump, NextPhase, ExportGraph, ReadEntry, Tick, vars
<1>2. \/ graph' = graph
      \/ graph \in {NoOne, Dump}
    BY DEF ExportStep, StartExport, StartDump, NextPhase, ExportGraph, ReadEntry, Tick, vars
<1>3. OneHop'
    BY <1>1, <1>2, Alone DEF Metered, OneHop, InNode
<1>4. Types'
    BY <1>1 DEF Metered, Types, Metrics, Lists, CallTypes, Registered, Current, Idle
<1>5. Listed'
    <2>1. \A n \in Nodes : \A d \in Calls : ListedFor(d, n)'
        BY <1>1 DEF Metered, Listed, ListedFor
    <2>2. QED
        BY <1>1, <2>1 DEF Metered, Listed, InNode
<1>6. Gaps'
    BY <1>1 DEF Gaps, DurationDue, ErrorDue, ValueOr0, Observed, Registered, Current, InNode, Idle
<1>7. QED
    BY <1>3, <1>4, <1>5, <1>6 DEF Metered

-----------------------------------------------------------------------------
(* What an export has copied.                                               *)

ExportTypes ==
    /\ export \in [phase : 0 .. 5, dump : BOOLEAN, owed : SUBSET MetricName,
                   seen : {export.seen}, nodes : {export.nodes}]
    /\ DOMAIN export.seen \subseteq NodeMetrics
    /\ export.phase = 0 => DOMAIN export.seen = {}
    /\ export.phase <= 4 => export.nodes = <<>>
    /\ export.phase >= 4 => export.owed = {}

Exported(m) == m \in DOMAIN export.seen

(* The calls exported for n are at most one ahead of the durations: those   *)
(* observed until these are copied, and those copied from then on.          *)
CoherentFor(n) ==
    /\ Exported(DurationsOf(n)) => export.phase >= 3 /\ export.seen[DurationsOf(n)].count \in Nat
    /\ Exported(CallsOf(n)) =>
           LET calls == export.seen[CallsOf(n)]
           IN  /\ calls \in Nat
               /\ IF Exported(DurationsOf(n)) THEN calls <= 1 + export.seen[DurationsOf(n)].count
                  ELSE /\ calls <= 1 + Observed(n)
                       /\ export.phase >= 3 /\ DurationsOf(n) \notin export.owed => calls <= 1

(* While a dump has the graph, what it has copied of the nodes is what is    *)
(* there, and what is there it has copied or will.                          *)
DumpCopies ==
    export.dump /\ export.phase \in 1 .. 4 =>
        /\ graph = Dump
        /\ \A m \in NodeMetrics : Exported(m) => Registered(m) /\ export.seen[m] = Current(m)
        /\ \A i \in 1 .. 3 : \A m \in Phases[i] :
               Registered(m) /\ i <= export.phase => Exported(m) \/ (i = export.phase /\ m \in export.owed)

Copied == ExportTypes /\ (\A n \in Nodes : CoherentFor(n)) /\ DumpCopies /\ DumpAgrees

ExportInv == Metered /\ Gaps /\ Copied

LEMMA CopiedInit == Init => Copied
<1> SUFFICES ASSUME Init PROVE Copied
    OBVIOUS
<1>1. /\ export = [phase |-> 0, dump |-> FALSE, owed |-> {}, seen |-> <<>>, nodes |-> <<>>]
      /\ DOMAIN export.seen = {}
    BY DEF Init, NotExported
<1>2. ExportTypes
    BY <1>1 DEF ExportTypes
<1>3. QED
    BY <1>1, <1>2 DEF Copied, CoherentFor, Exported, DumpCopies, DumpAgrees

(* The metrics of nodes, by phase.                                          *)
LEMMA PhaseSets ==
    /\ Len(Phases) = 3 /\ DOMAIN Phases = 1 .. 3
    /\ \A i \in 1 .. 3 : Phases[i] \subseteq NodeMetrics
    /\ \A n \in Nodes : /\ {CallsOf(n), ErrorsOf(n)} \subseteq Phases[1]
                        /\ DepthOf(n) \in Phases[2] /\ DurationsOf(n) \in Phases[3]
                        /\ \A i \in 1 .. 3 : CallsOf(n) \in Phases[i] => i = 1
                        /\ \A i \in 1 .. 3 : DurationsOf(n) \in Phases[i] => i = 3
BY DEF Phases, NodeMetrics, CallsOf, ErrorsOf, DepthOf, DurationsOf

(* A step of a call never takes a duration back, and leaves the metrics of   *)
(* nodes alone while a dump has the graph.                                  *)
LEMMA CallFrame ==
    ASSUME Metered, NEW c \in Calls, CallStep(c)
    PROVE  /\ export' = export
           /\ \A n \in Nodes : Observed(n) \in Nat /\ Observed(n)' \in Nat /\ Observed(n) <= Observed(n)'
           /\ graph = Dump => /\ graph' = Dump
                              /\ \A m \in NodeMetrics : /\ Registered(m)' = Registered(m)
                                                        /\ Registered(m) => Current(m)' = Current(m)
<1>1. CASE Outside(c) \/ Enters(c) \/ Exits(c)
    <2>1. UNCHANGED <<registry, metric, export>>
        BY <1>1 DEF Outside, Enters, Exits
    <2>2. graph = Dump => graph' = Dump
        BY <1>1, TelemetryAssumption, Alone DEF Metered, Outside, Enters, Exits, NoOne, Dump
    <2>3. QED
        BY <2>1, <2>2, Values DEF Metered, Types, Observed, Registered, Current
<1>2. CASE Lookup(c)
    <2>1. PICK m0 : m0 = todo[c][1].metric
        OBVIOUS
    <2>2. /\ m0 \in MetricName /\ todo[c] # <<>> /\ Metrics'
          /\ \A m \in MetricName :
                 /\ m # m0 => registry'[m] = registry[m]
                 /\ Registered(m) => registry'[m] = registry[m] /\ Current(m)' = Current(m)
                 /\ ~Registered(m) /\ registry'[m] # 0 => Current(m)' = NewMetric(m)
        BY <1>2, <2>1, LookupEffect DEF Metered, Types
    <2>3. UNCHANGED <<graph, export>>
        BY <1>2 DEF Lookup
    <2>4. \A n \in Nodes : Observed(n)' = Observed(n)
        <3>1. \A m \in Histograms : NewMetric(m).count = 0
            BY DEF NewMetric, NewHistogram
        <3>2. QED
            BY <2>2, <3>1, MetricKinds DEF Observed, Registered
    <2>5. graph = Dump => m0 \notin NodeMetrics
        <3>1. PICK V : todo \in [Calls -> Seq(Ops(V))]
            BY DEF Metered, Types, Lists
        <3>2. 1 \in 1 .. Len(todo[c])
            BY <2>2, <3>1, EmptySeq
        <3>3. QED
            BY <2>1, <3>2, Alone DEF Metered, Listed
    <2>6. QED
        BY <2>2, <2>3, <2>4, <2>5, Values, MetricKinds DEF Metered, Types, Registered
<1>3. CASE Apply(c)
    <2>1. PICK m0, v : m0 = todo[c][1].metric /\ v = todo[c][1].value
        OBVIOUS
    <2>2. /\ m0 \in MetricName /\ Registered(m0) /\ todo[c] # <<>> /\ Metrics'
          /\ Current(m0)' = Update(m0, Current(m0), v)
          /\ registry' = registry
          /\ \A m \in MetricName \ {m0} : Current(m)' = Current(m)
        BY <1>3, <2>1, ApplyEffect DEF Metered, Types
    <2>3. UNCHANGED <<graph, export>>
        BY <1>3, Zenon DEF Apply
    <2>4. ASSUME NEW n \in Nodes
          PROVE  Observed(n) \in Nat /\ Observed(n)' \in Nat /\ Observed(n) <= Observed(n)'
        <3>1. Observed(n) \in Nat
            BY Values DEF Metered, Types
        <3>2. CASE m0 = DurationsOf(n)
            <4>1. Current(m0)' = Observe(Current(m0), v)
                BY <2>2, <3>2, MetricKinds DEF Update
            <4>2. Current(m0)'.count = Current(m0).count + 1
                BY <4>1 DEF Observe
            <4>3. Observed(n)' = Observed(n) + 1
                BY <2>2, <3>2, <4>2 DEF Observed, Registered
            <4>4. QED
                BY <3>1, <4>3
        <3>3. CASE m0 # DurationsOf(n)
            <4>1. Observed(n)' = Observed(n)
                BY <2>2, <3>3, MetricKinds DEF Observed, Registered
            <4>2. QED
                BY <3>1, <4>1
        <3>4. QED
            BY <3>2, <3>3
    <2>5. graph = Dump => m0 \notin NodeMetrics
        <3>1. PICK V : todo \in [Calls -> Seq(Ops(V))]
            BY DEF Metered, Types, Lists
        <3>2. 1 \in 1 .. Len(todo[c])
            BY <2>2, <3>1, EmptySeq
        <3>3. QED
            BY <2>1, <3>2, Alone DEF Metered, Listed
    <2>6. QED
        BY <2>2, <2>3, <2>4, <2>5, MetricKinds DEF Registered
<1>4. QED
    BY <1>1, <1>2, <1>3, CallSteps DEF Metered, Types

LEMMA CallCopies ==
    ASSUME ExportInv, NEW c \in Calls, CallStep(c)
    PROVE  Copied'
<1>1. /\ export' = export
      /\ \A n \in Nodes : Observed(n) \in Nat /\ Observed(n)' \in Nat /\ Observed(n) <= Observed(n)'
      /\ graph = Dump => /\ graph' = Dump
                         /\ \A m \in NodeMetrics : /\ Registered(m)' = Registered(m)
                                                   /\ Registered(m) => Current(m)' = Current(m)
    BY CallFrame DEF ExportInv
<1>2. ExportTypes' /\ DumpAgrees'
    BY <1>1 DEF ExportInv, Copied, ExportTypes, DumpAgrees
<1>3. ASSUME NEW n \in Nodes PROVE CoherentFor(n)'
    BY <1>1 DEF ExportInv, Copied, CoherentFor, Exported
<1>4. DumpCopies'
    <2> SUFFICES ASSUME export.dump, export.phase \in 1 .. 4 PROVE DumpCopies'
        BY <1>1 DEF DumpCopies
    <2>1. /\ graph = Dump
          /\ \A m \in NodeMetrics : Exported(m) => Registered(m) /\ export.seen[m] = Current(m)
          /\ \A i \in 1 .. 3 : \A m \in Phases[i] :
                 Registered(m) /\ i <= export.phase => Exported(m) \/ (i = export.phase /\ m \in export.owed)
        BY DEF ExportInv, Copied, DumpCopies
    <2>2. \A m \in NodeMetrics : Exported(m)' => Registered(m)' /\ export'.seen[m] = Current(m)'
        BY <1>1, <2>1 DEF Exported
    <2>3. \A i \in 1 .. 3 : \A m \in Phases[i] :
              Registered(m)' /\ i <= export'.phase
              => Exported(m)' \/ (i = export'.phase /\ m \in export'.owed)
        BY <1>1, <2>1, PhaseSets DEF Exported
    <2>4. QED
        BY <1>1, <2>1, <2>2, <2>3 DEF DumpCopies, Phases
<1>5. QED
    BY <1>2, <1>3, <1>4 DEF Copied

(* An export begins with nothing copied, and owes every counter there is.   *)
LEMMA BeginCopies ==
    ASSUME ExportInv, export.phase = 0, NEW dump \in BOOLEAN, BeginExport(dump),
           dump => graph' = Dump, UNCHANGED <<registry, metric>>
    PROVE  Copied'
<1>1. export' = [phase |-> 1, dump |-> dump, owed |-> Known(Phases[1]), seen |-> <<>>, nodes |-> <<>>]
    BY DEF BeginExport, NotExported
<1>2. DOMAIN export'.seen = {} /\ Known(Phases[1]) \subseteq MetricName
    BY <1>1, PhaseSets, MetricKinds DEF Known
<1>3. ExportTypes'
    BY <1>1, <1>2 DEF ExportTypes
<1>4. DumpCopies'
    <2>1. \A m \in NodeMetrics : ~Exported(m)'
        BY <1>2 DEF Exported
    <2>2. \A i \in 1 .. 3 : \A m \in Phases[i] :
              Registered(m)' /\ i <= export'.phase => i = export'.phase /\ m \in export'.owed
        BY <1>1, PhaseSets DEF Known, Registered
    <2>3. export'.dump => graph' = Dump
        BY <1>1
    <2>4. QED
        BY <2>1, <2>2, <2>3 DEF DumpCopies, Phases
<1>5. QED
    BY <1>1, <1>2, <1>3, <1>4 DEF Copied, CoherentFor, Exported, DumpAgrees

(* One entry is copied as it is.                                            *)
LEMMA ReadCopies ==
    ASSUME ExportInv, NEW m0 \in MetricName, ReadEntry(m0)
    PROVE  Copied'
<1>1. /\ export.phase \in 1 .. 3 /\ m0 \in Phases[export.phase] /\ Registered(m0) /\ ~Exported(m0)
      /\ UNCHANGED <<registry, metric, graph>>
    BY PhaseSets DEF ReadEntry, Known, Exported
<1>2. m0 \in NodeMetrics
    BY <1>1, PhaseSets
<1>3. /\ export \in [phase : 0 .. 5, dump : BOOLEAN, owed : SUBSET MetricName,
                     seen : {export.seen}, nodes : {export.nodes}]
      /\ DOMAIN export.seen \subseteq NodeMetrics /\ export.nodes = <<>>
    BY <1>1 DEF ExportInv, Copied, ExportTypes
<1> DEFINE s == With(export.seen, m0, Current(m0))
<1>4. /\ DOMAIN s = DOMAIN export.seen \cup {m0}
      /\ \A m \in DOMAIN export.seen : s[m] = export.seen[m]
      /\ s[m0] = Current(m0)
    BY <1>1 DEF With, Exported
<1>5. export' = [export EXCEPT !.seen = s, !.owed = @ \ {m0}]
    BY DEF ReadEntry
<1> HIDE DEF s
<1>6. /\ export'.phase = export.phase /\ export'.dump = export.dump /\ export'.nodes = export.nodes
      /\ export'.owed = export.owed \ {m0} /\ export'.seen = s
      /\ export' \in [phase : 0 .. 5, dump : BOOLEAN, owed : SUBSET MetricName,
                      seen : {export'.seen}, nodes : {export'.nodes}]
    BY <1>3, <1>5
<1>7. ExportTypes'
    BY <1>1, <1>2, <1>3, <1>4, <1>6 DEF ExportTypes
<1>8. \A m : Exported(m)' <=> Exported(m) \/ m = m0
    BY <1>4, <1>6 DEF Exported
<1>9. ASSUME NEW n \in Nodes PROVE CoherentFor(n)'
    <2>1. CoherentFor(n) /\ Observed(n)' = Observed(n) /\ Observed(n) \in Nat
        BY <1>1, Values DEF ExportInv, Metered, Types, Copied, Observed, Registered, Current
    <2>2. CASE m0 = CallsOf(n)
        <3>1. export.phase = 1 /\ m0 # DurationsOf(n) /\ ~Exported(DurationsOf(n))
            BY <1>1, <2>1, <2>2, PhaseSets, NamesDiffer DEF CoherentFor
        <3>2. /\ ValueOr0(CallsOf(n)) = Current(m0) /\ ValueOr0(CallsOf(n)) \in Nat
              /\ ValueOr0(CallsOf(n)) <= 1 + Observed(n)
            <4>1. /\ ValueOr0(CallsOf(n)) <= Observed(n) + (IF DurationDue(n) THEN 1 ELSE 0)
                  /\ ValueOr0(CallsOf(n)) \in Nat
                BY Values DEF ExportInv, Gaps, Metered, Types
            <4>2. ValueOr0(CallsOf(n)) = Current(m0)
                BY <1>1, <2>2 DEF ValueOr0
            <4>3. QED
                BY <2>1, <4>1, <4>2
        <3>3. export'.seen[CallsOf(n)] = Current(m0) /\ ~Exported(DurationsOf(n))'
            BY <1>4, <1>6, <1>8, <2>2, <3>1
        <3>4. QED
            BY <1>6, <2>1, <2>2, <3>1, <3>2, <3>3 DEF CoherentFor
    <2>3. CASE m0 = DurationsOf(n)
        <3>1. export.phase = 3 /\ m0 # CallsOf(n) /\ ~Exported(DurationsOf(n))
            BY <1>1, <2>3, PhaseSets, NamesDiffer
        <3>2. Observed(n) = Current(m0).count /\ Current(m0).count \in Nat
            BY <1>1, <2>1, <2>3 DEF Observed
        <3>3. /\ Exported(CallsOf(n))' <=> Exported(CallsOf(n))
              /\ Exported(CallsOf(n)) => export'.seen[CallsOf(n)] = export.seen[CallsOf(n)]
              /\ export'.seen[DurationsOf(n)] = Current(m0)
              /\ Exported(DurationsOf(n))'
            BY <1>4, <1>6, <1>8, <2>3, <3>1 DEF Exported
        <3>4. Exported(CallsOf(n)) => /\ export.seen[CallsOf(n)] \in Nat
                                      /\ export.seen[CallsOf(n)] <= 1 + Current(m0).count
            BY <2>1, <3>1, <3>2 DEF CoherentFor
        <3>5. export'.phase >= 3 /\ export'.seen[DurationsOf(n)].count = Current(m0).count
            BY <1>6, <3>1, <3>3
        <3>6. QED
            BY <3>2, <3>3, <3>4, <3>5 DEF CoherentFor
    <2>4. CASE m0 \notin {CallsOf(n), DurationsOf(n)}
        <3>1. /\ Exported(CallsOf(n))' <=> Exported(CallsOf(n))
              /\ Exported(DurationsOf(n))' <=> Exported(DurationsOf(n))
              /\ Exported(CallsOf(n)) => export'.seen[CallsOf(n)] = export.seen[CallsOf(n)]
              /\ Exported(DurationsOf(n)) => export'.seen[DurationsOf(n)] = export.seen[DurationsOf(n)]
              /\ DurationsOf(n) \in export'.owed <=> DurationsOf(n) \in export.owed
            BY <1>4, <1>6, <1>8, <2>4 DEF Exported
        <3>2. QED
            BY <1>6, <2>1, <3>1 DEF CoherentFor
    <2>5. QED
        BY <2>2, <2>3, <2>4
<1>10. DumpCopies'
    <2> SUFFICES ASSUME export.dump, export.phase \in 1 .. 4 PROVE DumpCopies'
        BY <1>6 DEF DumpCopies
    <2>1. /\ graph = Dump
          /\ \A m \in NodeMetrics : Exported(m) => Registered(m) /\ export.seen[m] = Current(m)
          /\ \A i \in 1 .. 3 : \A m \in Phases[i] :
                 Registered(m) /\ i <= export.phase => Exported(m) \/ (i = export.phase /\ m \in export.owed)
        BY DEF ExportInv, Copied, DumpCopies
    <2>2. \A m \in NodeMetrics : Registered(m)' = Registered(m) /\ Current(m)' = Current(m)
        BY <1>1 DEF Registered, Current
    <2>3. \A m \in NodeMetrics : Exported(m)' => Registered(m)' /\ export'.seen[m] = Current(m)'
        BY <1>1, <1>4, <1>6, <1>8, <2>1, <2>2 DEF Exported
    <2>4. \A i \in 1 .. 3 : \A m \in Phases[i] :
              Registered(m)' /\ i <= export'.phase
              => Exported(m)' \/ (i = export'.phase /\ m \in export'.owed)
        BY <1>6, <1>8, <2>1, <2>2, PhaseSets
    <2>5. QED
        BY <1>1, <2>1, <2>3, <2>4 DEF DumpCopies, Phases
<1>11. DumpAgrees'
    BY <1>3, <1>6 DEF DumpAgrees
<1>12. QED
    BY <1>7, <1>9, <1>10, <1>11 DEF Copied

(* The next kind of metrics: a node without durations had none observed.    *)
LEMMA PhaseCopies ==
    ASSUME ExportInv, NextPhase
    PROVE  Copied'
<1>1. /\ export.phase \in 1 .. 3 /\ export.owed = {}
      /\ UNCHANGED <<registry, metric, graph>>
    BY PhaseSets DEF NextPhase
<1>2. /\ export \in [phase : 0 .. 5, dump : BOOLEAN, owed : SUBSET MetricName,
                     seen : {export.seen}, nodes : {export.nodes}]
      /\ export.nodes = <<>>
    BY <1>1 DEF ExportInv, Copied, ExportTypes
<1> DEFINE o == IF export.phase < 3 THEN Known(Phases[export.phase + 1]) ELSE {}
<1>3. o \subseteq MetricName
    BY <1>1, PhaseSets, MetricKinds DEF Known
<1>4. export' = [export EXCEPT !.phase = @ + 1, !.owed = o]
    BY PhaseSets DEF NextPhase
<1> HIDE DEF o
<1>5. /\ export'.phase = export.phase + 1 /\ export'.owed = o
      /\ export'.dump = export.dump /\ export'.seen = export.seen /\ export'.nodes = <<>>
      /\ export' \in [phase : 0 .. 5, dump : BOOLEAN, owed : SUBSET MetricName,
                      seen : {export'.seen}, nodes : {export'.nodes}]
    <2>1. PICK p : p = export.phase + 1
        OBVIOUS
    <2>2. p \in 0 .. 5
        BY <1>1, <2>1
    <2>3. export' = [export EXCEPT !.phase = p, !.owed = o]
        BY <1>4, <2>1
    <2>4. QED
        BY <1>2, <1>3, <2>1, <2>2, <2>3
<1>6. ExportTypes'
    <2>1. export.phase = 3 => o = {}
        BY DEF o
    <2>2. QED
        BY <1>1, <1>5, <2>1 DEF ExportInv, Copied, ExportTypes
<1>7. ASSUME NEW n \in Nodes PROVE CoherentFor(n)'
    <2>1. CoherentFor(n) /\ Observed(n)' = Observed(n) /\ Observed(n) \in Nat
        BY <1>1, Values DEF ExportInv, Metered, Types, Copied, Observed, Registered, Current
    <2>2. \A m : Exported(m)' <=> Exported(m)
        BY <1>5 DEF Exported
    <2>3. export.phase = 2 /\ DurationsOf(n) \notin o => Observed(n) = 0
        BY PhaseSets DEF o, Known, Observed
    <2>4. QED
        BY <1>1, <1>5, <2>1, <2>2, <2>3 DEF CoherentFor
<1>8. DumpCopies'
    <2> SUFFICES ASSUME export.dump PROVE DumpCopies'
        BY <1>5 DEF DumpCopies
    <2>1. /\ graph = Dump
          /\ \A m \in NodeMetrics : Exported(m) => Registered(m) /\ export.seen[m] = Current(m)
          /\ \A i \in 1 .. 3 : \A m \in Phases[i] :
                 Registered(m) /\ i <= export.phase => Exported(m)
        BY <1>1 DEF ExportInv, Copied, DumpCopies
    <2>2. \A m \in NodeMetrics : Registered(m)' = Registered(m) /\ Current(m)' = Current(m)
        BY <1>1 DEF Registered, Current
    <2>3. \A i \in 1 .. 3 : \A m \in Phases[i] :
              Registered(m) /\ i <= export.phase + 1
              => Exported(m) \/ (i = export.phase + 1 /\ m \in o)
        BY <1>1, <2>1 DEF o, Known
    <2>4. QED
        BY <1>1, <1>5, <2>1, <2>2, <2>3, PhaseSets DEF DumpCopies, Exported, Phases
<1>9. DumpAgrees'
    BY <1>5 DEF DumpAgrees
<1>10. QED
    BY <1>6, <1>7, <1>8, <1>9 DEF Copied

(* The nodes' metrics are read once more: they are those copied before.     *)
LEMMA GraphCopies ==
    ASSUME ExportInv, ExportGraph
    PROVE  Copied'
<1>1. /\ export.phase = 4 /\ export.dump
      /\ UNCHANGED <<registry, metric>>
      /\ export' = [export EXCEPT !.phase = @ + 1, !.nodes = [n \in Nodes |-> NodeMetricsExport(n)]]
    BY PhaseSets DEF ExportGraph
<1>2. /\ export \in [phase : 0 .. 5, dump : BOOLEAN, owed : SUBSET MetricName,
                     seen : {export.seen}, nodes : {export.nodes}]
    BY DEF ExportInv, Copied, ExportTypes
<1> DEFINE shows == [n \in Nodes |-> NodeMetricsExport(n)]
<1>3. /\ export'.phase = 5 /\ export'.owed = export.owed /\ export'.nodes = shows
      /\ export'.dump = export.dump /\ export'.seen = export.seen
      /\ export' \in [phase : 0 .. 5, dump : BOOLEAN, owed : SUBSET MetricName,
                      seen : {export'.seen}, nodes : {export'.nodes}]
    <2>1. export' = [export EXCEPT !.phase = 5, !.nodes = shows]
        BY <1>1
    <2> HIDE DEF shows
    <2>2. /\ export'.phase = 5 /\ export'.owed = export.owed /\ export'.nodes = shows
          /\ export'.dump = export.dump /\ export'.seen = export.seen
        BY <1>2, <2>1
    <2>3. export' = [phase |-> 5, dump |-> export.dump, owed |-> export.owed,
                     seen |-> export.seen, nodes |-> shows]
        BY <1>2, <2>1
    <2>4. QED
        BY <1>2, <2>2, <2>3
<1> HIDE DEF shows
<1>4. ExportTypes'
    <2>1. export.phase = 4
        BY <1>1
    <2>2. export.owed = {} /\ DOMAIN export.seen \subseteq NodeMetrics
        BY <2>1 DEF ExportInv, Copied, ExportTypes
    <2>3. QED
        BY <1>3, <2>2 DEF ExportTypes
<1>5. ASSUME NEW n \in Nodes PROVE CoherentFor(n)'
    <2>1. CoherentFor(n) /\ Observed(n)' = Observed(n)
        BY <1>1 DEF ExportInv, Copied, Observed, Registered, Current
    <2>2. \A m : Exported(m)' <=> Exported(m)
        BY <1>3 DEF Exported
    <2>3. export.phase = 4
        BY <1>1
    <2>4. export'.phase >= 3 /\ export.phase >= 3
        BY <1>3, <2>3
    <2>5. export'.seen = export.seen /\ export'.owed = export.owed
        BY <1>3
    <2>6. QED
        BY <2>1, <2>2, <2>4, <2>5 DEF CoherentFor
<1>6. DumpCopies'
    BY <1>3 DEF DumpCopies
<1>7. DumpAgrees'
    <2>1. /\ \A m \in NodeMetrics : Exported(m) => Registered(m) /\ export.seen[m] = Current(m)
          /\ \A i \in 1 .. 3 : \A m \in Phases[i] : Registered(m) => Exported(m)
        BY <1>1 DEF ExportInv, Copied, DumpCopies
    <2>2. ASSUME NEW n \in Nodes
          PROVE  /\ \A m \in DOMAIN NodeMetricsExport(n) :
                        NodeMetricsExport(n)[m] = IF Exported(m) THEN export.seen[m] ELSE 0
                 /\ ErrorsOf(n) \in DOMAIN NodeMetricsExport(n) =>
                        NodeMetricsExport(n)[ErrorsOf(n)] <= NodeMetricsExport(n)[CallsOf(n)]
        <3>1. ShownOf(n) = {CallsOf(n), ErrorsOf(n), DepthOf(n)}
            BY DEF ShownOf, CallsOf, ErrorsOf, DepthOf
        <3> DEFINE e == NodeMetricsExport(n)
        <3>2. /\ DOMAIN e \in {{}, ShownOf(n)}
              /\ \A m \in DOMAIN e : e[m] = ValueOr0(m)
            BY DEF NodeMetricsExport
        <3> HIDE DEF e
        <3>3. \A m \in ShownOf(n) : ValueOr0(m) = IF Exported(m) THEN export.seen[m] ELSE 0
            BY <2>1, <3>1, PhaseSets DEF ValueOr0
        <3>4. ValueOr0(ErrorsOf(n)) <= ValueOr0(CallsOf(n))
            <4>1. /\ ValueOr0(ErrorsOf(n)) + (IF ErrorDue(n) THEN 1 ELSE 0) <= ValueOr0(CallsOf(n))
                  /\ ValueOr0(ErrorsOf(n)) \in Nat /\ ValueOr0(CallsOf(n)) \in Nat
                BY Values DEF ExportInv, Gaps, Metered, Types
            <4>2. QED
                BY <4>1
        <3>5. /\ \A m \in DOMAIN e : e[m] = IF Exported(m) THEN export.seen[m] ELSE 0
              /\ ErrorsOf(n) \in DOMAIN e => e[ErrorsOf(n)] <= e[CallsOf(n)]
            BY <3>1, <3>2, <3>3, <3>4
        <3>6. QED
            BY <3>5 DEF e
    <2>3. \A n \in Nodes : export'.nodes[n] = NodeMetricsExport(n)
        BY <1>3 DEF shows
    <2>4. QED
        BY <1>3, <2>2, <2>3 DEF DumpAgrees, Exported, ErrorsOf, CallsOf
<1>8. QED
    BY <1>4, <1>5, <1>6, <1>7 DEF Copied

LEMMA OtherCopies ==
    ASSUME ExportInv, ExportStep \/ Tick \/ UNCHANGED vars
    PROVE  Copied'
<1>1. CASE StartExport
    BY <1>1, BeginCopies DEF StartExport
<1>2. CASE StartDump
    BY <1>2, BeginCopies DEF StartDump
<1>3. CASE Tick \/ UNCHANGED vars
    <2>1. UNCHANGED <<registry, metric, graph, export>>
        BY <1>3 DEF Tick, vars
    <2>2. ExportTypes' /\ DumpAgrees'
        BY <2>1 DEF ExportInv, Copied, ExportTypes, DumpAgrees
    <2>3. \A n \in Nodes : CoherentFor(n)'
        BY <2>1 DEF ExportInv, Copied, CoherentFor, Exported, Observed, Registered, Current
    <2>4. DumpCopies'
        BY <2>1 DEF ExportInv, Copied, DumpCopies, Exported, Registered, Current, Phases
    <2>5. QED
        BY <2>2, <2>3, <2>4 DEF Copied
<1>4. QED
    BY <1>1, <1>2, <1>3, ReadCopies, PhaseCopies, GraphCopies DEF ExportStep

LEMMA ExportCorrect == Spec => []ExportInv
<1>1. Init => ExportInv
    BY MeteredInit, CopiedInit DEF ExportInv
<1>2. ExportInv /\ [Next]_vars => ExportInv'
    BY CallKeeps, OtherKeeps, CallCopies, OtherCopies DEF ExportInv, Next
<1>3. QED
    BY <1>1, <1>2, PTL DEF Spec

(* What is exported while calls go on is consistent as far as it can be,     *)
(* for any number of calls, nodes and hops: an export's durations are never *)
(* more than one behind its call counts, because export_json copies the     *)
(* counters first and a hop records under the graph's mutex; and the two    *)
(* parts of a debug dump agree, because it keeps the mutex for both.        *)
THEOREM ExportsConsistent == Spec => []ExportsAgree
<1>1. ExportInv => ExportsAgree
    <2> SUFFICES ASSUME ExportInv PROVE ExportCoherent
        BY DEF ExportInv, Copied, ExportsAgree
    <2>1. ASSUME NEW n \in Nodes, export.phase > 3, Exported(CallsOf(n))
          PROVE  export.seen[CallsOf(n)] <= 1 + (IF Exported(DurationsOf(n))
                                                 THEN export.seen[DurationsOf(n)].count ELSE 0)
        <3>1. export.phase \in 4 .. 5 /\ export.owed = {}
            BY <2>1 DEF ExportInv, Copied, ExportTypes
        <3>2. QED
            BY <2>1, <3>1 DEF ExportInv, Copied, CoherentFor
    <2>2. QED
        BY <2>1, PhaseSets DEF ExportCoherent, Exported, CallsOf, DurationsOf
<1>2. QED
    BY <1>1, ExportCorrect, PTL

-----------------------------------------------------------------------------
(* Sums of sequences of numbers.                                            *)

(* Every nonempty set of naturals has a least element.                      *)
LEMMA HasLeast ==
    ASSUME NEW S, S \subseteq Nat, S # {}
    PROVE  \E x \in S : \A y \in S : x <= y
<1> DEFINE R == OpToRel(<, Nat)
<1>1. \A x, y \in Nat : x < y => <<x, y>> \in R
    BY DEF OpToRel
<1>2. IsWellFoundedOn(R, Nat)
    BY NatLessThanWellFounded, Zenon
<1> HIDE DEF R
<1>3. PICK x \in S : \A y \in S : ~(<<y, x>> \in R)
    BY <1>2, WFMin
<1>4. \A y \in S : ~(y < x)
    BY <1>1, <1>3, Zenon
<1>5. QED
    BY <1>4

(* g adds up the first numbers of s.                                        *)
AddsUp(g, s, n) == g \in [0 .. n -> Nat] /\ g[0] = 0 /\ \A k \in 1 .. n : g[k] = g[k - 1] + s[k]

LEMMA SumExists ==
    ASSUME NEW s \in Seq(Nat)
    PROVE  \E g : AddsUp(g, s, Len(s))
<1> DEFINE n == Len(s)
           Summed(m) == \E g : AddsUp(g, s, m)
           Bad == {m \in 0 .. n : ~Summed(m)}
<1>1. n \in Nat /\ \A i \in 1 .. n : s[i] \in Nat
    OBVIOUS
<1> HIDE DEF n
<1>2. Bad = {}
    <2>1. SUFFICES ASSUME Bad # {} PROVE FALSE
        OBVIOUS
    <2>2. PICK m \in Bad : \A k \in Bad : m <= k
        <3>1. Bad \subseteq Nat
            OBVIOUS
        <3> HIDE DEF Bad
        <3>2. QED
            BY <2>1, <3>1, HasLeast
    <2>3. m \in 0 .. n /\ ~Summed(m) /\ \A k \in 0 .. n : ~Summed(k) => m <= k
        <3> HIDE DEF Summed
        <3>1. QED
            BY <2>2
    <2>4. m # 0
        <3>1. AddsUp([i \in 0 .. 0 |-> 0], s, 0)
            BY DEF AddsUp
        <3>2. QED
            BY <2>3, <3>1
    <2>5. m - 1 \in 0 .. n /\ Summed(m - 1)
        <3> HIDE DEF Summed
        <3>1. QED
            BY <1>1, <2>3, <2>4
    <2>6. PICK g : AddsUp(g, s, m - 1)
        BY <2>5
    <2> DEFINE h == [i \in 0 .. m |-> IF i = m THEN g[m - 1] + s[m] ELSE g[i]]
    <2>7. /\ m \in 1 .. n /\ s[m] \in Nat /\ \A i \in 0 .. m - 1 : g[i] \in Nat
          /\ g[0] = 0 /\ \A k \in 1 .. m - 1 : g[k] = g[k - 1] + s[k]
        BY <1>1, <2>3, <2>4, <2>6 DEF AddsUp
    <2>8. h \in [0 .. m -> Nat] /\ h[0] = 0
        BY <2>7
    <2>9. ASSUME NEW k \in 1 .. m PROVE h[k] = h[k - 1] + s[k]
        <3>1. CASE k = m
            BY <2>7, <3>1
        <3>2. CASE k # m
            <4>1. k \in 1 .. m - 1 /\ h[k] = g[k] /\ h[k - 1] = g[k - 1]
                BY <2>7, <3>2
            <4>2. QED
                BY <2>7, <4>1
        <3>3. QED
            BY <3>1, <3>2
    <2>10. AddsUp(h, s, m)
        BY <2>8, <2>9 DEF AddsUp
    <2>11. QED
        BY <2>3, <2>10
<1>3. Summed(n)
    <2> HIDE DEF Summed
    <2>1. QED
        BY <1>1, <1>2
<1>4. QED
    BY <1>3 DEF n

(* Whatever adds them up adds up to SumOf.                                  *)
LEMMA SumIs ==
    ASSUME NEW s \in Seq(Nat), NEW g, AddsUp(g, s, Len(s))
    PROVE  SumOf(s) = g[Len(s)] /\ SumOf(s) \in Nat
<1> DEFINE n == Len(s)
           Def(x) == x = [k \in 0 .. n |-> IF k = 0 THEN 0 ELSE x[k - 1] + s[k]]
           f == CHOOSE x : Def(x)
<1>1. n \in Nat
    OBVIOUS
<1>2. SumOf(s) = f[n]
    BY DEF SumOf
<1> HIDE DEF n
<1>3. g \in [0 .. n -> Nat] /\ g[0] = 0 /\ \A k \in 1 .. n : g[k] = g[k - 1] + s[k]
    BY DEF AddsUp, n
<1>4. Def(g)
    <2>1. \A k \in 0 .. n : k = 0 \/ (k \in 1 .. n /\ k # 0)
        BY <1>1
    <2>2. \A k \in 0 .. n : g[k] = IF k = 0 THEN 0 ELSE g[k - 1] + s[k]
        BY <1>3, <2>1
    <2>3. g = [k \in 0 .. n |-> g[k]]
        BY <1>3
    <2>4. QED
        BY <2>2, <2>3
<1>5. Def(f)
    <2> HIDE DEF Def
    <2>1. QED
        BY <1>4
<1> HIDE DEF f
<1>6. /\ DOMAIN f = 0 .. n /\ f[0] = 0
      /\ \A k \in 1 .. n : f[k] = f[k - 1] + s[k]
    <2>1. f = [k \in 0 .. n |-> IF k = 0 THEN 0 ELSE f[k - 1] + s[k]]
        BY <1>5
    <2>2. 0 \in 0 .. n /\ \A k \in 1 .. n : k \in 0 .. n /\ k # 0
        BY <1>1
    <2>3. \A k \in 0 .. n : f[k] = IF k = 0 THEN 0 ELSE f[k - 1] + s[k]
        BY <2>1
    <2>4. DOMAIN f = 0 .. n
        BY <2>1
    <2>5. QED
        BY <2>2, <2>3, <2>4
<1> DEFINE Bad == {k \in 0 .. n : f[k] # g[k]}
<1>7. Bad = {}
    <2>1. SUFFICES ASSUME Bad # {} PROVE FALSE
        OBVIOUS
    <2>2. PICK k \in Bad : \A j \in Bad : k <= j
        <3>1. Bad \subseteq Nat
            OBVIOUS
        <3> HIDE DEF Bad
        <3>2. QED
            BY <2>1, <3>1, HasLeast
    <2>3. k \in 1 .. n /\ f[k] # g[k]
        BY <1>3, <1>6, <2>2
    <2>4. k - 1 \in 0 .. n /\ ~(k <= k - 1)
        BY <1>1, <2>3
    <2>5. f[k - 1] = g[k - 1]
        BY <2>2, <2>4
    <2>6. QED
        BY <1>3, <1>6, <2>3, <2>5
<1>8. n \in 0 .. n
    BY <1>1
<1>9. f[n] = g[n] /\ g[n] \in Nat
    <2>1. n \notin Bad
        BY <1>7, Zenon
    <2>2. QED
        BY <1>3, <1>8, <2>1
<1>10. QED
    BY <1>2, <1>9 DEF n

LEMMA Sums ==
    ASSUME NEW s \in Seq(Nat)
    PROVE  \E g : AddsUp(g, s, Len(s)) /\ SumOf(s) = g[Len(s)] /\ SumOf(s) \in Nat
BY SumExists, SumIs

LEMMA SumEmpty == SumOf(<<>>) = 0
<1>1. <<>> \in Seq(Nat) /\ Len(<<>>) = 0
    OBVIOUS
<1>2. QED
    BY <1>1, Sums DEF AddsUp

(* One number more, anywhere in the sequence, adds itself to the sum.       *)
LEMMA SumInserted ==
    ASSUME NEW s \in Seq(Nat), NEW t \in Seq(Nat), Len(t) = Len(s) + 1,
           NEW p \in 0 .. Len(s),
           \A i \in 1 .. Len(t) : i <= p => t[i] = s[i],
           \A i \in 1 .. Len(t) : i > p + 1 => t[i] = s[i - 1]
    PROVE  SumOf(t) = SumOf(s) + t[p + 1]
<1> DEFINE n == Len(s)
           v == t[p + 1]
<1>1. PICK g : AddsUp(g, s, n) /\ SumOf(s) = g[n]
    BY Sums
<1>2. n \in Nat /\ Len(t) = n + 1 /\ v \in Nat /\ \A i \in 1 .. n : s[i] \in Nat
    OBVIOUS
<1> HIDE DEF n, v
<1> DEFINE h == [k \in 0 .. n + 1 |-> IF k <= p THEN g[k] ELSE g[k - 1] + v]
<1>3. p \in 0 .. n /\ g[0] = 0 /\ (\A k \in 0 .. n : g[k] \in Nat) /\ \A k \in 1 .. n : g[k] = g[k - 1] + s[k]
    BY <1>1 DEF AddsUp, n
<1>4. h \in [0 .. n + 1 -> Nat] /\ h[0] = 0
    <2>1. \A k \in 0 .. n + 1 : k <= p => k \in 0 .. n
        BY <1>2, <1>3
    <2>2. \A k \in 0 .. n + 1 : ~(k <= p) => k - 1 \in 0 .. n
        BY <1>2, <1>3
    <2>3. 0 \in 0 .. n + 1 /\ 0 <= p
        BY <1>2, <1>3
    <2>4. ASSUME NEW k \in 0 .. n + 1 PROVE (IF k <= p THEN g[k] ELSE g[k - 1] + v) \in Nat
        <3>1. CASE k <= p
            BY <1>3, <2>1, <3>1
        <3>2. CASE ~(k <= p)
            <4>1. g[k - 1] \in Nat
                BY <1>3, <2>2, <3>2
            <4>2. QED
                BY <1>2, <3>2, <4>1
        <3>3. QED
            BY <3>1, <3>2
    <2>5. QED
        BY <1>3, <2>3, <2>4
<1>5. ASSUME NEW k \in 1 .. n + 1 PROVE h[k] = h[k - 1] + t[k]
    <2>1. CASE k <= p
        <3>1. k \in 1 .. n /\ k - 1 <= p /\ k - 1 \in 0 .. n + 1 /\ k \in 0 .. n + 1
            BY <1>2, <1>3, <2>1
        <3>2. h[k] = g[k] /\ h[k - 1] = g[k - 1] /\ t[k] = s[k]
            BY <1>2, <2>1, <3>1
        <3>3. QED
            BY <1>3, <3>1, <3>2
    <2>2. CASE k = p + 1
        <3>1. k - 1 = p /\ k - 1 <= p /\ ~(k <= p) /\ k - 1 \in 0 .. n + 1 /\ k \in 0 .. n + 1
            BY <1>2, <1>3, <2>2
        <3>2. h[k] = g[p] + v /\ h[k - 1] = g[p]
            BY <3>1
        <3>3. QED
            BY <2>2, <3>2 DEF v
    <2>3. CASE k > p + 1
        <3>1. /\ k - 1 \in 1 .. n /\ ~(k - 1 <= p) /\ ~(k <= p) /\ k - 1 \in 0 .. n + 1 /\ k \in 0 .. n + 1
              /\ k - 2 \in 0 .. n /\ (k - 1) - 1 = k - 2
            BY <1>2, <1>3, <2>3
        <3>2. h[k] = g[k - 1] + v /\ h[k - 1] = g[k - 2] + v /\ t[k] = s[k - 1]
            BY <1>2, <2>3, <3>1
        <3>3. g[k - 1] = g[k - 2] + s[k - 1] /\ g[k - 1] \in Nat /\ g[k - 2] \in Nat /\ s[k - 1] \in Nat
            BY <1>2, <1>3, <3>1
        <3>4. g[k - 1] + v = (g[k - 2] + v) + s[k - 1]
            BY <1>2, <3>3, SMTT(30)
        <3>5. QED
            BY <3>2, <3>4, Zenon
    <2>4. QED
        BY <1>2, <1>3, <2>1, <2>2, <2>3
<1>6. AddsUp(h, t, Len(t))
    <2> HIDE DEF h
    <2>1. QED
        BY <1>2, <1>4, <1>5 DEF AddsUp
<1>7. h[n + 1] = g[n] + v
    <2>1. n + 1 \in 0 .. n + 1 /\ ~(n + 1 <= p) /\ (n + 1) - 1 = n
        BY <1>2, <1>3
    <2>2. QED
        BY <2>1
<1> HIDE DEF h
<1>8. QED
    BY <1>1, <1>2, <1>6, <1>7, SumIs DEF v

(* A number that grows adds the difference.                                 *)
LEMMA SumGrows ==
    ASSUME NEW s \in Seq(Nat), NEW t \in Seq(Nat), Len(t) = Len(s),
           NEW p \in 1 .. Len(s), NEW v \in Nat, t[p] = s[p] + v,
           \A i \in 1 .. Len(s) : i # p => t[i] = s[i]
    PROVE  SumOf(t) = SumOf(s) + v
<1> DEFINE n == Len(s)
<1>1. PICK g : AddsUp(g, s, n) /\ SumOf(s) = g[n]
    BY Sums
<1>2. n \in Nat /\ Len(t) = n /\ \A i \in 1 .. n : s[i] \in Nat
    OBVIOUS
<1> HIDE DEF n
<1> DEFINE h == [k \in 0 .. n |-> IF k < p THEN g[k] ELSE g[k] + v]
<1>3. p \in 1 .. n /\ g[0] = 0 /\ (\A k \in 0 .. n : g[k] \in Nat) /\ \A k \in 1 .. n : g[k] = g[k - 1] + s[k]
    BY <1>1 DEF AddsUp, n
<1>4. h \in [0 .. n -> Nat] /\ h[0] = 0
    <2>1. \A k \in 0 .. n : g[k] \in Nat /\ g[k] + v \in Nat
        BY <1>3
    <2>2. \A k \in 0 .. n : (IF k < p THEN g[k] ELSE g[k] + v) \in Nat
        BY <2>1
    <2>3. 0 \in 0 .. n /\ 0 < p
        BY <1>2, <1>3
    <2>4. QED
        BY <1>3, <2>2, <2>3
<1>5. ASSUME NEW k \in 1 .. n PROVE h[k] = h[k - 1] + t[k]
    <2>0. k \in 0 .. n /\ k - 1 \in 0 .. n /\ k \in Int /\ p \in Int
        BY <1>2, <1>3
    <2>1. s[k] \in Nat /\ g[k] = g[k - 1] + s[k] /\ g[k - 1] \in Nat /\ g[k] \in Nat
        BY <1>2, <1>3, <2>0
    <2>2. CASE k < p
        <3>1. t[k] = s[k]
            BY <1>2, <2>2 DEF n
        <3>2. h[k] = g[k] /\ h[k - 1] = g[k - 1]
            BY <2>0, <2>2
        <3> HIDE DEF h
        <3>3. QED
            BY <2>1, <3>1, <3>2
    <2>3. CASE k = p
        <3>1. t[k] = s[k] + v /\ h[k] = g[k] + v /\ h[k - 1] = g[k - 1]
            BY <2>0, <2>3
        <3>2. g[k] + v = g[k - 1] + (s[k] + v)
            BY <2>1, SMTT(30)
        <3>3. QED
            BY <3>1, <3>2, Zenon
    <2>4. CASE k > p
        <3>1. t[k] = s[k]
            BY <2>0, <2>4 DEF n
        <3>2. h[k] = g[k] + v /\ h[k - 1] = g[k - 1] + v
            BY <2>0, <2>4
        <3>3. g[k] + v = (g[k - 1] + v) + s[k]
            BY <2>1, SMTT(30)
        <3>4. QED
            BY <3>1, <3>2, <3>3, Zenon
    <2>5. QED
        BY <2>0, <2>2, <2>3, <2>4
<1>6. AddsUp(h, t, Len(t))
    <2> HIDE DEF h
    <2>1. QED
        BY <1>2, <1>4, <1>5 DEF AddsUp
<1>7. h[n] = g[n] + v
    BY <1>2, <1>3
<1> HIDE DEF h
<1>8. QED
    BY <1>1, <1>2, <1>6, <1>7, SumIs

(* Zeros in front may be dropped.                                           *)
LEMMA SumDropped ==
    ASSUME NEW s \in Seq(Nat), NEW t \in Seq(Nat), NEW d \in 0 .. Len(s), Len(t) = Len(s) - d,
           \A i \in 1 .. d : s[i] = 0,
           \A i \in 1 .. Len(t) : t[i] = s[i + d]
    PROVE  SumOf(t) = SumOf(s)
<1> DEFINE n == Len(s)
<1>1. PICK g : AddsUp(g, s, n) /\ SumOf(s) = g[n]
    BY Sums
<1>2. n \in Nat /\ Len(t) = n - d /\ d \in 0 .. n
    OBVIOUS
<1> HIDE DEF n
<1>3. g[0] = 0 /\ (\A k \in 0 .. n : g[k] \in Nat) /\ \A k \in 1 .. n : g[k] = g[k - 1] + s[k]
    BY <1>1 DEF AddsUp
<1> DEFINE Bad == {k \in 0 .. d : g[k] # 0}
<1>4. Bad = {}
    <2>1. SUFFICES ASSUME Bad # {} PROVE FALSE
        OBVIOUS
    <2>2. PICK k \in Bad : \A j \in Bad : k <= j
        <3>1. Bad \subseteq Nat
            OBVIOUS
        <3> HIDE DEF Bad
        <3>2. QED
            BY <2>1, <3>1, HasLeast
    <2>3. k \in 1 .. d /\ g[k] # 0
        BY <1>3, <2>2
    <2>4. k - 1 \in 0 .. d /\ ~(k <= k - 1) /\ k \in 1 .. n
        BY <1>2, <2>3
    <2>5. g[k - 1] = 0 /\ s[k] = 0
        BY <2>2, <2>3, <2>4
    <2>6. QED
        BY <1>3, <2>3, <2>4, <2>5
<1>5. g[d] = 0
    <2>1. d \in 0 .. d
        BY <1>2
    <2>2. d \notin Bad
        BY <1>4, Zenon
    <2>3. QED
        BY <2>1, <2>2
<1> DEFINE h == [k \in 0 .. n - d |-> g[k + d]]
<1>6. h \in [0 .. n - d -> Nat] /\ h[0] = 0
    <2>1. \A k \in 0 .. n - d : k + d \in 0 .. n
        BY <1>2
    <2>2. 0 \in 0 .. n - d /\ 0 + d = d
        BY <1>2
    <2>3. QED
        BY <1>3, <1>5, <2>1, <2>2
<1>7. ASSUME NEW k \in 1 .. n - d PROVE h[k] = h[k - 1] + t[k]
    <2>1. /\ k \in 0 .. n - d /\ k - 1 \in 0 .. n - d /\ k + d \in 1 .. n
          /\ (k + d) - 1 = (k - 1) + d
        BY <1>2
    <2>2. h[k] = g[k + d] /\ h[k - 1] = g[(k - 1) + d] /\ t[k] = s[k + d]
        BY <1>2, <2>1
    <2>3. g[k + d] = g[(k + d) - 1] + s[k + d]
        BY <1>3, <2>1
    <2>4. QED
        BY <2>1, <2>2, <2>3
<1>8. AddsUp(h, t, Len(t))
    <2> HIDE DEF h
    <2>1. QED
        BY <1>2, <1>6, <1>7 DEF AddsUp
<1>9. h[n - d] = g[n]
    <2>1. n - d \in 0 .. n - d /\ (n - d) + d = n
        BY <1>2
    <2>2. QED
        BY <2>1
<1> HIDE DEF h
<1>10. QED
    BY <1>1, <1>2, <1>8, <1>9, SumIs

-----------------------------------------------------------------------------
(* What was recorded under a name, in ascending order.                      *)
Ascending(s) == \A i, j \in 1 .. Len(s) : i <= j => s[i] <= s[j]

(* t is s with v behind the first p of it.                                  *)
OneMore(s, t, v, p) ==
    /\ Len(t) = Len(s) + 1 /\ t[p + 1] = v
    /\ \A i \in 1 .. Len(t) : i <= p => t[i] = s[i]
    /\ \A i \in 1 .. Len(t) : i > p + 1 => t[i] = s[i - 1]

LEMMA Inserting ==
    ASSUME NEW s \in Seq(Nat), Ascending(s), NEW v \in Nat
    PROVE  /\ Inserted(s, v) \in Seq(Nat) /\ Ascending(Inserted(s, v))
           /\ \E p \in 0 .. Len(s) : OneMore(s, Inserted(s, v), v, p)
<1> DEFINE n == Len(s)
           Q == {i \in 0 .. n : i = n \/ v < s[i + 1]}
           p == Min(Q)
           t == Inserted(s, v)
<1>1. n \in Nat /\ \A i \in 1 .. n : s[i] \in Nat
    OBVIOUS
<1>2. t = [i \in 1 .. n + 1 |-> IF i <= p THEN s[i] ELSE IF i = p + 1 THEN v ELSE s[i - 1]]
    BY DEF Inserted
<1> HIDE DEF n, t
<1>3. p \in Q /\ \A i \in Q : p <= i
    <2>1. n \in Q
        BY <1>1
    <2>2. Q \subseteq Nat
        OBVIOUS
    <2> HIDE DEF Q
    <2>3. \E x \in Q : \A y \in Q : x <= y
        BY <2>1, <2>2, HasLeast
    <2>4. QED
        BY <2>3 DEF Min
<1> HIDE DEF p
<1>4. p \in 0 .. n /\ (p = n \/ v < s[p + 1]) /\ \A i \in 1 .. p : s[i] <= v
    <2>1. ASSUME NEW i \in 1 .. p PROVE s[i] <= v
        <3>1. i - 1 \in 0 .. n /\ i - 1 # n /\ (i - 1) + 1 = i /\ ~(p <= i - 1) /\ i \in 1 .. n
            BY <1>1, <1>3
        <3>2. ~(v < s[i])
            BY <1>3, <3>1
        <3>3. QED
            BY <1>1, <3>1, <3>2
    <2>2. QED
        BY <1>3, <2>1
<1> HIDE DEF Q
<1>5. /\ \A i \in 1 .. p : t[i] = s[i] /\ i \in 1 .. n
      /\ t[p + 1] = v
      /\ \A i \in p + 2 .. n + 1 : t[i] = s[i - 1] /\ i - 1 \in 1 .. n
    BY <1>1, <1>2, <1>4
<1>6. \A i \in 1 .. n + 1 : i \in 1 .. p \/ i = p + 1 \/ i \in p + 2 .. n + 1
    BY <1>1, <1>4
<1>7. \A i \in 1 .. n + 1 : t[i] \in Nat
    BY <1>1, <1>5, <1>6
<1>8. t \in Seq(Nat) /\ Len(t) = n + 1
    <2>1. DOMAIN t = 1 .. n + 1 /\ t = [i \in 1 .. n + 1 |-> t[i]]
        BY <1>2
    <2>2. t \in [1 .. n + 1 -> Nat]
        BY <1>7, <2>1
    <2>3. n + 1 \in Nat
        BY <1>1
    <2>4. QED
        BY <2>1, <2>2, <2>3
<1>9. \A i \in p + 1 .. n : v <= s[i]
    <2>1. SUFFICES ASSUME NEW i \in p + 1 .. n PROVE v <= s[i]
        OBVIOUS
    <2>2. p + 1 \in 1 .. n /\ i \in 1 .. n /\ p + 1 <= i /\ p # n
        BY <1>1, <1>4
    <2>3. v < s[p + 1] /\ s[p + 1] <= s[i]
        BY <1>4, <2>2 DEF Ascending, n
    <2>4. QED
        BY <1>1, <2>2, <2>3
<1>10. ASSUME NEW i \in 1 .. n + 1, NEW j \in 1 .. n + 1, i <= j PROVE t[i] <= t[j]
    <2>0. i \in Int /\ j \in Int /\ p \in Int
        BY <1>4
    <2>1. CASE i \in 1 .. p
        <3>1. t[i] = s[i] /\ s[i] <= v /\ i \in 1 .. n
            BY <1>4, <1>5, <2>1
        <3>2. CASE j \in 1 .. p
            BY <1>5, <1>10, <2>1, <3>2 DEF Ascending, n
        <3>3. CASE j = p + 1
            BY <1>5, <3>1, <3>3
        <3>4. CASE j \in p + 2 .. n + 1
            <4>1. t[j] = s[j - 1] /\ j - 1 \in p + 1 .. n /\ j - 1 \in 1 .. n
                BY <1>1, <1>4, <1>5, <3>4
            <4>2. v <= s[j - 1]
                BY <1>9, <4>1
            <4>3. QED
                BY <1>1, <3>1, <4>1, <4>2
        <3>5. QED
            BY <1>6, <3>2, <3>3, <3>4
    <2>2. CASE i = p + 1
        <3>1. CASE j = p + 1
            BY <1>5, <2>2, <3>1
        <3>2. CASE j \in p + 2 .. n + 1
            <4>1. t[j] = s[j - 1] /\ j - 1 \in p + 1 .. n
                BY <1>1, <1>4, <1>5, <3>2
            <4>2. QED
                BY <1>5, <1>9, <2>2, <4>1
        <3>3. j \notin 1 .. p
            BY <1>10, <2>0, <2>2
        <3>4. QED
            BY <1>6, <3>1, <3>2, <3>3
    <2>3. CASE i \in p + 2 .. n + 1
        <3>1. j \in p + 2 .. n + 1
            BY <1>10, <2>0, <2>3
        <3>2. t[i] = s[i - 1] /\ t[j] = s[j - 1] /\ i - 1 \in 1 .. n /\ j - 1 \in 1 .. n /\ i - 1 <= j - 1
            BY <1>5, <1>10, <2>3, <3>1
        <3>3. QED
            BY <3>2 DEF Ascending, n
    <2>4. QED
        BY <1>6, <2>1, <2>2, <2>3
<1>11. Ascending(t)
    BY <1>8, <1>10 DEF Ascending
<1>12. OneMore(s, t, v, p)
    <2>1. \A i \in 1 .. n + 1 : (i <= p => i \in 1 .. p) /\ (i > p + 1 => i \in p + 2 .. n + 1)
        BY <1>4
    <2>2. QED
        BY <1>5, <1>8, <2>1 DEF OneMore, n
<1>13. QED
    BY <1>4, <1>8, <1>11, <1>12 DEF t, n

(* It counts once more whatever is said of it.                              *)
Where(s, Q) == {i \in 1 .. Len(s) : s[i] \in Q}

LEMMA Counting ==
    ASSUME NEW s \in Seq(Nat), NEW t \in Seq(Nat), NEW v, NEW p \in 0 .. Len(s), OneMore(s, t, v, p), NEW Q
    PROVE  Cardinality(Where(t, Q)) = Cardinality(Where(s, Q)) + (IF v \in Q THEN 1 ELSE 0)
<1> DEFINE n == Len(s)
           A == {i \in 1 .. n : s[i] \in Q}
           B == {i \in 1 .. n + 1 : t[i] \in Q}
           C == B \ {p + 1}
           f == [i \in A |-> IF i <= p THEN i ELSE i + 1]
<1>1. /\ n \in Nat /\ p \in 0 .. n /\ Len(t) = n + 1 /\ t[p + 1] = v
      /\ \A i \in 1 .. n + 1 : i <= p => t[i] = s[i]
      /\ \A i \in 1 .. n + 1 : i > p + 1 => t[i] = s[i - 1]
    BY DEF OneMore
<1> HIDE DEF n
<1>2. IsFiniteSet(A) /\ Cardinality(A) \in Nat
    <2>1. IsFiniteSet(1 .. n)
        BY <1>1, FS_Interval
    <2>2. QED
        BY <2>1, FS_Subset, FS_CardinalityType
<1>3. f \in Bijection(A, C)
    <2>1. f \in [A -> C]
        <3>1. ASSUME NEW i \in A PROVE (IF i <= p THEN i ELSE i + 1) \in C
            <4>1. i \in 1 .. n /\ s[i] \in Q
                OBVIOUS
            <4>2. CASE i <= p
                <5>1. i \in 1 .. n + 1 /\ i # p + 1 /\ t[i] = s[i]
                    BY <1>1, <4>1, <4>2
                <5>2. QED
                    BY <4>1, <4>2, <5>1
            <4>3. CASE ~(i <= p)
                <5>1. i + 1 \in 1 .. n + 1 /\ i + 1 # p + 1 /\ i + 1 > p + 1 /\ (i + 1) - 1 = i
                    BY <1>1, <4>1, <4>3
                <5>2. t[i + 1] = s[i]
                    BY <1>1, <5>1
                <5>3. QED
                    BY <4>1, <4>3, <5>1, <5>2
            <4>4. QED
                BY <4>2, <4>3
        <3>2. QED
            BY <3>1
    <2>2. \A i, j \in A : f[i] = f[j] => i = j
        BY <1>1
    <2>3. \A k \in C : \E i \in A : f[i] = k
        <3>1. SUFFICES ASSUME NEW k \in C PROVE \E i \in A : f[i] = k
            OBVIOUS
        <3>2. k \in 1 .. n + 1 /\ k # p + 1 /\ t[k] \in Q
            OBVIOUS
        <3>3. CASE k <= p
            <4>1. k \in A
                BY <1>1, <3>2, <3>3
            <4>2. QED
                BY <3>3, <4>1
        <3>4. CASE ~(k <= p)
            <4>1. k > p + 1 /\ k - 1 \in 1 .. n /\ ~(k - 1 <= p) /\ (k - 1) + 1 = k
                BY <1>1, <3>2, <3>4
            <4>2. k - 1 \in A
                BY <1>1, <3>2, <4>1
            <4>3. QED
                BY <4>1, <4>2
        <3>5. QED
            BY <3>3, <3>4
    <2> HIDE DEF f, A, C
    <2>4. f \in Injection(A, C)
        BY <2>1, <2>2 DEF Injection, IsInjective
    <2>5. f \in Surjection(A, C)
        BY <2>1, <2>3 DEF Surjection
    <2>6. QED
        BY <2>4, <2>5 DEF Bijection
<1>4. IsFiniteSet(C) /\ Cardinality(C) = Cardinality(A)
    <2> HIDE DEF A, C, f
    <2>1. QED
        BY <1>2, <1>3, FS_Bijection DEF ExistsBijection
<1>5. Where(t, Q) = B /\ Where(s, Q) = A
    BY <1>1 DEF Where, n
<1>6. CASE v \in Q
    <2>1. p + 1 \in B /\ B = C \cup {p + 1} /\ p + 1 \notin C
        BY <1>1, <1>6
    <2> HIDE DEF C, A, B
    <2>2. Cardinality(C \cup {p + 1}) = Cardinality(C) + 1
        BY <1>4, <2>1, FS_AddElement
    <2>3. Cardinality(B) = Cardinality(A) + 1
        BY <1>4, <2>1, <2>2
    <2>4. QED
        BY <1>6, <1>5, <2>3
<1>7. CASE v \notin Q
    <2>1. p + 1 \notin B
        BY <1>1, <1>7
    <2>2. B = C
        BY <2>1
    <2>3. Cardinality(B) = Cardinality(A)
        BY <1>4, <2>2
    <2> HIDE DEF C
    <2> HIDE DEF A, B
    <2>4. QED
        BY <1>2, <1>7, <1>5, <2>3
<1>8. QED
    BY <1>6, <1>7

(* A value's bucket is the first with a bound not below it, or the last.    *)
LEMMA BucketType ==
    ASSUME NEW v \in Nat
    PROVE  /\ BucketOf(v) \in Buckets
           /\ \A b \in 1 .. Len(Bounds) : v <= Bounds[b] => BucketOf(v) <= b
           /\ BucketOf(v) <= Len(Bounds) => v <= Bounds[BucketOf(v)]
<1> DEFINE Q == {b \in 1 .. Len(Bounds) : v <= Bounds[b]} \cup {Len(Bounds) + 1}
           x == BucketOf(v)
<1>1. Len(Bounds) \in Nat
    BY TelemetryAssumption
<1>2. x \in Q /\ \A y \in Q : x <= y
    <2>1. x = Min(Q)
        BY DEF BucketOf
    <2>2. Q \subseteq Nat /\ Q # {}
        BY <1>1
    <2> HIDE DEF Q
    <2>3. \E z \in Q : \A y \in Q : z <= y
        BY <2>2, HasLeast
    <2>4. QED
        BY <2>1, <2>3 DEF Min
<1> HIDE DEF x
<1>3. x \in 1 .. Len(Bounds) + 1
    BY <1>1, <1>2
<1>4. \A b \in 1 .. Len(Bounds) : v <= Bounds[b] => x <= b
    BY <1>2
<1>5. x <= Len(Bounds) => v <= Bounds[x]
    BY <1>1, <1>2
<1>6. QED
    BY <1>3, <1>4, <1>5 DEF x, Buckets

-----------------------------------------------------------------------------
(* Nothing recorded is lost: what the registry has under a name follows     *)
(* from what was recorded under it.                                         *)
HistogramOf(s) ==
    [counts |-> [b \in Buckets |-> Cardinality({i \in 1 .. Len(s) : BucketOf(s[i]) = b})],
     sum |-> SumOf(s), count |-> Len(s)]

Kept ==
    /\ DOMAIN made = MetricName
    /\ \A m \in MetricName \ Gauges : made[m] \in Seq(Nat) /\ Ascending(made[m])
    /\ \A m \in MetricName : ~Registered(m) => made[m] = <<>>
    /\ \A m \in Counters : Registered(m) => Current(m) = SumOf(made[m])
    /\ \A m \in Gauges : Registered(m) => Current(m) = IF made[m] = <<>> THEN 0 ELSE Last(made[m])
    /\ \A m \in Histograms : Registered(m) => Current(m) = HistogramOf(made[m])

(* The registry's one Arc of a metric is the only one made.                 *)
Cells ==
    \A m \in MetricName : metric[m] = IF Registered(m) THEN <<Current(m)>> ELSE <<>>

Owners == graph \in Calls \cup {NoOne, Dump} /\ (graph = Dump => export.dump /\ export.phase # 0)

LEMMA SumOneMore ==
    ASSUME NEW s \in Seq(Nat), Ascending(s), NEW v \in Nat
    PROVE  SumOf(Inserted(s, v)) = SumOf(s) + v
<1>1. PICK p \in 0 .. Len(s) : OneMore(s, Inserted(s, v), v, p)
    BY Inserting
<1> DEFINE t == Inserted(s, v)
<1>2. t \in Seq(Nat)
    BY Inserting
<1> HIDE DEF t
<1>3. /\ Len(t) = Len(s) + 1 /\ t[p + 1] = v
      /\ \A i \in 1 .. Len(t) : i <= p => t[i] = s[i]
      /\ \A i \in 1 .. Len(t) : i > p + 1 => t[i] = s[i - 1]
    BY <1>1 DEF OneMore, t
<1>4. SumOf(t) = SumOf(s) + t[p + 1]
    BY <1>2, <1>3, SumInserted
<1>5. QED
    BY <1>3, <1>4 DEF t

(* observe keeps the histogram of what was observed.                        *)
LEMMA Observing ==
    ASSUME NEW s \in Seq(Nat), Ascending(s), NEW v \in Nat
    PROVE  Observe(HistogramOf(s), v) = HistogramOf(Inserted(s, v))
<1> DEFINE t == Inserted(s, v)
           N(x, b) == Cardinality({i \in 1 .. Len(x) : BucketOf(x[i]) = b})
<1>1. PICK p \in 0 .. Len(s) : OneMore(s, t, v, p)
    BY Inserting
<1>2. t \in Seq(Nat) /\ Len(t) = Len(s) + 1 /\ SumOf(t) = SumOf(s) + v
    BY <1>1, Inserting, SumOneMore DEF OneMore
<1> HIDE DEF t
<1>3. ASSUME NEW b \in Buckets PROVE N(t, b) = N(s, b) + (IF BucketOf(v) = b THEN 1 ELSE 0)
    <2> DEFINE Q == {x \in Nat : BucketOf(x) = b}
    <2>1. Cardinality(Where(t, Q)) = Cardinality(Where(s, Q)) + (IF v \in Q THEN 1 ELSE 0)
        <3> HIDE DEF Q, N
        <3>1. QED
            BY <1>1, <1>2, Counting
    <2>2. Where(t, Q) = {i \in 1 .. Len(t) : BucketOf(t[i]) = b}
        BY <1>2 DEF Where
    <2>3. Where(s, Q) = {i \in 1 .. Len(s) : BucketOf(s[i]) = b}
        BY DEF Where
    <2>4. v \in Q <=> BucketOf(v) = b
        OBVIOUS
    <2>5. QED
        BY <2>1, <2>2, <2>3, <2>4
<1>4. \A b \in Buckets : N(s, b) \in Nat
    <2> TAKE b \in Buckets
    <2> DEFINE S == {i \in 1 .. Len(s) : BucketOf(s[i]) = b}
    <2>1. IsFiniteSet(1 .. Len(s)) /\ S \subseteq 1 .. Len(s)
        BY FS_Interval
    <2> HIDE DEF S
    <2>2. Cardinality(S) \in Nat
        BY <2>1, FS_Subset, FS_CardinalityType
    <2>3. QED
        BY <2>2 DEF S
<1> DEFINE cs == [b \in Buckets |-> N(s, b)]
           ct == [b \in Buckets |-> N(t, b)]
<1>5. [cs EXCEPT ![BucketOf(v)] = @ + 1] = ct
    <2> HIDE DEF N
    <2>1. \A b \in Buckets : ct[b] = IF b = BucketOf(v) THEN cs[b] + 1 ELSE cs[b]
        BY <1>3, <1>4
    <2>2. [cs EXCEPT ![BucketOf(v)] = @ + 1] = [b \in Buckets |-> IF b = BucketOf(v) THEN cs[b] + 1 ELSE cs[b]]
        OBVIOUS
    <2>3. QED
        BY <2>1, <2>2
<1>6. HistogramOf(s) = [counts |-> cs, sum |-> SumOf(s), count |-> Len(s)]
    BY DEF HistogramOf
<1>7. HistogramOf(t) = [counts |-> ct, sum |-> SumOf(t), count |-> Len(t)]
    BY DEF HistogramOf
<1> HIDE DEF cs, ct
<1>8. Observe(HistogramOf(s), v)
        = [counts |-> [cs EXCEPT ![BucketOf(v)] = @ + 1], sum |-> SumOf(s) + v, count |-> Len(s) + 1]
    BY <1>6 DEF Observe
<1>9. QED
    BY <1>2, <1>5, <1>7, <1>8 DEF t

LEMMA EmptyHistogram == HistogramOf(<<>>) = NewHistogram
<1>1. \A b \in Buckets : Cardinality({i \in 1 .. Len(<<>>) : BucketOf(<<>>[i]) = b}) = 0
    <2> TAKE b \in Buckets
    <2>1. {i \in 1 .. Len(<<>>) : BucketOf(<<>>[i]) = b} = {}
        OBVIOUS
    <2>2. QED
        BY <2>1, FS_EmptySet
<1>2. QED
    BY <1>1, SumEmpty DEF HistogramOf, NewHistogram

(* A lookup registers a metric with nothing recorded.                       *)
LEMMA LookupRecords ==
    ASSUME Metered, Kept, Cells, NEW c \in Calls, Lookup(c)
    PROVE  Kept' /\ Cells'
<1>1. PICK m0 : m0 = todo[c][1].metric
    OBVIOUS
<1>2. /\ m0 \in MetricName
      /\ \A m \in MetricName :
             /\ m # m0 => registry'[m] = registry[m]
             /\ Registered(m) => registry'[m] = registry[m] /\ Current(m)' = Current(m)
             /\ ~Registered(m) /\ registry'[m] # 0 => Current(m)' = NewMetric(m)
      /\ registry'[m0] = 1 /\ todo[c] # <<>>
    BY <1>1, LookupEffect DEF Metered, Types
<1>3. made' = made
    BY DEF Lookup
<1>4. \A m \in MetricName : /\ ~Registered(m)' => ~Registered(m)
                            /\ Registered(m)' => \/ Registered(m) /\ Current(m)' = Current(m)
                                                 \/ ~Registered(m) /\ Current(m)' = NewMetric(m)
    BY <1>2 DEF Registered
<1>5. ASSUME NEW m \in Counters, Registered(m)' PROVE Current(m)' = SumOf(made'[m])
    <2>1. m \in MetricName /\ m \notin Histograms
        BY MetricKinds
    <2>2. CASE Registered(m)
        BY <1>3, <1>4, <1>5, <2>1, <2>2 DEF Kept
    <2>3. CASE ~Registered(m)
        BY <1>3, <1>4, <1>5, <2>1, <2>3, SumEmpty DEF Kept, NewMetric
    <2>4. QED
        BY <2>2, <2>3
<1>6. ASSUME NEW m \in Gauges, Registered(m)'
      PROVE  Current(m)' = IF made'[m] = <<>> THEN 0 ELSE Last(made'[m])
    <2>1. m \in MetricName /\ m \notin Histograms
        BY MetricKinds
    <2>2. CASE Registered(m)
        BY <1>3, <1>4, <1>6, <2>1, <2>2 DEF Kept
    <2>3. CASE ~Registered(m)
        BY <1>3, <1>4, <1>6, <2>1, <2>3 DEF Kept, NewMetric
    <2>4. QED
        BY <2>2, <2>3
<1>7. ASSUME NEW m \in Histograms, Registered(m)' PROVE Current(m)' = HistogramOf(made'[m])
    <2>1. m \in MetricName
        BY MetricKinds
    <2>2. CASE Registered(m)
        BY <1>3, <1>4, <1>7, <2>1, <2>2 DEF Kept
    <2>3. CASE ~Registered(m)
        BY <1>3, <1>4, <1>7, <2>1, <2>3, EmptyHistogram DEF Kept, NewMetric
    <2>4. QED
        BY <2>2, <2>3
<1>8. Kept'
    BY <1>3, <1>4, <1>5, <1>6, <1>7 DEF Kept
<1>9. Cells'
    <2>1. Head(todo[c]) = todo[c][1]
        BY <1>2
    <2>2. CASE Registered(m0)
        <3>1. UNCHANGED <<registry, metric>>
            BY <1>1, <2>1, <2>2 DEF Lookup, Entry
        <3>2. QED
            BY <3>1 DEF Cells, Registered, Current
    <2>3. CASE ~Registered(m0)
        <3>1. metric' = [metric EXCEPT ![m0] = << NewMetric(m0) >>]
            BY <1>1, <2>1, <2>3 DEF Lookup, Entry
        <3>2. DOMAIN metric = MetricName
            BY DEF Metered, Types, Metrics
        <3>3. /\ metric'[m0] = << NewMetric(m0) >>
              /\ \A m \in MetricName \ {m0} : metric'[m] = metric[m] /\ registry'[m] = registry[m]
            BY <1>2, <3>1, <3>2
        <3>4. Registered(m0)' /\ Current(m0)' = NewMetric(m0)
            BY <1>2, <2>3 DEF Registered
        <3>5. \A m \in MetricName \ {m0} :
                  (Registered(m)' <=> Registered(m)) /\ Current(m)' = Current(m)
            BY <3>3 DEF Registered, Current
        <3>6. QED
            BY <3>3, <3>4, <3>5 DEF Cells
    <2>4. QED
        BY <2>2, <2>3
<1>10. QED
    BY <1>8, <1>9

(* An update records in the metric what it adds to its history.             *)
LEMMA ApplyRecords ==
    ASSUME Metered, Kept, Cells, NEW c \in Calls, Apply(c)
    PROVE  Kept' /\ Cells'
<1>1. PICK m0, v : m0 = todo[c][1].metric /\ v = todo[c][1].value
    OBVIOUS
<1>2. /\ m0 \in MetricName /\ Registered(m0) /\ todo[c] # <<>>
      /\ m0 \notin Gauges => v \in Nat
      /\ Current(m0)' = Update(m0, Current(m0), v)
      /\ registry' = registry
      /\ \A m \in MetricName \ {m0} : Current(m)' = Current(m)
    BY <1>1, ApplyEffect DEF Metered, Types
<1>3. Head(todo[c]) = todo[c][1] /\ held[c] = 1
    <2>1. held[c] \in {0, 1} /\ held[c] # 0
        BY DEF Metered, Types, Lists, Apply
    <2>2. QED
        BY <1>2, <2>1
<1>4. /\ made' = [made EXCEPT ![m0] = IF m0 \in Gauges THEN << v >> ELSE Inserted(made[m0], v)]
      /\ metric' = [metric EXCEPT ![m0][1] = Update(m0, @, v)]
    BY <1>1, <1>3, Zenon DEF Apply
<1>5. /\ DOMAIN made' = MetricName
      /\ made'[m0] = IF m0 \in Gauges THEN << v >> ELSE Inserted(made[m0], v)
      /\ \A m \in MetricName \ {m0} : made'[m] = made[m]
    BY <1>2, <1>4 DEF Kept
<1>6. \A m : Registered(m)' <=> Registered(m)
    BY <1>2 DEF Registered
<1>7. /\ m0 \notin Gauges => made'[m0] \in Seq(Nat) /\ Ascending(made'[m0])
      /\ m0 \in Counters => Current(m0)' = SumOf(made'[m0])
      /\ m0 \in Gauges => Current(m0)' = IF made'[m0] = <<>> THEN 0 ELSE Last(made'[m0])
      /\ m0 \in Histograms => Current(m0)' = HistogramOf(made'[m0])
    <2>1. CASE m0 \in Counters
        <3>1. m0 \notin Gauges /\ m0 \notin Histograms /\ v \in Nat
            BY <1>2, <2>1, MetricKinds
        <3>2. made[m0] \in Seq(Nat) /\ Ascending(made[m0]) /\ Current(m0) = SumOf(made[m0])
            BY <1>2, <2>1, <3>1 DEF Kept
        <3>3. Current(m0)' = Current(m0) + v
            BY <1>2, <2>1, <3>1 DEF Update
        <3>4. QED
            BY <1>5, <3>1, <3>2, <3>3, Inserting, SumOneMore
    <2>2. CASE m0 \in Gauges
        <3>1. m0 \notin Counters /\ m0 \notin Histograms
            BY <2>2, MetricKinds
        <3>2. Current(m0)' = v /\ made'[m0] = <<v>>
            BY <1>2, <1>5, <2>2, <3>1 DEF Update
        <3>3. Last(<<v>>) = v /\ <<v>> # <<>>
            BY DEF Last
        <3>4. QED
            BY <2>2, <3>1, <3>2, <3>3
    <2>3. CASE m0 \in Histograms
        <3>1. m0 \notin Gauges /\ m0 \notin Counters /\ v \in Nat
            BY <1>2, <2>3, MetricKinds
        <3>2. made[m0] \in Seq(Nat) /\ Ascending(made[m0]) /\ Current(m0) = HistogramOf(made[m0])
            BY <1>2, <2>3, <3>1 DEF Kept
        <3>3. Current(m0)' = Observe(Current(m0), v)
            BY <1>2, <2>3, <3>1 DEF Update
        <3>4. QED
            BY <1>5, <3>1, <3>2, <3>3, Inserting, Observing
    <2>4. QED
        BY <1>2, <2>1, <2>2, <2>3, MetricKinds
<1>8. \A m \in MetricName : m = m0 \/ (made'[m] = made[m] /\ Current(m)' = Current(m))
    BY <1>2, <1>5
<1>9. Kept'
    <2>1. \A m \in MetricName \ Gauges : made'[m] \in Seq(Nat) /\ Ascending(made'[m])
        BY <1>7, <1>8 DEF Kept
    <2>2. \A m \in MetricName : ~Registered(m)' => made'[m] = <<>>
        BY <1>2, <1>6, <1>8 DEF Kept
    <2>3. \A m \in Counters : Registered(m)' => Current(m)' = SumOf(made'[m])
        <3>1. \A m \in Counters : m \in MetricName
            BY MetricKinds
        <3>2. QED
            BY <1>6, <1>7, <1>8, <3>1 DEF Kept
    <2>4. \A m \in Gauges : Registered(m)' => Current(m)' = IF made'[m] = <<>> THEN 0 ELSE Last(made'[m])
        <3>1. \A m \in Gauges : m \in MetricName
            BY MetricKinds
        <3>2. QED
            BY <1>6, <1>7, <1>8, <3>1 DEF Kept
    <2>5. \A m \in Histograms : Registered(m)' => Current(m)' = HistogramOf(made'[m])
        <3>1. \A m \in Histograms : m \in MetricName
            BY MetricKinds
        <3>2. QED
            BY <1>6, <1>7, <1>8, <3>1 DEF Kept
    <2>6. QED
        BY <1>5, <2>1, <2>2, <2>3, <2>4, <2>5 DEF Kept
<1>10. Cells'
    <2>1. registry[m0] = 1 /\ metric[m0] = <<Current(m0)>> /\ DOMAIN metric = MetricName
        BY <1>2 DEF Cells, Metered, Types, Metrics, Registered
    <2>2. metric'[m0] = [<<Current(m0)>> EXCEPT ![1] = Update(m0, Current(m0), v)]
        BY <1>2, <1>4, <2>1
    <2>3. [<<Current(m0)>> EXCEPT ![1] = Update(m0, Current(m0), v)] = <<Update(m0, Current(m0), v)>>
        OBVIOUS
    <2>4. metric'[m0] = <<Current(m0)'>>
        BY <1>2, <2>2, <2>3
    <2>5. \A m \in MetricName \ {m0} : metric'[m] = metric[m]
        BY <1>2, <1>4, <2>1
    <2>6. QED
        BY <1>2, <1>6, <2>4, <2>5 DEF Cells
<1>11. QED
    BY <1>9, <1>10


LEMMA CallRecords ==
    ASSUME NEW c \in Calls, CallStep(c)
    PROVE  Lookup(c) \/ Apply(c) \/ UNCHANGED <<registry, metric, made>>
BY Zenon DEF CallStep, StartParallel, StartSequential, Hop, HopEnd, Return, Leave

LEMMA ClockMoves ==
    ASSUME Next \/ UNCHANGED vars
    PROVE  now' = now \/ (now < MaxTime /\ now' = now + 1)
<1>1. ASSUME NEW c \in Calls, CallStep(c) PROVE now' = now
    BY <1>1, Zenon DEF CallStep, StartParallel, StartSequential, Hop, HopEnd, Return, Leave, Lookup, Apply
<1>2. ExportStep \/ UNCHANGED vars => now' = now
    BY Zenon DEF ExportStep, StartExport, StartDump, NextPhase, ExportGraph, ReadEntry, vars
<1>3. QED
    BY <1>1, <1>2 DEF Next, Tick

(* Nobody but a dump in progress has the graph as a dump.                   *)
LEMMA OwnersKept ==
    ASSUME ExportInv, Owners, Next \/ UNCHANGED vars
    PROVE  Owners'
<1>1. /\ NoOne \notin Calls /\ Dump \notin Calls /\ NoOne # Dump
      /\ export \in [phase : 0 .. 5, dump : BOOLEAN, owed : SUBSET MetricName,
                     seen : {export.seen}, nodes : {export.nodes}]
    BY TelemetryAssumption DEF ExportInv, Copied, ExportTypes, NoOne, Dump
<1>2. ASSUME NEW c \in Calls, CallStep(c) PROVE Owners'
    <2>1. export' = export
        BY <1>2, Zenon DEF CallStep, StartParallel, StartSequential, Hop, HopEnd, Return, Leave, Lookup, Apply
    <2>2. graph' \in {graph, c, NoOne}
        BY <1>2 DEF CallStep, StartParallel, StartSequential, Hop, HopEnd, Return, Leave, Lookup, Apply
    <2>3. QED
        BY <1>1, <2>1, <2>2 DEF Owners
<1>3. CASE StartExport
    <2>1. export.phase = 0 /\ graph' = graph
        BY <1>3 DEF StartExport
    <2>2. QED
        BY <1>1, <2>1 DEF Owners
<1>4. CASE StartDump
    <2>1. graph' = Dump /\ export'.dump /\ export'.phase = 1
        BY <1>4 DEF StartDump, BeginExport, NotExported
    <2>2. QED
        BY <2>1 DEF Owners
<1>5. CASE NextPhase
    <2>1. /\ export'.dump = export.dump /\ export'.phase = export.phase + 1 /\ graph' = graph
        BY <1>1, <1>5 DEF NextPhase
    <2>2. export'.phase # 0
        BY <1>1, <2>1
    <2>3. QED
        BY <2>1, <2>2 DEF Owners
<1>6. CASE ExportGraph
    BY <1>1, <1>6 DEF ExportGraph, Owners
<1>7. ASSUME NEW m \in MetricName, ReadEntry(m) PROVE Owners'
    <2>1. export'.dump = export.dump /\ export'.phase = export.phase /\ graph' = graph
        BY <1>1, <1>7 DEF ReadEntry
    <2>2. QED
        BY <2>1 DEF Owners
<1>8. CASE Tick \/ UNCHANGED vars
    BY <1>8 DEF Tick, vars, Owners
<1>9. QED
    BY <1>2, <1>3, <1>4, <1>5, <1>6, <1>7, <1>8 DEF Next, ExportStep

RecordInv == ExportInv /\ Kept /\ Cells /\ Owners /\ now \in 0 .. MaxTime

LEMMA RecordInit == Init => Kept /\ Cells /\ Owners /\ now \in 0 .. MaxTime
<1> SUFFICES ASSUME Init PROVE Kept /\ Cells /\ Owners /\ now \in 0 .. MaxTime
    OBVIOUS
<1>1. now \in 0 .. MaxTime
    BY TelemetryAssumption DEF Init
<1>2. Owners
    <2>1. graph = NoOne
        BY DEF Init
    <2>2. QED
        BY <2>1 DEF Owners, NoOne, Dump
<1>3. /\ \A m \in MetricName : ~Registered(m) /\ metric[m] = <<>> /\ made[m] = <<>>
      /\ DOMAIN made = MetricName
    BY DEF Init, Registered
<1>4. Cells
    BY <1>3 DEF Cells
<1>5. <<>> \in Seq(Nat) /\ Ascending(<<>>)
    BY DEF Ascending
<1>6. \A m \in Counters \cup Gauges \cup Histograms : ~Registered(m)
    BY <1>3, MetricKinds
<1>7. Kept
    BY <1>3, <1>5, <1>6 DEF Kept
<1>8. QED
    BY <1>1, <1>2, <1>4, <1>7

LEMMA RecordNext == RecordInv /\ [Next]_vars => RecordInv'
<1> SUFFICES ASSUME RecordInv, Next \/ UNCHANGED vars PROVE RecordInv'
    OBVIOUS
<1>1. ExportInv'
    BY CallKeeps, OtherKeeps, CallCopies, OtherCopies DEF RecordInv, ExportInv, Next
<1>2. Owners'
    BY OwnersKept DEF RecordInv
<1>3. (now' \in 0 .. MaxTime)
    <2>1. now' = now \/ (now < MaxTime /\ now' = now + 1)
        BY ClockMoves
    <2>2. MaxTime \in Nat /\ now \in 0 .. MaxTime
        BY TelemetryAssumption DEF RecordInv
    <2>3. QED
        BY <2>1, <2>2
<1>4. Kept' /\ Cells'
    <2>1. ASSUME UNCHANGED <<registry, metric, made>> PROVE Kept' /\ Cells'
        BY <2>1 DEF RecordInv, Kept, Cells, Registered, Current
    <2>2. ASSUME NEW c \in Calls, CallStep(c) PROVE Kept' /\ Cells'
        BY <2>1, <2>2, CallRecords, LookupRecords, ApplyRecords DEF RecordInv, ExportInv
    <2>3. ExportStep \/ Tick \/ UNCHANGED vars => UNCHANGED <<registry, metric, made>>
        BY DEF ExportStep, StartExport, StartDump, NextPhase, ExportGraph, ReadEntry, Tick, vars
    <2>4. QED
        BY <2>1, <2>2, <2>3 DEF Next
<1>5. QED
    BY <1>1, <1>2, <1>3, <1>4 DEF RecordInv

LEMMA RecordTypes == RecordInv => TypeOK /\ NothingLost
<1> SUFFICES ASSUME RecordInv PROVE TypeOK /\ NothingLost
    OBVIOUS
<1>1. \A m \in MetricName : registry[m] = Len(metric[m]) /\ registry[m] <= 1
    <2> TAKE m \in MetricName
    <2>1. registry[m] \in {0, 1} /\ metric[m] = IF Registered(m) THEN <<Current(m)>> ELSE <<>>
        BY DEF RecordInv, ExportInv, Metered, Types, Metrics, Cells
    <2>2. CASE Registered(m)
        BY <2>1, <2>2 DEF Registered
    <2>3. CASE ~Registered(m)
        BY <2>1, <2>3 DEF Registered
    <2>4. QED
        BY <2>2, <2>3
<1>2. ASSUME NEW c \in Calls, held[c] # 0 PROVE held[c] = registry[Head(todo[c]).metric]
    <2>1. PICK V : todo \in [Calls -> Seq(Ops(V))]
        BY DEF RecordInv, ExportInv, Metered, Types, Lists
    <2>2. held[c] = 1 /\ todo[c] # <<>> /\ Registered(todo[c][1].metric)
        BY <1>2 DEF RecordInv, ExportInv, Metered, Types, Lists, Idle
    <2>3. Head(todo[c]) = todo[c][1] /\ todo[c][1].metric \in MetricName
        <3>1. todo[c] \in Seq(Ops(V)) /\ todo[c] # <<>>
            BY <2>1, <2>2
        <3>2. Head(todo[c]) = todo[c][1] /\ Head(todo[c]) \in Ops(V)
            BY <3>1
        <3>3. QED
            BY <3>2 DEF Ops
    <2>4. QED
        BY <2>2, <2>3 DEF RecordInv, ExportInv, Metered, Types, Metrics, Registered
<1>3. TypeOK
    BY <1>1, <1>2 DEF RecordInv, ExportInv, Metered, OneHop, InNode, Owners, TypeOK
<1>4. NothingLost
    <2>1. ASSUME NEW m \in MetricName, Registered(m)
          PROVE  CASE m \in Counters   -> Current(m) = SumOf(made[m])
                   [] m \in Gauges     -> Current(m) = (IF made[m] = <<>> THEN 0 ELSE Last(made[m]))
                   [] m \in Histograms -> Current(m) = HistogramOf(made[m])
        BY <2>1, MetricKinds DEF RecordInv, Kept
    <2>2. QED
        BY <2>1, Zenon DEF NothingLost, HistogramOf
<1>5. QED
    BY <1>3, <1>4

-----------------------------------------------------------------------------
(* The tracker's windows.                                                   *)
Entries == [at : Nat, bytes : Nat]

InOrder(w) == w \in Seq(Entries) /\ \A i, j \in 1 .. Len(w) : i <= j => w[i].at <= w[j].at
Windowed(w) == InOrder(w) /\ (\A i \in 1 .. Len(w) : w[i].at <= now) /\ Elapsed(w) <= Window

(* What a window holds, in bytes or in entries, of those not before t.      *)
Measures == {"bytes", "entries"}
Measure(e, k) == IF k = "bytes" THEN e.bytes ELSE 1
From(w, t, k) == [i \in 1 .. Len(w) |-> IF w[i].at < t THEN 0 ELSE Measure(w[i], k)]
Mass(w, t, k) == SumOf(From(w, t, k))

LEMMA MeasureType ==
    ASSUME NEW e \in Entries, NEW k, NEW t \in Int
    PROVE  e.at \in Nat /\ Measure(e, k) \in Nat /\ (IF e.at < t THEN 0 ELSE Measure(e, k)) \in Nat
BY DEF Entries, Measure

LEMMA FromType ==
    ASSUME NEW w \in Seq(Entries), NEW t \in Int, NEW k
    PROVE  /\ From(w, t, k) \in Seq(Nat) /\ Len(From(w, t, k)) = Len(w) /\ Mass(w, t, k) \in Nat
           /\ \A i \in 1 .. Len(w) : From(w, t, k)[i] = IF w[i].at < t THEN 0 ELSE Measure(w[i], k)
<1> DEFINE s == From(w, t, k)
<1>1. Len(w) \in Nat /\ \A i \in 1 .. Len(w) : w[i] \in Entries
    OBVIOUS
<1>2. s = [i \in 1 .. Len(w) |-> IF w[i].at < t THEN 0 ELSE Measure(w[i], k)]
    BY DEF From
<1> HIDE DEF s
<1>3. \A i \in 1 .. Len(w) : (IF w[i].at < t THEN 0 ELSE Measure(w[i], k)) \in Nat
    BY <1>1, MeasureType
<1>4. s \in [1 .. Len(w) -> Nat]
    BY <1>2, <1>3
<1>5. s \in Seq(Nat) /\ Len(s) = Len(w)
    BY <1>1, <1>4
<1>6. SumOf(s) \in Nat
    BY <1>5, Sums
<1>7. QED
    BY <1>2, <1>5, <1>6 DEF s, Mass

LEMMA MassAppended ==
    ASSUME NEW w \in Seq(Entries), NEW e \in Entries, NEW t \in Int, NEW k
    PROVE  Mass(Append(w, e), t, k) = Mass(w, t, k) + (IF e.at < t THEN 0 ELSE Measure(e, k))
<1> DEFINE x == Append(w, e)
           n == Len(w)
<1>1. /\ x \in Seq(Entries) /\ Len(x) = n + 1 /\ n \in Nat /\ x[n + 1] = e
      /\ \A i \in 1 .. n : x[i] = w[i]
    OBVIOUS
<1> HIDE DEF x, n
<1>2. /\ From(w, t, k) \in Seq(Nat) /\ Len(From(w, t, k)) = n
      /\ \A i \in 1 .. n : From(w, t, k)[i] = IF w[i].at < t THEN 0 ELSE Measure(w[i], k)
    BY FromType DEF n
<1>3. /\ From(x, t, k) \in Seq(Nat) /\ Len(From(x, t, k)) = n + 1
      /\ \A i \in 1 .. n + 1 : From(x, t, k)[i] = IF x[i].at < t THEN 0 ELSE Measure(x[i], k)
    <2>1. /\ From(x, t, k) \in Seq(Nat) /\ Len(From(x, t, k)) = Len(x)
          /\ \A i \in 1 .. Len(x) : From(x, t, k)[i] = IF x[i].at < t THEN 0 ELSE Measure(x[i], k)
        BY <1>1, FromType
    <2>2. QED
        BY <1>1, <2>1
<1> DEFINE a == From(w, t, k)
           b == From(x, t, k)
<1>4. \A i \in 1 .. n : b[i] = a[i]
    <2> TAKE i \in 1 .. n
    <2>1. i \in 1 .. n + 1
        BY <1>1
    <2>2. QED
        BY <1>1, <1>2, <1>3, <2>1
<1>5. b[n + 1] = IF e.at < t THEN 0 ELSE Measure(e, k)
    <2>1. n + 1 \in 1 .. n + 1
        BY <1>1
    <2>2. QED
        BY <1>1, <1>3, <2>1
<1> HIDE DEF a, b
<1>6. /\ a \in Seq(Nat) /\ b \in Seq(Nat) /\ Len(a) = n /\ Len(b) = Len(a) + 1
    BY <1>2, <1>3 DEF a, b
<1>7. /\ n \in 0 .. Len(a)
      /\ \A i \in 1 .. Len(b) : i <= n => b[i] = a[i]
      /\ \A i \in 1 .. Len(b) : i > n + 1 => b[i] = a[i - 1]
    BY <1>1, <1>4, <1>6
<1>8. SumOf(b) = SumOf(a) + b[n + 1]
    BY <1>6, <1>7, SumInserted
<1>9. QED
    BY <1>5, <1>8 DEF Mass, a, b, x

(* What is popped is what is too old.                                       *)
LEMMA StaleIs ==
    ASSUME NEW w, InOrder(w), NEW cutoff \in Int
    PROVE  /\ Stale(w, cutoff) \in 0 .. Len(w)
           /\ \A i \in 1 .. Stale(w, cutoff) : w[i].at < cutoff
           /\ \A i \in Stale(w, cutoff) + 1 .. Len(w) : w[i].at >= cutoff
<1> DEFINE n == Len(w)
           Q == {i \in 0 .. n : i = n \/ w[i + 1].at >= cutoff}
           d == Stale(w, cutoff)
<1>1. n \in Nat /\ \A i \in 1 .. n : w[i].at \in Nat
    <2>1. w \in Seq(Entries)
        BY DEF InOrder
    <2>2. Len(w) \in Nat /\ \A i \in 1 .. Len(w) : w[i] \in Entries
        BY <2>1
    <2>3. QED
        BY <2>2 DEF Entries
<1>2. d = Min(Q)
    BY DEF Stale
<1> HIDE DEF n, d
<1>3. d \in Q /\ \A i \in Q : d <= i
    <2>1. n \in Q
        BY <1>1
    <2>2. Q \subseteq Nat
        OBVIOUS
    <2> HIDE DEF Q
    <2>3. \E x \in Q : \A y \in Q : x <= y
        BY <2>1, <2>2, HasLeast
    <2>4. QED
        BY <1>2, <2>3 DEF Min
<1>4. d \in 0 .. n /\ (d = n \/ w[d + 1].at >= cutoff)
    BY <1>3
<1>5. ASSUME NEW i \in 1 .. d PROVE w[i].at < cutoff
    <2>1. i - 1 \in 0 .. n /\ i - 1 # n /\ (i - 1) + 1 = i /\ ~(d <= i - 1) /\ i \in 1 .. n
        BY <1>1, <1>4
    <2>2. ~(w[i].at >= cutoff)
        BY <1>3, <2>1
    <2>3. QED
        BY <1>1, <2>1, <2>2
<1>6. ASSUME NEW i \in d + 1 .. n PROVE w[i].at >= cutoff
    <2>1. d + 1 \in 1 .. n /\ i \in 1 .. n /\ d + 1 <= i /\ d # n
        BY <1>1, <1>4
    <2>2. w[d + 1].at <= w[i].at
        BY <2>1 DEF InOrder, n
    <2>3. QED
        BY <1>1, <1>4, <2>1, <2>2
<1>7. QED
    BY <1>4, <1>5, <1>6 DEF n, d

LEMMA Pruning ==
    ASSUME NEW w, InOrder(w), NEW cutoff \in Int
    PROVE  LET v == PruneWindow(w, cutoff)
               d == Stale(w, cutoff)
           IN  /\ InOrder(v) /\ d \in 0 .. Len(w) /\ Len(v) = Len(w) - d
               /\ \A i \in 1 .. Len(v) : v[i] = w[i + d] /\ i + d \in 1 .. Len(w) /\ v[i].at >= cutoff
<1> DEFINE v == PruneWindow(w, cutoff)
           d == Stale(w, cutoff)
           n == Len(w)
<1>1. /\ d \in 0 .. n /\ \A i \in d + 1 .. n : w[i].at >= cutoff
    BY StaleIs
<1>2. w \in Seq(Entries) /\ n \in Nat
    BY DEF InOrder
<1>3. v = SubSeq(w, d + 1, n)
    BY DEF PruneWindow
<1> HIDE DEF v, d
<1>4. /\ v \in Seq(Entries) /\ Len(v) = n - d
      /\ \A i \in 1 .. n - d : v[i] = w[i + d]
    <2>1. \A i \in d + 1 .. n : w[i] \in Entries
        BY <1>1, <1>2
    <2>2. /\ SubSeq(w, d + 1, n) \in Seq(Entries)
          /\ Len(SubSeq(w, d + 1, n)) = IF d + 1 <= n THEN n - (d + 1) + 1 ELSE 0
          /\ \A i \in 1 .. n - (d + 1) + 1 : SubSeq(w, d + 1, n)[i] = w[(d + 1) + i - 1]
        <3>1. d + 1 \in 1 .. n + 1
            BY <1>1, <1>2
        <3>2. QED
            BY <1>1, <1>2, <3>1, SubSeqProperties
    <2>3. \A i \in 1 .. n - d : (d + 1) + i - 1 = i + d /\ i \in 1 .. n - (d + 1) + 1
        BY <1>1, <1>2
    <2>4. (IF d + 1 <= n THEN n - (d + 1) + 1 ELSE 0) = n - d
        BY <1>1, <1>2
    <2>5. QED
        BY <1>3, <2>2, <2>3, <2>4
<1>5. \A i \in 1 .. n - d : i + d \in 1 .. n /\ i + d \in d + 1 .. n
    BY <1>1, <1>2
<1>6. \A i, j \in 1 .. Len(v) : i <= j => v[i].at <= v[j].at
    <2> SUFFICES ASSUME NEW i \in 1 .. n - d, NEW j \in 1 .. n - d, i <= j PROVE v[i].at <= v[j].at
        BY <1>4
    <2>1. i + d <= j + d
        BY <1>1
    <2>2. QED
        BY <1>4, <1>5, <2>1 DEF InOrder, n
<1>7. QED
    BY <1>1, <1>4, <1>5, <1>6 DEF InOrder, v, d, n

LEMMA MassPruned ==
    ASSUME NEW w, InOrder(w), NEW cutoff \in Int, NEW t \in Int, NEW k,
           NEW T, T = IF t < cutoff THEN cutoff ELSE t
    PROVE  Mass(PruneWindow(w, cutoff), t, k) = Mass(w, T, k)
<1> DEFINE v == PruneWindow(w, cutoff)
           d == Stale(w, cutoff)
           n == Len(w)
           a == From(w, T, k)
           b == From(v, t, k)
<1>1. /\ v \in Seq(Entries) /\ d \in 0 .. n /\ Len(v) = n - d
      /\ \A i \in 1 .. Len(v) : v[i] = w[i + d] /\ i + d \in 1 .. n /\ v[i].at >= cutoff
      /\ \A i \in 1 .. d : w[i].at < cutoff
    BY Pruning, StaleIs DEF InOrder
<1>2. w \in Seq(Entries) /\ n \in Nat /\ T \in Int
    BY DEF InOrder
<1>3. /\ a \in Seq(Nat) /\ Len(a) = n
      /\ \A i \in 1 .. n : a[i] = IF w[i].at < T THEN 0 ELSE Measure(w[i], k)
    BY <1>2, FromType
<1> HIDE DEF v, d
<1>4. /\ b \in Seq(Nat) /\ Len(b) = n - d
      /\ \A i \in 1 .. n - d : b[i] = IF v[i].at < t THEN 0 ELSE Measure(v[i], k)
    <2>1. v \in Seq(Entries)
        BY <1>1
    <2>2. /\ b \in Seq(Nat) /\ Len(b) = Len(v)
          /\ \A i \in 1 .. Len(v) : b[i] = IF v[i].at < t THEN 0 ELSE Measure(v[i], k)
        BY <2>1, FromType, Zenon
    <2>3. QED
        BY <1>1, <2>2
<1>5. \A i \in 1 .. n : w[i].at \in Nat
    <2>1. \A i \in 1 .. n : w[i] \in Entries
        BY <1>2
    <2>2. QED
        BY <2>1 DEF Entries
<1> HIDE DEF a, b, n
<1>6. \A i \in 1 .. d : a[i] = 0
    <2> TAKE i \in 1 .. d
    <2>1. i \in 1 .. n
        BY <1>1, <1>2
    <2>2. w[i].at < T
        BY <1>1, <1>2, <1>5, <2>1
    <2>3. QED
        BY <1>3, <2>1, <2>2
<1>7. \A i \in 1 .. Len(b) : b[i] = a[i + d]
    <2> SUFFICES ASSUME NEW i \in 1 .. n - d PROVE b[i] = a[i + d]
        BY <1>4
    <2>1. v[i] = w[i + d] /\ i + d \in 1 .. n /\ v[i].at >= cutoff
        BY <1>1
    <2>2. w[i + d].at < T <=> v[i].at < t
        BY <1>5, <2>1
    <2>3. QED
        BY <1>3, <1>4, <2>1, <2>2
<1>8. SumOf(b) = SumOf(a)
    BY <1>1, <1>3, <1>4, <1>6, <1>7, SumDropped
<1>9. QED
    BY <1>8 DEF Mass, a, b, v

(* The flows in a sequence, each once; a flow's number adds to their sum.   *)
LEMMA FlowIds ==
    LET ids == SetToSeq(Flows)
    IN  /\ ids \in Seq(Flows) /\ Len(ids) \in Nat /\ DOMAIN ids = 1 .. Len(ids)
        /\ \A f \in Flows : \E i \in 1 .. Len(ids) : ids[i] = f
        /\ \A i, j \in 1 .. Len(ids) : ids[i] = ids[j] => i = j
<1> DEFINE ids == SetToSeq(Flows)
           n == Cardinality(Flows)
           P(x) == x \in [1 .. n -> Flows] /\ IsInjective(x)
<1>1. n \in Nat /\ ExistsBijection(1 .. n, Flows) /\ IsFiniteSet(Flows)
    BY TelemetryAssumption, FS_CardinalityType
<1>2. ids = CHOOSE x \in [1 .. n -> Flows] : IsInjective(x)
    BY DEF SetToSeq
<1> HIDE DEF ids, n
<1>3. \E x : P(x)
    BY <1>1 DEF ExistsBijection, Bijection, Injection
<1>4. ids \in [1 .. n -> Flows] /\ IsInjective(ids)
    BY <1>2, <1>3
<1>5. IsFiniteSet(1 .. n) /\ Cardinality(1 .. n) = n
    <2>1. IsFiniteSet(1 .. n) /\ Cardinality(1 .. n) = IF 1 > n THEN 0 ELSE n - 1 + 1
        BY <1>1, FS_Interval
    <2>2. QED
        BY <1>1, <2>1
<1>6. ids \in Surjection(1 .. n, Flows)
    <2>1. ids \in Injection(1 .. n, Flows)
        BY <1>4 DEF Injection
    <2>2. QED
        BY <1>1, <1>5, <2>1, FS_Injection DEF n
<1>7. ids \in Seq(Flows) /\ Len(ids) = n /\ DOMAIN ids = 1 .. n
    BY <1>1, <1>4
<1>8. \A f \in Flows : \E i \in 1 .. n : ids[i] = f
    BY <1>6 DEF Surjection
<1>9. \A i, j \in 1 .. n : ids[i] = ids[j] => i = j
    BY <1>4 DEF IsInjective
<1>10. QED
    BY <1>1, <1>7, <1>8, <1>9 DEF ids

LEMMA OverFlowsIs ==
    ASSUME NEW w \in [Flows -> Nat], NEW ids, ids = SetToSeq(Flows)
    PROVE  LET s == [i \in 1 .. Len(ids) |-> w[ids[i]]]
           IN  OverFlows(w) = SumOf(s) /\ s \in Seq(Nat) /\ Len(s) = Len(ids)
<1>1. ids \in Seq(Flows) /\ Len(ids) \in Nat /\ DOMAIN ids = 1 .. Len(ids)
    BY FlowIds
<1> DEFINE s == [i \in 1 .. Len(ids) |-> w[ids[i]]]
<1>2. OverFlows(w) = SumOf(s)
    BY <1>1 DEF OverFlows
<1>3. \A i \in 1 .. Len(ids) : w[ids[i]] \in Nat
    BY <1>1
<1>4. s \in [1 .. Len(ids) -> Nat]
    BY <1>3
<1>5. s \in Seq(Nat) /\ Len(s) = Len(ids)
    <2> HIDE DEF s
    <2>1. QED
        BY <1>1, <1>4
<1>6. QED
    BY <1>2, <1>5

LEMMA FlowGrows ==
    ASSUME NEW w \in [Flows -> Nat], NEW x \in [Flows -> Nat], NEW f \in Flows, NEW v \in Nat,
           x[f] = w[f] + v, \A g \in Flows \ {f} : x[g] = w[g]
    PROVE  OverFlows(x) = OverFlows(w) + v
<1>1. PICK ids : ids = SetToSeq(Flows)
    OBVIOUS
<1>2. /\ ids \in Seq(Flows) /\ Len(ids) \in Nat
      /\ \A g \in Flows : \E i \in 1 .. Len(ids) : ids[i] = g
      /\ \A i, j \in 1 .. Len(ids) : ids[i] = ids[j] => i = j
    BY <1>1, FlowIds
<1> DEFINE s == [i \in 1 .. Len(ids) |-> w[ids[i]]]
           t == [i \in 1 .. Len(ids) |-> x[ids[i]]]
<1>3. OverFlows(w) = SumOf(s) /\ s \in Seq(Nat) /\ Len(s) = Len(ids)
    BY <1>1, OverFlowsIs
<1>4. OverFlows(x) = SumOf(t) /\ t \in Seq(Nat) /\ Len(t) = Len(ids)
    BY <1>1, OverFlowsIs
<1>5. PICK p \in 1 .. Len(ids) : ids[p] = f
    BY <1>2
<1>6. t[p] = s[p] + v
    BY <1>5
<1>7. \A i \in 1 .. Len(ids) : i # p => t[i] = s[i]
    <2> SUFFICES ASSUME NEW i \in 1 .. Len(ids), i # p PROVE t[i] = s[i]
        BY Zenon
    <2>1. ids[i] \in Flows \ {f}
        <3>1. ids[i] \in Flows /\ p \in 1 .. Len(ids) /\ i \in 1 .. Len(ids)
            BY <1>2
        <3>2. ids[i] # ids[p]
            BY <1>2, <3>1, Zenon
        <3>3. QED
            BY <1>5, <3>1, <3>2
    <2>2. QED
        BY <2>1
<1> HIDE DEF s, t
<1>8. SumOf(t) = SumOf(s) + v
    BY <1>3, <1>4, <1>5, <1>6, <1>7, SumGrows
<1>9. QED
    BY <1>3, <1>4, <1>8

LEMMA SumZero ==
    ASSUME NEW s \in Seq(Nat), \A i \in 1 .. Len(s) : s[i] = 0
    PROVE  SumOf(s) = 0
<1>1. <<>> \in Seq(Nat) /\ Len(<<>>) = 0 /\ Len(s) \in 0 .. Len(s) /\ Len(<<>>) = Len(s) - Len(s)
    OBVIOUS
<1>2. \A i \in 1 .. Len(<<>>) : <<>>[i] = s[i + Len(s)]
    OBVIOUS
<1>3. SumOf(<<>>) = SumOf(s)
    BY <1>1, <1>2, SumDropped
<1>4. QED
    BY <1>3, SumEmpty

LEMMA SumOfOnes ==
    ASSUME NEW s \in Seq(Nat), \A i \in 1 .. Len(s) : s[i] = 1
    PROVE  SumOf(s) = Len(s)
<1> DEFINE n == Len(s)
           g == [k \in 0 .. n |-> k]
<1>1. n \in Nat
    OBVIOUS
<1>2. AddsUp(g, s, n)
    BY <1>1 DEF AddsUp
<1>3. SumOf(s) = g[n]
    <2> HIDE DEF g
    <2>1. QED
        BY <1>2, SumIs
<1>4. QED
    BY <1>1, <1>3

LEMMA FlowsZero ==
    ASSUME NEW w \in [Flows -> Nat], \A f \in Flows : w[f] = 0
    PROVE  OverFlows(w) = 0
<1>1. PICK ids : ids = SetToSeq(Flows)
    OBVIOUS
<1>2. ids \in Seq(Flows)
    BY <1>1, FlowIds
<1> DEFINE s == [i \in 1 .. Len(ids) |-> w[ids[i]]]
<1>3. OverFlows(w) = SumOf(s) /\ s \in Seq(Nat) /\ Len(s) = Len(ids)
    BY <1>1, OverFlowsIs
<1>4. \A i \in 1 .. Len(ids) : s[i] = 0
    BY <1>2
<1> HIDE DEF s
<1>5. QED
    BY <1>3, <1>4, SumZero

(* The total and the flows hold the same, whatever is no longer counted.    *)
Agreement ==
    \A t \in Int : \A k \in Measures :
        Mass(total, t, k) = OverFlows([f \in Flows |-> Mass(flows[f], t, k)])

WindowInv ==
    /\ flows = [f \in Flows |-> flows[f]]
    /\ Windowed(total) /\ \A f \in Flows : Windowed(flows[f])
    /\ Agreement
    /\ now \in Nat

(* A window with one more entry that is of now, and pruned.                 *)
LEMMA WindowGrows ==
    ASSUME now \in Nat, NEW w, Windowed(w), NEW e \in Entries, e.at = now
    PROVE  /\ InOrder(Append(w, e)) /\ \A i \in 1 .. Len(Append(w, e)) : Append(w, e)[i].at <= now
<1>1. w \in Seq(Entries) /\ Len(w) \in Nat
    BY DEF Windowed, InOrder
<1> DEFINE x == Append(w, e)
           n == Len(w)
<1>2. x \in Seq(Entries) /\ Len(x) = n + 1 /\ x[n + 1] = e /\ \A i \in 1 .. n : x[i] = w[i]
    BY <1>1
<1> HIDE DEF x
<1>3. \A i \in 1 .. n + 1 : i \in 1 .. n \/ i = n + 1
    BY <1>1
<1>4. \A i \in 1 .. n + 1 : x[i].at <= now
    BY <1>2, <1>3 DEF Windowed
<1>5. ASSUME NEW i \in 1 .. n + 1, NEW j \in 1 .. n + 1, i <= j PROVE x[i].at <= x[j].at
    <2>1. CASE j = n + 1
        BY <1>2, <1>4, <2>1
    <2>2. CASE j \in 1 .. n
        <3>1. i \in 1 .. n
            BY <1>1, <1>5, <2>2
        <3>2. QED
            BY <1>2, <1>5, <2>2, <3>1 DEF Windowed, InOrder
    <2>3. QED
        BY <1>3, <2>1, <2>2
<1>6. QED
    BY <1>2, <1>4, <1>5 DEF InOrder, x

LEMMA WindowPruned ==
    ASSUME now \in Nat, NEW w, InOrder(w), \A i \in 1 .. Len(w) : w[i].at <= now
    PROVE  Windowed(PruneWindow(w, now - Window))
<1>1. now - Window \in Int /\ Window \in Nat
    BY TelemetryAssumption
<1> DEFINE v == PruneWindow(w, now - Window)
           d == Stale(w, now - Window)
<1>2. /\ InOrder(v)
      /\ \A i \in 1 .. Len(v) : v[i] = w[i + d] /\ i + d \in 1 .. Len(w) /\ v[i].at >= now - Window
    BY <1>1, Pruning
<1> HIDE DEF v, d
<1>3. \A i \in 1 .. Len(v) : v[i].at <= now
    BY <1>2
<1>4. Elapsed(v) <= Window
    <2>1. v \in Seq(Entries)
        BY <1>2 DEF InOrder
    <2>2. CASE v = <<>>
        BY <1>1, <2>2 DEF Elapsed
    <2>3. CASE v # <<>>
        <3>1. 1 \in 1 .. Len(v) /\ Len(v) \in 1 .. Len(v) /\ v[1] \in Entries /\ v[Len(v)] \in Entries
            BY <2>1, <2>3
        <3>2. v[Len(v)].at <= now /\ v[1].at >= now - Window /\ v[1].at \in Nat /\ v[Len(v)].at \in Nat
            BY <1>2, <1>3, <3>1 DEF Entries
        <3>3. Elapsed(v) = v[Len(v)].at - v[1].at
            BY <2>3 DEF Elapsed
        <3>4. QED
            BY <1>1, <3>2, <3>3
    <2>4. QED
        BY <2>2, <2>3
<1>5. QED
    BY <1>2, <1>3, <1>4 DEF Windowed, v

LEMMA RecordedAgrees ==
    ASSUME WindowInv, NEW f \in Flows, NEW len \in Nat,
           total' = Recorded(f, len)[1], flows' = Recorded(f, len)[2], now' = now
    PROVE  WindowInv'
<1> DEFINE e == [at |-> now, bytes |-> len]
           cutoff == now - Window
           x == Append(total, e)
           fs == [flows EXCEPT ![f] = Append(@, e)]
<1>1. /\ total' = PruneWindow(x, cutoff)
      /\ flows' = [g \in Flows |-> PruneWindow(fs[g], cutoff)]
    BY DEF Recorded, Prune
<1>2. now \in Nat /\ cutoff \in Int /\ e \in Entries /\ e.at = now
    BY TelemetryAssumption DEF WindowInv, Entries
<1>3. DOMAIN flows = Flows /\ total \in Seq(Entries) /\ \A g \in Flows : flows[g] \in Seq(Entries)
    BY DEF WindowInv, Windowed, InOrder
<1>4. fs[f] = Append(flows[f], e) /\ \A g \in Flows \ {f} : fs[g] = flows[g]
    BY <1>3
<1> HIDE DEF e, cutoff, fs
<1>5. InOrder(x) /\ \A i \in 1 .. Len(x) : x[i].at <= now
    BY <1>2, WindowGrows DEF WindowInv
<1>6. ASSUME NEW g \in Flows
      PROVE  InOrder(fs[g]) /\ \A i \in 1 .. Len(fs[g]) : fs[g][i].at <= now
    <2>1. CASE g = f
        <3>1. Windowed(flows[f])
            BY DEF WindowInv
        <3>2. InOrder(Append(flows[f], e)) /\ \A i \in 1 .. Len(Append(flows[f], e)) : Append(flows[f], e)[i].at <= now
            BY <1>2, <3>1, WindowGrows
        <3>3. QED
            BY <1>4, <2>1, <3>2
    <2>2. CASE g # f
        BY <1>4, <2>2 DEF WindowInv, Windowed
    <2>3. QED
        BY <2>1, <2>2
<1>7. Windowed(total)'
    <2>1. Windowed(PruneWindow(x, cutoff))
        <3> HIDE DEF x
        <3>1. QED
            BY <1>2, <1>5, WindowPruned DEF cutoff
    <2>2. QED
        BY <1>1, <2>1 DEF Windowed, InOrder, Elapsed
<1>8. ASSUME NEW g \in Flows PROVE Windowed(flows[g])'
    <2>1. Windowed(PruneWindow(fs[g], cutoff))
        BY <1>2, <1>6, WindowPruned DEF cutoff
    <2>2. flows'[g] = PruneWindow(fs[g], cutoff)
        BY <1>1
    <2>3. QED
        BY <2>1, <2>2 DEF Windowed, InOrder, Elapsed
<1>9. ASSUME NEW t \in Int, NEW k \in Measures
      PROVE  Mass(total', t, k) = OverFlows([g \in Flows |-> Mass(flows'[g], t, k)])
    <2>1. PICK T \in Int : T = IF t < cutoff THEN cutoff ELSE t
        BY <1>2
    <2> DEFINE a == [g \in Flows |-> Mass(flows[g], T, k)]
               b == [g \in Flows |-> Mass(fs[g], T, k)]
               m == IF e.at < T THEN 0 ELSE Measure(e, k)
    <2>2. m \in Nat
        BY <1>2, MeasureType
    <2>3. Mass(total', t, k) = Mass(x, T, k)
        BY <1>1, <1>2, <1>5, <2>1, MassPruned
    <2>4. Mass(x, T, k) = Mass(total, T, k) + m
        BY <1>2, <1>3, MassAppended
    <2>5. \A g \in Flows : Mass(flows'[g], t, k) = Mass(fs[g], T, k)
        <3> TAKE g \in Flows
        <3>1. flows'[g] = PruneWindow(fs[g], cutoff)
            BY <1>1
        <3>2. QED
            BY <1>2, <1>6, <2>1, <3>1, MassPruned
    <2>6. Mass(fs[f], T, k) = Mass(flows[f], T, k) + m
        BY <1>2, <1>3, <1>4, MassAppended
    <2> HIDE DEF m, x
    <2>7. /\ a \in [Flows -> Nat] /\ b \in [Flows -> Nat]
          /\ b[f] = a[f] + m /\ \A g \in Flows \ {f} : b[g] = a[g]
        <3>1. \A g \in Flows : Mass(flows[g], T, k) \in Nat
            BY <1>3, FromType
        <3>2. \A g \in Flows : Mass(fs[g], T, k) \in Nat
            <4> TAKE g \in Flows
            <4>1. fs[g] \in Seq(Entries)
                BY <1>6 DEF InOrder
            <4>2. QED
                BY <4>1, FromType
        <3>3. QED
            BY <1>4, <2>6, <3>1, <3>2
    <2>8. Mass(total, T, k) = OverFlows(a)
        BY DEF WindowInv, Agreement
    <2>9. [g \in Flows |-> Mass(flows'[g], t, k)] = b
        BY <2>5
    <2> HIDE DEF a, b
    <2>10. OverFlows(b) = OverFlows(a) + m
        BY <2>2, <2>7, FlowGrows
    <2>11. QED
        BY <2>3, <2>4, <2>8, <2>9, <2>10
<1>10. Agreement'
    BY <1>9 DEF Agreement
<1>11. QED
    <2>1. flows' = [g \in Flows |-> flows'[g]]
        BY <1>1
    <2>2. now' \in Nat
        BY <1>2
    <2>3. QED
        BY <1>7, <1>8, <1>10, <2>1, <2>2 DEF WindowInv

(* The entries stay where they are while time passes.                       *)
LEMMA OthersAgree ==
    ASSUME WindowInv, UNCHANGED <<total, flows>>, now' = now \/ now' = now + 1
    PROVE  WindowInv'
<1>1. now \in Nat /\ now' \in Nat /\ now <= now'
    BY DEF WindowInv
<1>2. ASSUME NEW w, Windowed(w)
      PROVE  InOrder(w) /\ (\A i \in 1 .. Len(w) : w[i].at <= now') /\ Elapsed(w) <= Window
    <2>1. w \in Seq(Entries)
        BY <1>2 DEF Windowed, InOrder
    <2>2. \A i \in 1 .. Len(w) : w[i] \in Entries
        BY <2>1
    <2>3. \A i \in 1 .. Len(w) : w[i].at \in Nat
        BY <2>2 DEF Entries
    <2>4. \A i \in 1 .. Len(w) : w[i].at <= now'
        BY <1>1, <1>2, <2>3 DEF Windowed
    <2>5. QED
        BY <1>2, <2>4 DEF Windowed
<1>3. Windowed(total)'
    <2>1. InOrder(total) /\ (\A i \in 1 .. Len(total) : total[i].at <= now') /\ Elapsed(total) <= Window
        BY <1>2 DEF WindowInv
    <2>2. QED
        BY <2>1 DEF Windowed, InOrder, Elapsed
<1>4. ASSUME NEW f \in Flows PROVE Windowed(flows[f])'
    <2>1. /\ InOrder(flows[f]) /\ (\A i \in 1 .. Len(flows[f]) : flows[f][i].at <= now')
          /\ Elapsed(flows[f]) <= Window
        BY <1>2 DEF WindowInv
    <2>2. QED
        BY <2>1 DEF Windowed, InOrder, Elapsed
<1>5. Agreement' /\ flows' = [f \in Flows |-> flows'[f]]
    BY DEF WindowInv, Agreement
<1>6. QED
    BY <1>1, <1>3, <1>4, <1>5 DEF WindowInv

LEMMA WindowInit == Init => WindowInv
<1> SUFFICES ASSUME Init PROVE WindowInv
    OBVIOUS
<1>1. now = 0 /\ total = <<>> /\ flows = [f \in Flows |-> <<>>]
    BY DEF Init
<1>2. Windowed(<<>>)
    <2>1. Elapsed(<<>>) = 0 /\ 0 <= Window
        BY TelemetryAssumption DEF Elapsed
    <2>2. <<>> \in Seq(Entries) /\ Len(<<>>) = 0
        OBVIOUS
    <2>3. QED
        BY <2>1, <2>2 DEF Windowed, InOrder
<1>3. \A t, k : Mass(<<>>, t, k) = 0
    <2> TAKE t, k
    <2>1. From(<<>>, t, k) = <<>>
        BY DEF From
    <2>2. QED
        BY <2>1, SumEmpty DEF Mass
<1>4. ASSUME NEW t \in Int, NEW k \in Measures
      PROVE  Mass(total, t, k) = OverFlows([f \in Flows |-> Mass(flows[f], t, k)])
    <2> DEFINE w == [f \in Flows |-> Mass(flows[f], t, k)]
    <2>1. w \in [Flows -> Nat] /\ \A f \in Flows : w[f] = 0
        BY <1>1, <1>3
    <2> HIDE DEF w
    <2>2. OverFlows(w) = 0
        BY <2>1, FlowsZero
    <2>3. QED
        BY <1>1, <1>3, <2>2 DEF w
<1>5. QED
    BY <1>1, <1>2, <1>4 DEF WindowInv, Agreement

LEMMA WindowNext ==
    ASSUME WindowInv, Next \/ UNCHANGED vars
    PROVE  WindowInv'
<1>1. ASSUME NEW c \in Calls, NEW f \in Flows, NEW len \in Lengths, StartSequential(c, f, len)
      PROVE  WindowInv'
    <2>1. len \in Nat
        BY TelemetryAssumption
    <2>2. total' = Recorded(f, len)[1] /\ flows' = Recorded(f, len)[2] /\ now' = now
        BY <1>1 DEF StartSequential
    <2>3. QED
        BY <2>1, <2>2, RecordedAgrees
<1>2. \/ \E c \in Calls, f \in Flows, len \in Lengths : StartSequential(c, f, len)
      \/ UNCHANGED <<total, flows>> /\ (now' = now \/ now' = now + 1)
    <2>1. ASSUME NEW c \in Calls, CallStep(c)
          PROVE  \/ \E f \in Flows, len \in Lengths : StartSequential(c, f, len)
                 \/ UNCHANGED <<total, flows>>
        BY <2>1, Zenon DEF CallStep, StartParallel, Hop, HopEnd, Return, Leave, Lookup, Apply
    <2>2. ExportStep \/ Tick \/ UNCHANGED vars => UNCHANGED <<total, flows>>
        BY Zenon DEF ExportStep, StartExport, StartDump, NextPhase, ExportGraph, ReadEntry, Tick, vars
    <2>3. QED
        BY <2>1, <2>2, ClockMoves DEF Next
<1>3. QED
    BY <1>1, <1>2, OthersAgree

(* What the tracker's windows say of themselves, whatever was pruned.        *)
LEMMA WindowsOf == WindowInv => WindowsAgree
<1> SUFFICES ASSUME WindowInv PROVE WindowsAgree
    OBVIOUS
<1>1. DOMAIN flows = Flows /\ Windowed(total) /\ \A f \in Flows : Windowed(flows[f])
    BY DEF WindowInv
<1>2. ASSUME NEW w, Windowed(w)
      PROVE  /\ BytesOf(w) = Mass(w, 0, "bytes") /\ Len(w) = Mass(w, 0, "entries")
             /\ BytesOf(w) \in Nat
    <2>1. w \in Seq(Entries) /\ Len(w) \in Nat
        BY <1>2 DEF Windowed, InOrder
    <2>2. \A i \in 1 .. Len(w) : w[i] \in Entries
        BY <2>1
    <2>3. \A i \in 1 .. Len(w) : ~(w[i].at < 0)
        BY <2>2 DEF Entries
    <2>4. From(w, 0, "bytes") = [i \in DOMAIN w |-> w[i].bytes]
        BY <2>1, <2>3 DEF From, Measure
    <2>5. From(w, 0, "entries") = [i \in 1 .. Len(w) |-> 1]
        BY <2>3 DEF From, Measure
    <2>6. /\ From(w, 0, "entries") \in Seq(Nat) /\ Len(From(w, 0, "entries")) = Len(w)
          /\ Mass(w, 0, "bytes") \in Nat
        BY <2>1, FromType
    <2>7. SumOf(From(w, 0, "entries")) = Len(w)
        BY <2>5, <2>6, SumOfOnes
    <2>8. QED
        BY <2>4, <2>6, <2>7 DEF BytesOf, Mass
<1>3. BytesOf(total) = OverFlows([f \in Flows |-> BytesOf(flows[f])])
    <2>1. [f \in Flows |-> BytesOf(flows[f])] = [f \in Flows |-> Mass(flows[f], 0, "bytes")]
        BY <1>1, <1>2
    <2>2. Mass(total, 0, "bytes") = OverFlows([f \in Flows |-> Mass(flows[f], 0, "bytes")])
        <3>1. 0 \in Int /\ "bytes" \in Measures
            BY DEF Measures
        <3>2. QED
            BY <3>1, Zenon DEF WindowInv, Agreement
    <2>3. QED
        BY <1>1, <1>2, <2>1, <2>2
<1>4. Len(total) = OverFlows([f \in Flows |-> Len(flows[f])])
    <2>1. [f \in Flows |-> Len(flows[f])] = [f \in Flows |-> Mass(flows[f], 0, "entries")]
        BY <1>1, <1>2
    <2>2. Mass(total, 0, "entries") = OverFlows([f \in Flows |-> Mass(flows[f], 0, "entries")])
        <3>1. 0 \in Int /\ "entries" \in Measures
            BY DEF Measures
        <3>2. QED
            BY <3>1, Zenon DEF WindowInv, Agreement
    <2>3. QED
        BY <1>1, <1>2, <2>1, <2>2
<1>5. ASSUME NEW w \in {total} \cup Range(flows)
      PROVE  Elapsed(w) <= Window
    <2>1. w = total \/ \E f \in Flows : w = flows[f]
        BY <1>1 DEF Range
    <2>2. QED
        BY <1>1, <2>1 DEF Windowed
<1>6. QED
    BY <1>3, <1>4, <1>5 DEF WindowsAgree

(* Nothing recorded is lost, for any number of calls, nodes, flows and      *)
(* updates: what the registry has under a name is exactly what was recorded *)
(* under it, although looking a metric up and updating it are two steps     *)
(* with other tasks' in between; and the tracker's total is its flows put   *)
(* together after every pruning.                                            *)
THEOREM NothingRecordedIsLost == Spec => []RecordsKept
<1>1. Init => RecordInv /\ WindowInv
    BY MeteredInit, CopiedInit, RecordInit, WindowInit DEF RecordInv, ExportInv
<1>2. RecordInv /\ WindowInv /\ [Next]_vars => RecordInv' /\ WindowInv'
    BY RecordNext, WindowNext
<1>3. RecordInv /\ WindowInv => RecordsKept
    BY RecordTypes, WindowsOf DEF RecordsKept
<1>4. QED
    BY <1>1, <1>2, <1>3, PTL DEF Spec

-----------------------------------------------------------------------------
(* Percentiles.  How many of the numbers are in the first b buckets.        *)
Reached(s, b) == Cardinality({i \in 1 .. Len(s) : BucketOf(s[i]) <= b})

LEMMA BucketsAscend ==
    ASSUME NEW v \in Nat, NEW w \in Nat, v <= w
    PROVE  BucketOf(v) <= BucketOf(w)
<1>1. BucketOf(v) \in 1 .. Len(Bounds) + 1 /\ BucketOf(w) \in 1 .. Len(Bounds) + 1 /\ Len(Bounds) \in Nat
    BY BucketType, TelemetryAssumption DEF Buckets
<1>2. CASE BucketOf(w) <= Len(Bounds)
    <2>1. BucketOf(w) \in 1 .. Len(Bounds) /\ w <= Bounds[BucketOf(w)]
        BY <1>1, <1>2, BucketType
    <2>2. Bounds[BucketOf(w)] \in Nat
        BY <2>1, TelemetryAssumption
    <2>3. v <= Bounds[BucketOf(w)]
        BY <2>1, <2>2
    <2>4. QED
        BY <2>1, <2>3, BucketType
<1>3. CASE ~(BucketOf(w) <= Len(Bounds))
    BY <1>1, <1>3
<1>4. QED
    BY <1>2, <1>3

(* Of ascending numbers these are the first ones.                           *)
LEMMA FirstOnes ==
    ASSUME NEW s \in Seq(Nat), Ascending(s), NEW b \in Int
    PROVE  /\ Reached(s, b) \in 0 .. Len(s)
           /\ \A i \in 1 .. Len(s) : BucketOf(s[i]) <= b <=> i <= Reached(s, b)
<1> DEFINE n == Len(s)
           S == {i \in 1 .. n : BucketOf(s[i]) <= b}
           Q == {i \in 0 .. n : i = n \/ ~(BucketOf(s[i + 1]) <= b)}
<1>1. n \in Nat /\ (\A i \in 1 .. n : s[i] \in Nat) /\ \A i, j \in 1 .. n : i <= j => s[i] <= s[j]
    BY DEF Ascending
<1>2. Reached(s, b) = Cardinality(S)
    BY DEF Reached
<1> HIDE DEF n
<1>3. PICK k \in Q : \A i \in Q : k <= i
    <2>1. n \in Q
        BY <1>1
    <2>2. Q \subseteq Nat
        OBVIOUS
    <2> HIDE DEF Q
    <2>3. QED
        BY <2>1, <2>2, HasLeast
<1>4. k \in 0 .. n /\ (k = n \/ ~(BucketOf(s[k + 1]) <= b))
    BY <1>3
<1>5. ASSUME NEW i \in 1 .. k PROVE BucketOf(s[i]) <= b
    <2>1. i - 1 \in 0 .. n /\ i - 1 # n /\ (i - 1) + 1 = i /\ ~(k <= i - 1)
        BY <1>1, <1>4
    <2>2. QED
        BY <1>3, <2>1
<1>6. ASSUME NEW i \in k + 1 .. n PROVE ~(BucketOf(s[i]) <= b)
    <2>1. k + 1 \in 1 .. n /\ i \in 1 .. n /\ k + 1 <= i /\ k # n
        BY <1>1, <1>4
    <2>2. s[k + 1] \in Nat /\ s[i] \in Nat /\ s[k + 1] <= s[i]
        BY <1>1, <2>1
    <2>3. /\ BucketOf(s[k + 1]) <= BucketOf(s[i])
          /\ BucketOf(s[k + 1]) \in Buckets /\ BucketOf(s[i]) \in Buckets
        BY <2>2, BucketsAscend, BucketType
    <2>4. BucketOf(s[k + 1]) \in Int /\ BucketOf(s[i]) \in Int
        BY <2>3 DEF Buckets
    <2>5. QED
        BY <1>4, <2>1, <2>3, <2>4
<1>7. \A i \in 1 .. n : BucketOf(s[i]) <= b <=> i <= k
    <2> TAKE i \in 1 .. n
    <2>1. i \in 1 .. k \/ i \in k + 1 .. n
        BY <1>1, <1>4
    <2>2. i \in 1 .. k => i <= k
        OBVIOUS
    <2>3. i \in k + 1 .. n => ~(i <= k)
        BY <1>4
    <2>4. QED
        BY <1>5, <1>6, <2>1, <2>2, <2>3
<1>8. S = 1 .. k
    BY <1>1, <1>4, <1>7
<1> HIDE DEF S
<1>9. Cardinality(1 .. k) = k
    <2>1. Cardinality(1 .. k) = IF 1 > k THEN 0 ELSE k - 1 + 1
        BY <1>4, FS_Interval
    <2>2. QED
        BY <1>4, <2>1
<1>10. Reached(s, b) = k
    BY <1>2, <1>8, <1>9
<1>11. QED
    BY <1>4, <1>7, <1>10 DEF n

LEMMA CountsReached ==
    ASSUME NEW s \in Seq(Nat), Ascending(s), NEW b \in Buckets
    PROVE  /\ HistogramOf(s).counts[b] = Reached(s, b) - Reached(s, b - 1)
           /\ Reached(s, b) \in 0 .. Len(s) /\ Reached(s, b - 1) \in 0 .. Reached(s, b)
<1> DEFINE n == Len(s)
           x == Reached(s, b - 1)
           y == Reached(s, b)
           S == {i \in 1 .. n : BucketOf(s[i]) = b}
<1>1. b \in Int /\ b - 1 \in Int /\ n \in Nat
    BY DEF Buckets
<1>2. /\ x \in 0 .. n /\ \A i \in 1 .. n : BucketOf(s[i]) <= b - 1 <=> i <= x
      /\ y \in 0 .. n /\ \A i \in 1 .. n : BucketOf(s[i]) <= b <=> i <= y
    BY <1>1, FirstOnes
<1>3. HistogramOf(s).counts[b] = Cardinality(S)
    BY DEF HistogramOf
<1> HIDE DEF x, y, n
<1>4. \A i \in 1 .. n : BucketOf(s[i]) \in Int
    <2>1. \A i \in 1 .. n : s[i] \in Nat
        BY DEF n
    <2>2. \A i \in 1 .. n : BucketOf(s[i]) \in Buckets
        BY <2>1, BucketType
    <2>3. Buckets \subseteq Int
        BY DEF Buckets
    <2>4. QED
        BY <2>2, <2>3
<1>5. x <= y
    <2>1. SUFFICES ASSUME ~(x <= y) PROVE FALSE
        OBVIOUS
    <2>2. x \in 1 .. n
        BY <1>1, <1>2, <2>1
    <2>3. x <= x /\ BucketOf(s[x]) <= b - 1
        BY <1>2, <2>2
    <2>4. BucketOf(s[x]) <= b
        BY <1>1, <1>4, <2>2, <2>3
    <2>5. QED
        BY <1>2, <2>1, <2>2, <2>4
<1>6. S = x + 1 .. y
    <2>1. \A i \in 1 .. n : BucketOf(s[i]) = b <=> i > x /\ i <= y
        <3> TAKE i \in 1 .. n
        <3>1. BucketOf(s[i]) = b <=> BucketOf(s[i]) <= b /\ ~(BucketOf(s[i]) <= b - 1)
            BY <1>1, <1>4
        <3>2. QED
            BY <1>2, <3>1
    <2>2. QED
        BY <1>1, <1>2, <2>1
<1>7. Cardinality(x + 1 .. y) = y - x
    <2>1. Cardinality(x + 1 .. y) = IF x + 1 > y THEN 0 ELSE y - (x + 1) + 1
        BY <1>2, FS_Interval
    <2>2. QED
        BY <1>2, <1>5, <2>1
<1> HIDE DEF S
<1>8. QED
    BY <1>2, <1>3, <1>5, <1>6, <1>7 DEF x, y, n

LEMMA CumulativeReached ==
    ASSUME NEW s \in Seq(Nat), Ascending(s), NEW b \in 0 .. Len(Bounds)
    PROVE  Cumulative(HistogramOf(s), b) = Reached(s, b)
<1>1. Len(Bounds) \in Nat /\ b \in Nat /\ \A k \in 1 .. b : k \in Buckets
    BY TelemetryAssumption DEF Buckets
<1> DEFINE c == [i \in 1 .. b |-> HistogramOf(s).counts[i]]
           g == [k \in 0 .. b |-> Reached(s, k)]
<1>2. Cumulative(HistogramOf(s), b) = SumOf(c)
    BY DEF Cumulative
<1>3. \A k \in 1 .. b : /\ HistogramOf(s).counts[k] = Reached(s, k) - Reached(s, k - 1)
                        /\ HistogramOf(s).counts[k] \in Nat
                        /\ Reached(s, k) \in Nat /\ Reached(s, k - 1) \in Nat
    <2> TAKE k \in 1 .. b
    <2>1. /\ HistogramOf(s).counts[k] = Reached(s, k) - Reached(s, k - 1)
          /\ Reached(s, k) \in 0 .. Len(s) /\ Reached(s, k - 1) \in 0 .. Reached(s, k)
        BY <1>1, CountsReached
    <2>2. QED
        BY <2>1
<1>4. c \in Seq(Nat) /\ Len(c) = b
    <2>1. c \in [1 .. b -> Nat]
        BY <1>3
    <2> HIDE DEF c
    <2>2. QED
        BY <1>1, <2>1
<1>5. Reached(s, 0) = 0
    <2>1. /\ Reached(s, 0) \in 0 .. Len(s)
          /\ \A i \in 1 .. Len(s) : BucketOf(s[i]) <= 0 <=> i <= Reached(s, 0)
        BY FirstOnes
    <2>2. \A i \in 1 .. Len(s) : ~(BucketOf(s[i]) <= 0)
        <3> TAKE i \in 1 .. Len(s)
        <3>1. s[i] \in Nat
            OBVIOUS
        <3>2. BucketOf(s[i]) \in Buckets
            BY <3>1, BucketType
        <3>3. QED
            BY <1>1, <3>2 DEF Buckets
    <2>3. Reached(s, 0) \notin 1 .. Len(s)
        BY <2>1, <2>2
    <2>4. QED
        BY <2>1, <2>3
<1>6. AddsUp(g, c, b)
    <2>1. \A k \in 0 .. b : Reached(s, k) \in Nat
        <3> TAKE k \in 0 .. b
        <3>1. k = 0 \/ k \in 1 .. b
            BY <1>1
        <3>2. QED
            BY <1>3, <1>5, <3>1
    <2>2. g \in [0 .. b -> Nat] /\ g[0] = 0
        BY <1>1, <1>5, <2>1
    <2>3. ASSUME NEW k \in 1 .. b PROVE g[k] = g[k - 1] + c[k]
        <3>1. k \in 0 .. b /\ k - 1 \in 0 .. b
            BY <1>1
        <3>2. g[k] = Reached(s, k) /\ g[k - 1] = Reached(s, k - 1) /\ c[k] = HistogramOf(s).counts[k]
            BY <3>1
        <3>3. QED
            BY <1>3, <3>2
    <2> HIDE DEF g, c
    <2>4. QED
        BY <2>2, <2>3 DEF AddsUp
<1>7. g[b] = Reached(s, b)
    BY <1>1
<1> HIDE DEF g, c
<1>8. SumOf(c) = g[b]
    BY <1>4, <1>6, SumIs
<1>9. QED
    BY <1>2, <1>7, <1>8

LEMMA RankIs ==
    ASSUME NEW p \in {1, 50, 95, 99, 100}, NEW n \in Nat \ {0}
    PROVE  (p * n + 99) \div 100 \in 1 .. n
<1>1. CASE p = 1
    BY <1>1
<1>2. CASE p = 50
    BY <1>2
<1>3. CASE p = 95
    BY <1>3
<1>4. CASE p = 99
    BY <1>4
<1>5. CASE p = 100
    BY <1>5
<1>6. QED
    BY <1>1, <1>2, <1>3, <1>4, <1>5

LEMMA EdgesAscend ==
    ASSUME NEW b \in 1 .. Len(Bounds)
    PROVE  Edge(b) \in Nat /\ Edge(b - 1) \in Nat /\ Edge(b - 1) < Edge(b)
<1>1. Bounds \in Seq(Nat \ {0}) /\ Len(Bounds) \in Nat
    BY TelemetryAssumption
<1>2. Edge(b) = Bounds[b] /\ Bounds[b] \in Nat \ {0}
    BY <1>1 DEF Edge
<1>3. CASE b = 1
    BY <1>2, <1>3 DEF Edge
<1>4. CASE b # 1
    <2>1. b - 1 \in 1 .. Len(Bounds) - 1 /\ b - 1 \in 1 .. Len(Bounds) /\ (b - 1) + 1 = b /\ b - 1 # 0
        BY <1>1, <1>4
    <2>2. Edge(b - 1) = Bounds[b - 1] /\ Bounds[b - 1] \in Nat
        BY <1>1, <2>1 DEF Edge
    <2>3. Bounds[b - 1] < Bounds[b]
        BY <2>1, TelemetryAssumption
    <2>4. QED
        BY <1>2, <2>2, <2>3
<1>5. QED
    BY <1>3, <1>4

(* Between two edges, in proportion.                                        *)
LEMMA Between ==
    ASSUME NEW lo \in Nat, NEW hi \in Nat, lo < hi, NEW d \in Nat, NEW r \in 1 .. d
    PROVE  lo * d < lo * d + r * (hi - lo) /\ lo * d + r * (hi - lo) <= hi * d
<1>1. PICK k \in Nat \ {0} : hi = lo + k /\ hi - lo = k
    <2>1. hi - lo \in Nat \ {0} /\ hi = lo + (hi - lo)
        OBVIOUS
    <2>2. QED
        BY <2>1
<1>2. PICK q \in Nat : d = r + q
    <2>1. d - r \in Nat /\ d = r + (d - r)
        OBVIOUS
    <2>2. QED
        BY <2>1
<1>3. r \in Nat \ {0}
    OBVIOUS
<1>4. r * k \in Nat /\ r * k > 0 /\ q * k \in Nat /\ lo * d \in Int
    BY <1>1, <1>2, <1>3
<1>5. hi * d = lo * d + k * d
    BY <1>1
<1>6. k * d = r * k + q * k
    BY <1>1, <1>2, <1>3
<1>7. QED
    BY <1>1, <1>4, <1>5, <1>6

(* What PercentileBrackets says of one histogram h of s.                    *)
Brackets(h, s, p) ==
    LET b == BucketOf(s[(p * h.count + 99) \div 100])
        v == Percentile(h, p)
    IN  IF h.count = 0 THEN v = None
        ELSE IF b > Len(Bounds) THEN v = [num |-> Last(Bounds), den |-> 1]
        ELSE Edge(b - 1) * v.den < v.num /\ v.num <= Edge(b) * v.den

LEMMA PercentileIs ==
    ASSUME Bounds # <<>>, NEW s \in Seq(Nat), Ascending(s), NEW p \in {1, 50, 95, 99, 100}
    PROVE  Brackets(HistogramOf(s), s, p)
<1>0. PICK h, target : h = HistogramOf(s) /\ target = (p * Len(s) + 99) \div 100
    OBVIOUS
<1> DEFINE b == BucketOf(s[target])
           v == Percentile(h, p)
           R == {c \in 1 .. Len(Bounds) : target <= Cumulative(h, c)}
           n == Len(s)
<1>1. n \in Nat /\ h.count = n /\ Len(Bounds) \in Nat
    BY <1>0, TelemetryAssumption DEF HistogramOf
<1>2. Rank(p, h.count) = target
    BY <1>0, <1>1 DEF Rank
<1> SUFFICES IF n = 0 THEN v = None
             ELSE IF b > Len(Bounds) THEN v = [num |-> Last(Bounds), den |-> 1]
             ELSE Edge(b - 1) * v.den < v.num /\ v.num <= Edge(b) * v.den
    BY <1>0, <1>1, Zenon DEF Brackets
<1>3. CASE n = 0
    <2>1. v = None
        BY <1>1, <1>3 DEF Percentile
    <2>2. QED
        BY <1>3, <2>1
<1>4. CASE n # 0
    <2>1. target \in 1 .. n
        BY <1>0, <1>1, <1>4, RankIs
    <2>2. b \in Buckets /\ s[target] \in Nat
        BY <2>1, BucketType
    <2>3. b \in 1 .. Len(Bounds) + 1
        BY <2>2 DEF Buckets
    <2> HIDE DEF b
    <2>4. \A c \in 0 .. Len(Bounds) : Cumulative(h, c) \in 0 .. n /\ (b <= c <=> target <= Cumulative(h, c))
        <3> TAKE c \in 0 .. Len(Bounds)
        <3>1. Cumulative(h, c) = Reached(s, c)
            BY <1>0, CumulativeReached
        <3>2. c \in Int
            OBVIOUS
        <3>3. Reached(s, c) \in 0 .. n /\ (BucketOf(s[target]) <= c <=> target <= Reached(s, c))
            BY <2>1, <3>2, FirstOnes
        <3>4. QED
            BY <3>1, <3>3 DEF b
    <2>5. R = {c \in 1 .. Len(Bounds) : b <= c}
        BY <1>1, <2>4
    <2> HIDE DEF R
    <2>6. CASE b > Len(Bounds)
        <3>1. R = {}
            BY <1>1, <2>3, <2>5, <2>6
        <3>2. v = [num |-> Last(Bounds), den |-> 1]
            BY <1>1, <1>2, <1>4, <3>1 DEF Percentile, R
        <3>3. QED
            BY <1>4, <2>6, <3>2 DEF b
    <2>7. CASE ~(b > Len(Bounds))
        <3>1. b \in 1 .. Len(Bounds) /\ b \in R /\ \A c \in R : b <= c
            BY <1>1, <2>3, <2>5, <2>7
        <3>2. Min(R) = b
            <4>1. \E x \in R : \A y \in R : x <= y
                BY <3>1
            <4>2. Min(R) \in R /\ \A y \in R : Min(R) <= y
                BY <4>1 DEF Min
            <4>3. R \subseteq Int
                BY DEF R
            <4>4. Min(R) <= b /\ b <= Min(R) /\ Min(R) \in Int /\ b \in Int
                BY <3>1, <4>2, <4>3
            <4>5. QED
                BY <4>4
        <3>3. PICK x : x = Cumulative(h, b - 1)
            OBVIOUS
        <3>4. /\ x \in 0 .. n /\ ~(target <= x)
              /\ x = Reached(s, b - 1) /\ target <= Reached(s, b)
            <4>1. b - 1 \in 0 .. Len(Bounds) /\ ~(b <= b - 1) /\ b \in 0 .. Len(Bounds) /\ b <= b
                BY <1>1, <3>1
            <4>2. x = Reached(s, b - 1) /\ Cumulative(h, b) = Reached(s, b)
                BY <1>0, <3>3, <4>1, CumulativeReached
            <4>3. QED
                BY <2>4, <3>3, <4>1, <4>2
        <3>5. PICK d : d = h.counts[b]
            OBVIOUS
        <3>6. d \in Nat /\ target - x \in 1 .. d /\ d # 0
            <4>1. /\ d = Reached(s, b) - Reached(s, b - 1)
                  /\ Reached(s, b) \in 0 .. n /\ Reached(s, b - 1) \in 0 .. Reached(s, b)
                BY <1>0, <2>2, <3>5, CountsReached
            <4>2. QED
                BY <2>1, <3>4, <4>1
        <3>7. v = [num |-> Edge(b - 1) * d + (target - x) * (Edge(b) - Edge(b - 1)), den |-> d]
            <4>1. R # {}
                BY <3>1
            <4>2. v = IF d = 0 THEN [num |-> Edge(b - 1), den |-> 1]
                      ELSE [num |-> Edge(b - 1) * d + (target - x) * (Edge(b) - Edge(b - 1)), den |-> d]
                BY <1>1, <1>2, <1>4, <3>2, <3>3, <3>5, <4>1, Zenon DEF Percentile, R
            <4>3. QED
                BY <3>6, <4>2
        <3>8. Edge(b) \in Nat /\ Edge(b - 1) \in Nat /\ Edge(b - 1) < Edge(b)
            BY <3>1, EdgesAscend
        <3> HIDE DEF v
        <3>9. v.num = Edge(b - 1) * d + (target - x) * (Edge(b) - Edge(b - 1)) /\ v.den = d
            BY <3>7
        <3>10. Edge(b - 1) * v.den < v.num /\ v.num <= Edge(b) * v.den
            <4>1. PICK lo, hi, r : lo = Edge(b - 1) /\ hi = Edge(b) /\ r = target - x
                OBVIOUS
            <4>2. lo * d < lo * d + r * (hi - lo) /\ lo * d + r * (hi - lo) <= hi * d
                BY <3>6, <3>8, <4>1, Between
            <4>3. QED
                BY <3>9, <4>1, <4>2
        <3>11. QED
            BY <1>4, <2>7, <3>10 DEF b, v
    <2>8. QED
        BY <2>6, <2>7
<1>5. QED
    BY <1>3, <1>4

(* An exported percentile is in the bucket of the observation it stands     *)
(* for, for every list of bounds and whatever was observed, by whichever    *)
(* calls: what the buckets hold is what was recorded (Kept), and the first  *)
(* bucket whose cumulative count reaches the rank is that observation's.    *)
THEOREM PercentilesBracket == Spec => []PercentileBrackets
<1>1. Init => RecordInv
    BY MeteredInit, CopiedInit, RecordInit DEF RecordInv, ExportInv
<1>2. RecordInv => PercentileBrackets
    <2> SUFFICES ASSUME RecordInv, Bounds # <<>>, NEW m \in Known(Histograms), NEW p \in {1, 50, 95, 99, 100}
                 PROVE  Brackets(Current(m), made[m], p)
        BY Zenon DEF PercentileBrackets, Brackets
    <2>1. m \in Histograms /\ Registered(m) /\ m \in MetricName \ Gauges
        BY MetricKinds DEF Known
    <2>2. /\ made[m] \in Seq(Nat) /\ Ascending(made[m])
          /\ Current(m) = HistogramOf(made[m])
        BY <2>1 DEF RecordInv, Kept
    <2>3. QED
        BY <2>2, PercentileIs
<1>3. QED
    BY <1>1, <1>2, RecordNext, PTL DEF Spec
==============================================================================
