---------------------------- MODULE ModuleEvents ----------------------------
(***************************************************************************)
(* Events and the modules that listen to them: the EventBus of             *)
(* nyarix-module-api (event.rs), the subscriptions a RuntimeContext keeps   *)
(* (context.rs), and the lifecycle of the graph nodes (nyarix-graph,       *)
(* node.rs and swap_node in graph.rs) that registers and cancels them.     *)
(*                                                                         *)
(* One context is shared by all nodes, as in the execution loop.  Each     *)
(* subscription is a spawned task; a task is either suspended ("idle" at   *)
(* recv, "handling" inside an async handler) or being polled ("polling").  *)
(* An abort takes a suspended task at its next poll, and a polled one only *)
(* when it next yields: until then it goes on handling what is buffered.   *)
(***************************************************************************)
EXTENDS Integers, Sequences, FiniteSets

CONSTANTS
    Nodes,      \* the graph's nodes
    Shared,     \* the nodes whose module Arc has a second owner
    Kinds,      \* event kinds
    Filters,    \* the kinds a subscription may ask for; All is Kinds itself
    RingSize,   \* events the broadcast ring keeps
    MaxEvents,  \* bound: events published
    MaxTasks    \* bound: subscriptions made

ASSUME EventsAssumption ==
    /\ Nodes # {} /\ Shared \subseteq Nodes
    /\ Filters \subseteq SUBSET Kinds
    /\ RingSize \in Nat \ {0}
    /\ MaxEvents \in Nat
    /\ MaxTasks \in Nat

VARIABLES
    bus,        \* "none": the context was built without one; "open"; "closed"
    published,  \* every event sent, oldest first; the ring keeps the last RingSize
    task,       \* task[t]: subscriber t
    handled,    \* handled[t]: which events the handler of t was called with
    alive,      \* whether the context still exists
    subs,       \* RuntimeContext::subscriptions: the handles it keeps
    node,       \* node[n]: GraphNode::state
    op,         \* the lifecycle call in progress
    ready       \* observer: nodes whose module was last called to initialize, successfully

eventVars == <<bus, published, task, handled, alive, subs, node, op, ready>>
tasks == <<task, handled>>
lifecycle == <<alive, node, op, ready>>

Tasks == 1 .. MaxTasks
EventKind == Kinds
Event == EventKind          \* an event without its payload
NodeState == {"Uninitialized", "Initializing", "Running", "Stopping", "Stopped"}
NewNode == "Uninitialized"   \* GraphNode::new
NoOp == [call |-> "none", node |-> CHOOSE n \in Nodes : TRUE]

Unborn == [st |-> "unborn", start |-> 0, next |-> 0, filter |-> Kinds,
           ctx |-> FALSE, aborted |-> FALSE]

EventInit == /\ bus \in {"none", "open"}
             /\ published = <<>>
             /\ task = [t \in Tasks |-> Unborn]
             /\ handled = [t \in Tasks |-> <<>>]
             /\ alive = TRUE
             /\ subs = {}
             /\ node = [n \in Nodes |-> NewNode]
             /\ op = NoOp
             /\ ready = {}

-----------------------------------------------------------------------------
(* The bus and its subscriber tasks.                                        *)

Live(t) == task[t].st \notin {"unborn", "done"}
Fresh == {t \in Tasks : task[t].st = "unborn"}
NextTask == CHOOSE t \in Fresh : \A u \in Fresh : t <= u

(* emit_event / publish: send never waits, whoever listens.                 *)
Publish(k) ==
    /\ bus = "open"
    /\ Len(published) < MaxEvents
    /\ published' = Append(published, k)
    /\ UNCHANGED <<bus, tasks, subs, lifecycle>>

(* The receiver is created before the task is spawned: it starts at what is *)
(* published from now on, whenever the task is first polled.                *)
Spawn(f, ctx) ==
    task' = [task EXCEPT ![NextTask] =
                [st |-> "idle", start |-> Len(published), next |-> Len(published),
                 filter |-> f, ctx |-> ctx, aborted |-> FALSE]]

(* subscribe / subscribe_async called on the bus itself.                    *)
Subscribe(f) ==
    /\ bus = "open"
    /\ Fresh # {}
    /\ Spawn(f, FALSE)
    /\ UNCHANGED <<bus, published, handled, subs, lifecycle>>

(* on_event / on_event_async, called by the module whose initialize,        *)
(* migrate or shutdown is running: without a bus it subscribes nothing.      *)
OnEvent(f) ==
    /\ op.call # "none"
    /\ op.node \notin Shared
    /\ Fresh # {}
    /\ bus = "open"
    /\ Spawn(f, TRUE)
    /\ subs' = subs \cup {NextTask}
    /\ UNCHANGED <<bus, published, handled, lifecycle>>

(* The owner of a handle returned by subscribe aborts it.                   *)
AbortHandle(t) ==
    /\ Live(t) /\ ~task[t].ctx /\ ~task[t].aborted
    /\ task' = [task EXCEPT ![t].aborted = TRUE]
    /\ UNCHANGED <<bus, published, handled, subs, lifecycle>>

Oldest == IF Len(published) > RingSize THEN Len(published) - RingSize ELSE 0

(* A suspended task is polled once recv has something to return.            *)
Wake(t) ==
    /\ task[t].st = "idle" /\ ~task[t].aborted
    /\ task[t].next < Len(published) \/ bus = "closed"
    /\ task' = [task EXCEPT ![t].st = "polling"]
    /\ UNCHANGED <<bus, published, handled, subs, lifecycle>>

(* mutant: catching up jumps to the newest event                            *)
LaggedToTail(t) ==
    /\ task[t].next < Oldest
    /\ task' = [task EXCEPT ![t].next = Len(published)]
    /\ UNCHANGED handled

(* RecvError::Lagged: skip what the ring has overwritten.                   *)
Lagged(t) ==
    /\ task[t].next < Oldest
    /\ task' = [task EXCEPT ![t].next = Oldest]
    /\ UNCHANGED handled

(* EventFilter::matches, of Only(kinds); All is the list of every kind.     *)
Matches(filter, event) == event \in filter

(* Ok(event): the handler is called if the filter matches.  The call is     *)
(* over within this poll (a sync closure's always is), or an async handler  *)
(* is left suspended under its timeout.                                     *)
Receive(t) ==
    LET i == task[t].next + 1
        matches == Matches(task[t].filter, published[i])
    IN  /\ task[t].next >= Oldest
        /\ i <= Len(published)
        /\ \E st \in {"polling"} \cup (IF matches THEN {"handling"} ELSE {}) :
               task' = [task EXCEPT ![t] = [@ EXCEPT !.next = i, !.st = st]]
        /\ handled' = IF matches THEN [handled EXCEPT ![t] = Append(@, i)] ELSE handled

(* Nothing left: RecvError::Closed ends the loop; otherwise recv yields,    *)
(* and an abort that came meanwhile is honoured.                            *)
Drained(t) ==
    /\ task[t].next = Len(published)
    /\ task' = [task EXCEPT ![t].st = IF bus = "closed" \/ task[t].aborted THEN "done" ELSE "idle"]
    /\ UNCHANGED handled

Poll(t) ==
    /\ task[t].st = "polling"
    /\ Lagged(t) \/ Receive(t) \/ Drained(t)
    /\ UNCHANGED <<bus, published, subs, lifecycle>>

(* The handler's future completes, or its timeout drops it half done.       *)
Resume(t) ==
    /\ task[t].st = "handling"
    /\ task' = [task EXCEPT ![t].st = "polling"]
    /\ UNCHANGED <<bus, published, handled, subs, lifecycle>>

(* mutant: subscribe_async awaits the handler without a timeout             *)
NoHandlerTimeout(t) == FALSE /\ Resume(t)

HandlerDone(t) == Resume(t)
HandlerTimeout(t) == Resume(t)

(* A suspended task that was aborted is dropped when it is next polled.     *)
Cancelled(t) ==
    /\ task[t].st \in {"idle", "handling"} /\ task[t].aborted
    /\ task' = [task EXCEPT ![t].st = "done"]
    /\ UNCHANGED <<bus, published, handled, subs, lifecycle>>

-----------------------------------------------------------------------------
(* Lifecycle calls on the nodes: one at a time, all with the same context.  *)

(* None of them looks at the state the node is in: a stopped node may be    *)
(* initialized again, a running one too, and shut down twice.               *)

Begin(n, call, state) ==
    /\ op.call = "none" /\ alive
    /\ op' = [call |-> call, node |-> n]
    /\ node' = [node EXCEPT ![n] = state]
    /\ ready' = IF call = "migrate" THEN ready ELSE ready \ {n}
    /\ UNCHANGED <<bus, published, tasks, alive, subs>>

BeginInitialize(n) == Begin(n, "initialize", "Initializing")
BeginMigrate(n) == Begin(n, "migrate", node[n])
BeginShutdown(n) == Begin(n, "shutdown", "Stopping")

(* A module with a second owner fails without being called.                 *)
CallOutcomes(n) == IF n \in Shared THEN {FALSE} ELSE BOOLEAN

EndInitialize(ok) ==
    /\ op.call = "initialize" /\ ok \in CallOutcomes(op.node)
    /\ node' = IF ok THEN [node EXCEPT ![op.node] = "Running"] ELSE node
    /\ ready' = IF ok THEN ready \cup {op.node} ELSE ready
    /\ op' = NoOp
    /\ UNCHANGED <<bus, published, tasks, alive, subs>>

(* swap_node: whatever migrate returned, a new GraphNode takes the place.   *)
EndMigrate ==
    /\ op.call = "migrate"
    /\ node' = [node EXCEPT ![op.node] = NewNode]
    /\ ready' = ready \ {op.node}
    /\ op' = NoOp
    /\ UNCHANGED <<bus, published, tasks, alive, subs>>

(* cancel_subscriptions: drain the list, aborting every handle in it.       *)
CancelSubscriptions ==
    /\ task' = [t \in Tasks |-> IF t \in subs THEN [task[t] EXCEPT !.aborted = TRUE] ELSE task[t]]
    /\ subs' = {}

(* mutant: subscriptions are cancelled only when shutdown succeeds          *)
EndShutdownOnOk(ok) ==
    /\ op.call = "shutdown" /\ ok \in CallOutcomes(op.node)
    /\ IF ok THEN CancelSubscriptions ELSE UNCHANGED <<task, subs>>
    /\ node' = IF ok THEN [node EXCEPT ![op.node] = "Stopped"] ELSE node
    /\ op' = NoOp
    /\ UNCHANGED <<bus, published, handled, alive, ready>>

EndShutdown(ok) ==
    /\ op.call = "shutdown" /\ ok \in CallOutcomes(op.node)
    /\ CancelSubscriptions
    /\ node' = IF ok THEN [node EXCEPT ![op.node] = "Stopped"] ELSE node
    /\ op' = NoOp
    /\ UNCHANGED <<bus, published, handled, alive, ready>>

(* The context is dropped, between two calls or by a module's panic that    *)
(* unwinds through one: dropping the handles in its list detaches the tasks.*)
(* No lifecycle call is possible without it: the nodes' states are followed  *)
(* no further, and forgotten.                                               *)
DropContext ==
    /\ alive
    /\ alive' = FALSE
    /\ subs' = {}
    /\ op' = NoOp
    /\ node' = [n \in Nodes |-> NewNode]
    /\ ready' = {}
    /\ UNCHANGED <<bus, published, tasks>>

(* The last EventBus goes: the channel closes once the context is gone.     *)
DropBus ==
    /\ bus = "open" /\ ~alive
    /\ bus' = "closed"
    /\ UNCHANGED <<published, tasks, subs, lifecycle>>

-----------------------------------------------------------------------------
TaskStep(t) == Wake(t) \/ Poll(t) \/ HandlerDone(t) \/ HandlerTimeout(t) \/ Cancelled(t)

EventNext == \/ \E k \in Event : Publish(k)
             \/ \E f \in Filters : Subscribe(f) \/ OnEvent(f)
             \/ \E t \in Tasks : AbortHandle(t) \/ TaskStep(t)
             \/ \E n \in Nodes : BeginInitialize(n) \/ BeginMigrate(n) \/ BeginShutdown(n)
             \/ \E ok \in BOOLEAN : EndInitialize(ok) \/ EndShutdown(ok)
             \/ EndMigrate
             \/ DropContext
             \/ DropBus

EventSpec == EventInit /\ [][EventNext]_eventVars

(* The scheduler polls every runnable task and the timer fires; nothing      *)
(* says that a handler returns.                                             *)
Fairness == \A t \in Tasks :
    WF_eventVars(Wake(t) \/ Poll(t) \/ HandlerTimeout(t) \/ Cancelled(t))

FairSpec == EventSpec /\ Fairness

-----------------------------------------------------------------------------
(* Types.                                                                   *)
EventTypeOK ==
    /\ bus \in {"none", "open", "closed"}
    /\ published \in Seq(Event)
    /\ task \in [Tasks -> [st : {"unborn", "idle", "polling", "handling", "done"},
                           start : Nat, next : Nat, filter : SUBSET Kinds,
                           ctx : BOOLEAN, aborted : BOOLEAN]]
    /\ handled \in [Tasks -> Seq(Nat)]
    /\ subs \subseteq Tasks
    /\ alive \in BOOLEAN /\ (alive \/ subs = {})
    /\ node \in [Nodes -> NodeState]
    /\ op \in [call : {"none", "initialize", "migrate", "shutdown"}, node : Nodes]
    /\ ready \subseteq Nodes

(* What the handler of t was called with, and what it was not.              *)
DeliversTo(t) ==
    LET h == handled[t]
        seen == {h[i] : i \in 1 .. Len(h)}
    IN  /\ \A i, j \in 1 .. Len(h) : i < j => h[i] < h[j]
        /\ \A i \in seen : task[t].start < i /\ published[i] \in task[t].filter
        /\ \A i \in task[t].start + 1 .. task[t].next :
               \/ i \in seen
               \/ published[i] \notin task[t].filter
               \/ i + RingSize <= Len(published)

(* A subscriber's handler sees matching events only, each once and in the   *)
(* order they were published, and an event it was subscribed for is skipped *)
(* only once RingSize newer ones have pushed it out of the ring: on_event,  *)
(* the recv loop and its Lagged branch lose nothing else.                   *)
DeliversWhatIsKept == \A t \in Tasks : DeliversTo(t)

(* When every node of a live context has been shut down, successfully or not, *)
(* none of their modules has a subscriber left that is neither aborted nor   *)
(* over: whichever order the nodes were initialized, swapped and shut down   *)
(* in, again and again, what one registers after another's shutdown is      *)
(* cancelled by its own, and a failing module leaks none.                   *)
ShutDownMeansSilent ==
    alive /\ op.call = "none" /\ (\A n \in Nodes : node[n] \in {"Stopping", "Stopped"}) =>
        \A t \in Tasks : task[t].ctx => task[t].aborted \/ task[t].st = "done"

(* A node reports Running only if the last call its present module was given *)
(* is an initialize that succeeded: a swap never inherits the state of the   *)
(* module it replaced, a failed second initialize never keeps Running.      *)
RunningMeansInitialized == \A n \in Nodes : node[n] = "Running" => n \in ready

(* What the lifecycle calls of the nodes that share a context keep, across   *)
(* repeated calls, swaps and failures.                                      *)
LifecycleKept == ShutDownMeansSilent /\ RunningMeansInitialized

(* Over or not yet there, or with all that was published behind it.  One that *)
(* was aborted, or whose bus is gone, is served by nothing but its end.     *)
Served(t) == \/ ~Live(t)
             \/ task[t].next = Len(published) /\ ~task[t].aborted /\ bus # "closed"

(* Again and again every subscriber has taken from the ring, or skipped, all *)
(* that was published (MaxEvents is the end of it), or has ended, and one    *)
(* that is aborted or whose bus is gone does end.  The timeout of           *)
(* subscribe_async keeps a handler that never returns from stalling its own  *)
(* subscription.                                                            *)
SubscribersServed == \A t \in Tasks : []<>Served(t)

=============================================================================
