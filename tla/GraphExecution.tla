----------------------------- MODULE GraphExecution -----------------------------
(***************************************************************************)
(* The execution engine of nyarix-graph (crates/nyarix-graph/src/          *)
(* execution.rs): packets walking one FlowGraph that is shared behind a    *)
(* tokio Mutex, by execute_sequential (which holds the mutex for its whole *)
(* traversal) and by execute_parallel (which takes it hop by hop and forks *)
(* a tokio task per accepting Parallel edge).  Every hop goes through the  *)
(* node's own three-lane input queue (queue.rs).                           *)
(*                                                                         *)
(* A branch is one run_branch future: the root one of a call, and one per  *)
(* spawned task.  A branch forks at most once (run_branch returns the      *)
(* joined results), so the path of Parallel edges it forked along names it.*)
(***************************************************************************)
EXTENDS Integers, Sequences, FiniteSets, FiniteSetsExt

CONSTANTS
  Node,         (* The nodes of the graph.                                 *)
  Call,         (* The calls of execute_parallel and execute_sequential.   *)
  Path,         (* Bound: the sequences of fan-outs a branch may have.     *)
  ParallelCall, (* The calls made through execute_parallel.                *)
  EntryOf,      (* [Call -> Node]: the entry argument.                     *)
  LaneOf,       (* [Call -> Lane]: lane_for the packet argument.           *)
  EntryPoints, ExitPoints,
  Edges,        (* The edges Vec, in insertion order.                      *)
  Capacity,     (* [Node -> Nat \ {0}]: NodeConfig::queue_capacity.        *)
  MaxBranches,  (* The max_concurrent_branches argument.                   *)
  Emits,        (* [Node -> [Lane -> SUBSET Lane]]: what process may pass. *)
  Absorbers,    (* Nodes whose process may return Ok(None).                *)
  Failers,      (* Nodes whose process may fail or overrun its budget.     *)
  Panickers,    (* Nodes whose process may panic.                          *)
  Limited,      (* Nodes whose payload limit may reject a packet.          *)
  Late,         (* Bound: calls issued once the others have all returned.  *)
  ShutdownRuns, (* Whether shutdown_all_nodes may run beside the calls.    *)
  Free          (* The value of a mutex nobody holds.                      *)

Lane == {"control", "interactive", "bulk"}
EdgeType == {"sequential", "conditional", "parallel", "fallback"}
Branch == [call : Call, path : Path]
Packet == [call : Call, lane : Lane]

ASSUME CallAssumption ==
  /\ IsFiniteSet(Call)
  /\ IsFiniteSet(Path) /\ Path \subseteq Seq(Nat) /\ <<>> \in Path
  /\ ParallelCall \subseteq Call
  /\ EntryOf \in [Call -> Node]
  /\ LaneOf \in [Call -> Lane]
  /\ Late \subseteq Call /\ ShutdownRuns \in BOOLEAN
  /\ MaxBranches \in Nat
  /\ Free \notin Branch

ASSUME GraphAssumption ==
  /\ Edges \in Seq([from : Node, to : Node, type : EdgeType, accepts : SUBSET Lane])
  /\ Capacity \in [Node -> Nat \ {0}]
  /\ Emits \in [Node -> [Lane -> SUBSET Lane]]

VARIABLES
  pc,      (* [Branch -> where the branch's future is suspended].          *)
  at,      (* [Branch -> Node]: run_branch's `current`.                    *)
  pkt,     (* [Branch -> Packet]: the packet the branch last held.         *)
  res,     (* [Branch -> what it returned].                                *)
  out,     (* [Branch -> [Call -> Nat]]: packets in its result, by origin. *)
  queue,   (* [Node -> [Lane -> Seq(Packet)]].                             *)
  lock,    (* The branch holding the graph mutex across a suspension.      *)
  permits, (* [Call -> Nat]: free permits of the call's semaphore.         *)
  doomed,  (* Branches whose JoinSet was dropped, not yet cancelled.       *)
  down,    (* Whether shutdown_all_nodes has run.                          *)
  flow     (* The flow-level metrics: entered, latency, dropped.           *)

vars == <<pc, at, pkt, res, out, queue, lock, permits, doomed, down, flow>>

-----------------------------------------------------------------------------
Root(c) == [call |-> c, path |-> <<>>]
Spawned(b) == b.path # <<>>
Child(b, i) == [call |-> b.call, path |-> Append(b.path, i)]
Children(b) == {Child(b, i) : i \in DOMAIN Edges} \cap Branch

Suspended == {"entry", "permit", "validate", "send", "relock", "recv", "hop", "join"}
Live(b) == pc[b] \in Suspended

(* Semaphore::new(max_concurrent_branches.max(1)). *)
MaxPermits == IF MaxBranches < 1 THEN 1 ELSE MaxBranches
HoldsPermit(b) == Spawned(b) /\ pc[b] \in Suspended \ {"permit"}

Nothing == [c \in Call |-> 0]
One(p) == [c \in Call |-> IF c = p.call THEN 1 ELSE 0]
Merge(o1, o2) == [c \in Call |-> o1[c] + o2[c]]

EmptyQueue == [l \in Lane |-> <<>>]
QDepth(q) == Len(q["control"]) + Len(q["interactive"]) + Len(q["bulk"])
Depth(n) == QDepth(queue[n])

(* The lane a receiver of queue q serves next. *)
TopLane(q) ==
  IF q["control"] # <<>> THEN "control"
  ELSE IF q["interactive"] # <<>> THEN "interactive" ELSE "bulk"
Enqueue(q, p) == [q EXCEPT ![p.lane] = Append(@, p)]
(* Mutant of Dequeue: the receiver drains the queue instead of taking one.  *)
DequeueDrains(q) == EmptyQueue
Dequeue(q) == [q EXCEPT ![TopLane(q)] = Tail(@)]
Foremost(q) == Head(q[TopLane(q)])

(* edges_from(n) filtered by accepts, as positions in the edges Vec. *)
Accepting(n, p) == {i \in DOMAIN Edges : Edges[i].from = n /\ p.lane \in Edges[i].accepts}
FanOut(n, p) == {i \in Accepting(n, p) : Edges[i].type = "parallel"}
FirstOf(s) == {i \in s : \A j \in s : i <= j}

(* Mutant of RecordExit: the latency is recorded once per packet.           *)
RecordExitPerPacket(o) ==
  IF \E c \in Call : o[c] > 0
  THEN [flow EXCEPT !.latency = @ + MapThenSumSet(LAMBDA c : o[c], Call)]
  ELSE [flow EXCEPT !.dropped = @ + 1]

RecordExit(o) ==
  IF \E c \in Call : o[c] > 0
  THEN [flow EXCEPT !.latency = @ + 1]
  ELSE [flow EXCEPT !.dropped = @ + 1]

-----------------------------------------------------------------------------
(* Mutant of Return: a branch that fails forgets its permit.                *)
ReturnForgetsPermit(b, r, o) ==
  /\ pc' = [pc EXCEPT ![b] = "done"]
  /\ res' = [res EXCEPT ![b] = r]
  /\ out' = [out EXCEPT ![b] = o]
  /\ permits' = IF Spawned(b) /\ r = "ok" THEN [permits EXCEPT ![b.call] = @ + 1] ELSE permits
  /\ flow' = IF Spawned(b) \/ r = "panic" THEN flow ELSE RecordExit(o)
  /\ UNCHANGED <<at, pkt>>

(* The future of branch b completes with result r carrying packets o: its  *)
(* permit is dropped with it, and a root future's caller records the exit  *)
(* unless it is being unwound by a panic.                                  *)
Return(b, r, o) ==
  /\ pc' = [pc EXCEPT ![b] = "done"]
  /\ res' = [res EXCEPT ![b] = r]
  /\ out' = [out EXCEPT ![b] = o]
  /\ permits' = IF Spawned(b) THEN [permits EXCEPT ![b.call] = @ + 1] ELSE permits
  /\ flow' = IF Spawned(b) \/ r = "panic" THEN flow ELSE RecordExit(o)
  /\ UNCHANGED <<at, pkt>>

(* The walker moves on to node n with packet p, resuming at step s. *)
MoveTo(b, n, p, s) ==
  /\ pc' = [pc EXCEPT ![b] = s]
  /\ at' = [at EXCEPT ![b] = n]
  /\ pkt' = [pkt EXCEPT ![b] = p]
  /\ UNCHANGED <<res, out, permits, flow>>

(* JoinSet::spawn one task per fan-out edge; each first waits for a permit. *)
Fork(b, fan, p) ==
  LET born == {Child(b, i) : i \in fan}
      target(k) == Edges[k.path[Len(k.path)]].to
  IN /\ born \subseteq Branch
     /\ pc' = [k \in Branch |-> IF k \in born THEN "permit"
                                ELSE IF k = b THEN "join" ELSE pc[k]]
     /\ at' = [k \in Branch |-> IF k \in born THEN target(k) ELSE at[k]]
     /\ pkt' = [k \in Branch |-> IF k \in born THEN p ELSE pkt[k]]
     /\ UNCHANGED <<res, out, permits, flow>>

(* What node.process may do with packet p, short of passing it on. *)
Stopped(b) ==
  \/ at[b] \in Absorbers /\ Return(b, "ok", Nothing)
  \/ at[b] \in Failers /\ Return(b, "err", Nothing)
  \/ at[b] \in Panickers /\ Return(b, "panic", Nothing)

-----------------------------------------------------------------------------
(* A caller makes call c; execute_sequential's holds the graph's guard.     *)
MayStart(c) ==
  /\ pc[Root(c)] = "unborn"
  /\ c \in Late => \A d \in Call \ Late : pc[Root(d)] = "done"

(* execute_parallel: the entry is recorded first, the lock awaited then ... *)
Enter(c) ==
  /\ MayStart(c) /\ c \in ParallelCall
  /\ pc' = [pc EXCEPT ![Root(c)] = "entry"]
  /\ flow' = [flow EXCEPT !.entered = @ + 1]
  /\ UNCHANGED <<at, pkt, res, out, queue, lock, permits, doomed, down>>

(* ... and under it the entry is checked.  The call's semaphore is new: it *)
(* has had all of its permits since Init.                                  *)
StartParallel(c) ==
  /\ pc[Root(c)] = "entry" /\ lock = Free /\ EntryOf[c] \in EntryPoints
  /\ pc' = [pc EXCEPT ![Root(c)] = "validate"]
  /\ UNCHANGED <<at, pkt, res, out, queue, lock, permits, doomed, down, flow>>

(* It is not an entry point: Err(MissingNode), counted as dropped. *)
Refuse(c) ==
  /\ pc[Root(c)] = "entry" /\ lock = Free /\ EntryOf[c] \notin EntryPoints
  /\ pc' = [pc EXCEPT ![Root(c)] = "done"]
  /\ res' = [res EXCEPT ![Root(c)] = "err"]
  /\ flow' = [flow EXCEPT !.dropped = @ + 1]
  /\ UNCHANGED <<at, pkt, out, queue, lock, permits, doomed, down>>

(* Mutant of Acquire: no permit is waited for.                              *)
AcquireUnchecked(b) ==
  /\ pc[b] = "permit"
  /\ pc' = [pc EXCEPT ![b] = "validate"]
  /\ permits' = [permits EXCEPT ![b.call] = @ - 1]
  /\ UNCHANGED <<at, pkt, res, out, queue, lock, doomed, down, flow>>

(* A spawned task acquires its permit. *)
Acquire(b) ==
  /\ pc[b] = "permit" /\ permits[b.call] > 0
  /\ pc' = [pc EXCEPT ![b] = "validate"]
  /\ permits' = [permits EXCEPT ![b.call] = @ - 1]
  /\ UNCHANGED <<at, pkt, res, out, queue, lock, doomed, down, flow>>

(* walk_node step 1: under the lock, check the payload limit, clone the sender. *)
Validate(b) ==
  /\ pc[b] = "validate" /\ lock = Free
  /\ \/ MoveTo(b, at[b], pkt[b], "send")
     \/ at[b] \in Limited /\ Return(b, "err", Nothing)
  /\ UNCHANGED <<queue, lock, doomed, down>>

(* Between the two steps: wait for space in the packet's lane, without the lock. *)
Send(b) ==
  /\ pc[b] = "send"
  /\ Len(queue[at[b]][pkt[b].lane]) < Capacity[at[b]]
  /\ queue' = [queue EXCEPT ![at[b]] = Enqueue(@, pkt[b])]
  /\ pc' = [pc EXCEPT ![b] = "relock"]
  /\ UNCHANGED <<at, pkt, res, out, lock, permits, doomed, down, flow>>

(* walk_node step 2: take the lock again ... *)
Relock(b) ==
  /\ pc[b] = "relock" /\ lock = Free
  /\ lock' = b
  /\ pc' = [pc EXCEPT ![b] = "recv"]
  /\ UNCHANGED <<at, pkt, res, out, queue, permits, doomed, down, flow>>

(* ... and, still holding it, await the next packet, process it and pick   *)
(* where it goes: exit, fork on the Parallel edges, or the first edge.     *)
RouteParallel(b, p) ==
  LET n == at[b]
      accepting == Accepting(n, p)
      fan == FanOut(n, p)
  IN \/ n \in ExitPoints /\ Return(b, "ok", One(p))
     \/ n \notin ExitPoints /\ fan # {} /\ Fork(b, fan, p)
     \/ n \notin ExitPoints /\ accepting = {} /\ Return(b, "err", Nothing)
     \/ /\ n \notin ExitPoints /\ fan = {}
        /\ \E i \in FirstOf(accepting) : MoveTo(b, Edges[i].to, p, "validate")

Recv(b) ==
  /\ pc[b] = "recv" /\ Depth(at[b]) > 0
  /\ queue' = [queue EXCEPT ![at[b]] = Dequeue(@)]
  /\ lock' = Free
  /\ LET p == Foremost(queue[at[b]])
     IN \/ Stopped(b)
        \/ \E l \in Emits[at[b]][p.lane] : RouteParallel(b, [p EXCEPT !.lane = l])
  /\ UNCHANGED <<doomed, down>>

(* Mutants of JoinOk and JoinErr: a child's packets replace those already   *)
(* joined; the siblings are detached instead of aborted.                    *)
JoinOkOverwrites(b, k) ==
  /\ pc[b] = "join" /\ k \in Children(b) /\ pc[k] = "done" /\ res[k] = "ok"
  /\ pc' = [pc EXCEPT ![k] = "joined"]
  /\ out' = [out EXCEPT ![b] = out[k]]
  /\ UNCHANGED <<at, pkt, res, queue, lock, permits, doomed, down, flow>>

JoinErrDetaches(b, k) ==
  /\ pc[b] = "join" /\ k \in Children(b) /\ pc[k] = "done" /\ res[k] # "ok"
  /\ Return(b, "err", Nothing)
  /\ UNCHANGED <<queue, lock, doomed, down>>

(* join_next: a finished child's packets are added; the first failure      *)
(* returns at once, dropping the JoinSet and with it every other child.    *)
JoinOk(b, k) ==
  /\ pc[b] = "join" /\ k \in Children(b) /\ pc[k] = "done" /\ res[k] = "ok"
  /\ pc' = [pc EXCEPT ![k] = "joined"]
  /\ out' = [out EXCEPT ![b] = Merge(@, out[k])]
  /\ UNCHANGED <<at, pkt, res, queue, lock, permits, doomed, down, flow>>

JoinErr(b, k) ==
  /\ pc[b] = "join" /\ k \in Children(b) /\ pc[k] = "done" /\ res[k] # "ok"
  /\ Return(b, "err", Nothing)
  /\ doomed' = doomed \cup {j \in Children(b) : Live(j)}
  /\ UNCHANGED <<queue, lock, down>>

JoinEnd(b) ==
  /\ pc[b] = "join" /\ \A k \in Children(b) : pc[k] \in {"unborn", "joined"}
  /\ Return(b, "ok", out[b])
  /\ UNCHANGED <<queue, lock, doomed, down>>

(* Mutants of Cancel: the permit is leaked; a send that is dropped while it *)
(* waits for space enqueues its packet all the same.                       *)
CancelLeaksPermit(b) ==
  /\ b \in doomed /\ Live(b)
  /\ pc' = [pc EXCEPT ![b] = IF pc[b] \in {"relock", "recv"} THEN "orphaned" ELSE "dropped"]
  /\ lock' = IF lock = b THEN Free ELSE lock
  /\ doomed' = doomed \cup {k \in Children(b) : Live(k)}
  /\ UNCHANGED <<at, pkt, res, out, queue, permits, down, flow>>

CancelStillSends(b) ==
  /\ b \in doomed /\ Live(b)
  /\ pc' = [pc EXCEPT ![b] = IF pc[b] \in {"relock", "recv"} THEN "orphaned" ELSE "dropped"]
  /\ queue' = IF pc[b] = "send" THEN [queue EXCEPT ![at[b]] = Enqueue(@, pkt[b])] ELSE queue
  /\ permits' = IF HoldsPermit(b) THEN [permits EXCEPT ![b.call] = @ + 1] ELSE permits
  /\ lock' = IF lock = b THEN Free ELSE lock
  /\ doomed' = doomed \cup {k \in Children(b) : Live(k)}
  /\ UNCHANGED <<at, pkt, res, out, down, flow>>

(* An aborted task is dropped at an await point, with its guard, its permit *)
(* and its own JoinSet; a packet it already sent stays in the queue.        *)
Cancel(b) ==
  /\ b \in doomed /\ Live(b)
  /\ pc' = [pc EXCEPT ![b] = IF pc[b] \in {"relock", "recv"} THEN "orphaned" ELSE "dropped"]
  /\ permits' = IF HoldsPermit(b) THEN [permits EXCEPT ![b.call] = @ + 1] ELSE permits
  /\ lock' = IF lock = b THEN Free ELSE lock
  /\ doomed' = doomed \cup {k \in Children(b) : Live(k)}
  /\ UNCHANGED <<at, pkt, res, out, queue, down, flow>>

-----------------------------------------------------------------------------
(* execute_sequential, under the caller's guard on the graph mutex: record *)
(* the entry, check it, and start or return at once.                       *)
StartSequential(c) ==
  /\ MayStart(c) /\ c \notin ParallelCall /\ lock = Free
  /\ EntryOf[c] \in EntryPoints
  /\ pc' = [pc EXCEPT ![Root(c)] = "hop"]
  /\ flow' = [flow EXCEPT !.entered = @ + 1]
  /\ lock' = Root(c)
  /\ UNCHANGED <<at, pkt, res, out, queue, permits, doomed, down>>

RefuseSequential(c) ==
  /\ MayStart(c) /\ c \notin ParallelCall /\ lock = Free
  /\ EntryOf[c] \notin EntryPoints
  /\ pc' = [pc EXCEPT ![Root(c)] = "done"]
  /\ res' = [res EXCEPT ![Root(c)] = "err"]
  /\ flow' = [flow EXCEPT !.entered = @ + 1, !.dropped = @ + 1]
  /\ UNCHANGED <<at, pkt, out, queue, lock, permits, doomed, down>>

(* Mutant of RouteSequential: the guard is taken anew for every hop.        *)
RouteSequentialPerHop(b, p) ==
  LET n == at[b]
      accepting == Accepting(n, p)
  IN \/ n \in ExitPoints /\ Return(b, "ok", One(p)) /\ lock' = Free
     \/ n \notin ExitPoints /\ accepting = {} /\ Return(b, "err", Nothing) /\ lock' = Free
     \/ /\ n \notin ExitPoints
        /\ \E i \in FirstOf(accepting) : MoveTo(b, Edges[i].to, p, "hop")
        /\ lock' = Free

(* One iteration of the loop; the guard is kept until the call returns.    *)
RouteSequential(b, p) ==
  LET n == at[b]
      accepting == Accepting(n, p)
  IN \/ n \in ExitPoints /\ Return(b, "ok", One(p)) /\ lock' = Free
     \/ n \notin ExitPoints /\ accepting = {} /\ Return(b, "err", Nothing) /\ lock' = Free
     \/ /\ n \notin ExitPoints
        /\ \E i \in FirstOf(accepting) : MoveTo(b, Edges[i].to, p, "hop")
        /\ lock' = lock

(* check_payload_limit or try_send fails: nothing was enqueued. *)
HopRefused(b) ==
  /\ pc[b] = "hop"
  /\ \/ at[b] \in Limited
     \/ Len(queue[at[b]][pkt[b].lane]) >= Capacity[at[b]]
  /\ Return(b, "err", Nothing)
  /\ lock' = Free
  /\ UNCHANGED <<queue, doomed, down>>

Hop(b) ==
  /\ pc[b] = "hop"
  /\ Len(queue[at[b]][pkt[b].lane]) < Capacity[at[b]]
  /\ LET q == Enqueue(queue[at[b]], pkt[b])
         p == Foremost(q)
     IN /\ queue' = [queue EXCEPT ![at[b]] = Dequeue(q)]
        /\ \/ Stopped(b) /\ lock' = Free
           \/ \E l \in Emits[at[b]][p.lane] : RouteSequential(b, [p EXCEPT !.lane = l])
  /\ UNCHANGED <<doomed, down>>

(* shutdown_all_nodes: under the lock, drain every node's queue. *)
Shutdown ==
  /\ ShutdownRuns /\ ~down /\ lock = Free
  /\ queue' = [n \in Node |-> EmptyQueue]
  /\ down' = TRUE
  /\ UNCHANGED <<pc, at, pkt, res, out, lock, permits, doomed, flow>>

-----------------------------------------------------------------------------
Init ==
  /\ pc = [b \in Branch |-> "unborn"]
  /\ at = [b \in Branch |-> EntryOf[b.call]]
  /\ pkt = [b \in Branch |-> [call |-> b.call, lane |-> LaneOf[b.call]]]
  /\ res = [b \in Branch |-> "none"]
  /\ out = [b \in Branch |-> Nothing]
  /\ queue = [n \in Node |-> EmptyQueue]
  /\ lock = Free
  /\ permits = [c \in Call |-> MaxPermits]
  /\ doomed = {}
  /\ down = FALSE
  /\ flow = [entered |-> 0, latency |-> 0, dropped |-> 0]

Step(b) ==
  \/ Acquire(b) \/ Validate(b) \/ Send(b) \/ Relock(b) \/ Recv(b)
  \/ \E k \in Children(b) : JoinOk(b, k) \/ JoinErr(b, k)
  \/ JoinEnd(b) \/ HopRefused(b) \/ Hop(b)

Admit(c) == StartParallel(c) \/ Refuse(c)

(* Every call has returned and no task is left: nothing more happens. *)
Finished ==
  /\ \A c \in Call : pc[Root(c)] = "done"
  /\ \A b \in Branch : ~Live(b)
  /\ UNCHANGED vars

Next ==
  \/ \E c \in Call : Enter(c) \/ Admit(c) \/ StartSequential(c) \/ RefuseSequential(c)
  \/ \E b \in Branch : Step(b) \/ Cancel(b)
  \/ Shutdown
  \/ Finished

Spec == Init /\ [][Next]_vars

(* tokio polls every woken task, or drops it once aborted; whoever calls   *)
(* the engine owes nothing.  process is assumed to return.                 *)
Fairness ==
  /\ \A c \in Call : WF_vars(Admit(c))
  /\ \A b \in Branch : WF_vars(Step(b) \/ Cancel(b))

FairSpec == Spec /\ Fairness
-----------------------------------------------------------------------------
(* Type invariant: every branch, queue and counter keeps its shape         *)
(* (run_branch, NodeQueue, Semaphore and the metrics of execution.rs).     *)
TypeOK ==
  /\ pc \in [Branch -> Suspended \cup {"unborn", "done", "joined", "dropped", "orphaned"}]
  /\ at \in [Branch -> Node]
  /\ pkt \in [Branch -> Packet]
  /\ res \in [Branch -> {"none", "ok", "err", "panic"}]
  /\ out \in [Branch -> [Call -> Nat]]
  /\ queue \in [Node -> [Lane -> Seq(Packet)]]
  /\ lock \in Branch \cup {Free}
  /\ permits \in [Call -> Nat]
  /\ doomed \subseteq Branch
  /\ down \in BOOLEAN
  /\ flow \in [entered : Nat, latency : Nat, dropped : Nat]

(* The graph mutex is held across a suspension by exactly the branch that  *)
(* awaits its node's queue in walk_node, or runs execute_sequential.       *)
LockOwner == \A b \in Branch : lock = b <=> pc[b] \in {"recv", "hop"}

(* The branches that sent a packet to node n and have yet to receive one.  *)
Owed(n) == {b \in Branch : at[b] = n /\ pc[b] \in {"relock", "recv"}}

(* The branches aborted between their send and their receive at node n.    *)
Orphaned(n) == {b \in Branch : at[b] = n /\ pc[b] = "orphaned"}

(* However branches interleave, fail and are aborted, a node's queue holds *)
(* a packet for every branch that has sent one there and not yet received: *)
(* the accounting behind "this always resolves without waiting" in         *)
(* walk_node, where the receiver already holds the graph mutex.            *)
(* shutdown_all_nodes drains the queues under waiting branches: until then. *)
QueueCovers == \A n \in Node : Cardinality(Owed(n)) <= Depth(n)
QueueCoversOwed == ~down => QueueCovers

(* The converse: a queued packet is one a branch still waits to receive, or *)
(* one an aborted branch left behind; nothing else lingers in a NodeQueue, *)
(* and until a drain nothing else is missing from it either.               *)
Due(n) == Cardinality(Owed(n)) + Cardinality(Orphaned(n))
NoForgedPackets == \A n \in Node : Depth(n) <= Due(n) /\ (down \/ Depth(n) = Due(n))

(* A branch awaiting a node's queue with the graph mutex in hand finds a   *)
(* packet there (walk_node step 2: "always resolves without waiting").     *)
RecvNeverWaits == \A b \in Branch : ~down /\ pc[b] = "recv" => Depth(at[b]) > 0

(* A branch task lives only while its parent joins it, or is being aborted: *)
(* no task of execute_parallel outlives the JoinSet that spawned it.       *)
NoStrayBranch ==
  \A b \in Branch : \A k \in Children(b) :
    Live(k) => pc[b] = "join" \/ k \in doomed

(* A branch that returned Ok joined every branch it spawned: an Ok result  *)
(* of execute_parallel never leaves a sibling running.                     *)
OkJoinsAll ==
  \A b \in Branch : pc[b] \in {"done", "joined"} /\ res[b] = "ok" =>
    \A k \in Children(b) : pc[k] \in {"unborn", "joined"}

(* The permits of a call's semaphore are conserved through completion,     *)
(* failure, panic and abort of its branches (max_concurrent_branches).     *)
PermitsConserved ==
  \A c \in Call :
    permits[c] + Cardinality({b \in Branch : b.call = c /\ HoldsPermit(b)}) = MaxPermits

(* "Returns one packet per branch that reached an exit point": the packets *)
(* of an Ok call, which joined them all, are those of its leaf branches,   *)
(* none lost or repeated, each leaf holding one packet at most.            *)
Leaves(c) == {b \in Branch : b.call = c /\ res[b] = "ok" /\ \A k \in Children(b) : pc[k] = "unborn"}
Holding(c, d) == {b \in Leaves(c) : out[b][d] # 0}
ResultsComplete ==
  /\ OkJoinsAll
  /\ \A c \in Call : res[Root(c)] = "ok" =>
       \A d \in Call :
         /\ out[Root(c)][d] = Cardinality(Holding(c, d))
         /\ \A b \in Leaves(c) : out[b][d] <= 1

(* Every packet that entered is counted once more when its call ends:      *)
(* under packet_latency_us if something reached an exit, else under        *)
(* packets_dropped (record_flow_entry, record_flow_exit).  Only a call     *)
(* whose own future panics never is: it unwinds past record_flow_exit.     *)
Uncounted == {c \in Call : Live(Root(c)) \/ res[Root(c)] = "panic"}
FlowAccounted == flow.entered = flow.latency + flow.dropped + Cardinality(Uncounted)

(* Every call of the engine returns (execute_parallel "joining all         *)
(* branches before returning").                                            *)
AllCallsReturn == \A c \in Call : pc[Root(c)] # "unborn" ~> pc[Root(c)] = "done"

(* A call returns, and then leaves nothing behind: its aborted branches    *)
(* are eventually gone, and none of them keeps the mutex or a permit.      *)
Settled(c) ==
  /\ \A b \in Branch : b.call = c => ~Live(b) /\ lock # b
  /\ permits[c] = MaxPermits
CallsSettle ==
  /\ AllCallsReturn
  /\ \A c \in Call : pc[Root(c)] = "done" ~> Settled(c)
=============================================================================
