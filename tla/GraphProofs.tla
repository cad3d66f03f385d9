----------------------------- MODULE GraphProofs -----------------------------
(***************************************************************************)
(* Proofs about the flow graph: first its execution, for every graph,      *)
(* every set of calls and every capacity, then its topology, for every set *)
(* of nodes and every sequence of operations.                              *)
(*                                                                         *)
(* GraphExecution: the state keeps its type; the graph mutex has one       *)
(* holder, and no branch ever waits on an empty queue with it in hand;     *)
(* the branches of a call form a tree that ends as a whole (TreeInv);      *)
(* permits, flow counters and the packets in the queues are conserved; and *)
(* an Ok result holds the packets of all the leaves of that tree.          *)
(*                                                                         *)
(* FlowGraph: the edges Vec and the adjacency index never disagree (Sound),*)
(* and an operation that fails changes nothing, with one exception.        *)
(***************************************************************************)
EXTENDS GraphExecution, FlowGraph, FiniteSetTheorems, SequenceTheorems, WellFoundedInduction, TLAPS

-----------------------------------------------------------------------------
(* The node queue of queue.rs: sizes and types of its operations.          *)

(* Sending a packet to a node queue makes it one deeper. *)
LEMMA EnqueueDepth ==
  ASSUME NEW q \in [Lane -> Seq(Packet)], NEW p \in Packet
  PROVE  /\ Enqueue(q, p) \in [Lane -> Seq(Packet)]
         /\ QDepth(Enqueue(q, p)) = QDepth(q) + 1
         /\ QDepth(q) \in Nat
<1>1. p.lane \in Lane
  BY DEF Packet
<1>2. \A l \in Lane : q[l] \in Seq(Packet) /\ Len(q[l]) \in Nat
  OBVIOUS
<1>3. Append(q[p.lane], p) \in Seq(Packet) /\ Len(Append(q[p.lane], p)) = Len(q[p.lane]) + 1
  BY <1>1, <1>2
<1>4. CASE p.lane = "control"
  BY <1>1, <1>2, <1>3, <1>4 DEF Enqueue, QDepth, Lane
<1>5. CASE p.lane = "interactive"
  BY <1>1, <1>2, <1>3, <1>5 DEF Enqueue, QDepth, Lane
<1>6. CASE p.lane = "bulk"
  BY <1>1, <1>2, <1>3, <1>6 DEF Enqueue, QDepth, Lane
<1>. QED
  BY <1>1, <1>4, <1>5, <1>6 DEF Lane

(* Receiving from a queue that is not empty takes exactly one packet off. *)
LEMMA DequeueDepth ==
  ASSUME NEW q \in [Lane -> Seq(Packet)], QDepth(q) > 0
  PROVE  /\ Dequeue(q) \in [Lane -> Seq(Packet)]
         /\ QDepth(Dequeue(q)) = QDepth(q) - 1
         /\ Foremost(q) \in Packet
<1>1. \A l \in Lane : q[l] \in Seq(Packet) /\ Len(q[l]) \in Nat
  OBVIOUS
<1>2. TopLane(q) \in Lane /\ q[TopLane(q)] # <<>>
  BY <1>1 DEF TopLane, QDepth, Lane
<1>3. /\ Tail(q[TopLane(q)]) \in Seq(Packet)
      /\ Len(Tail(q[TopLane(q)])) = Len(q[TopLane(q)]) - 1
      /\ Head(q[TopLane(q)]) \in Packet
  BY <1>1, <1>2
<1>4. CASE TopLane(q) = "control"
  BY <1>1, <1>2, <1>3, <1>4 DEF Foremost, Dequeue, QDepth, Lane
<1>5. CASE TopLane(q) = "interactive"
  BY <1>1, <1>2, <1>3, <1>5 DEF Foremost, Dequeue, QDepth, Lane
<1>6. CASE TopLane(q) = "bulk"
  BY <1>1, <1>2, <1>3, <1>6 DEF Foremost, Dequeue, QDepth, Lane
<1>. QED
  BY <1>2, <1>4, <1>5, <1>6 DEF Lane

(* There are finitely many branches. *)
LEMMA FiniteBranch == IsFiniteSet(Branch)
<1>. DEFINE f == [z \in Call \X Path |-> [call |-> z[1], path |-> z[2]]]
<1>1. IsFiniteSet(Call \X Path)
  BY CallAssumption, FS_Product
<1>2. f \in Surjection(Call \X Path, Branch)
  <2>1. f \in [Call \X Path -> Branch]
    BY DEF Branch
  <2>2. \A b \in Branch : \E z \in Call \X Path : f[z] = b
    <3>. TAKE b \in Branch
    <3>1. <<b.call, b.path>> \in Call \X Path
      BY DEF Branch
    <3>2. f[<<b.call, b.path>>] = b
      BY <3>1 DEF Branch
    <3>. QED
      BY <3>1, <3>2
  <2>. QED
    BY <2>1, <2>2 DEF Surjection
<1>. QED
  BY <1>1, <1>2, FS_Surjection

-----------------------------------------------------------------------------
(* Type correctness.                                                       *)

(* The part of TypeOK about what a walker's moves change. *)
WalkType ==
  /\ pc \in [Branch -> Suspended \cup {"unborn", "done", "joined", "dropped", "orphaned"}]
  /\ at \in [Branch -> Node]
  /\ pkt \in [Branch -> Packet]
  /\ res \in [Branch -> {"none", "ok", "err", "panic"}]
  /\ out \in [Branch -> [Call -> Nat]]
  /\ permits \in [Call -> Nat]
  /\ flow \in [entered : Nat, latency : Nat, dropped : Nat]

(* A branch belongs to a call and has a path.                              *)
LEMMA BranchFields ==
  ASSUME NEW b \in Branch
  PROVE  b.call \in Call /\ b.path \in Path
BY DEF Branch

(* The packets of a result are counted by naturals, however merged.        *)
LEMMA OutTypes ==
  /\ Nothing \in [Call -> Nat]
  /\ \A p \in Packet : One(p) \in [Call -> Nat]
  /\ \A o1, o2 \in [Call -> Nat] : Merge(o1, o2) \in [Call -> Nat]
BY DEF Nothing, One, Merge

(* An edge leads to a node of the graph, and its position is a number. *)
LEMMA EdgeTypes ==
  ASSUME NEW i \in DOMAIN Edges
  PROVE  i \in Nat /\ Edges[i].to \in Node
<1>. DEFINE E == [from : Node, to : Node, type : EdgeType, accepts : SUBSET Lane]
<1>1. Edges \in Seq(E)
  BY GraphAssumption
<1>2. i \in Nat /\ Edges[i] \in E
  <2>. HIDE DEF E
  <2>. QED
    BY <1>1
<1>. QED
  BY <1>2

(* A future that completes keeps the types. *)
LEMMA ReturnType ==
  ASSUME WalkType, NEW b \in Branch, NEW r \in {"none", "ok", "err", "panic"},
         NEW o \in [Call -> Nat], Return(b, r, o)
  PROVE  WalkType'
<1>1. flow' \in [entered : Nat, latency : Nat, dropped : Nat]
  <2>1. /\ [flow EXCEPT !.latency = @ + 1] \in [entered : Nat, latency : Nat, dropped : Nat]
        /\ [flow EXCEPT !.dropped = @ + 1] \in [entered : Nat, latency : Nat, dropped : Nat]
    BY DEF WalkType
  <2>2. \/ flow' = flow
        \/ flow' = [flow EXCEPT !.latency = @ + 1]
        \/ flow' = [flow EXCEPT !.dropped = @ + 1]
    BY DEF Return, RecordExit
  <2>. QED
    BY <2>1, <2>2 DEF WalkType
<1>2. permits' \in [Call -> Nat]
  BY BranchFields DEF Return, WalkType
<1>. QED
  BY <1>1, <1>2 DEF Return, WalkType, Suspended

(* So does a walker that moves on to another node. *)
LEMMA MoveToType ==
  ASSUME WalkType, NEW b \in Branch, NEW n \in Node, NEW p \in Packet,
         NEW s \in Suspended, MoveTo(b, n, p, s)
  PROVE  WalkType'
BY DEF MoveTo, WalkType

(* And a walker that forks: every child starts at the target of its edge. *)
LEMMA ForkType ==
  ASSUME WalkType, NEW b \in Branch, NEW p \in Packet,
         NEW fan \in SUBSET (DOMAIN Edges), Fork(b, fan, p)
  PROVE  WalkType'
<1>. DEFINE born == {Child(b, i) : i \in fan}
<1>1. \A i \in fan : Edges[i].to \in Node
  BY EdgeTypes
<1>2. \A i \in fan : LET k == Child(b, i) IN k.path[Len(k.path)] = i
  <2>. TAKE i \in fan
  <2>1. b.path \in Seq(Nat)
    BY BranchFields, CallAssumption
  <2>2. i \in Nat
    BY EdgeTypes
  <2>. QED
    BY <2>1, <2>2 DEF Child
<1>3. at' \in [Branch -> Node]
  <2>. SUFFICES ASSUME NEW k \in Branch
                PROVE  at'[k] \in Node
    BY DEF Fork
  <2>1. CASE k \in born
    BY <1>1, <1>2, <2>1 DEF Fork
  <2>2. CASE k \notin born
    BY <2>2 DEF Fork, WalkType
  <2>. QED
    BY <2>1, <2>2
<1>. QED
  BY <1>3 DEF Fork, WalkType, Suspended

(* What an engine does with a processed packet keeps the types. *)
LEMMA StoppedType ==
  ASSUME WalkType, NEW b \in Branch, Stopped(b)
  PROVE  WalkType'
BY ReturnType, OutTypes DEF Stopped

(* So does routing it, by either engine.                                   *)
LEMMA RouteType ==
  ASSUME WalkType, NEW b \in Branch, NEW p \in Packet,
         RouteParallel(b, p) \/ RouteSequential(b, p)
  PROVE  WalkType'
<1>. DEFINE n == at[b]
<1>1. CASE n \in ExitPoints /\ Return(b, "ok", One(p))
  BY <1>1, ReturnType, OutTypes
<1>2. CASE Fork(b, FanOut(n, p), p)
  BY <1>2, ForkType DEF FanOut, Accepting
<1>3. CASE Return(b, "err", Nothing)
  BY <1>3, ReturnType, OutTypes
<1>4. CASE \E i \in FirstOf(Accepting(n, p)), s \in {"validate", "hop"} : MoveTo(b, Edges[i].to, p, s)
  <2>1. PICK i \in FirstOf(Accepting(n, p)), s \in {"validate", "hop"} : MoveTo(b, Edges[i].to, p, s)
    BY <1>4
  <2>2. Edges[i].to \in Node
    BY EdgeTypes DEF FirstOf, Accepting
  <2>. QED
    BY <2>1, <2>2, MoveToType DEF Suspended
<1>. QED
  BY <1>1, <1>2, <1>3, <1>4 DEF RouteParallel, RouteSequential

(* A step of branch b keeps the types. *)
LEMMA StepType ==
  ASSUME TypeOK, NEW b \in Branch, Step(b)
  PROVE  TypeOK'
<1>w. WalkType
  BY DEF TypeOK, WalkType
<1>b. b.call \in Call /\ at[b] \in Node /\ pkt[b] \in Packet /\ pkt[b].lane \in Lane
  BY BranchFields DEF TypeOK, Packet
<1>q. queue[at[b]] \in [Lane -> Seq(Packet)]
  BY <1>b DEF TypeOK
<1>1. CASE Acquire(b)
  <2>1. permits' \in [Call -> Nat]
    BY <1>1, <1>b DEF Acquire, TypeOK
  <2>. QED
    BY <1>1, <2>1 DEF Acquire, TypeOK, Suspended
<1>2. CASE Validate(b)
  <2>1. WalkType'
    BY <1>2, <1>w, <1>b, MoveToType, ReturnType, OutTypes DEF Validate, Suspended
  <2>. QED
    BY <1>2, <2>1 DEF Validate, TypeOK, WalkType
<1>3. CASE Send(b)
  <2>1. queue' \in [Node -> [Lane -> Seq(Packet)]]
    BY <1>3, <1>b, <1>q, EnqueueDepth DEF Send, TypeOK
  <2>. QED
    BY <1>3, <2>1 DEF Send, TypeOK, Suspended
<1>4. CASE Relock(b)
  BY <1>4 DEF Relock, TypeOK, Suspended
<1>5. CASE Recv(b)
  <2>1. Dequeue(queue[at[b]]) \in [Lane -> Seq(Packet)] /\ Foremost(queue[at[b]]) \in Packet
    BY <1>5, <1>q, DequeueDepth DEF Recv, Depth
  <2>2. queue' \in [Node -> [Lane -> Seq(Packet)]]
    BY <1>5, <2>1 DEF Recv, TypeOK
  <2>3. WalkType'
    <3>1. CASE Stopped(b)
      BY <3>1, <1>w, StoppedType
    <3>2. ASSUME NEW l \in Emits[at[b]][Foremost(queue[at[b]]).lane],
                 RouteParallel(b, [Foremost(queue[at[b]]) EXCEPT !.lane = l])
          PROVE  WalkType'
      <4>1. l \in Lane
        BY <1>b, <2>1, GraphAssumption DEF Packet
      <4>2. [Foremost(queue[at[b]]) EXCEPT !.lane = l] \in Packet
        BY <2>1, <4>1 DEF Packet
      <4>. QED
        BY <3>2, <4>2, <1>w, RouteType
    <3>. QED
      BY <1>5, <3>1, <3>2 DEF Recv
  <2>. QED
    BY <1>5, <2>2, <2>3 DEF Recv, TypeOK, WalkType
<1>6. ASSUME NEW k \in Children(b), JoinOk(b, k) PROVE TypeOK'
  <2>1. k \in Branch /\ out[k] \in [Call -> Nat] /\ out[b] \in [Call -> Nat]
    BY DEF Children, TypeOK
  <2>2. Merge(out[b], out[k]) \in [Call -> Nat]
    BY <2>1, OutTypes
  <2>3. out' \in [Branch -> [Call -> Nat]]
    BY <1>6, <2>2 DEF JoinOk, TypeOK
  <2>. QED
    BY <1>6, <2>1, <2>3 DEF JoinOk, TypeOK
<1>7. ASSUME NEW k \in Children(b), JoinErr(b, k) PROVE TypeOK'
  <2>1. WalkType'
    BY <1>7, <1>w, ReturnType, OutTypes DEF JoinErr
  <2>2. doomed' \subseteq Branch
    BY <1>7 DEF JoinErr, TypeOK, Children
  <2>. QED
    BY <1>7, <2>1, <2>2 DEF JoinErr, TypeOK, WalkType
<1>8. CASE JoinEnd(b)
  <2>1. WalkType'
    BY <1>8, <1>w, ReturnType DEF JoinEnd, WalkType
  <2>. QED
    BY <1>8, <2>1 DEF JoinEnd, TypeOK, WalkType
<1>9. CASE HopRefused(b)
  <2>1. WalkType'
    BY <1>9, <1>w, ReturnType, OutTypes DEF HopRefused
  <2>. QED
    BY <1>9, <2>1 DEF HopRefused, TypeOK, WalkType
<1>10. CASE Hop(b)
  <2>. DEFINE q == Enqueue(queue[at[b]], pkt[b])
  <2>1. Dequeue(q) \in [Lane -> Seq(Packet)] /\ Foremost(q) \in Packet
    <3>0. /\ q \in [Lane -> Seq(Packet)]
          /\ QDepth(q) = QDepth(queue[at[b]]) + 1
          /\ QDepth(queue[at[b]]) \in Nat
      BY <1>b, <1>q, EnqueueDepth
    <3>1. q \in [Lane -> Seq(Packet)] /\ QDepth(q) > 0
      <4>. HIDE DEF q
      <4>. QED
        BY <3>0
    <3>. QED
      BY <3>1, DequeueDepth
  <2>. HIDE DEF q
  <2>2. queue' \in [Node -> [Lane -> Seq(Packet)]]
    BY <1>10, <2>1 DEF Hop, TypeOK, q
  <2>3. WalkType' /\ lock' \in Branch \cup {Free}
    <3>1. CASE Stopped(b) /\ lock' = Free
      BY <3>1, <1>w, StoppedType
    <3>2. ASSUME NEW l \in Emits[at[b]][Foremost(q).lane],
                 RouteSequential(b, [Foremost(q) EXCEPT !.lane = l])
          PROVE  WalkType' /\ lock' \in Branch \cup {Free}
      <4>1. l \in Lane
        BY <1>b, <2>1, GraphAssumption DEF Packet
      <4>2. [Foremost(q) EXCEPT !.lane = l] \in Packet
        BY <2>1, <4>1 DEF Packet
      <4>3. WalkType'
        BY <3>2, <4>2, <1>w, RouteType
      <4>4. lock' \in Branch \cup {Free}
        BY <3>2 DEF RouteSequential, TypeOK
      <4>. QED
        BY <4>3, <4>4
    <3>. QED
      BY <1>10, <3>1, <3>2 DEF Hop, q
  <2>. QED
    BY <1>10, <2>2, <2>3 DEF Hop, TypeOK, WalkType
<1>. QED
  BY <1>1, <1>2, <1>3, <1>4, <1>5, <1>6, <1>7, <1>8, <1>9, <1>10 DEF Step

(* The flow-level counters stay naturals when a call enters or is refused. *)
LEMMA FlowType ==
  ASSUME NEW f \in [entered : Nat, latency : Nat, dropped : Nat]
  PROVE  /\ [f EXCEPT !.entered = @ + 1] \in [entered : Nat, latency : Nat, dropped : Nat]
         /\ [f EXCEPT !.entered = @ + 1, !.dropped = @ + 1]
              \in [entered : Nat, latency : Nat, dropped : Nat]
         /\ [f EXCEPT !.dropped = @ + 1] \in [entered : Nat, latency : Nat, dropped : Nat]
<1>1. f.entered + 1 \in Nat /\ f.dropped + 1 \in Nat
  OBVIOUS
<1>. QED
  BY <1>1

(* The steps of a call before its branch first runs, or instead of it.     *)
CallStep(c) == Enter(c) \/ Admit(c) \/ StartSequential(c) \/ RefuseSequential(c)

(* Such a step moves the root of the call and nothing else of the tree.    *)
LEMMA CallShape ==
  ASSUME DOMAIN pc = Branch, DOMAIN res = Branch, NEW c \in Call, CallStep(c)
  PROVE  /\ Root(c) \in Branch /\ Root(c).call = c /\ ~Spawned(Root(c))
         /\ UNCHANGED <<at, pkt, out, queue, permits, doomed, down>>
         /\ pc[Root(c)] \in {"unborn", "entry"}
         /\ \/ pc'[Root(c)] \in {"entry", "validate", "hop"} /\ UNCHANGED res
            \/ pc'[Root(c)] = "done" /\ res'[Root(c)] = "err"
         /\ \A d \in Branch \ {Root(c)} : pc'[d] = pc[d] /\ res'[d] = res[d]
<1>1. Root(c) \in Branch /\ Root(c).call = c /\ ~Spawned(Root(c))
  BY CallAssumption DEF Root, Branch, Spawned
<1>2. CASE Enter(c)
  BY <1>1, <1>2 DEF Enter, MayStart
<1>3. CASE StartParallel(c)
  BY <1>1, <1>3 DEF StartParallel
<1>4. CASE Refuse(c)
  BY <1>1, <1>4 DEF Refuse
<1>5. CASE StartSequential(c)
  BY <1>1, <1>5 DEF StartSequential, MayStart
<1>6. CASE RefuseSequential(c)
  BY <1>1, <1>6 DEF RefuseSequential, MayStart
<1>. QED
  BY <1>2, <1>3, <1>4, <1>5, <1>6 DEF CallStep, Admit

(* A call's root branch starts, or is refused, with the right types. *)
LEMMA StartType ==
  ASSUME TypeOK, NEW c \in Call, CallStep(c)
  PROVE  TypeOK'
<1>1. Root(c) \in Branch
  BY CallAssumption DEF Root, Branch
<1>2. flow' \in [entered : Nat, latency : Nat, dropped : Nat]
  BY FlowType DEF CallStep, Enter, Admit, StartParallel, Refuse, StartSequential, RefuseSequential, TypeOK
<1>3. /\ pc' \in [Branch -> Suspended \cup {"unborn", "done", "joined", "dropped", "orphaned"}]
      /\ res' \in [Branch -> {"none", "ok", "err", "panic"}]
      /\ lock' \in Branch \cup {Free}
  BY <1>1 DEF CallStep, Enter, Admit, StartParallel, Refuse, StartSequential, RefuseSequential,
              TypeOK, Suspended
<1>4. UNCHANGED <<at, pkt, out, queue, permits, doomed, down>>
  BY CallShape DEF TypeOK
<1>. QED
  BY <1>2, <1>3, <1>4 DEF TypeOK

(* An aborted branch gives back well-typed permits and dooms branches.     *)
LEMMA CancelType ==
  ASSUME TypeOK, NEW b \in Branch, Cancel(b)
  PROVE  TypeOK'
<1>1. permits' \in [Call -> Nat]
  BY BranchFields DEF Cancel, TypeOK
<1>2. doomed' \subseteq Branch
  BY DEF Cancel, TypeOK, Children
<1>3. pc' \in [Branch -> Suspended \cup {"unborn", "done", "joined", "dropped", "orphaned"}]
  BY DEF Cancel, TypeOK
<1>. QED
  BY <1>1, <1>2, <1>3 DEF Cancel, TypeOK

(* A drained NodeQueue is well typed and has depth 0.                      *)
LEMMA EmptyQueueType == EmptyQueue \in [Lane -> Seq(Packet)] /\ QDepth(EmptyQueue) = 0
BY DEF EmptyQueue, QDepth, Lane

(* The engine starts well typed.                                           *)
LEMMA InitType == Init => TypeOK
<1>. SUFFICES ASSUME Init PROVE TypeOK
  OBVIOUS
<1>1. MaxPermits \in Nat
  BY CallAssumption DEF MaxPermits
<1>2. \A b \in Branch : EntryOf[b.call] \in Node /\ [call |-> b.call, lane |-> LaneOf[b.call]] \in Packet
  BY BranchFields, CallAssumption DEF Packet
<1>. QED
  BY <1>1, <1>2, OutTypes, EmptyQueueType DEF Init, TypeOK

(* And every step keeps it so.                                             *)
LEMMA NextType == TypeOK /\ [Next]_vars => TypeOK'
<1>. SUFFICES ASSUME TypeOK, [Next]_vars PROVE TypeOK'
  OBVIOUS
<1>1. CASE Shutdown
  BY <1>1, EmptyQueueType DEF Shutdown, TypeOK
<1>2. CASE UNCHANGED vars
  BY <1>2 DEF vars, TypeOK
<1>. QED
  BY <1>1, <1>2, StartType, StepType, CancelType DEF Next, Finished, CallStep

(* Every reachable state of the engine is well typed, for every graph, set *)
(* of calls, capacities and branch limit.                                  *)
THEOREM TypeCorrect == Spec => []TypeOK
BY InitType, NextType, PTL DEF Spec
-----------------------------------------------------------------------------
(* Mutual exclusion on the graph mutex.                                    *)

(* What a walker does with the packet it received touches no other branch, *)
(* except that the children it forks wait for their permits.               *)
LEMMA OthersKept ==
  ASSUME TypeOK, NEW b \in Branch, NEW p,
         Stopped(b) \/ RouteParallel(b, p) \/ RouteSequential(b, p)
  PROVE  /\ pc'[b] \notin {"relock", "recv"}
         /\ \A k \in Branch \ {b} :
              pc'[k] = "permit" \/ (pc'[k] = pc[k] /\ at'[k] = at[k])
<1>1. ASSUME NEW r, NEW o, Return(b, r, o)
      PROVE  pc'[b] = "done" /\ \A k \in Branch \ {b} : pc'[k] = pc[k] /\ at'[k] = at[k]
  BY <1>1 DEF Return, TypeOK
<1>2. ASSUME NEW n, NEW s, MoveTo(b, n, p, s)
      PROVE  pc'[b] = s /\ \A k \in Branch \ {b} : pc'[k] = pc[k] /\ at'[k] = at[k]
  BY <1>2 DEF MoveTo, TypeOK
<1>3. ASSUME NEW fan, Fork(b, fan, p)
      PROVE  /\ pc'[b] \in {"permit", "join"}
             /\ \A k \in Branch \ {b} :
                  pc'[k] = "permit" \/ (pc'[k] = pc[k] /\ at'[k] = at[k])
  BY <1>3 DEF Fork
<1>4. CASE Stopped(b)
  BY <1>1, <1>4 DEF Stopped
<1>5. CASE RouteParallel(b, p)
  BY <1>1, <1>2, <1>3, <1>5 DEF RouteParallel
<1>6. CASE RouteSequential(b, p)
  BY <1>1, <1>2, <1>6 DEF RouteSequential
<1>. QED
  BY <1>4, <1>5, <1>6

(* A branch that holds the mutex is the only one that may take it. *)
LEMMA StepLock ==
  ASSUME TypeOK, LockOwner, NEW b \in Branch, Step(b)
  PROVE  LockOwner'
<1>f. Free \notin Branch
  BY CallAssumption
<1>t. DOMAIN pc = Branch
  BY DEF TypeOK
<1>1. CASE Acquire(b)
  BY <1>1, <1>t DEF Acquire, LockOwner
<1>2. CASE Validate(b)
  BY <1>2, <1>t DEF Validate, MoveTo, Return, LockOwner
<1>3. CASE Send(b)
  BY <1>3, <1>t DEF Send, LockOwner
<1>4. CASE Relock(b)
  BY <1>4, <1>t, <1>f DEF Relock, LockOwner
<1>5. CASE Recv(b)
  <2>1. lock = b /\ lock' = Free
    BY <1>5 DEF Recv, LockOwner
  <2>2. pc'[b] # "hop"
    <3>1. ASSUME NEW r, NEW o, Return(b, r, o) PROVE pc'[b] # "hop"
      BY <3>1 DEF Return, TypeOK
    <3>2. ASSUME NEW n, NEW p, MoveTo(b, n, p, "validate") PROVE pc'[b] # "hop"
      BY <3>2 DEF MoveTo, TypeOK
    <3>3. ASSUME NEW fan, NEW p, Fork(b, fan, p) PROVE pc'[b] # "hop"
      BY <3>3 DEF Fork
    <3>. QED
      BY <1>5, <3>1, <3>2, <3>3 DEF Recv, Stopped, RouteParallel
  <2>3. /\ pc'[b] \notin {"relock", "recv"}
        /\ \A k \in Branch \ {b} :
             pc'[k] = "permit" \/ (pc'[k] = pc[k] /\ at'[k] = at[k])
    BY <1>5, OthersKept DEF Recv
  <2>. QED
    BY <2>1, <2>2, <2>3, <1>f DEF LockOwner
<1>6. ASSUME NEW k \in Children(b), JoinOk(b, k) PROVE LockOwner'
  BY <1>6, <1>t DEF JoinOk, LockOwner
<1>7. ASSUME NEW k \in Children(b), JoinErr(b, k) PROVE LockOwner'
  BY <1>7, <1>t DEF JoinErr, Return, LockOwner
<1>8. CASE JoinEnd(b)
  BY <1>8, <1>t DEF JoinEnd, Return, LockOwner
<1>9. CASE HopRefused(b)
  BY <1>9, <1>t, <1>f DEF HopRefused, Return, LockOwner
<1>10. CASE Hop(b)
  <2>1. lock = b
    BY <1>10 DEF Hop, LockOwner
  <2>2. \/ lock' = Free /\ pc' = [pc EXCEPT ![b] = "done"]
        \/ lock' = lock /\ pc' = [pc EXCEPT ![b] = "hop"]
    BY <1>10 DEF Hop, Stopped, RouteSequential, Return, MoveTo
  <2>. QED
    BY <2>1, <2>2, <1>t, <1>f DEF LockOwner
<1>. QED
  BY <1>1, <1>2, <1>3, <1>4, <1>5, <1>6, <1>7, <1>8, <1>9, <1>10 DEF Step

(* Every step keeps the mutex with the branch that took it.                *)
LEMMA NextLock == TypeOK /\ LockOwner /\ [Next]_vars => LockOwner'
<1>. SUFFICES ASSUME TypeOK, LockOwner, [Next]_vars PROVE LockOwner'
  OBVIOUS
<1>f. Free \notin Branch
  BY CallAssumption
<1>t. DOMAIN pc = Branch
  BY DEF TypeOK
<1>1. ASSUME NEW c \in Call, CallStep(c)
      PROVE  LockOwner'
  <2>1. Root(c) \in Branch
    BY CallAssumption DEF Root, Branch
  <2>. QED
    BY <1>1, <2>1, <1>t, <1>f
       DEF CallStep, Enter, Admit, StartParallel, Refuse, StartSequential, RefuseSequential,
           MayStart, LockOwner
<1>2. ASSUME NEW b \in Branch, Cancel(b) PROVE LockOwner'
  BY <1>2, <1>t, <1>f DEF Cancel, LockOwner
<1>3. CASE Shutdown
  BY <1>3 DEF Shutdown, LockOwner
<1>4. CASE UNCHANGED vars
  BY <1>4 DEF vars, LockOwner
<1>. QED
  BY <1>1, <1>2, <1>3, <1>4, StepLock DEF CallStep, Next, Finished

(* The graph mutex is held across a suspension by exactly the branch that  *)
(* awaits its queue in walk_node or runs execute_sequential, whatever      *)
(* fails or is aborted: no aborted branch takes it away with it.           *)
THEOREM LockOwnership == Spec => []LockOwner
<1>1. Init => LockOwner
  BY CallAssumption DEF Init, LockOwner
<1>. QED
  BY <1>1, InitType, NextType, NextLock, PTL DEF Spec
-----------------------------------------------------------------------------
(* A receive under the mutex never waits, unless queues are drained beside *)
(* the calls.                                                              *)

(* The branches owed a packet are finitely many, and no more of them are   *)
(* owed one when some have received theirs.                                *)
LEMMA OwedCount ==
  ASSUME NEW S \in SUBSET Branch, NEW T \in SUBSET S
  PROVE  /\ IsFiniteSet(S)
         /\ Cardinality(S) \in Nat
         /\ Cardinality(T) <= Cardinality(S)
         /\ \A b \in S : Cardinality(S \ {b}) = Cardinality(S) - 1
         /\ \A b \in Branch \ S : Cardinality(S \cup {b}) = Cardinality(S) + 1
<1>1. IsFiniteSet(S)
  BY FiniteBranch, FS_Subset
<1>2. Cardinality(S) \in Nat
  BY <1>1, FS_CardinalityType
<1>3. Cardinality(T) <= Cardinality(S)
  BY <1>1, FS_Subset
<1>4. \A b \in S : Cardinality(S \ {b}) = Cardinality(S) - 1
  BY <1>1, FS_RemoveElement
<1>5. \A b \in Branch \ S : Cardinality(S \cup {b}) = Cardinality(S) + 1
  BY <1>1, FS_AddElement
<1>. QED
  BY <1>1, <1>2, <1>3, <1>4, <1>5

(* A step that leaves every queue as deep and owes no new branch. *)
LEMMA OwedKept ==
  ASSUME QueueCovers,
         \A n \in Node : Depth(n)' = Depth(n) /\ Owed(n)' \subseteq Owed(n),
         \A n \in Node : Depth(n) \in Nat
  PROVE  QueueCovers'
<1>. SUFFICES ASSUME NEW n \in Node
              PROVE  Cardinality(Owed(n)') <= Depth(n)'
  BY DEF QueueCovers
<1>1. Owed(n) \in SUBSET Branch
  BY DEF Owed
<1>2. Cardinality(Owed(n)') <= Cardinality(Owed(n)) /\ Cardinality(Owed(n)) \in Nat
  BY <1>1, OwedCount
<1>3. Cardinality(Owed(n)') \in Nat
  BY <1>1, OwedCount
<1>. QED
  BY <1>2, <1>3 DEF QueueCovers

(* The depth of a NodeQueue is a natural number.                           *)
LEMMA DepthNat ==
  ASSUME TypeOK, NEW n \in Node
  PROVE  Depth(n) \in Nat
<1>1. queue[n] \in [Lane -> Seq(Packet)]
  BY DEF TypeOK
<1>2. \A q \in [Lane -> Seq(Packet)] : QDepth(q) \in Nat
  <2>. TAKE q \in [Lane -> Seq(Packet)]
  <2>1. \A l \in Lane : q[l] \in Seq(Packet) /\ Len(q[l]) \in Nat
    OBVIOUS
  <2>. QED
    BY <2>1 DEF QDepth, Lane
<1>. QED
  BY <1>1, <1>2 DEF Depth

(* A step of a branch leaves no branch without its packet: it sends one    *)
(* for itself, or takes one and is owed none any more.                     *)
LEMMA StepCovers ==
  ASSUME TypeOK, QueueCovers, NEW b \in Branch, Step(b)
  PROVE  QueueCovers'
<1>b. /\ at[b] \in Node /\ pkt[b] \in Packet
      /\ queue \in [Node -> [Lane -> Seq(Packet)]]
      /\ queue[at[b]] \in [Lane -> Seq(Packet)]
  BY DEF TypeOK
<1>d. \A n \in Node : Depth(n) \in Nat
  BY DepthNat
<1>t. DOMAIN pc = Branch /\ DOMAIN at = Branch
  BY DEF TypeOK
<1>k. ASSUME UNCHANGED queue, \A n \in Node : Owed(n)' \subseteq Owed(n)
      PROVE  QueueCovers'
  BY <1>k, <1>d, OwedKept DEF Depth
<1>1. CASE Acquire(b)
  <2>1. \A n \in Node : Owed(n)' \subseteq Owed(n)
    BY <1>1, <1>t DEF Acquire, Owed
  <2>. QED
    BY <1>1, <2>1, <1>k DEF Acquire
<1>2. CASE Validate(b)
  <2>1. \A n \in Node : Owed(n)' \subseteq Owed(n)
    BY <1>2, <1>t DEF Validate, MoveTo, Return, Owed
  <2>. QED
    BY <1>2, <2>1, <1>k DEF Validate
<1>3. CASE Send(b)
  <2>. SUFFICES ASSUME NEW n \in Node
                PROVE  Cardinality(Owed(n)') <= Depth(n)'
    BY DEF QueueCovers
  <2>1. CASE n = at[b]
    <3>1. Depth(n)' = Depth(n) + 1
      <4>1. queue'[n] = Enqueue(queue[at[b]], pkt[b])
        BY <1>3, <2>1, <1>b DEF Send
      <4>. QED
        BY <4>1, <1>b, <2>1, EnqueueDepth DEF Depth
    <3>2. b \in Branch \ Owed(n) /\ Owed(n)' = Owed(n) \cup {b}
      BY <1>3, <2>1, <1>t DEF Send, Owed
    <3>3. Owed(n) \in SUBSET Branch
      BY DEF Owed
    <3>4. /\ Cardinality(Owed(n)') = Cardinality(Owed(n)) + 1
          /\ Cardinality(Owed(n)) \in Nat
      BY <3>2, <3>3, OwedCount
    <3>. QED
      BY <3>1, <3>4, <1>d DEF QueueCovers
  <2>2. CASE n # at[b]
    <3>1. Depth(n)' = Depth(n)
      BY <1>3, <2>2, <1>b DEF Send, Depth
    <3>2. Owed(n)' = Owed(n)
      BY <1>3, <2>2, <1>t DEF Send, Owed
    <3>. QED
      BY <3>1, <3>2 DEF QueueCovers
  <2>. QED
    BY <2>1, <2>2
<1>4. CASE Relock(b)
  <2>1. \A n \in Node : Owed(n)' \subseteq Owed(n)
    BY <1>4, <1>t DEF Relock, Owed
  <2>. QED
    BY <1>4, <2>1, <1>k DEF Relock
<1>5. CASE Recv(b)
  <2>1. /\ pc'[b] \notin {"relock", "recv"}
        /\ \A k \in Branch \ {b} :
             pc'[k] = "permit" \/ (pc'[k] = pc[k] /\ at'[k] = at[k])
    BY <1>5, OthersKept DEF Recv
  <2>2. \A n \in Node : Owed(n)' \subseteq Owed(n) \ {b}
    BY <2>1 DEF Owed
  <2>. SUFFICES ASSUME NEW n \in Node
                PROVE  Cardinality(Owed(n)') <= Depth(n)'
    BY DEF QueueCovers
  <2>3. Owed(n) \in SUBSET Branch /\ Owed(n) \ {b} \in SUBSET Branch
    BY DEF Owed
  <2>4. /\ Cardinality(Owed(n)) \in Nat
        /\ Cardinality(Owed(n) \ {b}) \in Nat
        /\ Cardinality(Owed(n)') \in Nat
        /\ Cardinality(Owed(n)') <= Cardinality(Owed(n) \ {b})
        /\ Cardinality(Owed(n) \ {b}) <= Cardinality(Owed(n))
        /\ b \in Owed(n) => Cardinality(Owed(n) \ {b}) = Cardinality(Owed(n)) - 1
    <3>1. Owed(n)' \in SUBSET (Owed(n) \ {b})
      BY <2>2
    <3>2. Owed(n)' \in SUBSET Branch
      BY <3>1, <2>3
    <3>. QED
      BY <2>3, <3>1, <3>2, OwedCount
  <2>5. CASE n = at[b]
    <3>1. b \in Owed(n)
      BY <1>5, <2>5 DEF Recv, Owed
    <3>2. Depth(n)' = Depth(n) - 1
      <4>1. queue'[n] = Dequeue(queue[at[b]])
        BY <1>5, <2>5, <1>b DEF Recv
      <4>. QED
        BY <4>1, <1>5, <1>b, <2>5, DequeueDepth DEF Depth, Recv
    <3>. QED
      BY <3>1, <3>2, <2>4, <1>d DEF QueueCovers
  <2>6. CASE n # at[b]
    <3>1. Depth(n)' = Depth(n)
      BY <1>5, <2>6, <1>b DEF Recv, Depth
    <3>. QED
      BY <3>1, <2>4, <1>d DEF QueueCovers
  <2>. QED
    BY <2>5, <2>6
<1>6. ASSUME NEW k \in Children(b), JoinOk(b, k) PROVE QueueCovers'
  <2>1. \A n \in Node : Owed(n)' \subseteq Owed(n)
    BY <1>6, <1>t DEF JoinOk, Owed
  <2>. QED
    BY <1>6, <2>1, <1>k DEF JoinOk
<1>7. ASSUME NEW k \in Children(b), JoinErr(b, k) PROVE QueueCovers'
  <2>1. \A n \in Node : Owed(n)' \subseteq Owed(n)
    BY <1>7, <1>t DEF JoinErr, Return, Owed
  <2>. QED
    BY <1>7, <2>1, <1>k DEF JoinErr
<1>8. CASE JoinEnd(b)
  <2>1. \A n \in Node : Owed(n)' \subseteq Owed(n)
    BY <1>8, <1>t DEF JoinEnd, Return, Owed
  <2>. QED
    BY <1>8, <2>1, <1>k DEF JoinEnd
<1>9. CASE HopRefused(b)
  <2>1. \A n \in Node : Owed(n)' \subseteq Owed(n)
    BY <1>9, <1>t DEF HopRefused, Return, Owed
  <2>. QED
    BY <1>9, <2>1, <1>k DEF HopRefused
<1>10. CASE Hop(b)
  <2>. DEFINE q == Enqueue(queue[at[b]], pkt[b])
  <2>1. \A n \in Node : Owed(n)' \subseteq Owed(n)
    <3>1. /\ pc'[b] \notin {"relock", "recv"}
          /\ \A k \in Branch \ {b} :
               pc'[k] = "permit" \/ (pc'[k] = pc[k] /\ at'[k] = at[k])
      BY <1>10, OthersKept DEF Hop
    <3>. QED
      BY <3>1 DEF Owed
  <2>2. \A n \in Node : Depth(n)' = Depth(n)
    <3>1. /\ q \in [Lane -> Seq(Packet)]
          /\ QDepth(q) = QDepth(queue[at[b]]) + 1
          /\ QDepth(queue[at[b]]) \in Nat
      BY <1>b, EnqueueDepth
    <3>2. queue' = [queue EXCEPT ![at[b]] = Dequeue(q)]
      BY <1>10 DEF Hop
    <3>. HIDE DEF q
    <3>3. QDepth(q) > 0 /\ QDepth(q) - 1 = QDepth(queue[at[b]])
      BY <3>1
    <3>4. QDepth(Dequeue(q)) = QDepth(queue[at[b]])
      BY <3>1, <3>3, DequeueDepth
    <3>. QED
      BY <3>2, <3>4, <1>b DEF Depth
  <2>. QED
    BY <2>1, <2>2, <1>d, OwedKept
<1>. QED
  BY <1>1, <1>2, <1>3, <1>4, <1>5, <1>6, <1>7, <1>8, <1>9, <1>10 DEF Step

(* Nor does any other step, as long as no queue is drained.                *)
LEMMA NextCovers ==
  ASSUME down' = FALSE, TypeOK, QueueCovers, [Next]_vars
  PROVE  QueueCovers'
<1>d. \A n \in Node : Depth(n) \in Nat
  BY DepthNat
<1>t. DOMAIN pc = Branch /\ DOMAIN at = Branch
  BY DEF TypeOK
<1>k. ASSUME UNCHANGED queue, \A n \in Node : Owed(n)' \subseteq Owed(n)
      PROVE  QueueCovers'
  BY <1>k, <1>d, OwedKept DEF Depth
<1>1. ASSUME NEW c \in Call, CallStep(c)
      PROVE  QueueCovers'
  <2>1. UNCHANGED queue
    BY <1>1, CallShape DEF TypeOK
  <2>2. \A n \in Node : Owed(n)' \subseteq Owed(n)
    BY <1>1, CallShape DEF Owed, TypeOK
  <2>. QED
    BY <2>1, <2>2, <1>k
<1>2. ASSUME NEW b \in Branch, Cancel(b) PROVE QueueCovers'
  <2>1. \A n \in Node : Owed(n)' \subseteq Owed(n)
    BY <1>2, <1>t DEF Cancel, Owed
  <2>. QED
    BY <1>2, <2>1, <1>k DEF Cancel
<1>3. CASE UNCHANGED vars
  <2>1. \A n \in Node : Owed(n)' \subseteq Owed(n)
    BY <1>3 DEF vars, Owed
  <2>. QED
    BY <1>3, <2>1, <1>k DEF vars
<1>. QED
  BY <1>1, <1>2, <1>3, StepCovers DEF CallStep, Next, Finished, Shutdown

(* A drain is never undone: nobody resets down.                            *)
LEMMA DownStays ==
  ASSUME [Next]_vars
  PROVE  down => down'
<1>1. ASSUME NEW c \in Call, CallStep(c)
      PROVE  down' = down
  BY <1>1 DEF CallStep, Enter, Admit, StartParallel, Refuse, StartSequential, RefuseSequential
<1>2. ASSUME NEW b \in Branch, Cancel(b) PROVE down' = down
  BY <1>2 DEF Cancel
<1>3. ASSUME NEW b \in Branch, Step(b) PROVE down' = down
  <2>1. CASE Acquire(b) \/ Validate(b) \/ Send(b) \/ Relock(b)
    BY <2>1 DEF Acquire, Validate, Send, Relock
  <2>2. CASE Recv(b)
    BY <2>2 DEF Recv
  <2>3. ASSUME NEW k \in Children(b), JoinOk(b, k) \/ JoinErr(b, k) PROVE down' = down
    BY <2>3 DEF JoinOk, JoinErr
  <2>4. CASE JoinEnd(b) \/ HopRefused(b)
    BY <2>4 DEF JoinEnd, HopRefused
  <2>5. CASE Hop(b)
    BY <2>5 DEF Hop
  <2>. QED
    BY <1>3, <2>1, <2>2, <2>3, <2>4, <2>5 DEF Step
<1>4. CASE Shutdown
  BY <1>4 DEF Shutdown
<1>5. CASE UNCHANGED vars
  BY <1>5 DEF vars
<1>. QED
  BY <1>1, <1>2, <1>3, <1>4, <1>5 DEF CallStep, Next, Finished

(* Until shutdown_all_nodes has drained the queues, every branch that sent *)
(* a packet to a node finds one there, however the branches interleave.    *)
THEOREM QueueAccounting == Spec => []QueueCoversOwed
<1>1. Init => QueueCoversOwed
  <2>. SUFFICES ASSUME Init, NEW n \in Node
                PROVE  Cardinality(Owed(n)) <= Depth(n)
    BY DEF QueueCoversOwed, QueueCovers
  <2>1. Owed(n) = {}
    BY DEF Init, Owed
  <2>2. Depth(n) = 0
    BY EmptyQueueType DEF Init, Depth
  <2>. QED
    BY <2>1, <2>2, FS_EmptySet
<1>2. TypeOK /\ QueueCoversOwed /\ [Next]_vars => QueueCoversOwed'
  <2>. SUFFICES ASSUME TypeOK, QueueCoversOwed, [Next]_vars, ~down'
                PROVE  QueueCovers'
    BY DEF QueueCoversOwed
  <2>1. QueueCovers
    BY DownStays DEF QueueCoversOwed
  <2>2. down' = FALSE
    BY NextType DEF TypeOK
  <2>. QED
    BY <2>1, <2>2, NextCovers
<1>. QED
  BY <1>1, <1>2, InitType, NextType, PTL DEF Spec

(* So the receive that walk_node makes with the graph mutex in hand never  *)
(* waits ("This always resolves without waiting").                         *)
THEOREM ReceiveNeverWaits == Spec => []RecvNeverWaits
<1>1. TypeOK /\ QueueCoversOwed => RecvNeverWaits
  <2>. SUFFICES ASSUME TypeOK, QueueCoversOwed, NEW b \in Branch, ~down, pc[b] = "recv"
                PROVE  Depth(at[b]) > 0
    BY DEF RecvNeverWaits
  <2>1. at[b] \in Node
    BY DEF TypeOK
  <2>2. b \in Owed(at[b]) /\ Owed(at[b]) \in SUBSET Branch
    BY DEF Owed
  <2>3. Cardinality(Owed(at[b])) > 0
    <3>1. IsFiniteSet(Owed(at[b])) /\ Cardinality(Owed(at[b])) \in Nat
      BY <2>2, OwedCount
    <3>. QED
      BY <2>2, <3>1, FS_EmptySet
  <2>4. Cardinality(Owed(at[b])) \in Nat /\ Depth(at[b]) \in Nat
    BY <2>1, <2>2, OwedCount, DepthNat
  <2>. QED
    BY <2>1, <2>3, <2>4 DEF QueueCoversOwed, QueueCovers
<1>. QED
  BY <1>1, TypeCorrect, QueueAccounting, PTL
-----------------------------------------------------------------------------
(* The tree of branches: who spawned whom, and where they may be.          *)

(* The await points of walk_node and of execute_sequential. *)
Walking == {"validate", "send", "relock", "recv", "hop"}
(* A branch at one of these has not forked yet. *)
Unforked == {"unborn", "entry", "permit"} \cup Walking

(* What a branch and a branch it spawned allow each other. *)
ChildInv(b, k) ==
  /\ pc[b] \in Unforked => pc[k] = "unborn"
  /\ Live(k) => pc[b] = "join" \/ k \in doomed
  /\ pc[b] \in {"done", "joined"} /\ res[b] = "ok" => pc[k] \in {"unborn", "joined"}

(* What is true of a branch by itself, and of the root of its call. *)
BranchInv(b) ==
  /\ pc[b] # "unborn" => pc[Root(b.call)] # "unborn"
  /\ pc[b] = "permit" \/ b \in doomed => Spawned(b)
  /\ res[b] # "none" => pc[b] \in {"done", "joined"}

(* The inductive invariant behind NoStrayBranch, OkJoinsAll, the permits   *)
(* and the flow counters.                                                  *)
TreeInv ==
  /\ \A b \in Branch : \A k \in Children(b) : ChildInv(b, k)
  /\ \A b \in Branch : BranchInv(b)

(* A spawned branch has one parent, in the same call; a root has none.     *)
LEMMA OneParent ==
  ASSUME NEW b \in Branch, NEW k \in Children(b)
  PROVE  /\ k \in Branch /\ k.call = b.call /\ k # b /\ Spawned(k)
         /\ \A d \in Branch : k \in Children(d) => d = b
         /\ \A c \in Call : k # Root(c)
<1>0. \A s, t \in Seq(Nat), i, j \in Nat : Append(s, i) = Append(t, j) => s = t
  BY AppendInjective
<1>1. \A d \in Branch : d = [call |-> d.call, path |-> d.path] /\ d.path \in Seq(Nat)
  BY CallAssumption DEF Branch
<1>2. \A d \in Branch : k \in Children(d) =>
        \E i \in Nat : k.call = d.call /\ k.path = Append(d.path, i)
  BY EdgeTypes DEF Children, Child
<1>3. PICK i \in Nat : k.call = b.call /\ k.path = Append(b.path, i)
  BY <1>2
<1>4. k.path # <<>> /\ k.path # b.path
  <2>1. b.path \in Seq(Nat) /\ Len(b.path) \in Nat
    BY <1>1
  <2>2. Len(k.path) = Len(b.path) + 1
    BY <1>3, <2>1
  <2>. QED
    BY <2>1, <2>2
<1>5. ASSUME NEW d \in Branch, k \in Children(d) PROVE d = b
  <2>1. PICK j \in Nat : k.call = d.call /\ k.path = Append(d.path, j)
    BY <1>2, <1>5
  <2>2. d.path = b.path
    <3>1. Append(d.path, j) = Append(b.path, i)
      BY <2>1, <1>3
    <3>2. \A s, t \in Seq(Nat) : Append(s, j) = Append(t, i) => s = t
      BY <1>0, Zenon
    <3>3. b.path \in Seq(Nat) /\ d.path \in Seq(Nat)
      BY <1>1
    <3>. QED
      BY <3>1, <3>2, <3>3, Zenon
  <2>. QED
    BY <2>1, <2>2, <1>1, <1>3
<1>. QED
  BY <1>1, <1>3, <1>4, <1>5 DEF Children, Spawned, Root

(* What the steps of a branch do to the tree. *)
Moves(b) ==
  /\ pc[b] \in Walking
  /\ \E s \in Walking : pc' = [pc EXCEPT ![b] = s]
  /\ UNCHANGED <<res, out, permits, flow, doomed>>
Forks(b) ==
  /\ pc[b] = "recv"
  /\ \E fan \in SUBSET (DOMAIN Edges), p \in Packet : fan # {} /\ Fork(b, fan, p)
  /\ UNCHANGED doomed
(* What a branch that forked nothing may return: one packet, or none.      *)
Single == {Nothing} \cup {One(p) : p \in Packet}
Finishes(b) ==
  /\ pc[b] \in Walking \cup {"join"}
  /\ \E r \in {"ok", "err", "panic"}, o \in [Call -> Nat] :
       /\ Return(b, r, o)
       /\ r = "ok" => \/ pc[b] # "join" /\ o \in Single
                      \/ o = out[b] /\ \A k \in Children(b) : pc[k] \in {"unborn", "joined"}
  /\ \/ doomed' = doomed /\ (pc[b] = "join" => \A k \in Children(b) : ~Live(k))
     \/ doomed' = doomed \cup {k \in Children(b) : Live(k)}

(* Every step of a branch has one of these shapes, if it is not a join of  *)
(* a child or the acquisition of a permit.                                 *)
LEMMA StepShape ==
  ASSUME TypeOK, NEW b \in Branch, Step(b)
  PROVE  \/ Acquire(b) \/ Moves(b) \/ Forks(b) \/ Finishes(b)
         \/ \E k \in Children(b) : JoinOk(b, k)
<1>b. b.call \in Call /\ at[b] \in Node /\ pkt[b] \in Packet /\ pkt[b].lane \in Lane
  BY BranchFields DEF TypeOK, Packet
<1>q. queue[at[b]] \in [Lane -> Seq(Packet)]
  BY <1>b DEF TypeOK
<1>r. ASSUME NEW r \in {"ok", "err", "panic"}, NEW o \in [Call -> Nat],
             r = "ok" => o \in Single,
             Return(b, r, o), pc[b] \in Walking, UNCHANGED doomed
      PROVE  Finishes(b)
  BY <1>r DEF Finishes, Walking
<1>s. ASSUME Stopped(b), pc[b] \in Walking, UNCHANGED doomed PROVE Finishes(b)
  BY <1>s, <1>r, OutTypes DEF Stopped, Single
<1>1. CASE Validate(b)
  BY <1>1, <1>r, OutTypes DEF Validate, MoveTo, Moves, Walking
<1>2. CASE Send(b) \/ Relock(b)
  BY <1>2 DEF Send, Relock, Moves, Walking
<1>3. CASE Recv(b)
  <2>0. pc[b] = "recv" /\ UNCHANGED doomed
    BY <1>3 DEF Recv
  <2>1. Foremost(queue[at[b]]) \in Packet
    BY <1>3, <1>q, DequeueDepth DEF Recv, Depth
  <2>2. ASSUME NEW l \in Emits[at[b]][Foremost(queue[at[b]]).lane],
               RouteParallel(b, [Foremost(queue[at[b]]) EXCEPT !.lane = l])
        PROVE  Moves(b) \/ Forks(b) \/ Finishes(b)
    <3>1. l \in Lane
      BY <1>b, <2>1, GraphAssumption DEF Packet
    <3>. DEFINE p == [Foremost(queue[at[b]]) EXCEPT !.lane = l]
    <3>2. p \in Packet
      BY <2>1, <3>1 DEF Packet
    <3>. HIDE DEF p
    <3>3. RouteParallel(b, p)
      BY <2>2 DEF p
    <3>4. CASE Return(b, "ok", One(p)) \/ Return(b, "err", Nothing)
      BY <3>2, <3>4, <2>0, <1>r, OutTypes DEF Walking, Single
    <3>5. CASE FanOut(at[b], p) # {} /\ Fork(b, FanOut(at[b], p), p)
      <4>1. FanOut(at[b], p) \in SUBSET (DOMAIN Edges)
        BY DEF FanOut, Accepting
      <4>. QED
        BY <3>2, <3>5, <4>1, <2>0 DEF Forks
    <3>6. CASE \E n : MoveTo(b, n, p, "validate")
      BY <3>6, <2>0 DEF Moves, MoveTo, Walking
    <3>. QED
      BY <3>3, <3>4, <3>5, <3>6 DEF RouteParallel
  <2>. QED
    BY <1>3, <2>0, <2>2, <1>s DEF Recv, Walking
<1>4. ASSUME NEW k \in Children(b), JoinErr(b, k) PROVE Finishes(b)
  BY <1>4, OutTypes DEF JoinErr, Finishes
<1>5. CASE JoinEnd(b)
  <2>1. out[b] \in [Call -> Nat]
    BY DEF TypeOK
  <2>. QED
    BY <1>5, <2>1 DEF JoinEnd, Finishes, Live, Suspended
<1>6. CASE HopRefused(b)
  BY <1>6, <1>r, OutTypes DEF HopRefused, Walking
<1>7. CASE Hop(b)
  <2>. DEFINE q == Enqueue(queue[at[b]], pkt[b])
  <2>0. pc[b] = "hop" /\ UNCHANGED doomed
    BY <1>7 DEF Hop
  <2>1. Foremost(q) \in Packet
    <3>1. /\ q \in [Lane -> Seq(Packet)]
          /\ QDepth(q) = QDepth(queue[at[b]]) + 1 /\ QDepth(queue[at[b]]) \in Nat
      BY <1>b, <1>q, EnqueueDepth
    <3>. HIDE DEF q
    <3>2. QDepth(q) > 0
      BY <3>1
    <3>. QED
      BY <3>1, <3>2, DequeueDepth
  <2>. HIDE DEF q
  <2>2. ASSUME NEW l \in Emits[at[b]][Foremost(q).lane],
               RouteSequential(b, [Foremost(q) EXCEPT !.lane = l])
        PROVE  Moves(b) \/ Finishes(b)
    <3>1. l \in Lane
      BY <1>b, <2>1, GraphAssumption DEF Packet
    <3>. DEFINE p == [Foremost(q) EXCEPT !.lane = l]
    <3>2. p \in Packet
      BY <2>1, <3>1 DEF Packet
    <3>. HIDE DEF p
    <3>3. RouteSequential(b, p)
      BY <2>2 DEF p
    <3>4. CASE Return(b, "ok", One(p)) \/ Return(b, "err", Nothing)
      BY <3>2, <3>4, <2>0, <1>r, OutTypes DEF Walking, Single
    <3>5. CASE \E n : MoveTo(b, n, p, "hop")
      BY <3>5, <2>0 DEF Moves, MoveTo, Walking
    <3>. QED
      BY <3>3, <3>4, <3>5 DEF RouteSequential
  <2>. QED
    BY <1>7, <2>0, <2>2, <1>s DEF Hop, Walking, q
<1>. QED
  BY <1>1, <1>2, <1>3, <1>4, <1>5, <1>6, <1>7 DEF Step
(* TreeInv speaks of one branch and of one parent and child at a time.     *)
LEMMA TreeByParts ==
  ASSUME \A d \in Branch : BranchInv(d)',
         \A d \in Branch : \A k \in Children(d) : ChildInv(d, k)'
  PROVE  TreeInv'
BY DEF TreeInv

(* A branch that walks on, or gets its permit, keeps the tree.             *)
LEMMA TreeMoves ==
  ASSUME TypeOK, TreeInv, NEW b \in Branch, NEW s \in Walking,
         pc[b] \in Unforked \ {"unborn"}, pc' = [pc EXCEPT ![b] = s], UNCHANGED <<res, doomed>>
  PROVE  TreeInv'
<1>1. /\ pc'[b] = s /\ s \in Unforked /\ s # "unborn" /\ s # "permit"
      /\ \A d \in Branch \ {b} : pc'[d] = pc[d]
  BY DEF TypeOK, Walking, Unforked
<1>2. ASSUME NEW d \in Branch PROVE BranchInv(d)'
  <2>1. BranchInv(d) /\ BranchInv(b) /\ Root(d.call) \in Branch
    BY BranchFields, CallAssumption DEF TreeInv, Root, Branch
  <2>. QED
    BY <1>1, <2>1 DEF BranchInv, Unforked, Walking
<1>3. ASSUME NEW d \in Branch, NEW k \in Children(d) PROVE ChildInv(d, k)'
  <2>1. ChildInv(d, k) /\ k # d /\ k \in Branch
    BY OneParent DEF TreeInv
  <2>2. CASE d = b
    BY <1>1, <2>1, <2>2 DEF ChildInv, Live, Suspended, Unforked, Walking
  <2>3. CASE k = b
    BY <1>1, <2>1, <2>3 DEF ChildInv, Live, Suspended, Unforked, Walking
  <2>. QED
    BY <1>1, <2>1, <2>2, <2>3 DEF ChildInv, Live
<1>. QED
  BY <1>2, <1>3, TreeByParts

(* A branch that forks has no child yet; those it spawns are its own.      *)
LEMMA TreeForks ==
  ASSUME TypeOK, TreeInv, NEW b \in Branch, Forks(b)
  PROVE  TreeInv'
<1>. PICK fan \in SUBSET (DOMAIN Edges), p \in Packet : Fork(b, fan, p)
  BY DEF Forks
<1>. DEFINE born == {Child(b, i) : i \in fan}
<1>0. pc[b] = "recv" /\ UNCHANGED <<res, doomed>>
  BY DEF Forks, Fork
<1>1. born \subseteq Children(b)
  BY DEF Fork, Children
<1>2. \A k \in Children(b) : pc[k] = "unborn" /\ k # b /\ k.call = b.call /\ Spawned(k)
  BY <1>0, OneParent DEF TreeInv, ChildInv, Unforked, Walking
<1>3. /\ pc'[b] = "join"
      /\ \A d \in Branch : pc'[d] = IF d \in born THEN "permit" ELSE IF d = b THEN "join" ELSE pc[d]
  BY <1>1, <1>2 DEF Fork
<1>. HIDE DEF born
<1>4. ASSUME NEW d \in Branch PROVE BranchInv(d)'
  <2>1. BranchInv(d) /\ BranchInv(b) /\ Root(d.call) \in Branch
    BY BranchFields, CallAssumption DEF TreeInv, Root, Branch
  <2>2. pc[Root(d.call)] # "unborn" => pc'[Root(d.call)] # "unborn"
    BY <1>3, <2>1
  <2>3. d \in born => d.call = b.call /\ Spawned(d) /\ pc[d] = "unborn"
    BY <1>1, <1>2
  <2>. QED
    BY <1>0, <1>3, <2>1, <2>2, <2>3 DEF BranchInv
<1>5. ASSUME NEW d \in Branch, NEW k \in Children(d) PROVE ChildInv(d, k)'
  <2>1. /\ ChildInv(d, k) /\ k # d /\ k \in Branch
        /\ k \in born => d = b
    BY <1>1, OneParent DEF TreeInv
  <2>2. CASE d = b
    BY <1>3, <2>1, <2>2 DEF ChildInv, Unforked, Walking
  <2>3. CASE d # b /\ d \in born
    <3>1. pc[k] = "unborn" /\ k # b
      BY <1>0, <1>1, <1>2, <2>1, <2>3 DEF ChildInv, Unforked
    <3>. QED
      BY <1>3, <2>1, <2>3, <3>1 DEF ChildInv, Live, Suspended
  <2>4. CASE d # b /\ d \notin born
    <3>1. pc'[d] = pc[d] /\ (k # b => pc'[k] = pc[k])
      BY <1>3, <2>1, <2>4
    <3>2. Live(k)' => Live(k)
      BY <1>0, <1>3, <2>1, <2>4 DEF Live, Suspended
    <3>. QED
      BY <1>0, <1>3, <2>1, <3>1, <3>2 DEF ChildInv
  <2>. QED
    BY <2>2, <2>3, <2>4
<1>. QED
  BY <1>4, <1>5, TreeByParts

(* A branch that ends has no live child that is not being aborted.         *)
LEMMA TreeFinishes ==
  ASSUME TypeOK, TreeInv, NEW b \in Branch, Finishes(b)
  PROVE  TreeInv'
<1>. PICK r \in {"ok", "err", "panic"}, o \in [Call -> Nat] :
       /\ Return(b, r, o)
       /\ r = "ok" => pc[b] # "join" \/ \A k \in Children(b) : pc[k] \in {"unborn", "joined"}
  BY Zenon DEF Finishes
<1>1. /\ pc'[b] = "done" /\ res'[b] = r
      /\ \A d \in Branch \ {b} : pc'[d] = pc[d] /\ res'[d] = res[d]
  BY DEF Return, TypeOK
<1>2. /\ pc[b] \in Walking \cup {"join"}
      /\ doomed \subseteq doomed' /\ doomed' \subseteq doomed \cup Children(b)
  BY DEF Finishes
<1>3. ASSUME NEW d \in Branch PROVE BranchInv(d)'
  <2>1. BranchInv(d) /\ BranchInv(b) /\ Root(d.call) \in Branch
    BY BranchFields, CallAssumption DEF TreeInv, Root, Branch
  <2>2. d \in doomed' => Spawned(d)
    BY <1>2, <2>1, OneParent DEF BranchInv
  <2>. QED
    BY <1>1, <1>2, <2>1, <2>2 DEF BranchInv, Walking
<1>4. ASSUME NEW d \in Branch, NEW k \in Children(d) PROVE ChildInv(d, k)'
  <2>1. ChildInv(d, k) /\ k # d /\ k \in Branch
    BY OneParent DEF TreeInv
  <2>2. CASE d = b
    <3>1. pc'[k] = pc[k] /\ pc'[b] = "done"
      BY <1>1, <2>1, <2>2
    <3>2. CASE pc[b] \in Walking
      <4>1. pc[k] = "unborn"
        BY <2>1, <2>2, <3>2 DEF ChildInv, Unforked
      <4>. QED
        BY <2>2, <3>1, <4>1 DEF ChildInv, Live, Suspended, Unforked, Walking
    <3>3. CASE pc[b] = "join"
      <4>1. Live(k)' => k \in doomed'
        BY <2>2, <3>1, <3>3 DEF Finishes, Live
      <4>2. r = "ok" => pc[k] \in {"unborn", "joined"}
        BY <2>2, <3>3
      <4>. QED
        BY <1>1, <2>2, <3>1, <4>1, <4>2 DEF ChildInv, Unforked, Walking
    <3>. QED
      BY <1>2, <3>2, <3>3
  <2>3. CASE k = b
    BY <1>1, <1>2, <2>1, <2>3 DEF ChildInv, Live, Suspended, Unforked, Walking
  <2>. QED
    BY <1>1, <1>2, <2>1, <2>2, <2>3 DEF ChildInv, Live
<1>. QED
  BY <1>3, <1>4, TreeByParts

(* A parent that joins a child finds it finished.                          *)
LEMMA TreeJoins ==
  ASSUME TypeOK, TreeInv, NEW b \in Branch, NEW j \in Children(b), JoinOk(b, j)
  PROVE  TreeInv'
<1>1. j \in Branch /\ j # b /\ \A d \in Branch : j \in Children(d) => d = b
  BY OneParent
<1>2. /\ pc'[j] = "joined" /\ pc[j] = "done" /\ pc[b] = "join" /\ pc'[b] = "join"
      /\ \A d \in Branch \ {j} : pc'[d] = pc[d]
      /\ UNCHANGED <<res, doomed>>
  BY <1>1 DEF JoinOk, TypeOK
<1>3. ASSUME NEW d \in Branch PROVE BranchInv(d)'
  <2>1. BranchInv(d) /\ BranchInv(j) /\ Root(d.call) \in Branch
    BY <1>1, BranchFields, CallAssumption DEF TreeInv, Root, Branch
  <2>. QED
    BY <1>2, <2>1 DEF BranchInv
<1>4. ASSUME NEW d \in Branch, NEW k \in Children(d) PROVE ChildInv(d, k)'
  <2>1. ChildInv(d, k) /\ k # d /\ k \in Branch
    BY OneParent DEF TreeInv
  <2>2. CASE k = j
    BY <1>1, <1>2, <2>2 DEF ChildInv, Live, Suspended, Unforked, Walking
  <2>3. CASE k # j /\ d = j
    BY <1>2, <2>1, <2>3 DEF ChildInv, Live, Unforked, Walking
  <2>. QED
    BY <1>2, <2>1, <2>2, <2>3 DEF ChildInv, Live
<1>. QED
  BY <1>3, <1>4, TreeByParts

(* An aborted branch drops its own JoinSet with it.                        *)
LEMMA TreeCancels ==
  ASSUME TypeOK, TreeInv, NEW b \in Branch, Cancel(b)
  PROVE  TreeInv'
<1>1. /\ pc'[b] \in {"orphaned", "dropped"} /\ pc[b] \in Suspended
      /\ \A d \in Branch \ {b} : pc'[d] = pc[d]
      /\ UNCHANGED res
      /\ doomed' = doomed \cup {k \in Children(b) : Live(k)}
  BY DEF Cancel, Live, TypeOK
<1>2. ASSUME NEW d \in Branch PROVE BranchInv(d)'
  <2>1. BranchInv(d) /\ BranchInv(b) /\ Root(d.call) \in Branch
    BY BranchFields, CallAssumption DEF TreeInv, Root, Branch
  <2>2. d \in doomed' => Spawned(d)
    BY <1>1, <2>1, OneParent DEF BranchInv
  <2>. QED
    BY <1>1, <2>1, <2>2 DEF BranchInv, Suspended
<1>3. ASSUME NEW d \in Branch, NEW k \in Children(d) PROVE ChildInv(d, k)'
  <2>1. ChildInv(d, k) /\ k # d /\ k \in Branch
    BY OneParent DEF TreeInv
  <2>2. CASE d = b
    BY <1>1, <2>1, <2>2 DEF ChildInv, Live, Unforked, Walking
  <2>3. CASE k = b
    BY <1>1, <2>1, <2>3 DEF ChildInv, Live, Suspended
  <2>. QED
    BY <1>1, <2>1, <2>2, <2>3 DEF ChildInv, Live
<1>. QED
  BY <1>2, <1>3, TreeByParts

(* The root of a call is nobody's child, and has none before it starts.    *)
LEMMA TreeStarts ==
  ASSUME TypeOK, TreeInv, NEW c \in Call, CallStep(c)
  PROVE  TreeInv'
<1>0. Root(c) \in Branch /\ UNCHANGED doomed /\ pc[Root(c)] \in {"unborn", "entry"}
  BY CallShape DEF TypeOK
<1>1. /\ \/ pc'[Root(c)] \in {"entry"} \cup Walking /\ UNCHANGED res
         \/ pc'[Root(c)] = "done" /\ res'[Root(c)] = "err"
      /\ \A d \in Branch \ {Root(c)} : pc'[d] = pc[d] /\ res'[d] = res[d]
  BY CallShape DEF TypeOK, Walking
<1>2. ASSUME NEW d \in Branch PROVE BranchInv(d)'
  <2>1. BranchInv(d) /\ BranchInv(Root(c)) /\ Root(d.call) \in Branch
    BY <1>0, BranchFields, CallAssumption DEF TreeInv, Root, Branch
  <2>2. pc'[Root(d.call)] = "unborn" => pc[Root(d.call)] = "unborn"
    BY <1>1, <2>1 DEF Walking
  <2>3. CASE d = Root(c)
    <3>1. Root(d.call) = Root(c)
      BY <2>3 DEF Root
    <3>. QED
      BY <1>0, <1>1, <2>1, <2>3, <3>1 DEF BranchInv, Walking
  <2>. QED
    BY <1>0, <1>1, <2>1, <2>2, <2>3 DEF BranchInv
<1>3. ASSUME NEW d \in Branch, NEW k \in Children(d) PROVE ChildInv(d, k)'
  <2>1. ChildInv(d, k) /\ k # d /\ k \in Branch /\ k # Root(c)
    BY OneParent DEF TreeInv
  <2>2. CASE d = Root(c)
    BY <1>0, <1>1, <2>1, <2>2 DEF ChildInv, Live, Suspended, Unforked, Walking
  <2>. QED
    BY <1>0, <1>1, <2>1, <2>2 DEF ChildInv, Live
<1>. QED
  BY <1>2, <1>3, TreeByParts

(* Every step keeps the tree.                                              *)
LEMMA NextTree == TypeOK /\ TreeInv /\ [Next]_vars => TreeInv'
<1>. SUFFICES ASSUME TypeOK, TreeInv, [Next]_vars PROVE TreeInv'
  OBVIOUS
<1>1. ASSUME NEW b \in Branch, Step(b) PROVE TreeInv'
  <2>1. ASSUME Acquire(b) PROVE TreeInv'
    <3>1. pc[b] \in Unforked \ {"unborn"} /\ "validate" \in Walking
      BY <2>1 DEF Acquire, Unforked, Walking
    <3>. QED
      BY <2>1, <3>1, TreeMoves DEF Acquire
  <2>2. ASSUME Moves(b) PROVE TreeInv'
    <3>1. pc[b] \in Unforked \ {"unborn"}
      BY <2>2 DEF Moves, Unforked, Walking
    <3>. QED
      BY <2>2, <3>1, TreeMoves DEF Moves
  <2>. QED
    BY <1>1, <2>1, <2>2, StepShape, TreeForks, TreeFinishes, TreeJoins
<1>2. CASE Shutdown \/ UNCHANGED vars
  <2>1. UNCHANGED <<pc, res, doomed>>
    BY <1>2 DEF Shutdown, vars
  <2>. QED
    BY <2>1 DEF TreeInv, ChildInv, BranchInv, Live
<1>. QED
  BY <1>1, <1>2, TreeStarts, TreeCancels DEF Next, Finished, CallStep

(* Nothing has been spawned at the start.                                  *)
LEMMA InitTree == Init => TreeInv
BY OneParent DEF Init, TreeInv, ChildInv, BranchInv, Live, Suspended

(* A branch's parent, root and result stay in step, whatever interleaves.  *)
LEMMA TreeCorrect == Spec => []TreeInv
BY InitType, NextType, InitTree, NextTree, PTL DEF Spec

(* No task outlives the JoinSet that spawned it: while it lives, its       *)
(* parent joins it or it is being aborted.                                 *)
THEOREM NoTaskStrays == Spec => []NoStrayBranch
<1>1. TreeInv => NoStrayBranch
  BY DEF TreeInv, ChildInv, NoStrayBranch
<1>. QED
  BY <1>1, TreeCorrect, PTL

(* An Ok result of a branch is the result of all the branches it spawned:  *)
(* none of them is still running, failed or left unjoined.                 *)
THEOREM OkIsComplete == Spec => []OkJoinsAll
<1>1. TreeInv => OkJoinsAll
  BY DEF TreeInv, ChildInv, OkJoinsAll
<1>. QED
  BY <1>1, TreeCorrect, PTL
-----------------------------------------------------------------------------
(* The permits of a call's semaphore.                                      *)

(* The branches of call c that hold one of its permits.                    *)
Holders(c) == {b \in Branch : b.call = c /\ HoldsPermit(b)}

(* PermitsConserved, with its count named.                                 *)
LEMMA PermitsByCall ==
  /\ PermitsConserved <=> \A c \in Call : permits[c] + Cardinality(Holders(c)) = MaxPermits
  /\ PermitsConserved' <=> \A c \in Call : permits'[c] + Cardinality(Holders(c)') = MaxPermits
BY DEF PermitsConserved, Holders

(* A step that moves no permit.                                            *)
LEMMA PermitsKept ==
  ASSUME PermitsConserved, UNCHANGED permits,
         \A b \in Branch : HoldsPermit(b)' <=> HoldsPermit(b)
  PROVE  PermitsConserved'
<1>1. \A c \in Call : Holders(c)' = Holders(c)
  BY DEF Holders
<1>. QED
  BY <1>1, PermitsByCall

(* A step in which one branch takes a permit, or gives one back.           *)
LEMMA PermitsMove ==
  ASSUME TypeOK, PermitsConserved, NEW b \in Branch,
         \A k \in Branch \ {b} : HoldsPermit(k)' <=> HoldsPermit(k),
         \/ ~HoldsPermit(b) /\ HoldsPermit(b)' /\ permits' = [permits EXCEPT ![b.call] = @ - 1]
         \/ HoldsPermit(b) /\ ~HoldsPermit(b)' /\ permits' = [permits EXCEPT ![b.call] = @ + 1]
  PROVE  PermitsConserved'
<1>. SUFFICES ASSUME NEW c \in Call
              PROVE  permits'[c] + Cardinality(Holders(c)') = MaxPermits
  BY PermitsByCall
<1>1. permits[c] + Cardinality(Holders(c)) = MaxPermits
  BY PermitsByCall
<1>2. Holders(c) \in SUBSET Branch
  BY DEF Holders
<1>3. Cardinality(Holders(c)) \in Nat /\ permits[c] \in Nat
  BY <1>2, OwedCount DEF TypeOK
<1>4. CASE c # b.call
  <2>1. permits'[c] = permits[c] /\ Holders(c)' = Holders(c)
    BY <1>4 DEF TypeOK, Holders
  <2>. QED
    BY <1>1, <2>1
<1>5. CASE c = b.call /\ ~HoldsPermit(b)
  <2>1. b \in Branch \ Holders(c) /\ Holders(c)' = Holders(c) \cup {b}
    BY <1>5 DEF Holders
  <2>2. Cardinality(Holders(c)') = Cardinality(Holders(c)) + 1
    BY <1>2, <2>1, OwedCount
  <2>3. permits'[c] = permits[c] - 1
    BY <1>5 DEF TypeOK
  <2>. QED
    BY <1>1, <1>3, <2>2, <2>3
<1>6. CASE c = b.call /\ HoldsPermit(b)
  <2>1. b \in Holders(c) /\ Holders(c)' = Holders(c) \ {b}
    BY <1>6 DEF Holders
  <2>2. Cardinality(Holders(c)') = Cardinality(Holders(c)) - 1
    BY <1>2, <2>1, OwedCount
  <2>3. permits'[c] = permits[c] + 1
    BY <1>6 DEF TypeOK
  <2>. QED
    BY <1>1, <1>3, <2>2, <2>3
<1>. QED
  BY <1>4, <1>5, <1>6

(* What a branch does with its permit, and with those of its children.     *)
LEMMA StepPermits ==
  ASSUME TypeOK, TreeInv, PermitsConserved, NEW b \in Branch, Step(b)
  PROVE  PermitsConserved'
<1>b. BranchInv(b)
  BY DEF TreeInv
<1>1. CASE Acquire(b)
  <2>1. Spawned(b) /\ ~HoldsPermit(b)
    BY <1>1, <1>b DEF Acquire, BranchInv, HoldsPermit
  <2>2. HoldsPermit(b)' /\ \A k \in Branch \ {b} : HoldsPermit(k)' <=> HoldsPermit(k)
    BY <1>1, <2>1 DEF Acquire, HoldsPermit, Suspended, TypeOK
  <2>. QED
    BY <1>1, <2>1, <2>2, PermitsMove DEF Acquire
<1>2. CASE Moves(b)
  <2>1. \A k \in Branch : HoldsPermit(k)' <=> HoldsPermit(k)
    BY <1>2 DEF Moves, HoldsPermit, Walking, Suspended, TypeOK
  <2>. QED
    BY <1>2, <2>1, PermitsKept DEF Moves
<1>3. CASE Forks(b)
  <2>. PICK fan \in SUBSET (DOMAIN Edges), p \in Packet : Fork(b, fan, p)
    BY <1>3 DEF Forks
  <2>1. UNCHANGED permits /\ pc[b] = "recv"
    BY <1>3 DEF Fork, Forks
  <2>2. {Child(b, i) : i \in fan} \subseteq Children(b)
    BY DEF Fork, Children
  <2>3. \A k \in Children(b) : pc[k] = "unborn"
    BY <2>1 DEF TreeInv, ChildInv, Unforked, Walking
  <2>4. \A k \in Branch : \/ pc'[k] = pc[k]
                          \/ pc[k] = "unborn" /\ pc'[k] = "permit"
                          \/ pc[k] = "recv" /\ pc'[k] = "join"
    BY <2>1, <2>2, <2>3 DEF Fork
  <2>5. \A k \in Branch : HoldsPermit(k)' <=> HoldsPermit(k)
    BY <2>4 DEF HoldsPermit, Suspended
  <2>. QED
    BY <2>1, <2>5, PermitsKept
<1>4. CASE Finishes(b)
  <2>1. /\ pc[b] \in Walking \cup {"join"} /\ pc'[b] = "done"
        /\ \A k \in Branch \ {b} : pc'[k] = pc[k]
        /\ permits' = IF Spawned(b) THEN [permits EXCEPT ![b.call] = @ + 1] ELSE permits
    BY <1>4 DEF Finishes, Return, TypeOK
  <2>2. \A k \in Branch \ {b} : HoldsPermit(k)' <=> HoldsPermit(k)
    BY <2>1 DEF HoldsPermit
  <2>3. ~HoldsPermit(b)' /\ (HoldsPermit(b) <=> Spawned(b))
    BY <2>1 DEF HoldsPermit, Walking, Suspended
  <2>4. CASE Spawned(b)
    BY <2>1, <2>2, <2>3, <2>4, PermitsMove
  <2>5. CASE ~Spawned(b)
    BY <2>1, <2>2, <2>3, <2>5, PermitsKept
  <2>. QED
    BY <2>4, <2>5
<1>5. ASSUME NEW k \in Children(b), JoinOk(b, k) PROVE PermitsConserved'
  <2>1. \A d \in Branch : HoldsPermit(d)' <=> HoldsPermit(d)
    BY <1>5 DEF JoinOk, HoldsPermit, Suspended, TypeOK
  <2>. QED
    BY <1>5, <2>1, PermitsKept DEF JoinOk
<1>. QED
  BY <1>1, <1>2, <1>3, <1>4, <1>5, StepShape

(* Every step conserves the permits; a call starts with all of them free.  *)
LEMMA NextPermits == TypeOK /\ TreeInv /\ PermitsConserved /\ [Next]_vars => PermitsConserved'
<1>. SUFFICES ASSUME TypeOK, TreeInv, PermitsConserved, [Next]_vars PROVE PermitsConserved'
  OBVIOUS
<1>1. ASSUME NEW c \in Call, CallStep(c)
      PROVE  PermitsConserved'
  <2>1. /\ ~Spawned(Root(c)) /\ UNCHANGED permits
        /\ \A d \in Branch \ {Root(c)} : pc'[d] = pc[d]
    BY <1>1, CallShape DEF TypeOK
  <2>2. \A d \in Branch : HoldsPermit(d)' <=> HoldsPermit(d)
    BY <2>1 DEF HoldsPermit
  <2>. QED
    BY <2>1, <2>2, PermitsKept
<1>2. ASSUME NEW b \in Branch, Cancel(b) PROVE PermitsConserved'
  <2>1. /\ pc'[b] \in {"orphaned", "dropped"}
        /\ \A k \in Branch \ {b} : pc'[k] = pc[k]
        /\ permits' = IF HoldsPermit(b) THEN [permits EXCEPT ![b.call] = @ + 1] ELSE permits
    BY <1>2 DEF Cancel, TypeOK
  <2>2. ~HoldsPermit(b)' /\ \A k \in Branch \ {b} : HoldsPermit(k)' <=> HoldsPermit(k)
    BY <2>1 DEF HoldsPermit, Suspended
  <2>3. CASE HoldsPermit(b)
    BY <2>1, <2>2, <2>3, PermitsMove
  <2>4. CASE ~HoldsPermit(b)
    BY <2>1, <2>2, <2>4, PermitsKept
  <2>. QED
    BY <2>3, <2>4
<1>3. CASE Shutdown \/ UNCHANGED vars
  <2>1. UNCHANGED <<pc, permits>>
    BY <1>3 DEF Shutdown, vars
  <2>. QED
    BY <2>1, PermitsKept DEF HoldsPermit
<1>. QED
  BY <1>1, <1>2, <1>3, StepPermits DEF CallStep, Next, Finished

(* However the branches of a call complete, fail, panic or are aborted,    *)
(* its semaphore has max_concurrent_branches permits, free or held: none   *)
(* is leaked, and none is given back twice.                                *)
THEOREM PermitConservation == Spec => []PermitsConserved
<1>1. Init => PermitsConserved
  <2>. SUFFICES ASSUME Init, NEW c \in Call
                PROVE  permits[c] + Cardinality(Holders(c)) = MaxPermits
    BY PermitsByCall
  <2>1. Holders(c) = {}
    BY DEF Init, Holders, HoldsPermit, Suspended
  <2>2. permits[c] = MaxPermits /\ MaxPermits \in Nat
    BY CallAssumption DEF Init, MaxPermits
  <2>. QED
    BY <2>1, <2>2, FS_EmptySet
<1>. QED
  BY <1>1, NextPermits, TypeCorrect, TreeCorrect, PTL DEF Spec
-----------------------------------------------------------------------------
(* The flow-level counters.                                                *)

(* The calls still to be counted are finitely many.                        *)
LEMMA CallCount ==
  ASSUME NEW S \in SUBSET Call
  PROVE  /\ Cardinality(S) \in Nat
         /\ \A c \in S : Cardinality(S \ {c}) = Cardinality(S) - 1
         /\ \A c \in Call \ S : Cardinality(S \cup {c}) = Cardinality(S) + 1
<1>1. IsFiniteSet(S)
  BY CallAssumption, FS_Subset
<1>. QED
  BY <1>1, FS_CardinalityType, FS_RemoveElement, FS_AddElement

(* A step that ends no call, and starts none.                              *)
LEMMA FlowKept ==
  ASSUME FlowAccounted, UNCHANGED flow,
         \A c \in Call : (Live(Root(c)) \/ res[Root(c)] = "panic")' <=>
                            (Live(Root(c)) \/ res[Root(c)] = "panic")
  PROVE  FlowAccounted'
<1>1. Uncounted' = Uncounted
  BY DEF Uncounted
<1>. QED
  BY <1>1 DEF FlowAccounted

(* A branch that ends is counted if it is the root of its call, and only   *)
(* if its future was not unwound by a panic.                               *)
LEMMA StepFlow ==
  ASSUME TypeOK, TreeInv, FlowAccounted, NEW b \in Branch, Step(b)
  PROVE  FlowAccounted'
<1>r. \A c \in Call : Root(c) \in Branch /\ Root(c).call = c /\ ~Spawned(Root(c))
  BY CallAssumption DEF Root, Branch, Spawned
<1>b. BranchInv(b) /\ b.call \in Call /\ (~Spawned(b) => b = Root(b.call))
  BY DEF TreeInv, Spawned, Root, Branch
<1>1. CASE Acquire(b)
  <2>1. \A c \in Call : pc'[Root(c)] = pc[Root(c)]
    BY <1>1, <1>r, <1>b DEF Acquire, BranchInv, TypeOK
  <2>. QED
    BY <1>1, <2>1, FlowKept DEF Acquire, Live
<1>2. CASE Moves(b)
  <2>1. \A c \in Call : Live(Root(c))' <=> Live(Root(c))
    BY <1>2, <1>r DEF Moves, Live, Walking, Suspended, TypeOK
  <2>. QED
    BY <1>2, <2>1, FlowKept DEF Moves
<1>3. CASE Forks(b)
  <2>. PICK fan \in SUBSET (DOMAIN Edges), p \in Packet : Fork(b, fan, p)
    BY <1>3 DEF Forks
  <2>1. {Child(b, i) : i \in fan} \subseteq Children(b)
    BY DEF Fork, Children
  <2>2. \A c \in Call : Root(c) \notin {Child(b, i) : i \in fan}
    BY <2>1, OneParent
  <2>3. \A c \in Call : pc'[Root(c)] = pc[Root(c)] \/ (pc[Root(c)] = "recv" /\ pc'[Root(c)] = "join")
    BY <1>3, <1>r, <2>2 DEF Fork, Forks
  <2>4. \A c \in Call : Live(Root(c))' <=> Live(Root(c))
    BY <2>3 DEF Live, Suspended
  <2>. QED
    BY <2>4, FlowKept DEF Fork
<1>4. CASE Finishes(b)
  <2>. PICK r \in {"ok", "err", "panic"}, o \in [Call -> Nat] : Return(b, r, o)
    BY <1>4 DEF Finishes
  <2>1. /\ pc[b] \in Walking \cup {"join"} /\ pc'[b] = "done" /\ res'[b] = r
        /\ \A k \in Branch \ {b} : pc'[k] = pc[k] /\ res'[k] = res[k]
    BY <1>4 DEF Finishes, Return, TypeOK
  <2>2. Live(b) /\ ~Live(b)' /\ res[b] = "none"
    BY <1>b, <2>1 DEF Live, Walking, Suspended, BranchInv, TypeOK
  <2>3. CASE Spawned(b)
    <3>1. \A c \in Call : pc'[Root(c)] = pc[Root(c)] /\ res'[Root(c)] = res[Root(c)]
      BY <1>r, <2>1, <2>3
    <3>. QED
      BY <2>3, <3>1, FlowKept DEF Return, Live
  <2>4. CASE ~Spawned(b) /\ r = "panic"
    <3>1. \A c \in Call : (Live(Root(c)) \/ res[Root(c)] = "panic")' <=>
                             (Live(Root(c)) \/ res[Root(c)] = "panic")
      BY <1>r, <2>1, <2>2, <2>4 DEF Live
    <3>. QED
      BY <2>4, <3>1, FlowKept DEF Return
  <2>5. CASE ~Spawned(b) /\ r # "panic"
    <3>1. Uncounted \in SUBSET Call /\ b.call \in Uncounted
      BY <1>b, <2>2, <2>5 DEF Uncounted
    <3>2. Uncounted' = Uncounted \ {b.call}
      BY <1>r, <1>b, <2>1, <2>2, <2>5 DEF Uncounted, Live
    <3>3. Cardinality(Uncounted') = Cardinality(Uncounted) - 1 /\ Cardinality(Uncounted) \in Nat
      BY <3>1, <3>2, CallCount
    <3>4. \/ flow' = [flow EXCEPT !.latency = @ + 1]
          \/ flow' = [flow EXCEPT !.dropped = @ + 1]
      BY <2>5 DEF Return, RecordExit
    <3>5. flow \in [entered : Nat, latency : Nat, dropped : Nat]
      BY DEF TypeOK
    <3>. QED
      BY <3>3, <3>4, <3>5 DEF FlowAccounted
  <2>. QED
    BY <2>3, <2>4, <2>5
<1>5. ASSUME NEW k \in Children(b), JoinOk(b, k) PROVE FlowAccounted'
  <2>1. \A c \in Call : pc'[Root(c)] = pc[Root(c)]
    BY <1>5, <1>r, OneParent DEF JoinOk, TypeOK
  <2>. QED
    BY <1>5, <2>1, FlowKept DEF JoinOk, Live
<1>. QED
  BY <1>1, <1>2, <1>3, <1>4, <1>5, StepShape

(* A call is counted when it enters, and again when it is refused; nobody  *)
(* aborts the root of a call.                                              *)
LEMMA NextFlow == TypeOK /\ TreeInv /\ FlowAccounted /\ [Next]_vars => FlowAccounted'
<1>. SUFFICES ASSUME TypeOK, TreeInv, FlowAccounted, [Next]_vars PROVE FlowAccounted'
  OBVIOUS
<1>r. \A c \in Call : Root(c) \in Branch /\ Root(c).call = c /\ ~Spawned(Root(c))
  BY CallAssumption DEF Root, Branch, Spawned
<1>f. flow \in [entered : Nat, latency : Nat, dropped : Nat]
  BY DEF TypeOK
<1>1. ASSUME NEW c \in Call, CallStep(c)
      PROVE  FlowAccounted'
  <2>1. pc[Root(c)] \in {"unborn", "entry"} /\ res[Root(c)] = "none"
    BY <1>1, <1>r, CallShape DEF TreeInv, BranchInv, TypeOK
  <2>2. /\ c \in Uncounted <=> pc[Root(c)] = "entry"
        /\ Uncounted \in SUBSET Call
    BY <2>1 DEF Uncounted, Live, Suspended
  <2>3. /\ Cardinality(Uncounted) \in Nat
        /\ c \notin Uncounted => Cardinality(Uncounted \cup {c}) = Cardinality(Uncounted) + 1
        /\ c \in Uncounted => Cardinality(Uncounted \ {c}) = Cardinality(Uncounted) - 1
    BY <2>2, CallCount
  <2>4. \A d \in Call \ {c} : pc'[Root(d)] = pc[Root(d)] /\ res'[Root(d)] = res[Root(d)]
    BY <1>1, <1>r, CallShape DEF TypeOK
  <2>5. CASE Enter(c) \/ StartSequential(c)
    <3>1. /\ pc[Root(c)] = "unborn" /\ pc'[Root(c)] \in {"entry", "hop"} /\ UNCHANGED res
          /\ flow' = [flow EXCEPT !.entered = @ + 1]
      BY <1>r, <2>5 DEF Enter, StartSequential, MayStart, TypeOK
    <3>2. Uncounted' = Uncounted \cup {c} /\ c \notin Uncounted
      BY <2>2, <2>4, <3>1 DEF Uncounted, Live, Suspended
    <3>. QED
      BY <1>f, <2>3, <3>1, <3>2 DEF FlowAccounted
  <2>6. CASE StartParallel(c)
    <3>1. pc[Root(c)] = "entry" /\ pc'[Root(c)] = "validate" /\ UNCHANGED <<res, flow>>
      BY <1>r, <2>6 DEF StartParallel, TypeOK
    <3>. QED
      BY <2>4, <3>1, FlowKept DEF Live, Suspended
  <2>7. CASE Refuse(c)
    <3>1. /\ pc[Root(c)] = "entry" /\ pc'[Root(c)] = "done" /\ res'[Root(c)] = "err"
          /\ flow' = [flow EXCEPT !.dropped = @ + 1]
      BY <1>r, <2>7 DEF Refuse, TypeOK
    <3>2. Uncounted' = Uncounted \ {c} /\ c \in Uncounted
      BY <2>2, <2>4, <3>1 DEF Uncounted, Live, Suspended
    <3>. QED
      BY <1>f, <2>3, <3>1, <3>2 DEF FlowAccounted
  <2>8. CASE RefuseSequential(c)
    <3>1. /\ pc[Root(c)] = "unborn" /\ pc'[Root(c)] = "done" /\ res'[Root(c)] = "err"
          /\ flow' = [flow EXCEPT !.entered = @ + 1, !.dropped = @ + 1]
      BY <1>r, <2>8 DEF RefuseSequential, MayStart, TypeOK
    <3>2. Uncounted' = Uncounted
      BY <2>2, <2>4, <3>1 DEF Uncounted, Live, Suspended
    <3>. QED
      BY <1>f, <2>3, <3>1, <3>2 DEF FlowAccounted
  <2>. QED
    BY <1>1, <2>5, <2>6, <2>7, <2>8 DEF CallStep, Admit
<1>2. ASSUME NEW b \in Branch, Cancel(b) PROVE FlowAccounted'
  <2>1. Spawned(b)
    BY <1>2 DEF Cancel, TreeInv, BranchInv
  <2>2. \A c \in Call : pc'[Root(c)] = pc[Root(c)]
    BY <1>2, <1>r, <2>1 DEF Cancel, TypeOK
  <2>. QED
    BY <1>2, <2>2, FlowKept DEF Cancel, Live
<1>3. CASE Shutdown \/ UNCHANGED vars
  <2>1. UNCHANGED <<pc, res, flow>>
    BY <1>3 DEF Shutdown, vars
  <2>. QED
    BY <2>1, FlowKept DEF Live
<1>. QED
  BY <1>1, <1>2, <1>3, StepFlow DEF CallStep, Next, Finished

(* Every packet that enters the flow is counted exactly once more, under   *)
(* packet_latency_us or packets_dropped, when its call ends; the only one  *)
(* that never is belongs to a call unwound by a panic.                     *)
THEOREM FlowAccounting == Spec => []FlowAccounted
<1>1. Init => FlowAccounted
  <2>. SUFFICES ASSUME Init PROVE FlowAccounted
    OBVIOUS
  <2>1. Uncounted = {}
    BY CallAssumption DEF Init, Uncounted, Live, Suspended, Root, Branch
  <2>2. flow.entered = 0 /\ flow.latency = 0 /\ flow.dropped = 0
    BY DEF Init
  <2>. QED
    BY <2>1, <2>2, FS_EmptySet DEF FlowAccounted
<1>. QED
  BY <1>1, NextFlow, TypeCorrect, TreeCorrect, PTL DEF Spec
-----------------------------------------------------------------------------
(* What a queued packet is doing there.                                    *)

(* Branch k stays, or stays not, among those a queue answers to.           *)
DueSame(k) ==
  \/ /\ at'[k] = at[k]
     /\ \/ pc'[k] = pc[k]
        \/ pc[k] = "relock" /\ pc'[k] = "recv"
  \/ /\ pc[k] \notin {"relock", "recv", "orphaned"}
     /\ pc'[k] \notin {"relock", "recv", "orphaned"}

(* The two sets NoForgedPackets counts are finite, and stay what they are. *)
LEMMA DueKept ==
  ASSUME \A k \in Branch : DueSame(k), NEW n \in Node
  PROVE  Due(n)' = Due(n)
<1>1. Owed(n)' = Owed(n) /\ Orphaned(n)' = Orphaned(n)
  BY DEF DueSame, Owed, Orphaned
<1>. QED
  BY <1>1 DEF Due

(* NoForgedPackets survives a step that changes no depth.                  *)
LEMMA ForgedKept ==
  ASSUME NoForgedPackets, \A k \in Branch : DueSame(k),
         \A n \in Node : Depth(n)' = Depth(n), UNCHANGED down
  PROVE  NoForgedPackets'
BY DueKept DEF NoForgedPackets

(* What a walker that holds its packet does with it makes no queue answer  *)
(* to another branch.                                                      *)
LEMMA RoutedDue ==
  ASSUME TypeOK, TreeInv, NEW b \in Branch, NEW p, pc[b] \in Walking,
         Stopped(b) \/ RouteParallel(b, p) \/ RouteSequential(b, p)
  PROVE  /\ pc'[b] \notin {"relock", "recv", "orphaned"}
         /\ \A k \in Branch \ {b} : DueSame(k)
<1>1. ASSUME NEW r, NEW o, Return(b, r, o)
      PROVE  pc'[b] = "done" /\ \A k \in Branch \ {b} : DueSame(k)
  BY <1>1 DEF Return, TypeOK, DueSame
<1>2. ASSUME NEW n, NEW s, MoveTo(b, n, p, s)
      PROVE  pc'[b] = s /\ \A k \in Branch \ {b} : DueSame(k)
  BY <1>2 DEF MoveTo, TypeOK, DueSame
<1>3. ASSUME NEW fan \in SUBSET (DOMAIN Edges), Fork(b, fan, p)
      PROVE  /\ pc'[b] \in {"permit", "join"}
             /\ \A k \in Branch \ {b} : DueSame(k)
  <2>1. {Child(b, i) : i \in fan} \subseteq {k \in Branch : pc[k] = "unborn"}
    <3>1. {Child(b, i) : i \in fan} \subseteq Children(b)
      BY <1>3 DEF Fork, Children
    <3>2. \A k \in Children(b) : pc[k] = "unborn" /\ k \in Branch
      BY DEF TreeInv, ChildInv, Unforked, Children
    <3>. QED
      BY <3>1, <3>2
  <2>. QED
    BY <1>3, <2>1 DEF Fork, DueSame
<1>4. CASE Stopped(b)
  BY <1>1, <1>4 DEF Stopped
<1>5. CASE RouteParallel(b, p)
  <2>1. FanOut(at[b], p) \in SUBSET (DOMAIN Edges)
    BY DEF FanOut, Accepting
  <2>. QED
    BY <1>1, <1>2, <1>3, <1>5, <2>1 DEF RouteParallel
<1>6. CASE RouteSequential(b, p)
  BY <1>1, <1>2, <1>6 DEF RouteSequential
<1>. QED
  BY <1>4, <1>5, <1>6

(* A branch's step keeps every packet accounted for: it is answered for    *)
(* by the branch that sent it until one is taken in its stead.             *)
LEMMA StepForged ==
  ASSUME TypeOK, TreeInv, NoForgedPackets, NEW b \in Branch, Step(b)
  PROVE  NoForgedPackets'
<1>b. /\ at[b] \in Node /\ pkt[b] \in Packet
      /\ queue \in [Node -> [Lane -> Seq(Packet)]]
      /\ queue[at[b]] \in [Lane -> Seq(Packet)]
  BY DEF TypeOK
<1>d. \A n \in Node : Depth(n) \in Nat
  BY DepthNat
<1>c. \A n \in Node : /\ Owed(n) \in SUBSET Branch /\ Orphaned(n) \in SUBSET Branch
                      /\ Cardinality(Owed(n)) \in Nat /\ Cardinality(Orphaned(n)) \in Nat
  BY OwedCount DEF Owed, Orphaned
<1>k. ASSUME UNCHANGED <<queue, down>>, \A k \in Branch : DueSame(k)
      PROVE  NoForgedPackets'
  BY <1>k, ForgedKept DEF Depth
<1>m. ASSUME pc'[b] \notin {"relock", "recv", "orphaned"}, \A k \in Branch \ {b} : DueSame(k)
      PROVE  \A n \in Node : Owed(n)' = Owed(n) \ {b} /\ Orphaned(n)' = Orphaned(n) \ {b}
  BY <1>m DEF DueSame, Owed, Orphaned
<1>1. CASE Acquire(b) \/ Relock(b)
  <2>1. \A k \in Branch : DueSame(k)
    BY <1>1 DEF Acquire, Relock, DueSame, TypeOK
  <2>. QED
    BY <1>1, <2>1, <1>k DEF Acquire, Relock
<1>2. CASE Validate(b)
  <2>1. \A k \in Branch : DueSame(k)
    BY <1>2 DEF Validate, MoveTo, Return, DueSame, TypeOK
  <2>. QED
    BY <1>2, <2>1, <1>k DEF Validate
<1>3. CASE Send(b)
  <2>. SUFFICES ASSUME NEW n \in Node
                PROVE  Depth(n)' <= Due(n)' /\ (down' \/ Depth(n)' = Due(n)')
    BY DEF NoForgedPackets
  <2>0. Depth(n) <= Due(n) /\ (down' \/ Depth(n) = Due(n)) /\ Due(n) \in Nat
    BY <1>3, <1>c DEF NoForgedPackets, Send, Due
  <2>1. CASE n = at[b]
    <3>1. Depth(n)' = Depth(n) + 1
      <4>1. queue'[n] = Enqueue(queue[at[b]], pkt[b])
        BY <1>3, <2>1, <1>b DEF Send
      <4>. QED
        BY <4>1, <1>b, <2>1, EnqueueDepth DEF Depth
    <3>2. /\ b \in Branch \ Owed(n) /\ Owed(n)' = Owed(n) \cup {b}
          /\ Orphaned(n)' = Orphaned(n)
      BY <1>3, <2>1 DEF Send, Owed, Orphaned, TypeOK
    <3>3. Due(n)' = Due(n) + 1
      BY <3>2, <1>c, OwedCount DEF Due
    <3>. QED
      BY <2>0, <3>1, <3>3, <1>d
  <2>2. CASE n # at[b]
    <3>1. Depth(n)' = Depth(n)
      BY <1>3, <2>2, <1>b DEF Send, Depth
    <3>2. Owed(n)' = Owed(n) /\ Orphaned(n)' = Orphaned(n)
      BY <1>3, <2>2 DEF Send, Owed, Orphaned, TypeOK
    <3>. QED
      BY <2>0, <3>1, <3>2 DEF Due
  <2>. QED
    BY <2>1, <2>2
<1>4. CASE Recv(b)
  <2>1. pc'[b] \notin {"relock", "recv", "orphaned"} /\ \A k \in Branch \ {b} : DueSame(k)
    <3>1. pc[b] \in Walking
      BY <1>4 DEF Recv, Walking
    <3>. QED
      BY <1>4, <3>1, RoutedDue DEF Recv
  <2>. SUFFICES ASSUME NEW n \in Node
                PROVE  Depth(n)' <= Due(n)' /\ (down' \/ Depth(n)' = Due(n)')
    BY DEF NoForgedPackets
  <2>0. Depth(n) <= Due(n) /\ (down' \/ Depth(n) = Due(n)) /\ Due(n) \in Nat
    BY <1>4, <1>c DEF NoForgedPackets, Recv, Due
  <2>2. Owed(n)' = Owed(n) \ {b} /\ Orphaned(n)' = Orphaned(n)
    BY <1>4, <1>m, <2>1 DEF Recv, Orphaned
  <2>3. CASE n = at[b]
    <3>1. b \in Owed(n)
      BY <1>4, <2>3 DEF Recv, Owed
    <3>2. Depth(n)' = Depth(n) - 1
      <4>1. queue'[n] = Dequeue(queue[at[b]])
        BY <1>4, <2>3, <1>b DEF Recv
      <4>. QED
        BY <4>1, <1>4, <1>b, <2>3, DequeueDepth DEF Depth, Recv
    <3>3. Due(n)' = Due(n) - 1
      BY <2>2, <3>1, <1>c, OwedCount DEF Due
    <3>. QED
      BY <2>0, <3>2, <3>3, <1>d
  <2>4. CASE n # at[b]
    <3>1. Depth(n)' = Depth(n)
      BY <1>4, <2>4, <1>b DEF Recv, Depth
    <3>2. Owed(n)' = Owed(n)
      BY <2>2, <2>4 DEF Owed
    <3>. QED
      BY <2>0, <2>2, <3>1, <3>2 DEF Due
  <2>. QED
    BY <2>3, <2>4
<1>5. ASSUME NEW k \in Children(b), JoinOk(b, k) \/ JoinErr(b, k) PROVE NoForgedPackets'
  <2>1. \A d \in Branch : DueSame(d)
    BY <1>5 DEF JoinOk, JoinErr, Return, DueSame, TypeOK
  <2>. QED
    BY <1>5, <2>1, <1>k DEF JoinOk, JoinErr
<1>6. CASE JoinEnd(b) \/ HopRefused(b)
  <2>1. \A k \in Branch : DueSame(k)
    BY <1>6 DEF JoinEnd, HopRefused, Return, DueSame, TypeOK
  <2>. QED
    BY <1>6, <2>1, <1>k DEF JoinEnd, HopRefused
<1>7. CASE Hop(b)
  <2>. DEFINE q == Enqueue(queue[at[b]], pkt[b])
  <2>1. \A k \in Branch : DueSame(k)
    <3>1. pc'[b] \notin {"relock", "recv", "orphaned"} /\ \A k \in Branch \ {b} : DueSame(k)
      <4>1. pc[b] \in Walking
        BY <1>7 DEF Hop, Walking
      <4>. QED
        BY <1>7, <4>1, RoutedDue DEF Hop
    <3>. QED
      BY <1>7, <3>1 DEF Hop, DueSame
  <2>2. \A n \in Node : Depth(n)' = Depth(n)
    <3>1. /\ q \in [Lane -> Seq(Packet)]
          /\ QDepth(q) = QDepth(queue[at[b]]) + 1
          /\ QDepth(queue[at[b]]) \in Nat
      BY <1>b, EnqueueDepth
    <3>2. queue' = [queue EXCEPT ![at[b]] = Dequeue(q)]
      BY <1>7 DEF Hop
    <3>. HIDE DEF q
    <3>3. QDepth(q) > 0 /\ QDepth(q) - 1 = QDepth(queue[at[b]])
      BY <3>1
    <3>4. QDepth(Dequeue(q)) = QDepth(queue[at[b]])
      BY <3>1, <3>3, DequeueDepth
    <3>. QED
      BY <3>2, <3>4, <1>b DEF Depth
  <2>. QED
    BY <1>7, <2>1, <2>2, ForgedKept DEF Hop
<1>. QED
  BY <1>1, <1>2, <1>3, <1>4, <1>5, <1>6, <1>7 DEF Step

(* An aborted branch leaves its packet to the queue; a drain takes them    *)
(* all, whoever answers for them.                                          *)
LEMMA NextForged == TypeOK /\ TreeInv /\ NoForgedPackets /\ [Next]_vars => NoForgedPackets'
<1>. SUFFICES ASSUME TypeOK, TreeInv, NoForgedPackets, [Next]_vars PROVE NoForgedPackets'
  OBVIOUS
<1>k. ASSUME UNCHANGED <<queue, down>>, \A k \in Branch : DueSame(k)
      PROVE  NoForgedPackets'
  BY <1>k, ForgedKept DEF Depth
<1>1. ASSUME NEW c \in Call, CallStep(c)
      PROVE  NoForgedPackets'
  <2>1. UNCHANGED <<queue, down>> /\ \A k \in Branch : DueSame(k)
    BY <1>1, CallShape DEF DueSame, TypeOK
  <2>. QED
    BY <2>1, <1>k
<1>2. ASSUME NEW b \in Branch, Cancel(b) PROVE NoForgedPackets'
  <2>1. UNCHANGED <<queue, down, at>> /\ \A k \in Branch \ {b} : DueSame(k)
    BY <1>2 DEF Cancel, DueSame, TypeOK
  <2>2. CASE pc[b] \notin {"relock", "recv"}
    <3>1. DueSame(b)
      BY <1>2, <2>2 DEF Cancel, DueSame, Live, Suspended, TypeOK
    <3>. QED
      BY <2>1, <3>1, <1>k
  <2>3. CASE pc[b] \in {"relock", "recv"}
    <3>. SUFFICES ASSUME NEW n \in Node PROVE Due(n)' = Due(n)
      BY <2>1 DEF NoForgedPackets, Depth
    <3>1. pc'[b] = "orphaned" /\ \A k \in Branch \ {b} : pc'[k] = pc[k]
      BY <1>2, <2>3 DEF Cancel, TypeOK
    <3>2. CASE at[b] = n
      <4>1. /\ Owed(n) \in SUBSET Branch /\ b \in Owed(n) /\ Owed(n)' = Owed(n) \ {b}
            /\ Orphaned(n) \in SUBSET Branch /\ b \in Branch \ Orphaned(n)
            /\ Orphaned(n)' = Orphaned(n) \cup {b}
        BY <2>1, <2>3, <3>1, <3>2 DEF Owed, Orphaned
      <4>2. /\ Cardinality(Owed(n)') = Cardinality(Owed(n)) - 1
            /\ Cardinality(Orphaned(n)') = Cardinality(Orphaned(n)) + 1
            /\ Cardinality(Owed(n)) \in Nat /\ Cardinality(Orphaned(n)) \in Nat
        BY <4>1, OwedCount
      <4>. QED
        BY <4>2 DEF Due
    <3>3. CASE at[b] # n
      <4>1. Owed(n)' = Owed(n) /\ Orphaned(n)' = Orphaned(n)
        BY <2>1, <3>1, <3>3 DEF Owed, Orphaned
      <4>. QED
        BY <4>1 DEF Due
    <3>. QED
      BY <3>2, <3>3
  <2>. QED
    BY <2>2, <2>3
<1>3. CASE Shutdown
  <2>. SUFFICES ASSUME NEW n \in Node PROVE Depth(n)' <= Due(n)' /\ down'
    BY DEF NoForgedPackets
  <2>1. Depth(n)' = 0 /\ down'
    BY <1>3, EmptyQueueType DEF Shutdown, Depth
  <2>2. Owed(n)' \in SUBSET Branch /\ Orphaned(n)' \in SUBSET Branch
    BY DEF Owed, Orphaned
  <2>3. Cardinality(Owed(n)') \in Nat /\ Cardinality(Orphaned(n)') \in Nat
    BY <2>2, OwedCount
  <2>. QED
    BY <2>1, <2>3 DEF Due
<1>4. CASE UNCHANGED vars
  BY <1>4, <1>k DEF vars, DueSame
<1>. QED
  BY <1>1, <1>2, <1>3, <1>4, StepForged DEF CallStep, Next, Finished

(* A packet in a node's queue is one that a branch there still waits to    *)
(* receive, or that an aborted branch left behind; and until a drain each  *)
(* of those is in it: none is lost, and none is enqueued twice.            *)
THEOREM QueueExactness == Spec => []NoForgedPackets
<1>1. Init => NoForgedPackets
  <2>. SUFFICES ASSUME Init, NEW n \in Node
                PROVE  Depth(n) <= Due(n) /\ Depth(n) = Due(n)
    BY DEF NoForgedPackets
  <2>1. Owed(n) = {} /\ Orphaned(n) = {}
    BY DEF Init, Owed, Orphaned
  <2>2. Depth(n) = 0
    BY EmptyQueueType DEF Init, Depth
  <2>. QED
    BY <2>1, <2>2, FS_EmptySet DEF Due
<1>. QED
  BY <1>1, NextForged, TypeCorrect, TreeCorrect, PTL DEF Spec
-----------------------------------------------------------------------------
(* The packets of a call: each leaf of its tree that reached an exit holds *)
(* one, and joining moves them up, towards the root.                       *)

(* What a branch carries and returns at each point of its life.            *)
GatherInv(b) ==
  /\ pc[b] \in Unforked => out[b] = Nothing
  /\ pc[b] = "join" => \E k \in Children(b) : pc[k] # "unborn"
  /\ pc[b] \in {"done", "joined"} => res[b] # "none"
  /\ pc[b] = "joined" => Spawned(b) /\ res[b] = "ok"
  /\ Spawned(b) /\ pc[b] # "unborn" => \E a \in Branch : b \in Children(a)
  /\ res[b] = "ok" /\ (\A k \in Children(b) : pc[k] = "unborn") =>
       \A d \in Call : out[b][d] <= 1

(* The packets of call d in the hands of branches of call c that nobody    *)
(* has joined yet, numbered.                                               *)
Pending(c, d) ==
  {z \in Branch \X Nat : z[1].call = c /\ pc[z[1]] # "joined" /\ z[2] < out[z[1]][d]}

(* Until a branch of the call fails, what is not joined yet is what the    *)
(* leaves hold.                                                            *)
Failed(c) == \E b \in Branch : b.call = c /\ res[b] \in {"err", "panic"}
Tallied(c, d) ==
  Failed(c) \/ (IsFiniteSet(Pending(c, d)) /\ Cardinality(Pending(c, d)) = Cardinality(Holding(c, d)))

(* The inductive invariant behind ResultsComplete.                         *)
ResultInv ==
  /\ \A b \in Branch : GatherInv(b)
  /\ \A c, d \in Call : Tallied(c, d)

(* A branch that holds a packet is a leaf of its call that returned Ok.    *)
LEMMA HoldingLeaf ==
  ASSUME NEW c \in Call, NEW d \in Call, NEW b
  PROVE  /\ b \in Holding(c, d) <=>
              /\ b \in Branch /\ b.call = c /\ res[b] = "ok" /\ out[b][d] # 0
              /\ \A k \in Children(b) : pc[k] = "unborn"
         /\ IsFiniteSet(Holding(c, d))
<1>1. Holding(c, d) \subseteq Branch
  BY DEF Holding, Leaves
<1>. QED
  BY <1>1, FiniteBranch, FS_Subset DEF Holding, Leaves

(* A step that changes no result of call c, joins none of its branches and *)
(* spawns none under a branch that returned Ok, keeps the tally.           *)
LEMMA TallyKept ==
  ASSUME NEW c \in Call, NEW d \in Call, Tallied(c, d),
         \A b \in Branch : b.call = c =>
           /\ out'[b] = out[b] /\ res'[b] = res[b]
           /\ pc'[b] = "joined" <=> pc[b] = "joined"
           /\ res[b] = "ok" => \A k \in Children(b) : pc'[k] = "unborn" <=> pc[k] = "unborn"
  PROVE  Tallied(c, d)'
<1>1. Pending(c, d)' = Pending(c, d)
  BY DEF Pending
<1>2. Holding(c, d)' = Holding(c, d)
  BY DEF Holding, Leaves
<1>3. Failed(c) => Failed(c)'
  BY DEF Failed
<1>. QED
  BY <1>1, <1>2, <1>3 DEF Tallied

(* ResultInv speaks of one branch, and of one pair of calls, at a time.    *)
LEMMA ResultByParts ==
  ASSUME \A z \in Branch : GatherInv(z)', \A c, d \in Call : Tallied(c, d)'
  PROVE  ResultInv'
BY DEF ResultInv

(* A branch that walks on, or gets its permit, carries no result yet.      *)
LEMMA ResultMoves ==
  ASSUME TypeOK, TreeInv, ResultInv, NEW b \in Branch, NEW s \in Walking,
         pc[b] \in Unforked \ {"unborn"}, pc' = [pc EXCEPT ![b] = s], UNCHANGED <<res, out>>
  PROVE  ResultInv'
<1>1. /\ pc'[b] = s /\ s \in Unforked /\ s \notin {"unborn", "join", "done", "joined"}
      /\ \A d \in Branch \ {b} : pc'[d] = pc[d]
      /\ \A d \in Branch : pc'[d] = "unborn" <=> pc[d] = "unborn"
      /\ \A d \in Branch : pc'[d] = "joined" <=> pc[d] = "joined"
  BY DEF TypeOK, Walking, Unforked
<1>2. ASSUME NEW z \in Branch PROVE GatherInv(z)'
  <2>1. GatherInv(z) /\ \A k \in Children(z) : k \in Branch
    BY OneParent DEF ResultInv
  <2>2. CASE z = b
    BY <1>1, <2>1, <2>2 DEF GatherInv
  <2>3. CASE z # b
    BY <1>1, <2>1, <2>3 DEF GatherInv
  <2>. QED
    BY <2>2, <2>3
<1>3. ASSUME NEW c \in Call, NEW d \in Call PROVE Tallied(c, d)'
  <2>1. Tallied(c, d) /\ \A x \in Branch : \A k \in Children(x) : k \in Branch
    BY OneParent DEF ResultInv
  <2>. QED
    BY <1>1, <2>1, TallyKept
<1>. QED
  BY <1>2, <1>3, ResultByParts

(* A branch that forks has children from then on, and they carry nothing.  *)
LEMMA ResultForks ==
  ASSUME TypeOK, TreeInv, ResultInv, NEW b \in Branch, Forks(b)
  PROVE  ResultInv'
<1>. PICK fan \in SUBSET (DOMAIN Edges), p \in Packet : fan # {} /\ Fork(b, fan, p)
  BY DEF Forks
<1>. DEFINE born == {Child(b, i) : i \in fan}
<1>0. pc[b] = "recv" /\ UNCHANGED <<res, out>>
  BY DEF Forks, Fork
<1>1. born \subseteq Children(b) /\ born # {}
  BY DEF Fork, Children
<1>2. /\ \A k \in Children(b) : pc[k] = "unborn" /\ k # b /\ k \in Branch /\ Spawned(k)
      /\ \A k \in Children(b) : res[k] = "none"
      /\ res[b] = "none"
  BY <1>0, OneParent DEF TreeInv, ChildInv, BranchInv, Unforked, Walking, TypeOK
<1>3. \A d \in Branch : pc'[d] = IF d \in born THEN "permit" ELSE IF d = b THEN "join" ELSE pc[d]
  BY <1>1, <1>2 DEF Fork
<1>. HIDE DEF born
<1>4. \A d \in Branch : pc[d] # "unborn" => pc'[d] # "unborn"
  BY <1>0, <1>3
<1>5. ASSUME NEW z \in Branch PROVE GatherInv(z)'
  <2>1. GatherInv(z) /\ \A k \in Children(z) : k \in Branch
    BY OneParent DEF ResultInv
  <2>2. CASE z \in born
    <3>1. pc[z] = "unborn" /\ pc'[z] = "permit" /\ Spawned(z) /\ z \in Children(b) /\ res[z] = "none"
      BY <1>1, <1>2, <1>3, <2>2
    <3>. QED
      BY <1>0, <2>1, <3>1 DEF GatherInv, Unforked
  <2>3. CASE z = b
    <3>1. PICK k \in born : TRUE
      BY <1>1
    <3>2. k \in Children(b) /\ pc'[k] = "permit" /\ pc'[b] = "join"
      BY <1>1, <1>2, <1>3, <3>1
    <3>. QED
      BY <1>0, <1>2, <2>1, <2>3, <3>2 DEF GatherInv, Unforked, Walking
  <2>4. CASE z # b /\ z \notin born
    <3>1. pc'[z] = pc[z]
      BY <1>3, <2>4
    <3>. QED
      BY <1>0, <1>4, <2>1, <3>1 DEF GatherInv
  <2>. QED
    BY <2>2, <2>3, <2>4
<1>6. ASSUME NEW c \in Call, NEW d \in Call PROVE Tallied(c, d)'
  <2>1. Tallied(c, d)
    BY DEF ResultInv
  <2>2. ASSUME NEW x \in Branch, x # b, NEW k \in Children(x)
        PROVE  pc'[k] = "unborn" <=> pc[k] = "unborn"
    BY <1>0, <1>1, <1>3, <2>2, OneParent
  <2>3. ASSUME NEW x \in Branch PROVE pc'[x] = "joined" <=> pc[x] = "joined"
    BY <1>0, <1>1, <1>2, <1>3
  <2>. QED
    BY <1>0, <1>2, <2>1, <2>2, <2>3, TallyKept
<1>. QED
  BY <1>5, <1>6, ResultByParts

(* An aborted branch is neither joined nor a leaf.                         *)
LEMMA ResultCancels ==
  ASSUME TypeOK, TreeInv, ResultInv, NEW b \in Branch, Cancel(b)
  PROVE  ResultInv'
<1>1. /\ pc'[b] \in {"orphaned", "dropped"} /\ pc[b] \in Suspended
      /\ \A d \in Branch \ {b} : pc'[d] = pc[d]
      /\ UNCHANGED <<res, out>>
  BY DEF Cancel, Live, TypeOK
<1>2. \A d \in Branch : /\ pc'[d] = "unborn" <=> pc[d] = "unborn"
                        /\ pc'[d] = "joined" <=> pc[d] = "joined"
  BY <1>1 DEF Suspended
<1>3. ASSUME NEW z \in Branch PROVE GatherInv(z)'
  <2>1. GatherInv(z) /\ \A k \in Children(z) : k \in Branch
    BY OneParent DEF ResultInv
  <2>2. CASE z = b
    BY <1>1, <1>2, <2>1, <2>2 DEF GatherInv, Unforked, Walking, Suspended
  <2>3. CASE z # b
    BY <1>1, <1>2, <2>1, <2>3 DEF GatherInv
  <2>. QED
    BY <2>2, <2>3
<1>4. ASSUME NEW c \in Call, NEW d \in Call PROVE Tallied(c, d)'
  <2>1. Tallied(c, d) /\ \A x \in Branch : \A k \in Children(x) : k \in Branch
    BY OneParent DEF ResultInv
  <2>. QED
    BY <1>1, <1>2, <2>1, TallyKept
<1>. QED
  BY <1>3, <1>4, ResultByParts

(* The root of a call enters with nothing, or is refused.                  *)
LEMMA ResultStarts ==
  ASSUME TypeOK, TreeInv, ResultInv, NEW e \in Call, CallStep(e)
  PROVE  ResultInv'
<1>0. /\ Root(e) \in Branch /\ pc[Root(e)] \in {"unborn", "entry"} /\ UNCHANGED out
      /\ ~Spawned(Root(e)) /\ Root(e).call = e
  BY CallShape DEF TypeOK
<1>1. /\ \/ pc'[Root(e)] \in {"entry"} \cup Walking /\ UNCHANGED res
         \/ pc'[Root(e)] = "done" /\ res'[Root(e)] = "err"
      /\ \A d \in Branch \ {Root(e)} : pc'[d] = pc[d] /\ res'[d] = res[d]
  BY CallShape DEF TypeOK, Walking
<1>2. \A x \in Branch : \A k \in Children(x) : k \in Branch /\ pc'[k] = pc[k]
  BY <1>1, OneParent
<1>3. ASSUME NEW z \in Branch PROVE GatherInv(z)'
  <2>1. GatherInv(z) /\ BranchInv(z)
    BY DEF ResultInv, TreeInv
  <2>2. CASE z = Root(e)
    BY <1>0, <1>1, <1>2, <2>1, <2>2 DEF GatherInv, BranchInv, Unforked, Walking
  <2>3. CASE z # Root(e)
    BY <1>0, <1>1, <1>2, <2>1, <2>3 DEF GatherInv
  <2>. QED
    BY <2>2, <2>3
<1>4. ASSUME NEW c \in Call, NEW d \in Call PROVE Tallied(c, d)'
  <2>1. Tallied(c, d)
    BY DEF ResultInv
  <2>2. CASE res'[Root(e)] = "err" /\ c = e
    BY <1>0, <2>2 DEF Tallied, Failed
  <2>3. CASE UNCHANGED res \/ c # e
    <3>1. \A x \in Branch : x.call = c => res'[x] = res[x]
      BY <1>0, <1>1, <2>3
    <3>2. \A x \in Branch : pc'[x] = "joined" <=> pc[x] = "joined"
      BY <1>0, <1>1 DEF Walking
    <3>. QED
      BY <1>0, <1>2, <2>1, <3>1, <3>2, TallyKept
  <2>. QED
    BY <1>1, <2>2, <2>3
<1>. QED
  BY <1>3, <1>4, ResultByParts

(* Joining a child moves its packets to the parent, one for one.           *)
LEMMA JoinMoves ==
  ASSUME TypeOK, NEW b \in Branch, NEW k \in Children(b), JoinOk(b, k),
         NEW d \in Call, IsFiniteSet(Pending(b.call, d))
  PROVE  /\ IsFiniteSet(Pending(b.call, d)')
         /\ Cardinality(Pending(b.call, d)') = Cardinality(Pending(b.call, d))
<1>1. k \in Branch /\ k # b /\ k.call = b.call
  BY OneParent
<1>. DEFINE S == Pending(b.call, d)
            T == {z \in Branch \X Nat : /\ z[1].call = b.call /\ z[1] # k /\ pc[z[1]] # "joined"
                                        /\ z[2] < out[z[1]][d] + (IF z[1] = b THEN out[k][d] ELSE 0)}
            f == [z \in S |-> IF z[1] = k THEN <<b, out[b][d] + z[2]>> ELSE z]
<1>2. /\ pc[b] = "join" /\ pc[k] = "done" /\ pc'[k] = "joined"
      /\ \A x \in Branch \ {k} : pc'[x] = pc[x]
      /\ out'[b][d] = out[b][d] + out[k][d]
      /\ \A x \in Branch \ {b} : out'[x] = out[x]
      /\ \A x \in Branch : out[x][d] \in Nat
  BY <1>1 DEF JoinOk, Merge, TypeOK
<1>3. T = Pending(b.call, d)'
  BY <1>1, <1>2 DEF Pending
<1>4. f \in [S -> T]
  <2>. SUFFICES ASSUME NEW z \in S PROVE f[z] \in T
    OBVIOUS
  <2>1. /\ z \in Branch \X Nat /\ z[1] \in Branch /\ z[2] \in Nat /\ z = <<z[1], z[2]>>
        /\ z[1].call = b.call /\ pc[z[1]] # "joined" /\ z[2] < out[z[1]][d]
    BY DEF Pending
  <2>2. CASE z[1] = k
    <3>1. out[b][d] + z[2] \in Nat /\ out[b][d] + z[2] < out[b][d] + out[k][d]
      BY <1>2, <2>1, <2>2
    <3>2. <<b, out[b][d] + z[2]>> \in T
      BY <1>1, <1>2, <3>1
    <3>. QED
      BY <2>2, <3>2
  <2>3. CASE z[1] # k
    <3>1. z[2] < out[z[1]][d] + (IF z[1] = b THEN out[k][d] ELSE 0)
      BY <1>1, <1>2, <2>1
    <3>2. z \in T
      BY <2>1, <2>3, <3>1
    <3>. QED
      BY <2>3, <3>2
  <2>. QED
    BY <2>2, <2>3
<1>m. out[b][d] \in Nat /\ out[k][d] \in Nat
  BY <1>1, <1>2
<1>5. ASSUME NEW y \in S, NEW z \in S, f[y] = f[z] PROVE y = z
  <2>1. PICK y1 \in Branch, i \in Nat : y = <<y1, i>> /\ i < out[y1][d]
    BY DEF Pending
  <2>2. PICK z1 \in Branch, j \in Nat : z = <<z1, j>> /\ j < out[z1][d]
    BY DEF Pending
  <2>3. /\ f[y] = IF y1 = k THEN <<b, out[b][d] + i>> ELSE <<y1, i>>
        /\ f[z] = IF z1 = k THEN <<b, out[b][d] + j>> ELSE <<z1, j>>
    BY <2>1, <2>2
  <2>8. (IF y1 = k THEN <<b, out[b][d] + i>> ELSE <<y1, i>>)
          = IF z1 = k THEN <<b, out[b][d] + j>> ELSE <<z1, j>>
    BY <1>5, <2>3, Zenon
  <2>4. CASE y1 = k /\ z1 = k
    <3>1. out[b][d] + i = out[b][d] + j
      BY <2>8, <2>4
    <3>. QED
      BY <1>m, <2>1, <2>2, <2>4, <3>1
  <2>5. CASE y1 = k /\ z1 # k
    <3>1. b = z1 /\ out[b][d] + i = j
      BY <2>8, <2>5
    <3>. QED
      BY <1>m, <2>2, <3>1
  <2>6. CASE y1 # k /\ z1 = k
    <3>1. b = y1 /\ out[b][d] + j = i
      BY <2>8, <2>6
    <3>. QED
      BY <1>m, <2>1, <3>1
  <2>7. CASE y1 # k /\ z1 # k
    BY <2>1, <2>2, <2>8, <2>7
  <2>. QED
    BY <2>4, <2>5, <2>6, <2>7
<1>6. ASSUME NEW t \in T PROVE \E z \in S : f[z] = t
  <2>1. /\ t = <<t[1], t[2]>> /\ t[1] \in Branch /\ t[2] \in Nat
        /\ t[1].call = b.call /\ t[1] # k /\ pc[t[1]] # "joined"
        /\ t[2] < out[t[1]][d] + (IF t[1] = b THEN out[k][d] ELSE 0)
    OBVIOUS
  <2>. HIDE DEF T
  <2>2. CASE t[2] < out[t[1]][d]
    <3>1. t \in S /\ t[1] # k
      BY <2>1, <2>2 DEF Pending
    <3>2. f[t] = t
      BY <3>1
    <3>. QED
      BY <3>1, <3>2
  <2>3. CASE ~(t[2] < out[t[1]][d])
    <3>. DEFINE n == t[2] - out[b][d]
    <3>1. t[1] = b
      BY <1>2, <2>1, <2>3
    <3>2. n \in Nat /\ n < out[k][d] /\ out[b][d] + n = t[2]
      BY <1>m, <2>1, <2>3, <3>1
    <3>. HIDE DEF n
    <3>3. <<k, n>> \in S
      BY <1>1, <1>2, <3>2 DEF Pending
    <3>4. f[<<k, n>>] = <<b, out[b][d] + n>>
      BY <3>3
    <3>. QED
      BY <2>1, <3>1, <3>2, <3>3, <3>4
  <2>. QED
    BY <2>2, <2>3
<1>7. ExistsBijection(S, T)
  <2>. HIDE DEF S, T, f
  <2>1. \A y, z \in S : f[y] = f[z] => y = z
    BY <1>5
  <2>2. \A t \in T : \E z \in S : f[z] = t
    BY <1>6
  <2>3. f \in Bijection(S, T)
    BY <1>4, <2>1, <2>2 DEF Bijection, Injection, IsInjective, Surjection
  <2>. QED
    BY <2>3 DEF ExistsBijection
<1>. HIDE DEF T
<1>. QED
  BY <1>3, <1>7, FS_Bijection

(* A parent gathers the packets of the child it joins; no leaf changes.    *)
LEMMA ResultJoins ==
  ASSUME TypeOK, TreeInv, ResultInv, NEW b \in Branch, NEW k \in Children(b), JoinOk(b, k)
  PROVE  ResultInv'
<1>1. k \in Branch /\ k # b /\ k.call = b.call /\ Spawned(k)
  BY OneParent
<1>2. /\ pc[b] = "join" /\ pc[k] = "done" /\ pc'[k] = "joined" /\ res[k] = "ok" /\ UNCHANGED res
      /\ \A x \in Branch \ {k} : pc'[x] = pc[x]
      /\ \A x \in Branch \ {b} : out'[x] = out[x]
  BY <1>1 DEF JoinOk, TypeOK
<1>3. res[b] = "none" /\ \A x \in Branch : pc'[x] = "unborn" <=> pc[x] = "unborn"
  BY <1>2 DEF TreeInv, BranchInv, TypeOK
<1>4. ASSUME NEW z \in Branch PROVE GatherInv(z)'
  <2>1. GatherInv(z) /\ \A j \in Children(z) : j \in Branch
    BY OneParent DEF ResultInv
  <2>2. CASE z = b
    BY <1>1, <1>2, <1>3, <2>1, <2>2 DEF GatherInv, Unforked, Walking
  <2>3. CASE z = k
    BY <1>1, <1>2, <1>3, <2>1, <2>3 DEF GatherInv, Unforked, Walking
  <2>4. CASE z # b /\ z # k
    BY <1>2, <1>3, <2>1, <2>4 DEF GatherInv
  <2>. QED
    BY <2>2, <2>3, <2>4
<1>5. ASSUME NEW c \in Call, NEW d \in Call PROVE Tallied(c, d)'
  <2>1. Tallied(c, d) /\ \A x \in Branch : \A j \in Children(x) : j \in Branch
    BY OneParent DEF ResultInv
  <2>2. CASE c # b.call
    BY <1>1, <1>2, <1>3, <2>1, <2>2, TallyKept
  <2>3. CASE c = b.call
    <3>1. Failed(c)' <=> Failed(c)
      BY <1>2 DEF Failed
    <3>2. Holding(c, d)' = Holding(c, d)
      BY <1>2, <1>3, <2>1 DEF Holding, Leaves
    <3>3. CASE IsFiniteSet(Pending(c, d))
      <4>1. /\ IsFiniteSet(Pending(c, d)')
            /\ Cardinality(Pending(c, d)') = Cardinality(Pending(c, d))
        BY <2>3, <3>3, JoinMoves
      <4>. QED
        BY <2>1, <3>1, <3>2, <4>1 DEF Tallied
    <3>. QED
      BY <2>1, <3>1, <3>3 DEF Tallied
  <2>. QED
    BY <2>2, <2>3
<1>. QED
  BY <1>4, <1>5, ResultByParts

(* A result of one walker counts one packet at most.                       *)
LEMMA SingleTypes ==
  ASSUME NEW o \in Single, NEW d \in Call
  PROVE  o[d] \in {0, 1}
BY DEF Single, Nothing, One

(* A leaf that returns Ok adds to the tally what it adds to the leaves;    *)
(* a parent that does adds nothing; any other end fails the call.          *)
LEMMA ResultFinishes ==
  ASSUME TypeOK, TreeInv, ResultInv, NEW b \in Branch, Finishes(b)
  PROVE  ResultInv'
<1>. PICK r \in {"ok", "err", "panic"}, o \in [Call -> Nat] :
       /\ Return(b, r, o)
       /\ r = "ok" => \/ pc[b] # "join" /\ o \in Single
                      \/ o = out[b] /\ \A k \in Children(b) : pc[k] \in {"unborn", "joined"}
  BY Zenon DEF Finishes
<1>1. /\ pc'[b] = "done" /\ res'[b] = r /\ out'[b] = o
      /\ pc[b] \in Walking \cup {"join"} /\ res[b] = "none"
      /\ \A x \in Branch \ {b} : pc'[x] = pc[x] /\ res'[x] = res[x] /\ out'[x] = out[x]
  <2>1. pc[b] \in Walking \cup {"join"}
    BY Zenon DEF Finishes
  <2>2. res[b] = "none"
    BY <2>1 DEF TreeInv, BranchInv, Walking
  <2>. QED
    BY <2>1, <2>2 DEF Return, TypeOK
<1>2. \A x \in Branch : /\ pc'[x] = "unborn" <=> pc[x] = "unborn"
                        /\ pc'[x] = "joined" <=> pc[x] = "joined"
  BY <1>1 DEF Walking
<1>3. /\ GatherInv(b) /\ b.call \in Call
      /\ \A k \in Children(b) : k \in Branch /\ k # b /\ k.call = b.call
      /\ pc[b] \in Walking => out[b] = Nothing /\ \A k \in Children(b) : pc[k] = "unborn"
  BY BranchFields, OneParent DEF ResultInv, GatherInv, TreeInv, ChildInv, Unforked
<1>4. ASSUME NEW z \in Branch PROVE GatherInv(z)'
  <2>1. GatherInv(z) /\ \A k \in Children(z) : k \in Branch
    BY OneParent DEF ResultInv
  <2>2. CASE z = b
    <3>1. ASSUME r = "ok", \A k \in Children(b) : pc[k] = "unborn", NEW d \in Call
          PROVE  o[d] <= 1
      <4>1. o \in Single
        BY <1>1, <1>3, <3>1 DEF GatherInv, Single
      <4>. QED
        BY <4>1, SingleTypes
    <3>2. Spawned(b) => \E a \in Branch : b \in Children(a)
      BY <1>1, <1>3 DEF GatherInv, Walking
    <3>. QED
      BY <1>1, <1>2, <2>1, <2>2, <3>1, <3>2 DEF GatherInv, Unforked, Walking
  <2>3. CASE z # b
    BY <1>1, <1>2, <2>1, <2>3 DEF GatherInv
  <2>. QED
    BY <2>2, <2>3
<1>5. ASSUME NEW c \in Call, NEW d \in Call PROVE Tallied(c, d)'
  <2>1. Tallied(c, d) /\ \A x \in Branch : \A k \in Children(x) : k \in Branch
    BY OneParent DEF ResultInv
  <2>2. CASE c # b.call
    BY <1>1, <1>2, <2>1, <2>2, TallyKept
  <2>3. CASE c = b.call /\ r # "ok"
    BY <1>1, <2>3 DEF Tallied, Failed
  <2>4. CASE c = b.call /\ r = "ok"
    <3>1. Failed(c)' <=> Failed(c)
      BY <1>1, <2>4 DEF Failed
    <3>2. \A x : x # b => (x \in Holding(c, d)' <=> x \in Holding(c, d))
      BY <1>1, <1>2, <2>1 DEF Holding, Leaves
    <3>3. b \notin Holding(c, d)
      BY <1>1 DEF Holding, Leaves
    <3>4. b \in Holding(c, d)' <=> o[d] # 0 /\ \A k \in Children(b) : pc[k] = "unborn"
      BY <1>1, <1>2, <1>3, <2>4 DEF Holding, Leaves
    <3>5. CASE o[d] = out[b][d] /\ (o[d] = 0 \/ \E k \in Children(b) : pc[k] # "unborn")
      <4>1. Holding(c, d)' = Holding(c, d)
        BY <3>2, <3>3, <3>4, <3>5
      <4>2. Pending(c, d)' = Pending(c, d)
        BY <1>1, <1>2, <3>5 DEF Pending
      <4>. QED
        BY <2>1, <3>1, <4>1, <4>2 DEF Tallied
    <3>6. CASE o[d] = 1 /\ out[b][d] = 0 /\ \A k \in Children(b) : pc[k] = "unborn"
      <4>1. Holding(c, d)' = Holding(c, d) \cup {b}
        BY <3>2, <3>3, <3>4, <3>6
      <4>2. Pending(c, d)' = Pending(c, d) \cup {<<b, 0>>}
        <5>1. ASSUME NEW z \in Branch \X Nat, z[1] # b
              PROVE  z \in Pending(c, d)' <=> z \in Pending(c, d)
          BY <1>1, <1>2, <5>1 DEF Pending
        <5>2. ASSUME NEW z \in Branch \X Nat, z[1] = b
              PROVE  /\ z \in Pending(c, d)' <=> z[2] = 0
                     /\ z \notin Pending(c, d)
          BY <1>1, <1>2, <2>4, <3>6, <5>2 DEF Pending, Walking
        <5>3. Pending(c, d) \subseteq Branch \X Nat /\ Pending(c, d)' \subseteq Branch \X Nat
          BY DEF Pending
        <5>4. \A z \in Branch \X Nat : z = <<b, 0>> <=> z[1] = b /\ z[2] = 0
          OBVIOUS
        <5>. QED
          BY <5>1, <5>2, <5>3, <5>4
      <4>3. <<b, 0>> \notin Pending(c, d)
        BY <3>6 DEF Pending
      <4>4. IsFiniteSet(Holding(c, d))
        BY HoldingLeaf
      <4>5. Cardinality(Holding(c, d)') = Cardinality(Holding(c, d)) + 1
        BY <3>3, <4>1, <4>4, FS_AddElement
      <4>6. IsFiniteSet(Pending(c, d)) =>
              /\ IsFiniteSet(Pending(c, d)')
              /\ Cardinality(Pending(c, d)') = Cardinality(Pending(c, d)) + 1
        <5>. DEFINE P == Pending(c, d)
                    z == <<b, 0>>
        <5>1. Pending(c, d)' = P \cup {z} /\ z \notin P
          BY <4>2, <4>3
        <5>. HIDE DEF P, z
        <5>2. IsFiniteSet(P) => IsFiniteSet(P \cup {z}) /\ Cardinality(P \cup {z}) = Cardinality(P) + 1
          BY <5>1, FS_AddElement
        <5>. QED
          BY <5>1, <5>2 DEF P
      <4>. QED
        BY <2>1, <3>1, <4>5, <4>6 DEF Tallied
    <3>7. CASE pc[b] = "join"
      BY <1>3, <2>4, <3>5, <3>7 DEF GatherInv
    <3>8. CASE pc[b] \in Walking
      <4>1. o[d] \in {0, 1} /\ out[b][d] = 0
        BY <1>3, <2>4, <3>8, SingleTypes DEF Nothing, Single
      <4>. QED
        BY <1>3, <3>5, <3>6, <3>8, <4>1
    <3>. QED
      BY <1>1, <3>7, <3>8
  <2>. QED
    BY <1>1, <2>2, <2>3, <2>4
<1>. QED
  BY <1>4, <1>5, ResultByParts

(* Every step keeps the tally.                                             *)
LEMMA NextResult == TypeOK /\ TreeInv /\ ResultInv /\ [Next]_vars => ResultInv'
<1>. SUFFICES ASSUME TypeOK, TreeInv, ResultInv, [Next]_vars PROVE ResultInv'
  OBVIOUS
<1>1. ASSUME NEW b \in Branch, Step(b) PROVE ResultInv'
  <2>1. ASSUME Acquire(b) PROVE ResultInv'
    <3>1. pc[b] \in Unforked \ {"unborn"} /\ "validate" \in Walking
      BY <2>1 DEF Acquire, Unforked, Walking
    <3>. QED
      BY <2>1, <3>1, ResultMoves DEF Acquire
  <2>2. ASSUME Moves(b) PROVE ResultInv'
    <3>1. pc[b] \in Unforked \ {"unborn"}
      BY <2>2 DEF Moves, Unforked, Walking
    <3>. QED
      BY <2>2, <3>1, ResultMoves DEF Moves
  <2>. QED
    BY <1>1, <2>1, <2>2, StepShape, ResultForks, ResultFinishes, ResultJoins
<1>2. CASE Shutdown \/ UNCHANGED vars
  <2>1. UNCHANGED <<pc, res, out>>
    BY <1>2 DEF Shutdown, vars
  <2>2. \A z \in Branch : GatherInv(z)'
    BY <2>1 DEF ResultInv, GatherInv
  <2>3. \A c, d \in Call : Tallied(c, d)'
    BY <2>1, TallyKept DEF ResultInv
  <2>. QED
    BY <2>2, <2>3, ResultByParts
<1>. QED
  BY <1>1, <1>2, ResultStarts, ResultCancels DEF Next, Finished, CallStep

(* At the start nobody holds anything.                                     *)
LEMMA InitResult == Init => ResultInv
<1>. SUFFICES ASSUME Init PROVE ResultInv
  OBVIOUS
<1>1. \A b \in Branch : pc[b] = "unborn" /\ res[b] = "none" /\ out[b] = Nothing
  BY DEF Init
<1>2. ASSUME NEW c \in Call, NEW d \in Call PROVE Tallied(c, d)
  <2>1. Pending(c, d) = {}
    BY <1>1 DEF Pending, Nothing
  <2>2. Holding(c, d) = {}
    BY <1>1 DEF Holding, Leaves
  <2>. QED
    BY <2>1, <2>2, FS_EmptySet DEF Tallied
<1>. QED
  BY <1>1, <1>2 DEF ResultInv, GatherInv

(* A non-empty set of naturals has a least element.                        *)
LEMMA HasLeast ==
  ASSUME NEW S, S \subseteq Nat, S # {}
  PROVE  \E x \in S : \A y \in S : x <= y
<1>. DEFINE R == OpToRel(<, Nat)
<1>1. \A x, y \in Nat : x < y => <<x, y>> \in R
  BY DEF OpToRel
<1>2. IsWellFoundedOn(R, Nat)
  BY NatLessThanWellFounded, Zenon
<1>. HIDE DEF R
<1>3. PICK x \in S : \A y \in S : ~(<<y, x>> \in R)
  BY <1>2, WFMin
<1>4. \A y \in S : ~(y < x)
  BY <1>1, <1>3, Zenon
<1>. QED
  BY <1>4

(* Once the root of a call has returned Ok, every other branch of the call *)
(* that was spawned has been joined, and none has failed: the shortest     *)
(* path to a branch that was not would end below one that was.             *)
LEMMA AllJoined ==
  ASSUME TypeOK, TreeInv, ResultInv, NEW c \in Call, res[Root(c)] = "ok"
  PROVE  \A b \in Branch : b.call = c /\ b # Root(c) =>
           pc[b] = "unborn" \/ (pc[b] = "joined" /\ res[b] = "ok")
<1>. DEFINE Astray == {b \in Branch : b.call = c /\ b # Root(c) /\ pc[b] \notin {"unborn", "joined"}}
            Lens == {Len(b.path) : b \in Astray}
<1>1. \A b \in Branch : b.path \in Seq(Nat) /\ Len(b.path) \in Nat
  BY BranchFields, CallAssumption
<1>2. ASSUME Astray # {} PROVE FALSE
  <2>1. Lens \subseteq Nat /\ Lens # {}
    BY <1>1, <1>2
  <2>2. PICK b \in Astray : \A x \in Astray : Len(b.path) <= Len(x.path)
    <3>1. PICK n \in Lens : \A m \in Lens : n <= m
      BY <2>1, HasLeast, Zenon
    <3>. QED
      BY <3>1
  <2>3. b \in Branch /\ b.call = c /\ b # Root(c) /\ pc[b] \notin {"unborn", "joined"}
    BY <2>2
  <2>4. Spawned(b)
    BY <2>3 DEF Spawned, Root, Branch
  <2>5. PICK a \in Branch : b \in Children(a)
    BY <2>3, <2>4 DEF ResultInv, GatherInv
  <2>6. a.call = c /\ ChildInv(a, b)
    BY <2>3, <2>5, OneParent DEF TreeInv
  <2>7. Len(a.path) < Len(b.path)
    <3>1. PICK i \in Nat : b.path = Append(a.path, i)
      BY <2>5, EdgeTypes DEF Children, Child
    <3>. QED
      BY <1>1, <3>1
  <2>8. a \notin Astray
    BY <1>1, <2>2, <2>3, <2>7
  <2>9. pc[a] # "unborn"
    BY <2>3, <2>6 DEF ChildInv, Unforked
  <2>10. pc[a] \in {"done", "joined"} /\ res[a] = "ok"
    <3>1. CASE a = Root(c)
      BY <3>1 DEF TreeInv, BranchInv
    <3>2. CASE a # Root(c)
      <4>1. pc[a] = "joined"
        BY <2>6, <2>8, <2>9, <3>2
      <4>. QED
        BY <4>1 DEF ResultInv, GatherInv
    <3>. QED
      BY <3>1, <3>2
  <2>. QED
    BY <2>3, <2>6, <2>10 DEF ChildInv
<1>. QED
  BY <1>2 DEF ResultInv, GatherInv

(* The packets of an Ok call are exactly those its leaf branches carried   *)
(* to an exit, whatever the fan-outs, whoever was joined first.            *)
THEOREM ResultsAreComplete == Spec => []ResultsComplete
<1>1. ASSUME TypeOK, TreeInv, ResultInv PROVE ResultsComplete
  <2>1. OkJoinsAll
    BY <1>1 DEF TreeInv, ChildInv, OkJoinsAll
  <2>2. ASSUME NEW c \in Call, res[Root(c)] = "ok", NEW d \in Call
        PROVE  /\ out[Root(c)][d] = Cardinality(Holding(c, d))
               /\ \A b \in Leaves(c) : out[b][d] <= 1
    <3>1. \A b \in Branch : b.call = c /\ b # Root(c) =>
            pc[b] = "unborn" \/ (pc[b] = "joined" /\ res[b] = "ok")
      BY <1>1, <2>2, AllJoined
    <3>2. /\ Root(c) \in Branch /\ Root(c).call = c /\ ~Spawned(Root(c))
          /\ GatherInv(Root(c)) /\ out[Root(c)][d] \in Nat
      <4>1. Root(c) \in Branch /\ Root(c).call = c /\ ~Spawned(Root(c))
        BY CallAssumption DEF Root, Branch, Spawned
      <4>2. GatherInv(Root(c)) /\ out[Root(c)] \in [Call -> Nat]
        BY <1>1, <4>1 DEF ResultInv, TypeOK
      <4>. QED
        BY <4>1, <4>2
    <3>3. ~Failed(c)
      BY <1>1, <2>2, <3>1 DEF Failed, TreeInv, BranchInv
    <3>4. IsFiniteSet(Pending(c, d)) /\ Cardinality(Pending(c, d)) = Cardinality(Holding(c, d))
      BY <1>1, <3>3 DEF ResultInv, Tallied
    <3>. DEFINE n == out[Root(c)][d]
    <3>5. Pending(c, d) = {Root(c)} \X (0 .. n - 1)
      <4>1. ASSUME NEW b \in Branch, b.call = c, b # Root(c), pc[b] # "joined"
            PROVE  out[b][d] = 0
        BY <1>1, <3>1, <4>1 DEF ResultInv, GatherInv, Unforked, Nothing
      <4>2. pc[Root(c)] # "joined"
        BY <3>2 DEF GatherInv
      <4>3. ASSUME NEW z PROVE z \in Pending(c, d) <=> z \in {Root(c)} \X (0 .. n - 1)
        BY <3>2, <4>1, <4>2 DEF Pending
      <4>. QED
        BY <4>3
    <3>n. n \in Nat
      BY <3>2
    <3>. HIDE DEF n
    <3>6. Cardinality({Root(c)} \X (0 .. n - 1)) = n
      <4>1. IsFiniteSet(0 .. n - 1) /\ Cardinality(0 .. n - 1) = n
        <5>1. IsFiniteSet(0 .. n - 1) /\ Cardinality(0 .. n - 1) = IF 0 > n - 1 THEN 0 ELSE n - 1 - 0 + 1
          BY <3>n, FS_Interval
        <5>. QED
          BY <3>n, <5>1
      <4>2. IsFiniteSet({Root(c)}) /\ Cardinality({Root(c)}) = 1
        BY FS_Singleton
      <4>. QED
        BY <3>n, <4>1, <4>2, FS_Product
    <3>7. ASSUME NEW b \in Leaves(c) PROVE out[b][d] <= 1
      BY <1>1 DEF Leaves, ResultInv, GatherInv
    <3>. QED
      BY <3>4, <3>5, <3>6, <3>7 DEF n
  <2>. QED
    BY <2>1, <2>2 DEF ResultsComplete
<1>. QED
  BY <1>1, InitType, NextType, InitTree, NextTree, InitResult, NextResult, PTL DEF Spec

-----------------------------------------------------------------------------
-----------------------------------------------------------------------------
(* Sequences, by their prefixes.                                           *)

(* What the empty sequence has, and Append keeps, every sequence has.      *)
LEMMA SeqInduction ==
  ASSUME NEW X, NEW Q, <<>> \in Q,
         \A s \in Seq(X) \cap Q : \A x \in X : Append(s, x) \in Q
  PROVE  Seq(X) \subseteq Q
<1>. DEFINE S == {Len(s) : s \in Seq(X) \ Q}
<1>1. S \subseteq Nat
  OBVIOUS
<1>2. SUFFICES ASSUME S # {} PROVE FALSE
  OBVIOUS
<1>3. PICK m \in S : \A k \in S : m <= k
  <2>. HIDE DEF S
  <2>. QED
    BY <1>1, <1>2, HasLeast
<1>4. PICK s \in Seq(X) \ Q : Len(s) = m
  BY <1>3
<1>5. s # <<>> /\ Len(s) \in Nat \ {0}
  BY <1>4
<1>. DEFINE t == SubSeq(s, 1, Len(s) - 1)
<1>6. t \in Seq(X) /\ Len(t) = Len(s) - 1 /\ s[Len(s)] \in X /\ s = Append(t, s[Len(s)])
  BY <1>4, <1>5
<1>7. t \in Q
  <2>1. ~(m <= Len(t))
    BY <1>4, <1>5, <1>6
  <2>. QED
    BY <1>3, <1>6, <2>1
<1>. QED
  BY <1>4, <1>6, <1>7

(* A step function from a, and what it computes in n steps.               *)
Stepping(n, T, a, step) ==
  n \in Nat /\ a \in T /\ \A k \in 1 .. n : \A v \in T : step[<<k, v>>] \in T
Stepwise(n, T, a, step, f) ==
  f \in [0 .. n -> T] /\ f[0] = a /\ \A k \in 1 .. n : f[k] = step[<<k, f[k - 1]>>]

(* What is computed step by step exists.                                   *)
LEMMA Recursion ==
  ASSUME NEW n, NEW T, NEW a, NEW step, Stepping(n, T, a, step)
  PROVE  \E f : Stepwise(n, T, a, step, f)
<1>. DEFINE Steps(m, f) == /\ f \in [0 .. m -> T] /\ f[0] = a
                           /\ \A k \in 1 .. m : f[k] = step[<<k, f[k - 1]>>]
            Stepped(m) == \E f : Steps(m, f)
            Bad == {m \in 0 .. n : ~Stepped(m)}
<1>0. n \in Nat /\ a \in T /\ \A k \in 1 .. n : \A v \in T : step[<<k, v>>] \in T
  BY DEF Stepping
<1>1. CASE Bad = {}
  <2>1. Stepped(n)
    <3>. HIDE DEF Stepped
    <3>. QED
      BY <1>0, <1>1
  <2>. QED
    BY <2>1 DEF Stepwise
<1>2. CASE Bad # {}
  <2>1. PICK m \in Bad : \A k \in Bad : m <= k
    <3>. HIDE DEF Stepped
    <3>1. Bad \subseteq Nat
      BY <1>0
    <3>. HIDE DEF Bad
    <3>. QED
      BY <1>2, <3>1, HasLeast
  <2>2. m \in 0 .. n /\ ~Stepped(m) /\ \A k \in 0 .. n : ~Stepped(k) => m <= k
    <3>. HIDE DEF Stepped
    <3>. QED
      BY <2>1
  <2>3. m # 0
    <3>. DEFINE z == [i \in 0 .. 0 |-> a]
    <3>1. z \in [0 .. 0 -> T] /\ z[0] = a /\ 1 .. 0 = {}
      BY <1>0
    <3>2. Steps(0, z)
      BY <3>1
    <3>. QED
      BY <2>2, <3>2
  <2>4. m - 1 \in 0 .. n /\ Stepped(m - 1)
    <3>. HIDE DEF Stepped
    <3>. QED
      BY <1>0, <2>2, <2>3
  <2>5. PICK f : Steps(m - 1, f)
    BY <2>4
  <2>. DEFINE h == [i \in 0 .. m |-> IF i = m THEN step[<<m, f[m - 1]>>] ELSE f[i]]
  <2>6. m \in 1 .. n /\ f[m - 1] \in T /\ step[<<m, f[m - 1]>>] \in T /\ \A i \in 0 .. m - 1 : f[i] \in T
    BY <1>0, <2>2, <2>3, <2>5
  <2>7. h \in [0 .. m -> T] /\ h[0] = a
    BY <1>0, <2>5, <2>6
  <2>8. ASSUME NEW k \in 1 .. m PROVE h[k] = step[<<k, h[k - 1]>>]
    <3>1. CASE k = m
      BY <1>0, <2>6, <3>1
    <3>2. CASE k # m
      <4>1. k \in 1 .. m - 1 /\ h[k] = f[k] /\ h[k - 1] = f[k - 1]
        BY <1>0, <2>6, <3>2
      <4>. QED
        BY <2>5, <4>1
    <3>. QED
      BY <3>1, <3>2
  <2>9. Steps(m, h)
    BY <2>7, <2>8
  <2>. QED
    BY <2>2, <2>9
<1>. QED
  BY <1>1, <1>2

(* Two computations that agree on every step agree.                        *)
Alike(n, f, g) ==
  n \in Nat /\ f[0] = g[0] /\ \A k \in 1 .. n : f[k - 1] = g[k - 1] => f[k] = g[k]
(* The two computations agree.                                             *)
Agree(n, f, g) == \A k \in 0 .. n : f[k] = g[k]
LEMMA SameSteps ==
  ASSUME NEW n, NEW f, NEW g, Alike(n, f, g)
  PROVE  Agree(n, f, g)
<1>. DEFINE Bad == {k \in 0 .. n : f[k] # g[k]}
<1>0. n \in Nat /\ f[0] = g[0] /\ \A k \in 1 .. n : f[k - 1] = g[k - 1] => f[k] = g[k]
  BY DEF Alike
<1>1. SUFFICES ASSUME Bad # {} PROVE FALSE
  BY DEF Agree
<1>2. Bad \subseteq Nat
  BY <1>0
<1>3. PICK k \in Bad : \A j \in Bad : k <= j
  <2>. HIDE DEF Bad
  <2>. QED
    BY <1>1, <1>2, HasLeast
<1>4. k \in 1 .. n /\ k - 1 \in 0 .. n /\ ~(k <= k - 1) /\ f[k] # g[k]
  BY <1>0, <1>3
<1>5. f[k - 1] = g[k - 1]
  BY <1>3, <1>4
<1>. QED
  BY <1>0, <1>4, <1>5

-----------------------------------------------------------------------------
(* The filter.                                                             *)

(* The prefixes of a sequence, filtered.                                   *)
Filters(s, S, f) ==
  /\ f[0] = <<>>
  /\ \A k \in 1 .. Len(s) : f[k] = IF s[k] \in S THEN Append(f[k - 1], s[k]) ELSE f[k - 1]

(* Only is computed one element after the other.                           *)
LEMMA OnlyFilters ==
  ASSUME NEW X, NEW s \in Seq(X), NEW S
  PROVE  \E f \in [0 .. Len(s) -> Seq(X)] : Filters(s, S, f) /\ Only(s, S) = f[Len(s)]
<1>. DEFINE n == Len(s)
            Kept(f) == f = [k \in 0 .. n |-> IF k = 0 THEN <<>>
                                            ELSE IF s[k] \in S THEN Append(f[k - 1], s[k]) ELSE f[k - 1]]
            c == CHOOSE f : Kept(f)
            step == [z \in (1 .. n) \X Seq(X) |-> IF s[z[1]] \in S THEN Append(z[2], s[z[1]]) ELSE z[2]]
<1>1. n \in Nat /\ \A k \in 1 .. n : s[k] \in X
  OBVIOUS
<1>2. \A k \in 1 .. n : \A v \in Seq(X) :
         /\ step[<<k, v>>] = IF s[k] \in S THEN Append(v, s[k]) ELSE v
         /\ step[<<k, v>>] \in Seq(X)
  BY <1>1
<1>3. Only(s, S) = c[n]
  BY DEF Only
<1>. HIDE DEF n, step
<1>4. <<>> \in Seq(X)
  OBVIOUS
<1>5. PICK f \in [0 .. n -> Seq(X)] : f[0] = <<>> /\ \A k \in 1 .. n : f[k] = step[<<k, f[k - 1]>>]
  <2>1. Stepping(n, Seq(X), <<>>, step)
    BY <1>1, <1>2, <1>4 DEF Stepping
  <2>2. PICK f : Stepwise(n, Seq(X), <<>>, step, f)
    BY <2>1, Recursion
  <2>. QED
    BY <2>2 DEF Stepwise
<1>6. Kept(f)
  <2>1. \A k \in 0 .. n : f[k] = IF k = 0 THEN <<>>
                                 ELSE IF s[k] \in S THEN Append(f[k - 1], s[k]) ELSE f[k - 1]
    <3>1. \A k \in 0 .. n : k = 0 \/ (k \in 1 .. n /\ k # 0 /\ k - 1 \in 0 .. n)
      BY <1>1
    <3>. HIDE DEF c
    <3>. SUFFICES ASSUME NEW k \in 0 .. n
                  PROVE  f[k] = IF k = 0 THEN <<>>
                                ELSE IF s[k] \in S THEN Append(f[k - 1], s[k]) ELSE f[k - 1]
      OBVIOUS
    <3>2. CASE k = 0
      BY <1>5, <3>2
    <3>3. CASE k \in 1 .. n /\ k # 0 /\ k - 1 \in 0 .. n
      <4>1. f[k] = step[<<k, f[k - 1]>>] /\ f[k - 1] \in Seq(X)
        BY <1>5, <3>3
      <4>. QED
        BY <1>2, <3>3, <4>1
    <3>. QED
      BY <3>1, <3>2, <3>3
  <2>. QED
    BY <2>1
<1>7. Kept(c)
  <2>. HIDE DEF Kept
  <2>. QED
    BY <1>6
<1>. HIDE DEF c
<1>8. DOMAIN c = 0 .. n /\ c[0] = <<>>
      /\ \A k \in 1 .. n : c[k] = IF s[k] \in S THEN Append(c[k - 1], s[k]) ELSE c[k - 1]
  <2>1. 0 \in 0 .. n /\ \A k \in 1 .. n : k \in 0 .. n /\ k # 0
    BY <1>1
  <2>2. DOMAIN c = 0 .. n
    BY <1>7
  <2>3. \A k \in 0 .. n : c[k] = IF k = 0 THEN <<>>
                                 ELSE IF s[k] \in S THEN Append(c[k - 1], s[k]) ELSE c[k - 1]
    BY <1>7
  <2>. QED
    BY <2>1, <2>2, <2>3
<1>9. f[0] = <<>> /\ \A k \in 1 .. n : f[k] = IF s[k] \in S THEN Append(f[k - 1], s[k]) ELSE f[k - 1]
  <2>1. \A k \in 1 .. n : k - 1 \in 0 .. n
    BY <1>1
  <2>. QED
    BY <1>2, <1>5, <2>1
<1>10. \A k \in 0 .. n : c[k] = f[k]
  <2>1. Alike(n, c, f)
    BY <1>1, <1>8, <1>9 DEF Alike
  <2>. HIDE DEF n, Kept
  <2>2. Agree(n, c, f)
    BY <2>1, SameSteps
  <2>. QED
    BY <2>2 DEF Agree
<1>11. Only(s, S) = f[n]
  BY <1>1, <1>3, <1>10
<1>. QED
  BY <1>9, <1>11 DEF n, Filters

(* The filter of a sequence, one more element at a time.                   *)
LEMMA FilterAppend ==
  ASSUME NEW X, NEW S, NEW s \in Seq(X), NEW x \in X
  PROVE  Only(Append(s, x), S) = IF x \in S THEN Append(Only(s, S), x) ELSE Only(s, S)
<1>. DEFINE n == Len(s)
            t == Append(s, x)
<1>1. n \in Nat /\ t \in Seq(X) /\ Len(t) = n + 1 /\ t[n + 1] = x /\ \A k \in 1 .. n : t[k] = s[k]
  OBVIOUS
<1>2. PICK f \in [0 .. n -> Seq(X)] : Filters(s, S, f) /\ Only(s, S) = f[n]
  BY OnlyFilters
<1>. HIDE DEF t
<1>3. PICK g \in [0 .. Len(t) -> Seq(X)] : Filters(t, S, g) /\ Only(t, S) = g[Len(t)]
  BY <1>1, OnlyFilters
<1>. HIDE DEF n
<1>4. \A k \in 1 .. n : g[k] = IF s[k] \in S THEN Append(g[k - 1], s[k]) ELSE g[k - 1]
  <2>1. \A k \in 1 .. n : k \in 1 .. Len(t) /\ t[k] = s[k]
    BY <1>1
  <2>2. \A k \in 1 .. Len(t) : g[k] = IF t[k] \in S THEN Append(g[k - 1], t[k]) ELSE g[k - 1]
    BY <1>3 DEF Filters
  <2>. QED
    BY <2>1, <2>2
<1>5. \A k \in 0 .. n : f[k] = g[k]
  <2>1. \A k \in 1 .. n : f[k] = IF s[k] \in S THEN Append(f[k - 1], s[k]) ELSE f[k - 1]
    BY <1>2 DEF Filters, n
  <2>. QED
    <3>1. Alike(n, f, g)
      BY <1>1, <1>2, <1>3, <1>4, <2>1 DEF Alike, Filters
    <3>2. Agree(n, f, g)
      BY <3>1, SameSteps
    <3>. QED
      BY <3>2 DEF Agree
<1>6. g[n + 1] = IF x \in S THEN Append(g[n], x) ELSE g[n]
  <2>1. n + 1 \in 1 .. Len(t) /\ (n + 1) - 1 = n
    BY <1>1
  <2>2. g[n + 1] = IF t[n + 1] \in S THEN Append(g[(n + 1) - 1], t[n + 1]) ELSE g[(n + 1) - 1]
    BY <1>3, <2>1 DEF Filters
  <2>. QED
    BY <1>1, <2>1, <2>2
<1>7. f[n] = g[n] /\ Only(t, S) = g[n + 1]
  BY <1>1, <1>3, <1>5
<1>. QED
  BY <1>2, <1>6, <1>7 DEF t

(* The filter of any sequence is a sequence of its elements.               *)
LEMMA Filtering ==
  ASSUME NEW X, NEW S
  PROVE  Only(<<>>, S) = <<>> /\ \A s \in Seq(X) : Only(s, S) \in Seq(X)
<1>1. Only(<<>>, S) = <<>>
  <2>1. PICK f \in [0 .. Len(<<>>) -> Seq(X)] : Filters(<<>>, S, f) /\ Only(<<>>, S) = f[Len(<<>>)]
    <3>1. <<>> \in Seq(X)
      OBVIOUS
    <3>. QED
      BY <3>1, OnlyFilters
  <2>. QED
    BY <2>1 DEF Filters
<1>2. ASSUME NEW s \in Seq(X) PROVE Only(s, S) \in Seq(X)
  <2>1. Len(s) \in Nat
    OBVIOUS
  <2>. QED
    BY <2>1, OnlyFilters
<1>. QED
  BY <1>1, <1>2

(* Where a sequence has an element.                                        *)
Has(s, x) == \E i \in 1 .. Len(s) : s[i] = x

(* Append adds one element to what a sequence has.                         *)
LEMMA HasAppended ==
  ASSUME NEW X, NEW s \in Seq(X), NEW y, NEW x
  PROVE  Has(Append(s, y), x) <=> Has(s, x) \/ x = y
<1>1. /\ Len(s) \in Nat /\ Len(Append(s, y)) = Len(s) + 1 /\ Append(s, y)[Len(s) + 1] = y
      /\ \A i \in 1 .. Len(s) : Append(s, y)[i] = s[i]
  OBVIOUS
<1>2. ASSUME NEW i \in 1 .. Len(s), s[i] = x PROVE Has(Append(s, y), x)
  <2>1. i \in 1 .. Len(Append(s, y)) /\ Append(s, y)[i] = x
    BY <1>1, <1>2
  <2>. QED
    BY <2>1 DEF Has
<1>3. ASSUME x = y PROVE Has(Append(s, y), x)
  <2>1. Len(s) + 1 \in 1 .. Len(Append(s, y))
    BY <1>1
  <2>. QED
    BY <1>1, <1>3, <2>1 DEF Has
<1>4. ASSUME NEW i \in 1 .. Len(Append(s, y)), Append(s, y)[i] = x, x # y PROVE Has(s, x)
  <2>1. i \in 1 .. Len(s)
    BY <1>1, <1>4
  <2>. QED
    BY <1>1, <1>4, <2>1 DEF Has
<1>. QED
  BY <1>2, <1>3, <1>4 DEF Has

(* What the filter keeps is what is in the set.                            *)
LEMMA FilterHolds ==
  ASSUME NEW X, NEW S, NEW t \in Seq(X), NEW x
  PROVE  Has(Only(t, S), x) <=> x \in S /\ Has(t, x)
<1>. DEFINE Q == {s \in Seq(X) : Has(Only(s, S), x) <=> x \in S /\ Has(s, x)}
<1>1. <<>> \in Q
  <2>1. Only(<<>>, S) = <<>> /\ <<>> \in Seq(X)
    BY Filtering
  <2>2. ~Has(<<>>, x)
    BY DEF Has
  <2>. QED
    BY <2>1, <2>2
<1>2. ASSUME NEW s \in Seq(X) \cap Q, NEW y \in X PROVE Append(s, y) \in Q
  <2>1. s \in Seq(X) /\ y \in X /\ Append(s, y) \in Seq(X)
    BY <1>2
  <2>2. Has(Only(s, S), x) <=> x \in S /\ Has(s, x)
    BY <1>2
  <2>3. Only(s, S) \in Seq(X)
    BY <2>1, Filtering
  <2>4. Only(Append(s, y), S) = IF y \in S THEN Append(Only(s, S), y) ELSE Only(s, S)
    BY <2>1, FilterAppend
  <2>5. Has(Append(s, y), x) <=> Has(s, x) \/ x = y
    BY <2>1, HasAppended
  <2>6. Has(Append(Only(s, S), y), x) <=> Has(Only(s, S), x) \/ x = y
    BY <2>1, <2>3, HasAppended
  <2>7. Has(Only(Append(s, y), S), x) <=> x \in S /\ Has(Append(s, y), x)
    <3>1. CASE y \in S
      BY <2>2, <2>4, <2>5, <2>6, <3>1
    <3>2. CASE y \notin S
      BY <2>2, <2>4, <2>5, <3>2
    <3>. QED
      BY <3>1, <3>2
  <2>. QED
    BY <2>1, <2>7
<1>3. Seq(X) \subseteq Q
  <2>. HIDE DEF Q
  <2>. QED
    BY <1>1, <1>2, SeqInduction
<1>. QED
  BY <1>3

(* Whatever the filter returns was there, and is in the set.               *)
LEMMA FilterKeeps ==
  ASSUME NEW X, NEW S, NEW s \in Seq(X), NEW k \in 1 .. Len(Only(s, S))
  PROVE  Only(s, S)[k] \in S /\ \E j \in 1 .. Len(s) : s[j] = Only(s, S)[k]
<1>. DEFINE x == Only(s, S)[k]
<1>1. Has(Only(s, S), x)
  BY DEF Has
<1>. HIDE DEF x
<1>2. x \in S /\ Has(s, x)
  BY <1>1, FilterHolds
<1>. QED
  BY <1>2 DEF Has, x

(* The filter returns nothing where nothing is in the set.                 *)
LEMMA FilterEmpty ==
  ASSUME NEW X, NEW S, NEW s \in Seq(X)
  PROVE  Only(s, S) = <<>> <=> \A i \in 1 .. Len(s) : s[i] \notin S
<1>1. Only(s, S) \in Seq(X)
  BY Filtering
<1>2. Only(s, S) = <<>> <=> Len(Only(s, S)) = 0
  BY <1>1
<1>3. ASSUME Len(Only(s, S)) # 0 PROVE \E i \in 1 .. Len(s) : s[i] \in S
  <2>1. 1 \in 1 .. Len(Only(s, S))
    BY <1>1, <1>3
  <2>2. Only(s, S)[1] \in S /\ \E j \in 1 .. Len(s) : s[j] = Only(s, S)[1]
    BY <2>1, FilterKeeps
  <2>. QED
    BY <2>2
<1>4. ASSUME NEW i \in 1 .. Len(s), s[i] \in S PROVE Len(Only(s, S)) # 0
  <2>1. Has(s, s[i])
    BY DEF Has
  <2>2. Has(Only(s, S), s[i])
    BY <1>4, <2>1, FilterHolds
  <2>. QED
    BY <1>1, <2>2 DEF Has
<1>. QED
  BY <1>2, <1>3, <1>4

(* Append and concatenation associate.                                     *)
LEMMA ConcatAppend ==
  ASSUME NEW X, NEW s \in Seq(X), NEW t \in Seq(X), NEW x \in X
  PROVE  s \o Append(t, x) = Append(s \o t, x)
OBVIOUS

(* The filter of a concatenation.                                          *)
LEMMA FilterConcat ==
  ASSUME NEW X, NEW S, NEW s \in Seq(X)
  PROVE  \A t \in Seq(X) : Only(s \o t, S) = Only(s, S) \o Only(t, S)
<1>. DEFINE Q == {t \in Seq(X) : Only(s \o t, S) = Only(s, S) \o Only(t, S)}
<1>1. \A t \in Seq(X) : Only(t, S) \in Seq(X)
  BY Filtering
<1>2. <<>> \in Q
  <2>1. s \o <<>> = s /\ Only(s, S) \o <<>> = Only(s, S) /\ <<>> \in Seq(X)
    BY <1>1
  <2>2. Only(<<>>, S) = <<>>
    BY Filtering
  <2>. QED
    BY <2>1, <2>2
<1>3. ASSUME NEW t \in Seq(X) \cap Q, NEW x \in X PROVE Append(t, x) \in Q
  <2>1. s \o t \in Seq(X) /\ Append(t, x) \in Seq(X) /\ s \o Append(t, x) = Append(s \o t, x)
    BY ConcatAppend
  <2>2. Only(s \o t, S) = Only(s, S) \o Only(t, S)
    BY <1>3
  <2>3. /\ Only(Append(t, x), S) = IF x \in S THEN Append(Only(t, S), x) ELSE Only(t, S)
        /\ Only(Append(s \o t, x), S) = IF x \in S THEN Append(Only(s \o t, S), x) ELSE Only(s \o t, S)
    <3>1. t \in Seq(X) /\ x \in X /\ s \o t \in Seq(X)
      BY <1>3, <2>1
    <3>. DEFINE u == s \o t
    <3>. HIDE DEF u
    <3>2. Only(Append(t, x), S) = IF x \in S THEN Append(Only(t, S), x) ELSE Only(t, S)
      BY <3>1, FilterAppend
    <3>3. u \in Seq(X)
      BY <3>1 DEF u
    <3>4. Only(Append(u, x), S) = IF x \in S THEN Append(Only(u, S), x) ELSE Only(u, S)
      BY <3>1, <3>3, FilterAppend
    <3>. QED
      BY <3>2, <3>4 DEF u
  <2>4. Only(s, S) \o Append(Only(t, S), x) = Append(Only(s, S) \o Only(t, S), x)
    BY <1>1, ConcatAppend
  <2>5. Only(s \o Append(t, x), S) = Only(s, S) \o Only(Append(t, x), S)
    BY <2>1, <2>2, <2>3, <2>4
  <2>. QED
    BY <2>1, <2>5
<1>4. Seq(X) \subseteq Q
  <2>. HIDE DEF Q
  <2>. QED
    BY <1>2, <1>3, SeqInduction
<1>. QED
  BY <1>4

(* Edges have the targets they have.                                       *)
LEMMA TargetsOf ==
  /\ Targets(<<>>) = <<>>
  /\ \A s \in Seq(Edge) :
       /\ Targets(s) \in Seq(NodeId) /\ Len(Targets(s)) = Len(s)
       /\ \A i \in 1 .. Len(s) : Targets(s)[i] = s[i].to
  /\ \A s \in Seq(Edge), e \in Edge : Targets(Append(s, e)) = Append(Targets(s), e.to)
  /\ \A s, t \in Seq(Edge) : Targets(s \o t) = Targets(s) \o Targets(t)
<1>1. Targets(<<>>) = <<>>
  BY DEF Targets
<1>2. ASSUME NEW s \in Seq(Edge)
      PROVE  /\ Targets(s) \in Seq(NodeId) /\ Len(Targets(s)) = Len(s)
             /\ \A i \in 1 .. Len(s) : Targets(s)[i] = s[i].to
  <2>1. Len(s) \in Nat /\ \A i \in 1 .. Len(s) : s[i] \in Edge
    OBVIOUS
  <2>2. \A i \in 1 .. Len(s) : s[i].to \in NodeId
    BY <2>1 DEF Edge
  <2>. QED
    BY <2>1, <2>2 DEF Targets
<1>3. ASSUME NEW s \in Seq(Edge), NEW e \in Edge
      PROVE  Targets(Append(s, e)) = Append(Targets(s), e.to)
  <2>. DEFINE a == Targets(Append(s, e))
              b == Append(Targets(s), e.to)
  <2>0. e.to \in NodeId
    BY DEF Edge
  <2>1. e.to \in NodeId /\ Append(s, e) \in Seq(Edge) /\ Targets(s) \in Seq(NodeId) /\ Len(Targets(s)) = Len(s)
    BY <1>2, <2>0
  <2>2. a \in Seq(NodeId) /\ Len(a) = Len(s) + 1 /\ \A i \in 1 .. Len(s) + 1 : a[i] = Append(s, e)[i].to
    <3>1. Len(Append(s, e)) = Len(s) + 1
      OBVIOUS
    <3>. QED
      BY <1>2, <2>1, <3>1
  <2>3. b \in Seq(NodeId) /\ Len(b) = Len(s) + 1
    BY <2>1
  <2>4. ASSUME NEW i \in 1 .. Len(s) + 1 PROVE a[i] = b[i]
    <3>1. CASE i \in 1 .. Len(s)
      <4>1. a[i] = s[i].to /\ Targets(s)[i] = s[i].to /\ b[i] = Targets(s)[i]
        BY <1>2, <2>1, <2>2, <3>1
      <4>. QED
        BY <4>1
    <3>2. CASE i = Len(s) + 1
      BY <2>1, <2>2, <3>2
    <3>. QED
      <4>1. Len(s) \in Nat
        OBVIOUS
      <4>. HIDE DEF a, b
      <4>. QED
        BY <3>1, <3>2, <4>1
  <2>. HIDE DEF a, b
  <2>5. a = b
    BY <2>2, <2>3, <2>4, SeqEqual
  <2>. QED
    BY <2>5 DEF a, b
<1>4. ASSUME NEW s \in Seq(Edge), NEW t \in Seq(Edge)
      PROVE  Targets(s \o t) = Targets(s) \o Targets(t)
  <2>. DEFINE a == Targets(s \o t)
              b == Targets(s) \o Targets(t)
              n == Len(s)
              m == Len(t)
  <2>1. /\ n \in Nat /\ m \in Nat /\ s \o t \in Seq(Edge) /\ Len(s \o t) = n + m
        /\ \A i \in 1 .. n + m : (s \o t)[i] = IF i <= n THEN s[i] ELSE t[i - n]
    BY ConcatProperties
  <2>2. a \in Seq(NodeId) /\ Len(a) = n + m /\ \A i \in 1 .. n + m : a[i] = (s \o t)[i].to
    BY <1>2, <2>1
  <2>3. /\ b \in Seq(NodeId) /\ Len(b) = n + m
        /\ \A i \in 1 .. n + m : b[i] = IF i <= n THEN Targets(s)[i] ELSE Targets(t)[i - n]
    <3>1. Targets(s) \in Seq(NodeId) /\ Targets(t) \in Seq(NodeId) /\ Len(Targets(s)) = n /\ Len(Targets(t)) = m
      BY <1>2
    <3>. QED
      <4>. DEFINE u == Targets(s)
                  v == Targets(t)
      <4>. HIDE DEF u, v
      <4>1. u \in Seq(NodeId) /\ v \in Seq(NodeId) /\ Len(u) = n /\ Len(v) = m
        BY <3>1 DEF u, v
      <4>2. /\ u \o v \in Seq(NodeId) /\ Len(u \o v) = n + m
            /\ \A i \in 1 .. n + m : (u \o v)[i] = IF i <= n THEN u[i] ELSE v[i - n]
        <5>. HIDE DEF n, m
        <5>. QED
          BY <4>1, ConcatProperties
      <4>. QED
        BY <4>2 DEF u, v
  <2>4. ASSUME NEW i \in 1 .. n + m PROVE a[i] = b[i]
    <3>1. CASE i <= n
      <4>1. i \in 1 .. n
        BY <2>1, <3>1
      <4>. QED
        BY <1>2, <2>1, <2>2, <2>3, <3>1, <4>1
    <3>2. CASE ~(i <= n)
      <4>1. i - n \in 1 .. m
        BY <2>1, <3>2
      <4>. QED
        BY <1>2, <2>1, <2>2, <2>3, <3>2, <4>1
    <3>. QED
      BY <3>1, <3>2
  <2>. HIDE DEF a, b, n, m
  <2>5. a = b
    BY <2>1, <2>2, <2>3, <2>4, SeqEqual
  <2>. QED
    BY <2>5 DEF a, b
<1>. QED
  BY <1>1, <1>2, <1>3, <1>4

-----------------------------------------------------------------------------
(* What each operation does to the edges and to the adjacency.             *)

(* remove_node filters both alike.                                         *)
LEMMA NoneOf ==
  ASSUME NEW n \in NodeId, NEW es \in Seq(Edge)
  PROVE  Only(Only(es, Away(n)), From(n)) = <<>>
<1>. DEFINE s == Only(es, Away(n))
<1>1. s \in Seq(Edge)
  BY Filtering
<1>2. ASSUME NEW i \in 1 .. Len(s) PROVE s[i] \notin From(n)
  <2>1. s[i] \in Away(n)
    BY FilterKeeps
  <2>. QED
    BY <2>1 DEF Away
<1>. HIDE DEF s
<1>3. Only(s, From(n)) = <<>>
  BY <1>1, <1>2, FilterEmpty
<1>. QED
  BY <1>3 DEF s

(* remove_node: what is left of another node's adjacency lists the targets *)
(* of what is left of its edges.                                           *)
LEMMA OthersOf ==
  ASSUME NEW n \in NodeId, NEW m \in NodeId, m # n
  PROVE  \A es \in Seq(Edge) :
            Only(Targets(Only(es, From(m))), NodeId \ {n}) = Targets(Only(Only(es, Away(n)), From(m)))
<1>. DEFINE L(s) == Only(Targets(Only(s, From(m))), NodeId \ {n})
            R(s) == Targets(Only(Only(s, Away(n)), From(m)))
            Q == {s \in Seq(Edge) : L(s) = R(s)}
<1>1. <<>> \in Q
  <2>1. \A S : Only(<<>>, S) = <<>>
    BY Filtering
  <2>2. L(<<>>) = <<>> /\ R(<<>>) = <<>>
    BY <2>1, TargetsOf
  <2>. QED
    BY <2>2
<1>2. ASSUME NEW s \in Seq(Edge) \cap Q, NEW e \in Edge PROVE Append(s, e) \in Q
  <2>. DEFINE f == Only(s, From(m))
              a == Only(s, Away(n))
              fa == Only(a, From(m))
  <2>1. s \in Seq(Edge) /\ f \in Seq(Edge) /\ a \in Seq(Edge)
    BY <1>2, Filtering
  <2>2. fa \in Seq(Edge)
    <3>. HIDE DEF a
    <3>. QED
      BY <2>1, Filtering
  <2>3. e.to \in NodeId /\ Targets(f) \in Seq(NodeId)
    <3>1. Targets(f) \in Seq(NodeId)
      <4>. HIDE DEF f
      <4>. QED
        BY <2>1, TargetsOf
    <3>. QED
      BY <3>1 DEF Edge
  <2>4. Only(Targets(f), NodeId \ {n}) = Targets(fa)
    BY <1>2
  <2>5. /\ Only(Append(s, e), From(m)) = IF e \in From(m) THEN Append(f, e) ELSE f
        /\ Only(Append(s, e), Away(n)) = IF e \in Away(n) THEN Append(a, e) ELSE a
    <3>1. Only(Append(s, e), From(m)) = IF e \in From(m) THEN Append(f, e) ELSE f
      BY <2>1, FilterAppend
    <3>2. Only(Append(s, e), Away(n)) = IF e \in Away(n) THEN Append(a, e) ELSE a
      BY <2>1, FilterAppend
    <3>. QED
      BY <3>1, <3>2
  <2>6. Append(s, e) \in Seq(Edge)
    BY <2>1
  <2>. HIDE DEF f, a
  <2>7. Only(Append(a, e), From(m)) = IF e \in From(m) THEN Append(fa, e) ELSE fa
    BY <2>1, FilterAppend DEF fa
  <2>. HIDE DEF fa
  <2>8. Targets(Append(f, e)) = Append(Targets(f), e.to) /\ Targets(Append(fa, e)) = Append(Targets(fa), e.to)
    BY <2>1, <2>2, TargetsOf
  <2>9. Only(Append(Targets(f), e.to), NodeId \ {n}) =
           IF e.to \in NodeId \ {n} THEN Append(Targets(fa), e.to) ELSE Targets(fa)
    <3>. DEFINE u == Targets(f)
    <3>. HIDE DEF u
    <3>1. u \in Seq(NodeId)
      BY <2>3 DEF u
    <3>. DEFINE t == e.to
                S == NodeId \ {n}
    <3>2. t \in NodeId
      BY <2>3
    <3>. HIDE DEF t, S
    <3>3. Only(Append(u, t), S) = IF t \in S THEN Append(Only(u, S), t) ELSE Only(u, S)
      BY <3>1, <3>2, FilterAppend
    <3>. QED
      BY <2>4, <3>3 DEF u, t, S
  <2>10. CASE e.from = m
    <3>1. e \in From(m) /\ (e \in Away(n) <=> e.to \in NodeId \ {n})
      BY <2>3, <2>10 DEF From, To, Away
    <3>2. L(Append(s, e)) = IF e \in Away(n) THEN Append(Targets(fa), e.to) ELSE Targets(fa)
      BY <2>5, <2>8, <2>9, <3>1
    <3>3. R(Append(s, e)) = IF e \in Away(n) THEN Append(Targets(fa), e.to) ELSE Targets(fa)
      BY <2>5, <2>7, <2>8, <3>1 DEF fa
    <3>. QED
      BY <2>6, <3>2, <3>3
  <2>11. CASE e.from # m
    <3>1. e \notin From(m)
      BY <2>11 DEF From
    <3>2. L(Append(s, e)) = Targets(fa)
      BY <2>4, <2>5, <3>1
    <3>3. R(Append(s, e)) = Targets(fa)
      BY <2>5, <2>7, <3>1 DEF fa
    <3>. QED
      BY <2>6, <3>2, <3>3
  <2>. QED
    BY <2>10, <2>11
<1>3. Seq(Edge) \subseteq Q
  <2>. HIDE DEF Q
  <2>. QED
    BY <1>1, <1>2, SeqInduction
<1>. QED
  BY <1>3

(* A sequence is what is before one of its places, that, and what is after. *)
Around(X, s, i, p, q) ==
  /\ p \in Seq(X) /\ q \in Seq(X) /\ Len(p) = i - 1 /\ Len(q) = Len(s) - i
  /\ \A j \in 1 .. Len(p) : p[j] = s[j]
  /\ \A j \in 1 .. Len(q) : q[j] = s[i + j]
  /\ s = (p \o <<s[i]>>) \o q
  /\ RemoveAt(s, i) = p \o q
LEMMA Parted ==
  ASSUME NEW X, NEW s, NEW i, s \in Seq(X), i \in 1 .. Len(s)
  PROVE  Around(X, s, i, SubSeq(s, 1, i - 1), SubSeq(s, i + 1, Len(s)))
<1>. DEFINE p == SubSeq(s, 1, i - 1)
            q == SubSeq(s, i + 1, Len(s))
            n == Len(s)
<1>1. n \in Nat /\ i \in 1 .. n /\ \A j \in 1 .. n : s[j] \in X
  OBVIOUS
<1>2. p \in Seq(X) /\ Len(p) = i - 1 /\ \A j \in 1 .. i - 1 : p[j] = s[j]
  <2>1. \A j \in 1 .. i - 1 : s[j] \in X
    BY <1>1
  <2>. QED
    BY <1>1, <2>1, SubSeqProperties
<1>3. q \in Seq(X) /\ Len(q) = n - i /\ \A j \in 1 .. n - i : q[j] = s[i + j]
  <2>1. \A j \in i + 1 .. n : s[j] \in X
    BY <1>1
  <2>2. /\ q \in Seq(X) /\ Len(q) = IF i + 1 <= n THEN n - (i + 1) + 1 ELSE 0
        /\ \A j \in 1 .. n - (i + 1) + 1 : q[j] = s[(i + 1) + j - 1]
    <3>1. i + 1 \in Int /\ n \in Int
      BY <1>1
    <3>. HIDE DEF n
    <3>. QED
      BY <2>1, <3>1, SubSeqProperties DEF n
  <2>. QED
    BY <1>1, <2>2
<1>. DEFINE r == (p \o <<s[i]>>) \o q
<1>4. r \in Seq(X) /\ Len(r) = n
      /\ \A j \in 1 .. n : r[j] = IF j < i THEN p[j] ELSE IF j = i THEN s[i] ELSE q[j - i]
  <2>. HIDE DEF p, q, n
  <2>1. s[i] \in X /\ <<s[i]>> \in Seq(X) /\ Len(<<s[i]>>) = 1 /\ <<s[i]>>[1] = s[i]
    BY <1>1
  <2>. DEFINE h == p \o <<s[i]>>
  <2>2. h \in Seq(X) /\ Len(h) = i /\ \A j \in 1 .. i : h[j] = IF j < i THEN p[j] ELSE s[i]
    <3>1. /\ h \in Seq(X) /\ Len(h) = (i - 1) + 1
          /\ \A j \in 1 .. (i - 1) + 1 : h[j] = IF j <= i - 1 THEN p[j] ELSE <<s[i]>>[j - (i - 1)]
      <4>. DEFINE o == <<s[i]>>
      <4>. HIDE DEF o
      <4>1. o \in Seq(X) /\ Len(o) = 1
        BY <2>1 DEF o
      <4>2. /\ p \o o \in Seq(X) /\ Len(p \o o) = Len(p) + Len(o)
            /\ \A j \in 1 .. Len(p) + Len(o) : (p \o o)[j] = IF j <= Len(p) THEN p[j] ELSE o[j - Len(p)]
        BY <1>2, <4>1, ConcatProperties
      <4>3. Len(p) = i - 1
        BY <1>2
      <4>. QED
        BY <4>1, <4>2, <4>3 DEF o
    <3>2. \A j \in 1 .. i : j \in 1 .. (i - 1) + 1 /\ (j < i <=> j <= i - 1) /\ (~(j < i) => j - (i - 1) = 1)
      BY <1>1
    <3>. QED
      BY <1>1, <2>1, <3>1, <3>2
  <2>. HIDE DEF h
  <2>3. /\ h \o q \in Seq(X) /\ Len(h \o q) = i + (n - i)
        /\ \A j \in 1 .. i + (n - i) : (h \o q)[j] = IF j <= i THEN h[j] ELSE q[j - i]
    <3>1. /\ h \o q \in Seq(X) /\ Len(h \o q) = Len(h) + Len(q)
          /\ \A j \in 1 .. Len(h) + Len(q) : (h \o q)[j] = IF j <= Len(h) THEN h[j] ELSE q[j - Len(h)]
      BY <1>3, <2>2, ConcatProperties
    <3>2. Len(h) = i /\ Len(q) = n - i
      BY <1>3, <2>2
    <3>. QED
      BY <3>1, <3>2
  <2>4. \A j \in 1 .. n : j \in 1 .. i + (n - i) /\ (j <= i => j \in 1 .. i)
    BY <1>1
  <2>5. Len(h \o q) = n
    BY <1>1, <2>3
  <2>6. \A j \in 1 .. n : (h \o q)[j] = IF j < i THEN p[j] ELSE IF j = i THEN s[i] ELSE q[j - i]
    <3>. SUFFICES ASSUME NEW j \in 1 .. n
                  PROVE  (h \o q)[j] = IF j < i THEN p[j] ELSE IF j = i THEN s[i] ELSE q[j - i]
      OBVIOUS
    <3>1. j \in 1 .. i + (n - i) /\ (j <= i => j \in 1 .. i)
      BY <2>4
    <3>2. (h \o q)[j] = IF j <= i THEN h[j] ELSE q[j - i]
      BY <2>3, <3>1
    <3>3. j \in Int /\ i \in Int
      BY <1>1
    <3>. QED
      BY <2>2, <3>1, <3>2, <3>3
  <2>. QED
    BY <2>3, <2>5, <2>6 DEF h
<1>5. s = r
  <2>1. \A j \in 1 .. n : s[j] = r[j]
    <3>. SUFFICES ASSUME NEW j \in 1 .. n PROVE s[j] = r[j]
      OBVIOUS
    <3>1. j < i => j \in 1 .. i - 1
      BY <1>1
    <3>2. j > i => j - i \in 1 .. n - i /\ i + (j - i) = j
      BY <1>1
    <3>3. r[j] = IF j < i THEN p[j] ELSE IF j = i THEN s[i] ELSE q[j - i]
      BY <1>4
    <3>4. j \in Int /\ i \in Int
      BY <1>1
    <3>. HIDE DEF p, q, r, n
    <3>. QED
      BY <1>2, <1>3, <3>1, <3>2, <3>3, <3>4
  <2>. HIDE DEF r
  <2>. QED
    BY <1>4, <2>1, SeqEqual
<1>6. RemoveAt(s, i) = p \o q
  BY DEF RemoveAt
<1>7. Around(X, s, i, p, q)
  <2>. HIDE DEF p, q
  <2>1. s = (p \o <<s[i]>>) \o q
    BY <1>5
  <2>2. \A j \in 1 .. Len(p) : p[j] = s[j]
    BY <1>2
  <2>3. \A j \in 1 .. Len(q) : q[j] = s[i + j]
    BY <1>3
  <2>. HIDE DEF r
  <2>. QED
    BY <1>2, <1>3, <1>6, <2>1, <2>2, <2>3 DEF Around
<1>. QED
  BY <1>7

(* remove of the first of its kind takes that one away.                    *)
LEMMA RemovesFirst ==
  ASSUME NEW X, NEW a \in Seq(X), NEW b \in Seq(X), NEW t \in X, \A k \in 1 .. Len(a) : a[k] # t
  PROVE  RemoveFirst((a \o <<t>>) \o b, t) = a \o b
<1>. DEFINE s == (a \o <<t>>) \o b
            n == Len(a)
<1>1. n \in Nat /\ Len(b) \in Nat /\ <<t>> \in Seq(X) /\ Len(<<t>>) = 1
  OBVIOUS
<1>2. s \in Seq(X) /\ Len(s) = n + 1 + Len(b)
      /\ (\A k \in 1 .. n : s[k] = a[k]) /\ s[n + 1] = t
      /\ \A k \in 1 .. Len(b) : s[n + 1 + k] = b[k]
  BY <1>1
<1>. HIDE DEF s
<1>3. n + 1 \in 1 .. Len(s) /\ \A k \in 1 .. Len(s) : s[k] = t => n + 1 <= k
  <2>. HIDE DEF n
  <2>1. n + 1 \in 1 .. Len(s)
    BY <1>1, <1>2
  <2>2. \A k \in 1 .. n : s[k] # t
    <3>1. \A k \in 1 .. n : a[k] # t
      BY DEF n
    <3>. QED
      BY <1>2, <3>1
  <2>3. \A k \in 1 .. Len(s) : n + 1 <= k \/ k \in 1 .. n
    BY <1>1, <1>2
  <2>. QED
    BY <2>1, <2>2, <2>3
<1>. DEFINE I == {k \in 1 .. Len(s) : s[k] = t}
<1>4. I # {} /\ Min(I) = n + 1
  <2>1. n + 1 \in I /\ \A k \in I : n + 1 <= k /\ k \in Int
    BY <1>1, <1>2, <1>3
  <2>. HIDE DEF I
  <2>2. \A x \in I : (\A y \in I : x <= y) => x = n + 1
    BY <1>1, <2>1
  <2>. QED
    BY <2>1, <2>2 DEF Min
<1>. DEFINE m == n + 1
            p == SubSeq(s, 1, m - 1)
            q == SubSeq(s, m + 1, Len(s))
<1>5. RemoveFirst(s, t) = RemoveAt(s, m)
  <2>1. SelectInSeq(s, LAMBDA v : v = t) = n + 1
    BY <1>4 DEF SelectInSeq
  <2>2. \E k \in 1 .. Len(s) : s[k] = t
    BY <1>2, <1>3
  <2>. QED
    BY <2>1, <2>2 DEF RemoveFirst
<1>6. /\ p \in Seq(X) /\ q \in Seq(X) /\ Len(p) = n /\ Len(q) = Len(s) - (n + 1)
      /\ \A j \in 1 .. Len(p) : p[j] = s[j]
      /\ \A j \in 1 .. Len(q) : q[j] = s[(n + 1) + j]
      /\ RemoveAt(s, m) = p \o q
  <2>1. m \in 1 .. Len(s) /\ s \in Seq(X)
    BY <1>2, <1>3
  <2>2. m = n + 1 /\ m - 1 = n
    BY <1>1
  <2>. HIDE DEF m
  <2>3. /\ p \in Seq(X) /\ q \in Seq(X) /\ Len(p) = m - 1 /\ Len(q) = Len(s) - m
        /\ \A j \in 1 .. Len(p) : p[j] = s[j]
        /\ \A j \in 1 .. Len(q) : q[j] = s[m + j]
        /\ RemoveAt(s, m) = p \o q
    <3>1. Around(X, s, m, p, q)
      BY <2>1, Parted
    <3>. HIDE DEF p, q
    <3>. QED
      BY <3>1 DEF Around
  <2>. HIDE DEF p, q
  <2>. QED
    BY <2>2, <2>3
<1>. HIDE DEF m, p, q
<1>7. p = a
  <2>1. Len(p) = Len(a) /\ \A j \in 1 .. Len(p) : p[j] = a[j]
    BY <1>1, <1>2, <1>6
  <2>. HIDE DEF n
  <2>. QED
    BY <1>6, <2>1, SeqEqual
<1>8. q = b
  <2>1. Len(q) = Len(b)
    BY <1>1, <1>2, <1>6
  <2>2. \A j \in 1 .. Len(q) : q[j] = b[j]
    BY <1>1, <1>2, <1>6, <2>1
  <2>. HIDE DEF n
  <2>. QED
    BY <1>6, <2>1, <2>2, SeqEqual
<1>. QED
  BY <1>5, <1>6, <1>7, <1>8 DEF s

(* A graph whose parts agree, and an edge of it the first of its kind.     *)
InSync(g) == \A n \in NodeId : g.adjacency[n] = Targets(Outgoing(g, n))
Sound(g) ==
  /\ g \in FlowGraphs
  /\ \A i \in 1 .. Len(g.edges) : Connectable(g, g.edges[i])
  /\ InSync(g)

(* An edge is its two ends.                                                *)
LEMMA SameEdge ==
  ASSUME NEW d \in Edge, NEW e \in Edge, d.from = e.from, d.to = e.to
  PROVE  d = e
BY DEF Edge

(* disconnect of the first of parallel edges takes the same one from the   *)
(* adjacency.                                                              *)
LEMMA EdgeGone ==
  ASSUME NEW g, Sound(g), NEW i \in 1 .. Len(g.edges), \A j \in 1 .. i - 1 : g.edges[j] # g.edges[i]
  PROVE  Sound(WithoutEdge(g, i))
<1>. DEFINE es == g.edges
            e == es[i]
            p == SubSeq(es, 1, i - 1)
            q == SubSeq(es, i + 1, Len(es))
            r == p \o q
            h == WithoutEdge(g, i)
<1>1. /\ g \in FlowGraphs /\ es \in Seq(Edge) /\ g.adjacency \in [NodeId -> Seq(NodeId)]
      /\ e \in Edge /\ e.from \in NodeId /\ e.to \in NodeId
  <2>1. g \in FlowGraphs /\ es \in Seq(Edge) /\ g.adjacency \in [NodeId -> Seq(NodeId)]
    BY DEF Sound, FlowGraphs
  <2>2. e \in Edge
    BY <2>1
  <2>. HIDE DEF es
  <2>. QED
    BY <2>1, <2>2 DEF Edge
<1>2. /\ p \in Seq(Edge) /\ q \in Seq(Edge) /\ Len(p) = i - 1 /\ Len(q) = Len(es) - i
      /\ \A j \in 1 .. Len(p) : p[j] = es[j]
      /\ \A j \in 1 .. Len(q) : q[j] = es[i + j]
      /\ es = (p \o <<e>>) \o q
      /\ RemoveAt(es, i) = r
  <2>1. es \in Seq(Edge) /\ i \in 1 .. Len(es)
    BY <1>1
  <2>. HIDE DEF es
  <2>2. Around(Edge, es, i, p, q)
    BY <2>1, Parted
  <2>. HIDE DEF p, q
  <2>. QED
    BY <2>2 DEF Around
<1>3. r \in Seq(Edge) /\ Len(r) = Len(es) - 1
      /\ \A j \in 1 .. Len(r) : r[j] = IF j < i THEN es[j] ELSE es[j + 1]
  <2>1. r \in Seq(Edge) /\ Len(r) = Len(p) + Len(q)
        /\ \A j \in 1 .. Len(p) + Len(q) : r[j] = IF j <= Len(p) THEN p[j] ELSE q[j - Len(p)]
    <3>. HIDE DEF p, q
    <3>. QED
      BY <1>2, ConcatProperties
  <2>2. i \in Int /\ Len(es) \in Int /\ 1 <= i /\ i <= Len(es)
    BY <1>1
  <2>3. ASSUME NEW j \in 1 .. Len(r) PROVE r[j] = IF j < i THEN es[j] ELSE es[j + 1]
    <3>. HIDE DEF es, p, q, r
    <3>1. j \in Int /\ j \in 1 .. Len(p) + Len(q)
      BY <2>1
    <3>2. CASE j < i
      <4>1. j <= Len(p) /\ j \in 1 .. Len(p)
        BY <1>2, <2>2, <3>1, <3>2
      <4>. QED
        BY <1>2, <2>1, <3>1, <3>2, <4>1
    <3>3. CASE ~(j < i)
      <4>1. Len(p) = i - 1 /\ Len(q) = Len(es) - i
        BY <1>2
      <4>2. ~(j <= Len(p)) /\ i + (j - Len(p)) = j + 1
        BY <2>2, <3>1, <3>3, <4>1
      <4>3. j - Len(p) \in 1 .. Len(q)
        BY <2>2, <3>1, <3>3, <4>1
      <4>4. r[j] = q[j - Len(p)] /\ q[j - Len(p)] = es[j + 1]
        BY <1>2, <2>1, <3>1, <4>2, <4>3
      <4>. QED
        BY <3>3, <4>4
    <3>. QED
      BY <3>2, <3>3
  <2>4. Len(r) = Len(es) - 1
    <3>. HIDE DEF es, p, q, r
    <3>. QED
      BY <1>2, <2>1, <2>2
  <2>. QED
    BY <2>1, <2>3, <2>4
<1>. HIDE DEF es, p, q, r
<1>4. /\ h = [g EXCEPT !.edges = r, !.adjacency[e.from] = RemoveFirst(@, e.to)]
      /\ h.edges = r /\ h.nodes = g.nodes
      /\ h.adjacency = [g.adjacency EXCEPT ![e.from] = RemoveFirst(@, e.to)]
  <2>1. h = [g EXCEPT !.edges = r, !.adjacency[e.from] = RemoveFirst(@, e.to)]
    BY <1>2 DEF WithoutEdge, es
  <2>. QED
    BY <1>1, <2>1 DEF FlowGraphs
<1>5. ASSUME NEW n \in NodeId
      PROVE  h.adjacency[n] = Targets(Only(r, From(n)))
  <2>. DEFINE fp == Only(p, From(n))
              fq == Only(q, From(n))
              fe == Only(<<e>>, From(n))
  <2>1. fp \in Seq(Edge) /\ fq \in Seq(Edge)
    BY <1>2, Filtering
  <2>2. fe = IF e \in From(n) THEN <<e>> ELSE <<>>
    <3>. DEFINE z == <<>>
    <3>1. <<e>> = Append(z, e) /\ z \in Seq(Edge)
      BY <1>1
    <3>2. Only(z, From(n)) = z
      BY Filtering
    <3>. HIDE DEF z
    <3>3. Only(Append(z, e), From(n)) = IF e \in From(n) THEN Append(Only(z, From(n)), e) ELSE Only(z, From(n))
      <4>1. z \in Seq(Edge)
        BY <3>1
      <4>2. e \in Edge
        BY <1>1
      <4>. HIDE DEF e
      <4>. QED
        BY <4>1, <4>2, FilterAppend
    <3>. QED
      BY <3>1, <3>2, <3>3 DEF z
  <2>3. Only(es, From(n)) = (fp \o fe) \o fq
    <3>. DEFINE o == <<e>>
    <3>1. o \in Seq(Edge)
      BY <1>1
    <3>. HIDE DEF o
    <3>2. Only(p \o o, From(n)) = fp \o Only(o, From(n))
      BY <1>2, <3>1, FilterConcat
    <3>. DEFINE po == p \o o
    <3>3. po \in Seq(Edge)
      BY <1>2, <3>1
    <3>. HIDE DEF po
    <3>4. Only(po \o q, From(n)) = Only(po, From(n)) \o fq
      BY <1>2, <3>3, FilterConcat
    <3>. QED
      BY <1>2, <3>2, <3>4 DEF po, o
  <2>4. Only(r, From(n)) = fp \o fq
    BY <1>2, FilterConcat DEF r
  <2>5. g.adjacency[n] = Targets(Only(es, From(n)))
    BY DEF Sound, InSync, Outgoing, es
  <2>6. Targets(fp \o fq) = Targets(fp) \o Targets(fq)
    <3>. HIDE DEF fp, fq
    <3>. QED
      BY <2>1, TargetsOf
  <2>7. CASE e.from = n
    <3>. DEFINE a == Targets(fp)
                b == Targets(fq)
    <3>1. a \in Seq(NodeId) /\ b \in Seq(NodeId) /\ Len(a) = Len(fp) /\ \A k \in 1 .. Len(fp) : a[k] = fp[k].to
      <4>. HIDE DEF fp, fq
      <4>. QED
        BY <2>1, TargetsOf
    <3>2. g.adjacency[n] = (a \o <<e.to>>) \o b
      <4>1. fe = <<e>>
        BY <1>1, <2>2, <2>7 DEF From
      <4>2. fp \o <<e>> = Append(fp, e) /\ Append(fp, e) \in Seq(Edge)
        <5>. HIDE DEF fp
        <5>. QED
          BY <1>1, <2>1
      <4>3. Targets(Append(fp, e)) = Append(a, e.to)
        <5>. HIDE DEF fp
        <5>. QED
          BY <1>1, <2>1, TargetsOf
      <4>4. Targets(Append(fp, e) \o fq) = Append(a, e.to) \o b
        <5>. DEFINE x == Append(fp, e)
        <5>1. x \in Seq(Edge)
          BY <4>2
        <5>. HIDE DEF x, fp, fq
        <5>2. Targets(x \o fq) = Targets(x) \o b
          BY <2>1, <5>1, TargetsOf
        <5>. QED
          BY <4>3, <5>2 DEF x
      <4>5. Append(a, e.to) = a \o <<e.to>>
        <5>. HIDE DEF a
        <5>. QED
          BY <1>1, <3>1
      <4>. QED
        BY <2>3, <2>5, <4>1, <4>2, <4>4, <4>5
    <3>3. \A k \in 1 .. Len(a) : a[k] # e.to
      <4>. SUFFICES ASSUME NEW k \in 1 .. Len(a), a[k] = e.to PROVE FALSE
        OBVIOUS
      <4>1. fp[k] \in From(n) /\ \E j \in 1 .. Len(p) : p[j] = fp[k]
        <5>1. k \in 1 .. Len(fp)
          BY <3>1
        <5>. QED
          BY <1>2, <5>1, FilterKeeps
      <4>2. fp[k].to = e.to /\ fp[k] \in Edge /\ fp[k].from = n
        BY <3>1, <4>1 DEF From
      <4>3. fp[k] = e
        <5>. DEFINE d == fp[k]
        <5>1. d \in Edge /\ d.from = e.from /\ d.to = e.to
          BY <2>7, <4>2
        <5>. HIDE DEF d
        <5>2. d = e
          BY <1>1, <5>1, SameEdge
        <5>. QED
          BY <5>2 DEF d
      <4>4. PICK j \in 1 .. i - 1 : es[j] = e
        BY <1>2, <4>1, <4>3
      <4>. QED
        BY <4>4 DEF es
    <3>4. RemoveFirst(g.adjacency[n], e.to) = a \o b
      <4>. DEFINE t == e.to
      <4>1. t \in NodeId /\ \A k \in 1 .. Len(a) : a[k] # t
        BY <1>1, <3>3
      <4>. HIDE DEF a, b, t
      <4>2. RemoveFirst((a \o <<t>>) \o b, t) = a \o b
        BY <3>1, <4>1, RemovesFirst
      <4>. QED
        BY <3>2, <4>2 DEF t
    <3>5. h.adjacency[n] = RemoveFirst(g.adjacency[n], e.to)
      BY <1>1, <1>4, <2>7
    <3>. QED
      BY <2>4, <2>6, <3>4, <3>5
  <2>8. CASE e.from # n
    <3>1. h.adjacency[n] = g.adjacency[n]
      BY <1>1, <1>4, <2>8
    <3>2. fe = <<>>
      BY <2>2, <2>8 DEF From
    <3>3. (fp \o <<>>) \o fq = fp \o fq
      <4>. HIDE DEF fp, fq
      <4>. QED
        BY <2>1
    <3>. QED
      BY <2>3, <2>4, <2>5, <3>1, <3>2, <3>3
  <2>. QED
    BY <2>7, <2>8
<1>6. ASSUME NEW j \in 1 .. Len(r) PROVE Connectable(h, r[j])
  <2>1. r[j] = IF j < i THEN es[j] ELSE es[j + 1]
    BY <1>3
  <2>2. Len(es) \in Nat /\ \A k \in 1 .. Len(es) : Connectable(g, es[k])
    BY <1>1 DEF Sound, es
  <2>3. j \in 1 .. Len(es) /\ j + 1 \in 1 .. Len(es)
    BY <1>3, <2>2
  <2>. QED
    BY <1>4, <2>1, <2>2, <2>3 DEF Connectable
<1>7. h.adjacency \in [NodeId -> Seq(NodeId)]
  <2>1. \A n \in NodeId : h.adjacency[n] \in Seq(NodeId)
    <3>. SUFFICES ASSUME NEW n \in NodeId PROVE h.adjacency[n] \in Seq(NodeId)
      OBVIOUS
    <3>1. Only(r, From(n)) \in Seq(Edge)
      BY <1>3, Filtering
    <3>. QED
      BY <1>5, <3>1, TargetsOf
  <2>. QED
    BY <1>1, <1>4, <2>1
<1>8. h \in FlowGraphs
  BY <1>1, <1>3, <1>4, <1>7 DEF FlowGraphs
<1>. QED
  BY <1>4, <1>5, <1>6, <1>8 DEF Sound, InSync, Outgoing

(* add_node keeps a sound graph sound.                                     *)
LEMMA NodeAdded ==
  ASSUME NEW g, Sound(g), NEW n \in NodeId, NEW type
  PROVE  /\ Sound(WithNode(g, n, type))
         /\ WithNode(g, n, type).edges = g.edges /\ WithNode(g, n, type).nodes = g.nodes \cup {n}
<1>. DEFINE h == WithNode(g, n, type)
<1>1. g \in FlowGraphs
  BY DEF Sound
<1>2. h \in FlowGraphs /\ h.edges = g.edges /\ h.adjacency = g.adjacency /\ h.nodes = g.nodes \cup {n}
  BY <1>1 DEF WithNode, FlowGraphs
<1>. HIDE DEF h
<1>3. \A i \in 1 .. Len(h.edges) : Connectable(h, h.edges[i])
  BY <1>2 DEF Sound, Connectable
<1>4. InSync(h)
  BY <1>2 DEF Sound, InSync, Outgoing
<1>. QED
  BY <1>2, <1>3, <1>4 DEF Sound, h

(* remove_node keeps a sound graph sound: the edges and the adjacency lose *)
(* the same entries.                                                       *)
LEMMA NodeTaken ==
  ASSUME NEW g, Sound(g), NEW n \in NodeId
  PROVE  Sound(WithoutNode(g, n)) /\ WithoutNode(g, n).nodes = g.nodes \ {n}
<1>. DEFINE h == WithoutNode(g, n)
            es == g.edges
            r == Only(es, Away(n))
<1>1. g \in FlowGraphs /\ es \in Seq(Edge) /\ g.adjacency \in [NodeId -> Seq(NodeId)]
  BY DEF Sound, FlowGraphs
<1>2. r \in Seq(Edge)
  BY <1>1, Filtering
<1>3. /\ h.nodes = g.nodes \ {n} /\ h.edges = r
      /\ h.adjacency = [m \in NodeId |-> IF m = n THEN <<>> ELSE Only(g.adjacency[m], NodeId \ {n})]
      /\ (h.adjacency \in [NodeId -> Seq(NodeId)] => h \in FlowGraphs)
  BY <1>1, <1>2 DEF WithoutNode, FlowGraphs
<1>. HIDE DEF h, r
<1>4. ASSUME NEW m \in NodeId
      PROVE  h.adjacency[m] = Targets(Only(r, From(m))) /\ h.adjacency[m] \in Seq(NodeId)
  <2>1. g.adjacency[m] = Targets(Only(es, From(m))) /\ g.adjacency[m] \in Seq(NodeId)
    BY <1>1 DEF Sound, InSync, Outgoing
  <2>2. CASE m = n
    <3>1. Only(r, From(m)) = <<>>
      BY <1>1, <2>2, NoneOf DEF r
    <3>2. h.adjacency[m] = <<>>
      BY <1>3, <2>2
    <3>. QED
      BY <3>1, <3>2, TargetsOf
  <2>3. CASE m # n
    <3>1. h.adjacency[m] = Only(g.adjacency[m], NodeId \ {n})
      BY <1>3, <2>3
    <3>2. Only(Targets(Only(es, From(m))), NodeId \ {n}) = Targets(Only(r, From(m)))
      BY <1>1, <2>3, OthersOf DEF r
    <3>3. Only(g.adjacency[m], NodeId \ {n}) \in Seq(NodeId)
      BY <2>1, Filtering
    <3>. QED
      BY <2>1, <3>1, <3>2, <3>3
  <2>. QED
    BY <2>2, <2>3
<1>5. h.adjacency \in [NodeId -> Seq(NodeId)]
  BY <1>3, <1>4
<1>6. ASSUME NEW i \in 1 .. Len(r) PROVE Connectable(h, r[i])
  <2>1. r[i] \in Away(n) /\ \E j \in 1 .. Len(es) : es[j] = r[i]
    <3>1. es \in Seq(Edge) /\ i \in 1 .. Len(Only(es, Away(n)))
      BY <1>1 DEF r
    <3>. HIDE DEF es
    <3>. QED
      BY <3>1, FilterKeeps DEF r
  <2>2. r[i].from # n /\ r[i].to # n
    BY <2>1 DEF Away, From, To
  <2>. QED
    BY <1>3, <2>1, <2>2 DEF Sound, Connectable
<1>. QED
  BY <1>3, <1>4, <1>5, <1>6 DEF Sound, InSync, Outgoing, h

(* connect of two nodes of a sound graph keeps it sound: both indexes grow *)
(* at the end.                                                             *)
LEMMA EdgeAdded ==
  ASSUME NEW g, Sound(g), NEW e \in Edge, Connectable(g, e)
  PROVE  Sound(WithEdge(g, e)) /\ WithEdge(g, e).nodes = g.nodes
<1>. DEFINE h == WithEdge(g, e)
            es == g.edges
            r == Append(es, e)
<1>1. g \in FlowGraphs /\ es \in Seq(Edge) /\ g.adjacency \in [NodeId -> Seq(NodeId)]
  BY DEF Sound, FlowGraphs
<1>2. e.from \in NodeId /\ e.to \in NodeId
  BY DEF Edge
<1>3. r \in Seq(Edge) /\ Len(r) = Len(es) + 1 /\ r[Len(es) + 1] = e /\ \A i \in 1 .. Len(es) : r[i] = es[i]
  BY <1>1
<1>4. /\ h.nodes = g.nodes /\ h.edges = r
      /\ h.adjacency = [g.adjacency EXCEPT ![e.from] = Append(@, e.to)]
      /\ (h.adjacency \in [NodeId -> Seq(NodeId)] => h \in FlowGraphs)
  BY <1>1, <1>2, <1>3 DEF WithEdge, FlowGraphs
<1>. HIDE DEF h
<1>5. ASSUME NEW m \in NodeId
      PROVE  h.adjacency[m] = Targets(Only(r, From(m))) /\ h.adjacency[m] \in Seq(NodeId)
  <2>. DEFINE f == Only(es, From(m))
  <2>1. g.adjacency[m] = Targets(f) /\ g.adjacency[m] \in Seq(NodeId)
    BY <1>1 DEF Sound, InSync, Outgoing
  <2>2. Only(r, From(m)) = IF e \in From(m) THEN Append(f, e) ELSE f
    <3>1. es \in Seq(Edge)
      BY <1>1
    <3>. HIDE DEF es
    <3>. QED
      BY <3>1, FilterAppend
  <2>3. f \in Seq(Edge)
    BY <1>1, Filtering
  <2>. HIDE DEF f
  <2>4. CASE e.from = m
    <3>1. h.adjacency[m] = Append(g.adjacency[m], e.to)
      BY <1>1, <1>4, <2>4
    <3>2. Targets(Append(f, e)) = Append(Targets(f), e.to)
      BY <2>3, TargetsOf
    <3>3. Append(g.adjacency[m], e.to) \in Seq(NodeId)
      BY <1>2, <2>1
    <3>4. e \in From(m)
      BY <2>4 DEF From
    <3>. QED
      BY <2>1, <2>2, <3>1, <3>2, <3>3, <3>4
  <2>5. CASE e.from # m
    <3>1. h.adjacency[m] = g.adjacency[m]
      BY <1>1, <1>4, <2>5
    <3>2. e \notin From(m)
      BY <2>5 DEF From
    <3>. QED
      BY <2>1, <2>2, <3>1, <3>2
  <2>. QED
    BY <2>4, <2>5
<1>6. h.adjacency \in [NodeId -> Seq(NodeId)]
  BY <1>1, <1>4, <1>5
<1>7. ASSUME NEW i \in 1 .. Len(r) PROVE Connectable(h, r[i])
  <2>1. Len(es) \in Nat
    BY <1>1
  <2>2. i \in 1 .. Len(es) \/ i = Len(es) + 1
    BY <1>3, <2>1
  <2>3. Connectable(g, r[i])
    BY <1>3, <2>2 DEF Sound
  <2>. QED
    BY <1>4, <2>3 DEF Connectable
<1>. QED
  BY <1>4, <1>5, <1>6, <1>7 DEF Sound, InSync, Outgoing, h

-----------------------------------------------------------------------------
(* The loops that connect and add.                                         *)

(* One attempt to connect, as ConnectAll makes it.                         *)
Tried(v, e) ==
  IF v.ok /\ Connectable(v.graph, e) THEN [ok |-> TRUE, graph |-> WithEdge(v.graph, e)]
  ELSE [ok |-> FALSE, graph |-> v.graph]

(* Where connecting may get to from g.                                     *)
Reachable(g, es) ==
  {v \in [ok : BOOLEAN, graph : FlowGraphs] :
     /\ Sound(v.graph) /\ v.graph.nodes = g.nodes
     /\ (\A i \in 1 .. Len(es) : Connectable(g, es[i])) => v.ok}

(* An attempt from where connecting may get to gets there too.             *)
LEMMA TriedReachable ==
  ASSUME NEW g, NEW es \in Seq(Edge), NEW v \in Reachable(g, es), NEW k \in 1 .. Len(es)
  PROVE  Tried(v, es[k]) \in Reachable(g, es)
<1>1. v \in [ok : BOOLEAN, graph : FlowGraphs] /\ Sound(v.graph) /\ v.graph.nodes = g.nodes
      /\ ((\A i \in 1 .. Len(es) : Connectable(g, es[i])) => v.ok)
  BY DEF Reachable
<1>2. es[k] \in Edge
  OBVIOUS
<1>3. Connectable(v.graph, es[k]) <=> Connectable(g, es[k])
  BY <1>1 DEF Connectable
<1>4. CASE v.ok /\ Connectable(v.graph, es[k])
  <2>. DEFINE h == WithEdge(v.graph, es[k])
  <2>1. Sound(h) /\ h.nodes = g.nodes
    BY <1>1, <1>2, <1>4, EdgeAdded
  <2>2. Tried(v, es[k]) = [ok |-> TRUE, graph |-> h]
    BY <1>4 DEF Tried
  <2>3. h \in FlowGraphs
    BY <2>1 DEF Sound
  <2>. HIDE DEF h
  <2>. QED
    BY <2>1, <2>2, <2>3 DEF Reachable
<1>5. CASE ~(v.ok /\ Connectable(v.graph, es[k]))
  <2>1. Tried(v, es[k]) = [ok |-> FALSE, graph |-> v.graph]
    BY <1>5 DEF Tried
  <2>2. ~\A i \in 1 .. Len(es) : Connectable(g, es[i])
    BY <1>1, <1>3, <1>5
  <2>. QED
    BY <1>1, <2>1, <2>2 DEF Reachable
<1>. QED
  BY <1>4, <1>5

(* Connecting keeps a graph sound; it succeeds if it may connect all, and  *)
(* does nothing if the first is refused.                                   *)
LEMMA Connecting ==
  ASSUME NEW g, Sound(g), NEW es \in Seq(Edge)
  PROVE  /\ ConnectAll(g, es) \in Reachable(g, es)
         /\ Len(es) > 0 /\ ~Connectable(g, es[1]) => ConnectAll(g, es) = [ok |-> FALSE, graph |-> g]
<1>. DEFINE n == Len(es)
            start == [ok |-> TRUE, graph |-> g]
            Done(f) == f = [k \in 0 .. n |-> IF k = 0 THEN [ok |-> TRUE, graph |-> g]
                              ELSE IF f[k - 1].ok /\ Connectable(f[k - 1].graph, es[k])
                                   THEN [ok |-> TRUE, graph |-> WithEdge(f[k - 1].graph, es[k])]
                                   ELSE [ok |-> FALSE, graph |-> f[k - 1].graph]]
            Does(f) == f = [k \in 0 .. n |-> IF k = 0 THEN start ELSE Tried(f[k - 1], es[k])]
            c == CHOOSE f : Done(f)
            step == [z \in (1 .. n) \X Reachable(g, es) |-> Tried(z[2], es[z[1]])]
<1>1. n \in Nat /\ ConnectAll(g, es) = c[n]
  BY DEF ConnectAll
<1>2. \A f : Done(f) <=> Does(f)
  BY DEF Tried
<1>3. start \in Reachable(g, es)
  <2>1. g \in FlowGraphs
    BY DEF Sound
  <2>. QED
    BY <2>1 DEF Reachable
<1>. HIDE DEF Done, n, start
<1>4. \A k \in 1 .. n : \A v \in Reachable(g, es) :
         step[<<k, v>>] = Tried(v, es[k]) /\ step[<<k, v>>] \in Reachable(g, es)
  <2>. SUFFICES ASSUME NEW k \in 1 .. n, NEW v \in Reachable(g, es)
                PROVE  step[<<k, v>>] = Tried(v, es[k]) /\ step[<<k, v>>] \in Reachable(g, es)
    OBVIOUS
  <2>1. step[<<k, v>>] = Tried(v, es[k])
    OBVIOUS
  <2>. HIDE DEF step
  <2>2. k \in 1 .. Len(es)
    BY DEF n
  <2>. QED
    BY <2>1, <2>2, TriedReachable
<1>. HIDE DEF step
<1>5. PICK f : Stepwise(n, Reachable(g, es), start, step, f)
  <2>1. Stepping(n, Reachable(g, es), start, step)
    BY <1>1, <1>3, <1>4 DEF Stepping
  <2>. QED
    BY <2>1, Recursion
<1>6. f \in [0 .. n -> Reachable(g, es)] /\ f[0] = start /\ \A k \in 1 .. n : f[k] = Tried(f[k - 1], es[k])
  <2>1. f \in [0 .. n -> Reachable(g, es)] /\ f[0] = start /\ \A k \in 1 .. n : f[k] = step[<<k, f[k - 1]>>]
    BY <1>5 DEF Stepwise
  <2>2. \A k \in 1 .. n : f[k - 1] \in Reachable(g, es)
    BY <1>1, <2>1
  <2>. QED
    BY <1>4, <2>1, <2>2
<1>7. Does(c)
  <2>1. Does(f)
    <3>1. \A k \in 0 .. n : f[k] = IF k = 0 THEN start ELSE Tried(f[k - 1], es[k])
      <4>1. \A k \in 0 .. n : k = 0 \/ (k # 0 /\ k \in 1 .. n)
        BY <1>1
      <4>. QED
        BY <1>6, <4>1
    <3>. QED
      BY <1>6, <3>1
  <2>2. Done(f)
    <3>. HIDE DEF Does
    <3>. QED
      BY <1>2, <2>1
  <2>3. Done(c)
    BY <2>2
  <2>. HIDE DEF Does, c
  <2>. QED
    BY <1>2, <2>3
<1>. HIDE DEF c
<1>8. c[0] = start /\ \A k \in 1 .. n : c[k] = Tried(c[k - 1], es[k])
  <2>1. 0 \in 0 .. n /\ \A k \in 1 .. n : k \in 0 .. n /\ k # 0
    BY <1>1
  <2>2. \A k \in 0 .. n : c[k] = IF k = 0 THEN start ELSE Tried(c[k - 1], es[k])
    BY <1>7
  <2>. QED
    BY <2>1, <2>2
<1>9. \A k \in 0 .. n : c[k] = f[k]
  <2>1. Alike(n, c, f)
    BY <1>1, <1>6, <1>8 DEF Alike
  <2>2. Agree(n, c, f)
    BY <2>1, SameSteps
  <2>. QED
    BY <2>2 DEF Agree
<1>10. ConnectAll(g, es) \in Reachable(g, es)
  <2>1. n \in 0 .. n
    BY <1>1
  <2>. QED
    BY <1>1, <1>6, <1>9, <2>1
<1>11. ASSUME n > 0, ~Connectable(g, es[1]) PROVE ConnectAll(g, es) = [ok |-> FALSE, graph |-> g]
  <2>. DEFINE no == [ok |-> FALSE, graph |-> g]
              h == [k \in 0 .. n |-> IF k = 0 THEN start ELSE no]
  <2>1. Tried(start, es[1]) = no /\ \A k \in 1 .. n : Tried(no, es[k]) = no
    BY <1>11 DEF Tried, start
  <2>2. h[0] = start /\ \A k \in 1 .. n : h[k] = no /\ (k # 1 => h[k - 1] = no) /\ (k = 1 => h[k - 1] = start)
    BY <1>1
  <2>3. h[n] = no /\ n \in 0 .. n
    BY <1>1, <1>11, <2>2
  <2>. HIDE DEF h, no
  <2>4. ASSUME NEW k \in 1 .. n, c[k - 1] = h[k - 1] PROVE c[k] = h[k]
    BY <1>8, <2>1, <2>2, <2>4
  <2>5. Alike(n, c, h)
    BY <1>1, <1>8, <2>2, <2>4 DEF Alike
  <2>6. Agree(n, c, h)
    BY <2>5, SameSteps
  <2>7. c[n] = h[n]
    BY <2>3, <2>6 DEF Agree
  <2>. QED
    BY <1>1, <2>3, <2>7 DEF no
<1>. QED
  BY <1>10, <1>11 DEF n

(* The nodes of a profile make a sound graph without edges.                *)
LEMMA AllAdded ==
  ASSUME NEW ids \in Seq(NodeId), NEW types
  PROVE  Sound(WithNodes(ids, types))
<1>. DEFINE n == Len(ids)
            Sounds == {g \in FlowGraphs : Sound(g)}
            Added(f) == f = [k \in 0 .. n |-> IF k = 0 THEN Empty ELSE WithNode(f[k - 1], ids[k], types[k])]
            c == CHOOSE f : Added(f)
            step == [z \in (1 .. n) \X Sounds |-> WithNode(z[2], ids[z[1]], types[z[1]])]
<1>1. n \in Nat /\ WithNodes(ids, types) = c[n] /\ \A k \in 1 .. n : ids[k] \in NodeId
  BY DEF WithNodes
<1>2. Empty \in Sounds
  <2>1. Empty \in FlowGraphs /\ Empty.edges = <<>> /\ \A m \in NodeId : Empty.adjacency[m] = <<>>
    BY DEF Empty, FlowGraphs
  <2>2. InSync(Empty)
    <3>1. \A m \in NodeId : Only(<<>>, From(m)) = <<>>
      BY Filtering
    <3>. QED
      BY <2>1, <3>1, TargetsOf DEF InSync, Outgoing
  <2>. QED
    BY <2>1, <2>2 DEF Sound
<1>3. ASSUME NEW k \in 1 .. n, NEW g \in Sounds
      PROVE  step[<<k, g>>] = WithNode(g, ids[k], types[k]) /\ step[<<k, g>>] \in Sounds
  <2>1. step[<<k, g>>] = WithNode(g, ids[k], types[k])
    OBVIOUS
  <2>2. Sound(WithNode(g, ids[k], types[k]))
    BY <1>1, NodeAdded
  <2>. QED
    BY <2>1, <2>2 DEF Sound
<1>. HIDE DEF n, step, Sounds
<1>4. PICK f : Stepwise(n, Sounds, Empty, step, f)
  <2>1. Stepping(n, Sounds, Empty, step)
    BY <1>1, <1>2, <1>3 DEF Stepping
  <2>. QED
    BY <2>1, Recursion
<1>5. f \in [0 .. n -> Sounds] /\ f[0] = Empty
      /\ \A k \in 1 .. n : f[k] = WithNode(f[k - 1], ids[k], types[k])
  <2>1. f \in [0 .. n -> Sounds] /\ f[0] = Empty /\ \A k \in 1 .. n : f[k] = step[<<k, f[k - 1]>>]
    BY <1>4 DEF Stepwise
  <2>2. \A k \in 1 .. n : f[k - 1] \in Sounds
    BY <1>1, <2>1
  <2>. QED
    BY <1>3, <2>1, <2>2
<1>6. Added(c)
  <2>1. Added(f)
    <3>1. \A k \in 0 .. n : f[k] = IF k = 0 THEN Empty ELSE WithNode(f[k - 1], ids[k], types[k])
      <4>1. \A k \in 0 .. n : k = 0 \/ (k # 0 /\ k \in 1 .. n)
        BY <1>1
      <4>. QED
        BY <1>5, <4>1
    <3>. QED
      BY <1>5, <3>1
  <2>. HIDE DEF Added
  <2>. QED
    BY <2>1
<1>. HIDE DEF c
<1>7. c[0] = Empty /\ \A k \in 1 .. n : c[k] = WithNode(c[k - 1], ids[k], types[k])
  <2>1. 0 \in 0 .. n /\ \A k \in 1 .. n : k \in 0 .. n /\ k # 0
    BY <1>1
  <2>2. \A k \in 0 .. n : c[k] = IF k = 0 THEN Empty ELSE WithNode(c[k - 1], ids[k], types[k])
    BY <1>6
  <2>. QED
    BY <2>1, <2>2
<1>8. \A k \in 0 .. n : c[k] = f[k]
  <2>1. Alike(n, c, f)
    BY <1>1, <1>5, <1>7 DEF Alike
  <2>2. Agree(n, c, f)
    BY <2>1, SameSteps
  <2>. QED
    BY <2>2 DEF Agree
<1>. QED
  <2>1. n \in 0 .. n
    BY <1>1
  <2>. QED
    BY <1>1, <1>5, <1>8, <2>1 DEF Sounds

-----------------------------------------------------------------------------
(* The operations.                                                         *)

(* The inductive invariant of the topology, and what a failing step may    *)
(* do.                                                                     *)
Outcomes == {"none", "ok", "err", "built"}
SoundInv == Sound(graph) /\ outcome \in Outcomes
KeptOnErr ==
  outcome' = "err" =>
    \/ graph' = graph
    \/ \E n \in graph.nodes : /\ \E e \in Range(graph.edges) : e.from = n /\ e.to = n
                              /\ graph' = WithoutNode(graph, n)

(* A sound graph has edges between nodes of its own.                       *)
LEMMA SoundTypes ==
  ASSUME Sound(graph)
  PROVE  /\ graph \in FlowGraphs /\ graph.nodes \subseteq NodeId /\ graph.edges \in Seq(Edge)
         /\ Len(graph.edges) \in Nat
         /\ \A i \in 1 .. Len(graph.edges) : graph.edges[i] \in Edge /\ Connectable(graph, graph.edges[i])
BY DEF Sound, FlowGraphs

(* Where SelectInSeq finds something, it finds the first.                  *)
LEMMA FirstFound ==
  ASSUME NEW P, P \subseteq Nat, P # {}
  PROVE  Min(P) \in P /\ \A k \in P : Min(P) <= k
<1>1. \E x \in P : \A y \in P : x <= y
  BY HasLeast
<1>. QED
  BY <1>1 DEF Min

(* disconnect keeps the graph sound, and fails without a change.           *)
LEMMA DisconnectKeeps ==
  ASSUME SoundInv, NEW from \in NodeId, NEW to \in NodeId, Disconnect(from, to)
  PROVE  SoundInv' /\ KeptOnErr
<1>. DEFINE es == graph.edges
            P == {k \in 1 .. Len(es) : es[k].from = from /\ es[k].to = to}
            i == SelectInSeq(es, LAMBDA e : e.from = from /\ e.to = to)
<1>1. i = IF P # {} THEN Min(P) ELSE 0
  BY DEF SelectInSeq
<1>2. IF i = 0 THEN Err ELSE Ok(WithoutEdge(graph, i))
  BY DEF Disconnect
<1>. HIDE DEF i
<1>3. CASE P = {}
  <2>1. Err
    BY <1>1, <1>2, <1>3
  <2>. QED
    BY <2>1 DEF Err, SoundInv, Outcomes, KeptOnErr
<1>4. CASE P # {}
  <2>1. i \in P /\ \A k \in P : i <= k
    <3>1. P \subseteq Nat
      BY SoundTypes DEF SoundInv
    <3>. HIDE DEF P
    <3>. QED
      BY <1>1, <1>4, <3>1, FirstFound
  <2>2. i \in 1 .. Len(graph.edges) /\ i # 0
    BY <2>1
  <2>3. \A j \in 1 .. i - 1 : graph.edges[j] # graph.edges[i]
    <3>. SUFFICES ASSUME NEW j \in 1 .. i - 1, graph.edges[j] = graph.edges[i] PROVE FALSE
      OBVIOUS
    <3>1. j \in P /\ ~(i <= j)
      BY <2>1, <2>2
    <3>. QED
      BY <2>1, <3>1
  <2>4. Sound(WithoutEdge(graph, i))
    BY <2>2, <2>3, EdgeGone DEF SoundInv
  <2>5. Ok(WithoutEdge(graph, i))
    BY <1>2, <2>2
  <2>. QED
    BY <2>4, <2>5 DEF Ok, SoundInv, Outcomes, KeptOnErr
<1>. QED
  BY <1>3, <1>4

(* insert_after never fails once it has begun: both edges it connects have *)
(* their ends in the graph.                                                *)
LEMMA InsertKeeps ==
  ASSUME SoundInv, NEW after \in NodeId, NEW n \in NodeId, NEW type, InsertAfter(after, n, type)
  PROVE  SoundInv' /\ KeptOnErr
<1>. DEFINE leaving == Outgoing(graph, after)
            added == WithNode(graph, n, type)
            P == {k \in 1 .. Len(added.edges) : added.edges[k].from = after}
            first == SelectInSeq(added.edges, LAMBDA e : e.from = after)
            es == IF leaving = <<>> THEN << [from |-> after, to |-> n] >>
                  ELSE << [from |-> after, to |-> n], [from |-> n, to |-> leaving[1].to] >>
            base == IF leaving = <<>> THEN added ELSE WithoutEdge(added, first)
            done == ConnectAll(base, es)
<1>1. \/ Err
      \/ /\ after \in graph.nodes /\ Len(leaving) <= 1
         /\ graph' = done.graph /\ outcome' = IF done.ok THEN "ok" ELSE "err"
  BY DEF InsertAfter
<1>2. first = IF P # {} THEN Min(P) ELSE 0
  BY DEF SelectInSeq
<1>3. Sound(added) /\ added.edges = graph.edges /\ added.nodes = graph.nodes \cup {n}
  BY NodeAdded DEF SoundInv
<1>4. leaving \in Seq(Edge) /\ leaving = Only(graph.edges, From(after))
  BY SoundTypes, Filtering DEF SoundInv, Outgoing
<1>. HIDE DEF first, added, leaving
<1>5. CASE Err
  BY <1>5 DEF Err, SoundInv, Outcomes, KeptOnErr
<1>6. ASSUME after \in graph.nodes, Len(leaving) <= 1,
             graph' = done.graph, outcome' = IF done.ok THEN "ok" ELSE "err"
      PROVE  SoundInv' /\ KeptOnErr
  <2>1. Sound(base) /\ base.nodes = graph.nodes \cup {n}
    <3>1. CASE leaving = <<>>
      BY <1>3, <3>1
    <3>2. CASE leaving # <<>>
      <4>1. ~\A k \in 1 .. Len(graph.edges) : graph.edges[k] \notin From(after)
        BY <1>4, <3>2, SoundTypes, FilterEmpty DEF SoundInv
      <4>2. P # {} /\ P \subseteq Nat
        BY <1>3, <4>1, SoundTypes DEF SoundInv, From
      <4>3. first \in P /\ \A k \in P : first <= k
        <5>. HIDE DEF P
        <5>. QED
          BY <1>2, <4>2, FirstFound
      <4>4. first \in 1 .. Len(added.edges)
        BY <4>3
      <4>5. \A j \in 1 .. first - 1 : added.edges[j] # added.edges[first]
        <5>. SUFFICES ASSUME NEW j \in 1 .. first - 1, added.edges[j] = added.edges[first] PROVE FALSE
          OBVIOUS
        <5>1. Len(added.edges) \in Nat
          BY <1>3, SoundTypes DEF SoundInv
        <5>2. j \in P /\ ~(first <= j)
          BY <4>3, <4>4, <5>1
        <5>. QED
          BY <4>3, <5>2
      <4>6. Sound(WithoutEdge(added, first))
        BY <1>3, <4>4, <4>5, EdgeGone
      <4>7. WithoutEdge(added, first).nodes = added.nodes
        BY <1>3 DEF WithoutEdge, Sound, FlowGraphs
      <4>. QED
        BY <1>3, <3>2, <4>6, <4>7
    <3>. QED
      BY <3>1, <3>2
  <2>2. /\ es \in Seq(Edge)
        /\ \A k \in 1 .. Len(es) : Connectable(base, es[k])
    <3>1. CASE leaving = <<>>
      <4>. DEFINE a == [from |-> after, to |-> n]
      <4>1. a \in Edge /\ Connectable(base, a)
        BY <1>6, <2>1 DEF Edge, Connectable
      <4>. HIDE DEF a, base
      <4>2. es = <<a>>
        BY <3>1 DEF a
      <4>. QED
        BY <4>1, <4>2
    <3>2. CASE leaving # <<>>
      <4>. DEFINE a == [from |-> after, to |-> n]
                  b == [from |-> n, to |-> leaving[1].to]
      <4>1. 1 \in 1 .. Len(leaving) /\ leaving[1] \in Edge
        BY <1>4, <3>2
      <4>2. leaving[1].to \in graph.nodes /\ leaving[1].to \in NodeId
        <5>1. \E j \in 1 .. Len(graph.edges) : graph.edges[j] = leaving[1]
          BY <1>4, <4>1, SoundTypes, FilterKeeps DEF SoundInv
        <5>2. leaving[1].to \in graph.nodes
          BY <5>1, SoundTypes DEF SoundInv, Connectable
        <5>. QED
          BY <4>1, <5>2 DEF Edge
      <4>3. a \in Edge /\ Connectable(base, a) /\ b \in Edge /\ Connectable(base, b)
        BY <1>6, <2>1, <4>2 DEF Edge, Connectable
      <4>. HIDE DEF a, b, base
      <4>4. es = <<a, b>>
        BY <3>2 DEF a, b
      <4>. QED
        BY <4>3, <4>4
    <3>. QED
      BY <3>1, <3>2
  <2>. HIDE DEF es, base
  <2>3. done \in Reachable(base, es)
    BY <2>1, <2>2, Connecting
  <2>4. Sound(done.graph) /\ done.ok
    BY <2>2, <2>3 DEF Reachable
  <2>. HIDE DEF done
  <2>. QED
    BY <1>6, <2>4 DEF SoundInv, Outcomes, KeptOnErr
<1>. QED
  BY <1>1, <1>5, <1>6

(* The places of a bridge: of one predecessor or one successor, every pair *)
(* has its place, and the first place is the first pair.                   *)
LEMMA PairsOf ==
  ASSUME NEW a \in Nat, NEW b \in Nat, a <= 1 \/ b <= 1
  PROVE  /\ a * b \in Nat /\ (a * b > 0 <=> a > 0 /\ b > 0)
         /\ \A k \in 1 .. a * b : /\ ((k - 1) \div b) + 1 \in 1 .. a
                                  /\ ((k - 1) % b) + 1 \in 1 .. b
                                  /\ (k = 1 => ((k - 1) \div b) + 1 = 1 /\ ((k - 1) % b) + 1 = 1)
<1>1. CASE a = 0
  BY <1>1
<1>2. CASE b = 0
  BY <1>2
<1>3. CASE a = 1 /\ b > 0
  <2>1. a * b = b
    BY <1>3
  <2>2. \A k \in 1 .. b : (k - 1) \div b = 0 /\ (k - 1) % b = k - 1
    BY <1>3
  <2>. QED
    BY <1>3, <2>1, <2>2
<1>4. CASE b = 1 /\ a > 0
  <2>1. a * b = a
    BY <1>4
  <2>2. \A k \in 1 .. a : (k - 1) \div b = k - 1 /\ (k - 1) % b = 0
    BY <1>4
  <2>. QED
    BY <1>4, <2>1, <2>2
<1>. QED
  BY <1>1, <1>2, <1>3, <1>4

(* remove_and_reconnect fails only at a bridge from or to the node that is *)
(* gone, hence only if the node had an edge to itself; and then the first  *)
(* bridge is one of these.                                                 *)
LEMMA ReconnectKeeps ==
  ASSUME SoundInv, NEW n \in NodeId, RemoveAndReconnect(n)
  PROVE  SoundInv' /\ KeptOnErr
<1>. DEFINE ins == Incoming(graph, n)
            outs == Outgoing(graph, n)
            es == Bridges(ins, outs)
            base == WithoutNode(graph, n)
            done == ConnectAll(base, es)
            a == Len(ins)
            b == Len(outs)
            row(k) == ((k - 1) \div b) + 1
            col(k) == ((k - 1) % b) + 1
<1>1. \/ Err
      \/ /\ n \in graph.nodes /\ (a <= 1 \/ b <= 1)
         /\ graph' = done.graph /\ outcome' = IF done.ok THEN "ok" ELSE "err"
  BY DEF RemoveAndReconnect
<1>2. CASE Err
  BY <1>2 DEF Err, SoundInv, Outcomes, KeptOnErr
<1>3. ASSUME n \in graph.nodes, a <= 1 \/ b <= 1,
             graph' = done.graph, outcome' = IF done.ok THEN "ok" ELSE "err"
      PROVE  SoundInv' /\ KeptOnErr
  <2>1. /\ ins \in Seq(Edge) /\ outs \in Seq(Edge) /\ a \in Nat /\ b \in Nat
        /\ \A i \in 1 .. a : ins[i] \in Edge /\ ins[i].to = n /\ Has(graph.edges, ins[i])
        /\ \A j \in 1 .. b : outs[j] \in Edge /\ outs[j].from = n /\ Has(graph.edges, outs[j])
    <3>1. graph.edges \in Seq(Edge)
      BY SoundTypes DEF SoundInv
    <3>2. ins \in Seq(Edge) /\ outs \in Seq(Edge)
      BY <3>1, Filtering DEF Incoming, Outgoing
    <3>3. ASSUME NEW i \in 1 .. a
          PROVE  ins[i] \in Edge /\ ins[i].to = n /\ Has(graph.edges, ins[i])
      <4>1. ins[i] \in To(n) /\ \E j \in 1 .. Len(graph.edges) : graph.edges[j] = ins[i]
        BY <3>1, FilterKeeps DEF Incoming
      <4>. QED
        BY <4>1 DEF To, Has
    <3>4. ASSUME NEW j \in 1 .. b
          PROVE  outs[j] \in Edge /\ outs[j].from = n /\ Has(graph.edges, outs[j])
      <4>1. outs[j] \in From(n) /\ \E i \in 1 .. Len(graph.edges) : graph.edges[i] = outs[j]
        BY <3>1, FilterKeeps DEF Outgoing
      <4>. QED
        BY <4>1 DEF From, Has
    <3>. QED
      BY <3>2, <3>3, <3>4
  <2>2. \A d : Has(graph.edges, d) => d.from \in graph.nodes /\ d.to \in graph.nodes
    BY SoundTypes DEF SoundInv, Connectable, Has
  <2>3. \A d \in Edge : Has(graph.edges, d) /\ d.from = n /\ d.to = n => Has(ins, d) /\ Has(outs, d)
    <3>. SUFFICES ASSUME NEW d \in Edge, Has(graph.edges, d), d.from = n, d.to = n
                  PROVE  Has(ins, d) /\ Has(outs, d)
      OBVIOUS
    <3>1. d \in To(n) /\ d \in From(n) /\ graph.edges \in Seq(Edge)
      BY SoundTypes DEF To, From, SoundInv
    <3>2. Has(ins, d)
      BY <3>1, FilterHolds DEF Incoming
    <3>3. Has(outs, d)
      BY <3>1, FilterHolds DEF Outgoing
    <3>. QED
      BY <3>2, <3>3
  <2>4. Sound(base) /\ base.nodes = graph.nodes \ {n}
    BY NodeTaken DEF SoundInv
  <2>5. /\ a * b \in Nat /\ (a * b > 0 <=> a > 0 /\ b > 0)
        /\ \A k \in 1 .. a * b : row(k) \in 1 .. a /\ col(k) \in 1 .. b /\ (k = 1 => row(k) = 1 /\ col(k) = 1)
    <3>. HIDE DEF a, b
    <3>. QED
      BY <1>3, <2>1, PairsOf
  <2>6. es = [k \in 1 .. a * b |-> [from |-> ins[row(k)].from, to |-> outs[col(k)].to]]
    BY DEF Bridges
  <2>. HIDE DEF ins, outs, a, b, row, col, es
  <2>7. \A k \in 1 .. a * b : es[k] = [from |-> ins[row(k)].from, to |-> outs[col(k)].to]
    BY <2>6
  <2>8. \A k \in 1 .. a * b : es[k] \in Edge /\ es[k].from = ins[row(k)].from /\ es[k].to = outs[col(k)].to
    <3>. SUFFICES ASSUME NEW k \in 1 .. a * b
                  PROVE  es[k] \in Edge /\ es[k].from = ins[row(k)].from /\ es[k].to = outs[col(k)].to
      OBVIOUS
    <3>1. ins[row(k)] \in Edge /\ outs[col(k)] \in Edge
      BY <2>1, <2>5
    <3>2. ins[row(k)].from \in NodeId /\ outs[col(k)].to \in NodeId
      BY <3>1 DEF Edge
    <3>3. es[k] = [from |-> ins[row(k)].from, to |-> outs[col(k)].to]
      BY <2>7
    <3>. DEFINE x == ins[row(k)].from
                y == outs[col(k)].to
    <3>. HIDE DEF x, y
    <3>4. x \in NodeId /\ y \in NodeId /\ es[k] = [from |-> x, to |-> y]
      BY <3>2, <3>3 DEF x, y
    <3>5. es[k] \in Edge /\ es[k].from = x /\ es[k].to = y
      BY <3>4 DEF Edge
    <3>. QED
      BY <3>5 DEF x, y
  <2>9. es \in Seq(Edge) /\ Len(es) = a * b
    BY <2>5, <2>6, <2>8
  <2>. HIDE DEF base
  <2>10. /\ done \in Reachable(base, es)
         /\ Len(es) > 0 /\ ~Connectable(base, es[1]) => done = [ok |-> FALSE, graph |-> base]
    BY <2>4, <2>9, Connecting
  <2>. HIDE DEF done
  <2>11. Sound(done.graph) /\ ((\A k \in 1 .. Len(es) : Connectable(base, es[k])) => done.ok)
    BY <2>10 DEF Reachable
  <2>12. SoundInv'
    BY <1>3, <2>11 DEF SoundInv, Outcomes
  <2>13. ASSUME ~done.ok PROVE /\ \E e \in Range(graph.edges) : e.from = n /\ e.to = n
                               /\ graph' = base
    <3>1. PICK k \in 1 .. a * b : ~Connectable(base, es[k])
      BY <2>9, <2>11, <2>13
    <3>2. row(k) \in 1 .. a /\ col(k) \in 1 .. b
      BY <2>5
    <3>3. ins[row(k)].from = n \/ outs[col(k)].to = n
      BY <2>1, <2>2, <2>4, <2>8, <3>1, <3>2 DEF Connectable
    <3>4. PICK d \in Edge : Has(graph.edges, d) /\ d.from = n /\ d.to = n
      BY <2>1, <3>2, <3>3
    <3>5. Has(ins, d) /\ Has(outs, d)
      BY <2>3, <3>4
    <3>6. (a <= 1 => ins[1] = d) /\ (b <= 1 => outs[1] = d)
      BY <2>1, <3>5 DEF Has, a, b
    <3>7. Len(es) > 0 /\ 1 \in 1 .. a * b /\ row(1) = 1 /\ col(1) = 1
      BY <2>5, <2>9
    <3>8. ~Connectable(base, es[1])
      <4>1. es[1].from = ins[1].from /\ es[1].to = outs[1].to
        BY <2>8, <3>7
      <4>2. es[1].from = n \/ es[1].to = n
        BY <1>3, <3>4, <3>6, <4>1 DEF a, b
      <4>. QED
        BY <2>4, <4>2 DEF Connectable
    <3>9. done = [ok |-> FALSE, graph |-> base]
      BY <2>10, <3>7, <3>8
    <3>10. d \in Range(graph.edges)
      BY <3>4, SoundTypes DEF SoundInv, Has, Range
    <3>. QED
      BY <1>3, <3>4, <3>9, <3>10 DEF done
  <2>14. KeptOnErr
    BY <1>3, <2>13 DEF KeptOnErr, base, done
  <2>. QED
    BY <2>12, <2>14
<1>. QED
  BY <1>1, <1>2, <1>3

(* build_from_profile returns a sound graph or none.                       *)
LEMMA BuildKeeps ==
  ASSUME SoundInv, NEW ids \in Profiles, NEW types, BuildFromProfile(ids, types)
  PROVE  SoundInv' /\ KeptOnErr
<1>. DEFINE pairs == IF ids = <<>> THEN <<>>
                     ELSE [i \in 1 .. Len(ids) - 1 |-> [from |-> ids[i], to |-> ids[i + 1]]]
            base == WithNodes(ids, types)
            done == ConnectAll(base, pairs)
<1>1. Err \/ (graph' = Chained(done.graph, ids) /\ outcome' = "built")
  BY DEF BuildFromProfile
<1>2. ids \in Seq(NodeId)
  <2>1. PICK m \in 0 .. Cardinality(NodeId) : ids \in [1 .. m -> NodeId]
    BY DEF Profiles, SeqOf
  <2>2. Cardinality(NodeId) \in Nat
    BY FlowGraphAssumption, FS_CardinalityType
  <2>3. m \in Nat
    BY <2>2
  <2>. QED
    BY <2>1, <2>3
<1>3. CASE Err
  BY <1>3 DEF Err, SoundInv, Outcomes, KeptOnErr
<1>4. ASSUME graph' = Chained(done.graph, ids), outcome' = "built"
      PROVE  SoundInv' /\ KeptOnErr
  <2>1. Sound(base)
    BY <1>2, AllAdded
  <2>2. pairs \in Seq(Edge)
    <3>1. CASE ids = <<>>
      BY <3>1
    <3>2. CASE ids # <<>>
      <4>1. Len(ids) - 1 \in Nat
        BY <1>2, <3>2
      <4>2. \A i \in 1 .. Len(ids) - 1 : ids[i] \in NodeId /\ ids[i + 1] \in NodeId
        BY <1>2, <4>1
      <4>3. \A i \in 1 .. Len(ids) - 1 : [from |-> ids[i], to |-> ids[i + 1]] \in Edge
        BY <4>2 DEF Edge
      <4>. QED
        BY <3>2, <4>1, <4>3
    <3>. QED
      BY <3>1, <3>2
  <2>. HIDE DEF base, pairs
  <2>3. Sound(done.graph)
    BY <2>1, <2>2, Connecting DEF Reachable
  <2>. DEFINE h == done.graph
              c == Chained(h, ids)
  <2>. HIDE DEF done, h
  <2>4. /\ c \in FlowGraphs /\ c.edges = h.edges /\ c.nodes = h.nodes /\ c.adjacency = h.adjacency
    <3>1. h \in FlowGraphs
      BY <2>3 DEF Sound, h
    <3>2. ids # <<>> => Head(ids) \in NodeId /\ Last(ids) \in NodeId
      BY <1>2 DEF Last
    <3>. QED
      BY <3>1, <3>2 DEF Chained, FlowGraphs
  <2>5. Sound(c)
    BY <2>3, <2>4 DEF Sound, InSync, Outgoing, Connectable, h
  <2>. HIDE DEF c
  <2>6. graph' = c
    BY <1>4 DEF c, h
  <2>. QED
    BY <1>4, <2>5, <2>6 DEF SoundInv, Outcomes, KeptOnErr
<1>. QED
  BY <1>1, <1>3, <1>4

(* Marks and allowed feedback take no part in what the fields agree on.    *)
LEMMA MarkKeeps ==
  ASSUME SoundInv, NEW n \in NodeId, NEW m \in NodeId,
         MarkEntryPoint(n) \/ MarkExitPoint(n) \/ AllowFeedbackEdge(n, m)
  PROVE  SoundInv' /\ KeptOnErr
<1>1. graph \in FlowGraphs
  BY DEF SoundInv, Sound
<1>. DEFINE Agrees(h) == /\ h \in FlowGraphs
                         /\ h.edges = graph.edges /\ h.nodes = graph.nodes
                         /\ h.adjacency = graph.adjacency
<1>2. ASSUME NEW h, Agrees(h), Ok(h) PROVE SoundInv' /\ KeptOnErr
  <2>1. Sound(h)
    BY <1>2 DEF SoundInv, Sound, InSync, Outgoing, Connectable
  <2>. QED
    BY <1>2, <2>1 DEF Ok, SoundInv, Outcomes, KeptOnErr
<1>3. CASE MarkEntryPoint(n)
  <2>1. Agrees([graph EXCEPT !.entry_points = @ \cup {n}])
    BY <1>1 DEF FlowGraphs
  <2>. QED
    BY <1>2, <1>3, <2>1 DEF MarkEntryPoint
<1>4. CASE MarkExitPoint(n)
  <2>1. Agrees([graph EXCEPT !.exit_points = @ \cup {n}])
    BY <1>1 DEF FlowGraphs
  <2>. QED
    BY <1>2, <1>4, <2>1 DEF MarkExitPoint
<1>5. CASE AllowFeedbackEdge(n, m)
  <2>. DEFINE more == graph.allowed \cup {<<n, m>>}
  <2>0. more \in SUBSET (NodeId \X NodeId)
    <3>1. <<n, m>> \in NodeId \X NodeId /\ graph.allowed \subseteq NodeId \X NodeId
      BY <1>1 DEF FlowGraphs
    <3>. QED
      BY <3>1, Zenon
  <2>. HIDE DEF more
  <2>2. [graph EXCEPT !.allowed = more] \in FlowGraphs
    BY <1>1, <2>0 DEF FlowGraphs
  <2>1. Agrees([graph EXCEPT !.allowed = @ \cup {<<n, m>>}])
    BY <1>1, <2>2 DEF FlowGraphs, more
  <2>. QED
    BY <1>2, <1>5, <2>1 DEF AllowFeedbackEdge
<1>. QED
  BY <1>3, <1>4, <1>5

(* add_node and remove_node keep the graph sound, and fail without a       *)
(* change.                                                                 *)
LEMMA NodesKeep ==
  ASSUME SoundInv, NEW n \in NodeId,
         RemoveNode(n) \/ \E type \in NodeType : AddNode(n, type)
  PROVE  SoundInv' /\ KeptOnErr
<1>1. CASE RemoveNode(n)
  <2>1. Err \/ Ok(WithoutNode(graph, n))
    BY <1>1 DEF RemoveNode
  <2>2. Sound(WithoutNode(graph, n))
    BY NodeTaken DEF SoundInv
  <2>. QED
    BY <2>1, <2>2 DEF Ok, Err, SoundInv, Outcomes, KeptOnErr
<1>2. CASE \E type \in NodeType : AddNode(n, type)
  <2>1. PICK type : Ok(WithNode(graph, n, type))
    BY <1>2 DEF AddNode
  <2>2. Sound(WithNode(graph, n, type))
    BY NodeAdded DEF SoundInv
  <2>. QED
    BY <2>1, <2>2 DEF Ok, SoundInv, Outcomes, KeptOnErr
<1>. QED
  BY <1>1, <1>2

(* connect keeps the graph sound, and fails without a change.              *)
LEMMA ConnectKeeps ==
  ASSUME SoundInv, NEW e \in Edge, Connect(e)
  PROVE  SoundInv' /\ KeptOnErr
<1>1. Err \/ (Connectable(graph, e) /\ Ok(WithEdge(graph, e)))
  BY DEF Connect
<1>2. Connectable(graph, e) => Sound(WithEdge(graph, e))
  BY EdgeAdded DEF SoundInv
<1>. QED
  BY <1>1, <1>2 DEF Ok, Err, SoundInv, Outcomes, KeptOnErr

(* Every operation keeps the graph sound.                                  *)
LEMMA TopologyStep ==
  ASSUME SoundInv, TopologyNext
  PROVE  SoundInv' /\ KeptOnErr
<1>1. CASE Build
  BY <1>1, BuildKeeps DEF Build
<1>2. CASE Mutate
  <2>1. ASSUME NEW n \in NodeId, RemoveNode(n) \/ \E type \in NodeType : AddNode(n, type)
        PROVE  SoundInv' /\ KeptOnErr
    BY <2>1, NodesKeep
  <2>2. ASSUME NEW n \in Markable, MarkEntryPoint(n) \/ MarkExitPoint(n)
        PROVE  SoundInv' /\ KeptOnErr
    BY <2>2, MarkKeeps, FlowGraphAssumption
  <2>3. ASSUME NEW from \in Markable, NEW to \in Markable, AllowFeedbackEdge(from, to)
        PROVE  SoundInv' /\ KeptOnErr
    BY <2>3, MarkKeeps, FlowGraphAssumption
  <2>. QED
    BY <1>2, <2>1, <2>2, <2>3, ConnectKeeps, DisconnectKeeps, InsertKeeps, ReconnectKeeps DEF Mutate
<1>. QED
  BY <1>1, <1>2 DEF TopologyNext

(* The empty graph is sound.                                               *)
LEMMA TopologyStart == TopologyInit => SoundInv
<1>. SUFFICES ASSUME TopologyInit PROVE SoundInv
  OBVIOUS
<1>1. Empty \in FlowGraphs /\ Empty.edges = <<>> /\ \A m \in NodeId : Empty.adjacency[m] = <<>>
  BY DEF Empty, FlowGraphs
<1>2. InSync(Empty)
  <2>1. \A m \in NodeId : Only(<<>>, From(m)) = <<>>
    BY Filtering
  <2>. QED
    BY <1>1, <2>1, TargetsOf DEF InSync, Outgoing
<1>. QED
  BY <1>1, <1>2 DEF TopologyInit, SoundInv, Sound, Outcomes

(* A sound graph is one whose fields never contradict each other.          *)
LEMMA SoundConsistent == SoundInv => GraphConsistent
<1>. SUFFICES ASSUME SoundInv PROVE GraphConsistent
  OBVIOUS
<1>1. NoDanglingEdge
  BY SoundTypes DEF SoundInv, NoDanglingEdge, Range, Connectable
<1>2. graph \in FlowGraphs /\ AdjacencyInSync
  BY DEF SoundInv, Sound, InSync, AdjacencyInSync
<1>. QED
  BY <1>1, <1>2 DEF GraphConsistent, TopologyTypeOK, SoundInv, Outcomes

(* The graph is sound in every reachable state.                            *)
LEMMA SoundAlways == TopologySpec => []SoundInv
<1>1. SoundInv /\ [TopologyNext]_topologyVars => SoundInv'
  <2>1. SoundInv /\ UNCHANGED topologyVars => SoundInv'
    BY DEF SoundInv, topologyVars, Sound, InSync, Outgoing, Connectable
  <2>. QED
    BY <2>1, TopologyStep
<1>. QED
  BY <1>1, TopologyStart, PTL DEF TopologySpec

(* Whatever is added, removed, spliced, bridged and built, in any order:   *)
(* every edge has its ends in the graph, and the adjacency lists the       *)
(* targets of the edges, one each and in their order.                      *)
THEOREM GraphsConsistent == TopologySpec => []GraphConsistent
BY SoundAlways, SoundConsistent, PTL

(* An operation that fails changes nothing, but for remove_and_reconnect   *)
(* of a node with an edge to itself.                                       *)
THEOREM FailuresKeepGraph == TopologySpec => FailureKeepsGraph
<1>1. SoundInv /\ [TopologyNext]_topologyVars => [KeptOnErr]_topologyVars
  BY TopologyStep
<1>2. [][KeptOnErr]_topologyVars => FailureKeepsGraph
  BY DEF KeptOnErr, FailureKeepsGraph
<1>. QED
  BY <1>1, <1>2, SoundAlways, PTL DEF TopologySpec
=============================================================================
