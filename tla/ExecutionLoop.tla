------------------------------ MODULE ExecutionLoop ------------------------------
(***************************************************************************)
(* The Runtime's main loop (crates/nyarix-runtime/src/execution_loop.rs):  *)
(* initialize the nodes; take packets from the source, run each through    *)
(* the graph and forward the result to the sink, stopping for a cancelled  *)
(* token, a closed source or a closed sink and standing still while the    *)
(* graph is paused (pause.rs); then drain the source and shut the nodes    *)
(* down, each bounded by the shutdown timeout.                             *)
(*                                                                         *)
(* Around it run the producer and the consumer of the two channels, the    *)
(* holder of the GraphPauseHandle, whoever cancels the token (shutdown.rs) *)
(* and another task that uses the graph's mutex.  A biased select! polls   *)
(* its branches one after the other while those run on other threads, so   *)
(* every poll is a step.  Packets are numbered in the order they are sent. *)
(***************************************************************************)
EXTENDS Integers, Sequences, FiniteSets

CONSTANTS
  Node,
  InitFails,     (* Nodes whose initialize may fail.                       *)
  ShutdownFails, (* Nodes whose shutdown fails.                            *)
  Packets,       (* Bound: packets the producer sends.                     *)
  Pauses,        (* Bound: calls of pause().                               *)
  SourceCapacity, SinkCapacity,
  Events         (* What the environment may do, besides sending packets.  *)

Event == {"cancel", "closeSource", "closeSink", "dropHandles", "contend"}

ASSUME LoopAssumption ==
  /\ Packets \in Nat /\ Pauses \in Nat
  /\ SourceCapacity \in Nat \ {0} /\ SinkCapacity \in Nat \ {0}
  /\ Events \subseteq Event

VARIABLES
  pc,        (* Where run_with_timeout is suspended.                       *)
  phase,     (* "main" or "drain": which loop calls process_one.           *)
  hand,      (* The packet taken from the source, or none, as a sequence.  *)
  source, sink, (* The buffers of the two channels.                        *)
  received,  (* What the consumer took from the sink.                      *)
  sent,      (* How many packets the producer sent.                        *)
  sourceOpen, sinkOpen, handles, (* Senders, receiver, pause handles alive. *)
  paused, pauses, cancelled,
  contended, (* Whether another task holds the graph mutex.                *)
  node,      (* [Node -> NodeState].                                       *)
  forced,    (* Whether a shutdown timeout has elapsed.                    *)
  result,    (* What run_with_timeout returned.                            *)
  sincePause, sinceCancel, (* Observers: packets taken since then.         *)
  processed, (* Observer: packets that were run through the graph.         *)
  atStop     (* Observer: how many had been sent as the main loop ended.   *)

channels == <<source, sink, received, sent, sourceOpen, sinkOpen>>
control == <<handles, paused, pauses, cancelled>>
late == <<sincePause, sinceCancel>>
tally == <<processed, atStop>>
observed == <<late, tally>>
vars == <<pc, phase, hand, channels, control, contended, node, forced, result, observed>>

-----------------------------------------------------------------------------
(* Mutant of Initialize: a node that fails is logged and passed over.       *)
InitializeTolerant ==
  /\ pc = "initialize" /\ ~contended
  /\ \E failed \in SUBSET InitFails :
       node' = [n \in Node |-> IF n \in failed THEN "Initializing" ELSE "Running"]
  /\ pc' = "resume"
  /\ UNCHANGED <<phase, hand, channels, control, contended, forced, result, observed>>

(* initialize_all_nodes: under the lock, in map order, up to a failure. *)
Initialize ==
  /\ pc = "initialize" /\ ~contended
  /\ \/ /\ node' = [n \in Node |-> "Running"]
        /\ pc' = "resume" /\ UNCHANGED result
     \/ \E n \in InitFails, done \in SUBSET Node :
          /\ n \notin done
          /\ node' = [m \in Node |-> IF m = n THEN "Initializing"
                                     ELSE IF m \in done THEN "Running" ELSE node[m]]
          /\ pc' = "returned" /\ result' = "init_failed"
  /\ UNCHANGED <<phase, hand, channels, control, contended, forced, observed>>

(* pause.wait_until_resumed().await: returns, too, once no handle is left. *)
WaitResumed ==
  /\ pc = "resume" /\ (~paused \/ ~handles)
  /\ pc' = "poll_cancelled"
  /\ UNCHANGED <<phase, hand, channels, control, contended, node, forced, result, observed>>

(* break: the loop stops accepting packets, and drains what is buffered.   *)
Break ==
  /\ pc' = "drain" /\ phase' = "drain"
  /\ atStop' = IF phase = "main" THEN sent ELSE atStop

(* Mutant of PollCancelled: a select! that is not biased.                   *)
PollCancelledUnbiased ==
  /\ pc = "poll_cancelled"
  /\ \/ cancelled /\ Break
     \/ pc' = "poll_paused" /\ UNCHANGED <<phase, atStop>>
  /\ UNCHANGED <<hand, channels, control, contended, node, forced, result, late, processed>>

(* The biased select!, branch by branch. *)
PollCancelled ==
  /\ pc = "poll_cancelled"
  /\ \/ cancelled /\ Break
     \/ ~cancelled /\ pc' = "poll_paused" /\ UNCHANGED <<phase, atStop>>
  /\ UNCHANGED <<hand, channels, control, contended, node, forced, result, late, processed>>

PollPaused ==
  /\ pc = "poll_paused"
  /\ pc' = IF paused THEN "resume" ELSE "poll_source"
  /\ UNCHANGED <<phase, hand, channels, control, contended, node, forced, result, observed>>

(* Mutant of Take: the newest packet is taken first.                        *)
TakeNewest ==
  /\ source # <<>>
  /\ hand' = <<source[Len(source)]>>
  /\ source' = SubSeq(source, 1, Len(source) - 1)
  /\ pc' = "process"
  /\ sincePause' = IF paused THEN sincePause + 1 ELSE 0
  /\ sinceCancel' = IF cancelled THEN sinceCancel + 1 ELSE 0
  /\ UNCHANGED <<sink, received, sent, sourceOpen, sinkOpen>>

Take ==
  /\ source # <<>>
  /\ hand' = <<Head(source)>>
  /\ source' = Tail(source)
  /\ pc' = "process"
  /\ sincePause' = IF paused THEN sincePause + 1 ELSE 0
  /\ sinceCancel' = IF cancelled THEN sinceCancel + 1 ELSE 0
  /\ UNCHANGED <<sink, received, sent, sourceOpen, sinkOpen>>

PollSource ==
  /\ pc = "poll_source"
  /\ \/ Take /\ UNCHANGED <<phase, atStop>>
     \/ /\ source = <<>>
        /\ \/ sourceOpen /\ pc' = "asleep" /\ UNCHANGED <<phase, atStop>>
           \/ ~sourceOpen /\ Break
        /\ UNCHANGED <<hand, channels, late>>
  /\ UNCHANGED <<control, contended, node, forced, result, processed>>

(* Mutant of Wake: no waker is registered with the source.                  *)
WakeOnSignal ==
  /\ pc = "asleep" /\ (cancelled \/ paused \/ ~sourceOpen)
  /\ pc' = "poll_cancelled"
  /\ UNCHANGED <<phase, hand, channels, control, contended, node, forced, result, observed>>

(* A waker of one of the three branches reschedules the task. *)
Wake ==
  /\ pc = "asleep" /\ (cancelled \/ paused \/ source # <<>> \/ ~sourceOpen)
  /\ pc' = "poll_cancelled"
  /\ UNCHANGED <<phase, hand, channels, control, contended, node, forced, result, observed>>

-----------------------------------------------------------------------------
(* Mutant of Again: the drain ends with the first packet it processed.      *)
AgainOnce == IF phase = "main" THEN "resume" ELSE "shutdown"

(* process_one: where a phase goes on with the next packet, and how it     *)
(* ends when the sink is gone.                                             *)
Again == IF phase = "main" THEN "resume" ELSE "drain"
Enough ==
  \/ phase = "main" /\ Break
  \/ phase = "drain" /\ pc' = "shutdown" /\ UNCHANGED <<phase, atStop>>

(* execute_sequential under the lock: an output to send, or nothing more   *)
(* (absorbed, failed, or panicked: catch_panic).                           *)
Process ==
  /\ pc = "process" /\ ~contended
  /\ \/ pc' = "send" /\ UNCHANGED hand
     \/ pc' = Again /\ hand' = <<>>
  /\ processed' = processed + 1
  /\ UNCHANGED <<phase, channels, control, contended, node, forced, result, late, atStop>>

(* sink.send(output).await *)
Send ==
  /\ pc = "send"
  /\ hand' = <<>>
  /\ \/ /\ sinkOpen /\ Len(sink) < SinkCapacity
        /\ sink' = sink \o hand
        /\ pc' = Again /\ UNCHANGED <<phase, atStop>>
     \/ /\ ~sinkOpen
        /\ Enough /\ UNCHANGED sink
  /\ UNCHANGED <<source, received, sent, sourceOpen, sinkOpen, control, contended,
                 node, forced, result, late, processed>>

(* The drain: source.try_recv() until it has nothing. *)
Drain ==
  /\ pc = "drain"
  /\ \/ Take
     \/ source = <<>> /\ pc' = "shutdown" /\ UNCHANGED <<hand, channels, late>>
  /\ UNCHANGED <<phase, control, contended, node, forced, result, tally>>

(* Mutant of DrainTimeout: the packet in hand survives it.                  *)
DrainTimeoutKeeps ==
  /\ phase = "drain" /\ pc \in {"process", "send"}
  /\ pc' = "shutdown" /\ forced' = TRUE
  /\ UNCHANGED <<phase, hand, channels, control, contended, node, result, observed>>

(* timeout(shutdown_timeout, drain): the packet in hand goes with it. *)
DrainTimeout ==
  /\ phase = "drain" /\ pc \in {"process", "send"}
  /\ pc' = "shutdown" /\ hand' = <<>> /\ forced' = TRUE
  /\ UNCHANGED <<phase, channels, control, contended, node, result, observed>>

(* timeout(shutdown_timeout, shutdown_all_nodes): all of them or none. *)
ShutdownNodes ==
  /\ pc = "shutdown" /\ ~contended
  /\ node' = [n \in Node |-> IF n \in ShutdownFails THEN "Stopping" ELSE "Stopped"]
  /\ pc' = "returned" /\ result' = "ok"
  /\ UNCHANGED <<phase, hand, channels, control, contended, forced, observed>>

ShutdownTimeout ==
  /\ pc = "shutdown" /\ contended
  /\ pc' = "returned" /\ result' = "ok" /\ forced' = TRUE
  /\ UNCHANGED <<phase, hand, channels, control, contended, node, observed>>

-----------------------------------------------------------------------------
(* The other ends of the channels; the channels close as the loop returns. *)
Produce ==
  /\ sent < Packets /\ sourceOpen /\ pc # "returned" /\ Len(source) < SourceCapacity
  /\ sent' = sent + 1 /\ source' = Append(source, sent + 1)
  /\ UNCHANGED <<pc, phase, hand, sink, received, sourceOpen, sinkOpen, control,
                 contended, node, forced, result, observed>>

CloseSource ==
  /\ "closeSource" \in Events /\ sourceOpen /\ sourceOpen' = FALSE
  /\ UNCHANGED <<pc, phase, hand, source, sink, received, sent, sinkOpen, control,
                 contended, node, forced, result, observed>>

Consume ==
  /\ sinkOpen /\ sink # <<>>
  /\ received' = Append(received, Head(sink)) /\ sink' = Tail(sink)
  /\ UNCHANGED <<pc, phase, hand, source, sent, sourceOpen, sinkOpen, control,
                 contended, node, forced, result, observed>>

CloseSink ==
  /\ "closeSink" \in Events /\ sinkOpen /\ sinkOpen' = FALSE
  /\ UNCHANGED <<pc, phase, hand, source, sink, received, sent, sourceOpen, control,
                 contended, node, forced, result, observed>>

(* GraphPauseHandle::pause and resume, and the drop of the last handle. *)
Pause ==
  /\ handles /\ ~paused /\ pauses < Pauses
  /\ paused' = TRUE /\ pauses' = pauses + 1 /\ sincePause' = 0
  /\ UNCHANGED <<pc, phase, hand, channels, handles, cancelled, contended, node,
                 forced, result, sinceCancel, tally>>

Resume ==
  /\ handles /\ paused /\ paused' = FALSE
  /\ UNCHANGED <<pc, phase, hand, channels, handles, pauses, cancelled, contended,
                 node, forced, result, observed>>

DropHandles ==
  /\ "dropHandles" \in Events /\ handles /\ handles' = FALSE
  /\ UNCHANGED <<pc, phase, hand, channels, paused, pauses, cancelled, contended,
                 node, forced, result, observed>>

(* CancellationToken::cancel, by Ctrl+C or through the API. *)
CancelToken ==
  /\ "cancel" \in Events /\ ~cancelled /\ cancelled' = TRUE
  /\ UNCHANGED <<pc, phase, hand, channels, handles, paused, pauses, contended,
                 node, forced, result, observed>>

(* Another task takes the graph's mutex and gives it back. *)
Contend ==
  /\ "contend" \in Events /\ contended' = ~contended
  /\ UNCHANGED <<pc, phase, hand, channels, control, node, forced, result, observed>>

-----------------------------------------------------------------------------
Init ==
  /\ pc = "initialize" /\ phase = "main" /\ hand = <<>>
  /\ source = <<>> /\ sink = <<>> /\ received = <<>> /\ sent = 0
  /\ sourceOpen = TRUE /\ sinkOpen = TRUE
  /\ handles = TRUE /\ paused = FALSE /\ pauses = 0 /\ cancelled = FALSE
  /\ contended = FALSE
  /\ node = [n \in Node |-> "Uninitialized"]
  /\ forced = FALSE /\ result = "none"
  /\ sincePause = 0 /\ sinceCancel = 0 /\ processed = 0 /\ atStop = 0

Loop ==
  \/ Initialize \/ WaitResumed \/ PollCancelled \/ PollPaused \/ PollSource \/ Wake
  \/ Process \/ Send \/ Drain \/ ShutdownNodes

Timeout == DrainTimeout \/ ShutdownTimeout

Environment ==
  \/ Produce \/ CloseSource \/ Consume \/ CloseSink
  \/ Pause \/ Resume \/ DropHandles \/ CancelToken \/ Contend

Next == Loop \/ Timeout \/ Environment

Spec == Init /\ [][Next]_vars

(* tokio runs the woken loop, its mutex and channels serve their waiters   *)
(* in turn, its timers elapse, and the mutex's other user gives it back.   *)
LoopFairness ==
  /\ SF_vars(Loop) /\ WF_vars(Timeout)
  /\ WF_vars(contended /\ Contend)
(* Nobody else owes the loop anything: who paused need not resume, and who *)
(* holds the sink need not read it.                                        *)
FairSpec == Spec /\ LoopFairness
-----------------------------------------------------------------------------
Phases == {"main", "drain"}
Places == {"initialize", "resume", "poll_cancelled", "poll_paused", "poll_source",
           "asleep", "process", "send", "drain", "shutdown", "returned"}
NodeState == {"Uninitialized", "Initializing", "Running", "Stopping", "Stopped"}

(* Type invariant of run_with_timeout and of the ends of its channels. *)
TypeOK ==
  /\ pc \in Places /\ phase \in Phases
  /\ hand \in Seq(Nat) /\ source \in Seq(Nat) /\ sink \in Seq(Nat) /\ received \in Seq(Nat)
  /\ (pc \in {"process", "send"} <=> hand # <<>>) /\ Len(hand) <= 1
  /\ sent \in Nat /\ pauses \in Nat /\ sincePause \in Nat /\ sinceCancel \in Nat
  /\ processed \in Nat /\ atStop \in Nat
  /\ sourceOpen \in BOOLEAN /\ sinkOpen \in BOOLEAN /\ handles \in BOOLEAN
  /\ paused \in BOOLEAN /\ cancelled \in BOOLEAN /\ contended \in BOOLEAN /\ forced \in BOOLEAN
  /\ node \in [Node -> NodeState]
  /\ result \in {"none", "ok", "init_failed"}

(* The loop is an in-order pipe that may drop a packet but never repeats,  *)
(* reorders or invents one, and forwards nothing once it has returned.     *)
Pipe == INSTANCE PacketPipe WITH
          accepted <- hand \o source,
          forwarded <- received \o sink,
          stopped <- pc = "returned"
ImplementsPipe == Pipe!Spec

(* "A pending cancellation is noticed before an already-ready              *)
(* source.recv()", and a pause "as soon as" it is requested: of the packets *)
(* waiting in the source, at most the one a poll raced for still starts.   *)
AtMostOneLate == phase = "main" => sincePause <= 1 /\ sinceCancel <= 1

(* Lifecycle guarantee of Module: initialize before the first process,     *)
(* shutdown after the last, also when a drain timed out or the sink closed. *)
LifecycleOrder ==
  pc \in {"process", "send"} => \A n \in Node : node[n] = "Running"

(* A return that was not forced leaves no node running, even when some     *)
(* fail to shut down, and a failed start never shut one down.              *)
NodesSettled ==
  pc = "returned" =>
    IF result = "init_failed" THEN \A n \in Node : node[n] \notin {"Stopping", "Stopped"}
    ELSE forced \/ \A n \in Node : node[n] = IF n \in ShutdownFails THEN "Stopping" ELSE "Stopped"

(* "Drain whatever's already buffered in source ... this is processing the *)
(* remainder, not just discarding it": each packet sent before the main    *)
(* loop ended has been through the graph by the time run returns, unless   *)
(* the drain was forced or the sink is gone.  Later ones may be left over. *)
RemainderProcessed ==
  pc = "returned" /\ result = "ok" => processed >= atStop \/ forced \/ ~sinkOpen

(* A run that returns leaves neither nodes running nor packets behind that *)
(* were waiting when it stopped, unless a timeout forced it.               *)
LeavesNothingBehind == NodesSettled /\ RemainderProcessed

(* The two waits of the main loop that look at nothing but what they wait  *)
(* for: a resume (pause.rs 94), and space in the sink (289).  A            *)
(* cancellation or the end of the source goes unnoticed there.             *)
AwaitsOthers ==
  \/ pc = "resume" /\ paused /\ handles
  \/ pc = "send" /\ phase = "main" /\ sinkOpen /\ Len(sink) = SinkCapacity

(* The last pause handle was dropped while it paused the graph.  The wait  *)
(* for a resume returns at once, the select! finds the graph paused at     *)
(* once, and the loop spins without ever looking at its source, until it   *)
(* is cancelled: not the "implicit permanent resume" of pause.rs 97-101.   *)
Spins ==
  paused /\ ~handles /\ ~cancelled /\ pc \in {"resume", "poll_cancelled", "poll_paused"}

Stuck == AwaitsOthers \/ Spins

(* Packet k was taken up and finished with. *)
Served(k) == \A i \in DOMAIN (hand \o source) : (hand \o source)[i] > k

(* Once cancelled or closed, and for every packet sent to it, the loop     *)
(* does what it owes: it returns, or serves the packet.  The only loop     *)
(* that never does stands in one of those waits for ever or spins for      *)
(* ever; what ends the wait, and a cancellation of one that spins, is      *)
(* answered.  Nobody is assumed to resume, to read the sink or to cancel.  *)
LoopProgresses ==
  /\ (cancelled \/ ~sourceOpen) ~> (pc = "returned" \/ []Stuck)
  /\ \A k \in 1 .. Packets : sent >= k ~> (pc = "returned" \/ Served(k) \/ []Stuck)
=============================================================================
