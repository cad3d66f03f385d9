--------------------------- MODULE ExecutionLoopProofs ---------------------------
(***************************************************************************)
(* Proofs about ExecutionLoop for any number of nodes, packets and pauses, *)
(* any channel capacities and any of the environment's events: the types,  *)
(* the lifecycle of the nodes, the implementation of PacketPipe, what may  *)
(* still start after a pause or a cancellation, and what is left at the    *)
(* end of a run.                                                           *)
(***************************************************************************)
EXTENDS ExecutionLoop, SequenceTheorems, TLAPS

-----------------------------------------------------------------------------
(* Sequences of packets: what taking, sending and consuming do to the two  *)
(* ends of the pipe.                                                       *)

(* A packet moved from the head of one buffer to the tail of another stays *)
(* where it is in their concatenation.                                     *)
LEMMA MoveHead ==
  ASSUME NEW S, NEW r \in Seq(S), NEW s \in Seq(S), s # <<>>
  PROVE  /\ Head(s) \in S /\ Tail(s) \in Seq(S)
         /\ Append(r, Head(s)) \o Tail(s) = r \o s
         /\ <<Head(s)>> \o Tail(s) = s
<1>1. Head(s) \in S /\ Tail(s) \in Seq(S)
  BY HeadTailProperties
<1>2. <<Head(s)>> \in Seq(S)
  BY <1>1
<1>3. <<Head(s)>> \o Tail(s) = s
  <2>1. <<Head(s)>> \o Tail(s) \in Seq(S)
    BY <1>1, <1>2, ConcatProperties
  <2>2. Len(<<Head(s)>> \o Tail(s)) = Len(s)
    BY <1>1, <1>2, ConcatProperties, HeadTailProperties
  <2>3. \A i \in 1 .. Len(s) : (<<Head(s)>> \o Tail(s))[i] = s[i]
    BY <1>1, <1>2, ConcatProperties, HeadTailProperties
  <2>. QED
    BY <2>1, <2>2, <2>3, SeqEqual
<1>4. Append(r, Head(s)) = r \o <<Head(s)>>
  BY <1>1, AppendIsConcat
<1>5. (r \o <<Head(s)>>) \o Tail(s) = r \o (<<Head(s)>> \o Tail(s))
  BY <1>1, <1>2, ConcatAssociative
<1>. QED
  BY <1>1, <1>3, <1>4, <1>5

(* A packet accepted at the end of a buffer is the last of the pipe. *)
LEMMA AppendConcat ==
  ASSUME NEW S, NEW r \in Seq(S), NEW s \in Seq(S), NEW x \in S
  PROVE  r \o Append(s, x) = Append(r \o s, x)
<1>1. <<x>> \in Seq(S)
  OBVIOUS
<1>2. Append(s, x) = s \o <<x>>
  BY AppendIsConcat
<1>3. Append(r \o s, x) = (r \o s) \o <<x>>
  BY ConcatProperties, AppendIsConcat
<1>. QED
  BY <1>1, <1>2, <1>3, ConcatAssociative

(* A sequence of length one is its head. *)
LEMMA Singleton ==
  ASSUME NEW S, NEW h \in Seq(S), Len(h) <= 1, h # <<>>
  PROVE  h = <<Head(h)>> /\ Head(h) \in S
<1>1. Head(h) \in S /\ Tail(h) \in Seq(S) /\ Len(Tail(h)) = Len(h) - 1 /\ Len(h) \in Nat
  BY HeadTailProperties, LenProperties
<1>2. Len(h) = 1
  BY <1>1, EmptySeq, LenProperties
<1>3. \A i \in 1 .. 1 : <<Head(h)>>[i] = h[i]
  BY <1>2
<1>. QED
  BY <1>1, <1>2, <1>3, SeqEqual

(* Behind a packet in hand lies the buffer it was taken from. *)
LEMMA ConcatTail ==
  ASSUME NEW S, NEW h \in Seq(S), NEW s \in Seq(S), Len(h) <= 1, h # <<>>
  PROVE  h \o s # <<>> /\ Head(h \o s) = Head(h) /\ Tail(h \o s) = s
<1>1. h = <<Head(h)>> /\ Head(h) \in S
  BY Singleton
<1>2. Len(h) = 1 /\ h[1] = Head(h)
  BY <1>1
<1>3. /\ h \o s \in Seq(S)
      /\ Len(h \o s) = Len(s) + 1
      /\ (h \o s)[1] = h[1]
      /\ \A i \in 1 .. Len(s) : (h \o s)[i + 1] = s[i]
  <2>1. /\ h \o s \in Seq(S)
        /\ Len(h \o s) = Len(h) + Len(s)
        /\ \A i \in 1 .. Len(h) + Len(s) :
             (h \o s)[i] = IF i <= Len(h) THEN h[i] ELSE s[i - Len(h)]
    BY ConcatProperties
  <2>2. Len(s) \in Nat
    BY LenProperties
  <2>3. Len(h \o s) = Len(s) + 1 /\ (h \o s)[1] = h[1]
    BY <1>2, <2>1, <2>2
  <2>4. ASSUME NEW i \in 1 .. Len(s) PROVE (h \o s)[i + 1] = s[i]
    <3>1. i + 1 \in 1 .. Len(h) + Len(s) /\ ~(i + 1 <= Len(h)) /\ (i + 1) - Len(h) = i
      BY <1>2, <2>2
    <3>. QED
      BY <2>1, <3>1
  <2>. QED
    BY <2>1, <2>3, <2>4
<1>4. h \o s # <<>>
  BY <1>3, EmptySeq, LenProperties
<1>5. Head(h \o s) = Head(h)
  BY <1>2, <1>3, <1>4
<1>6. /\ Tail(h \o s) \in Seq(S)
      /\ Len(Tail(h \o s)) = Len(s)
      /\ \A i \in 1 .. Len(s) : Tail(h \o s)[i] = s[i]
  BY <1>3, <1>4, HeadTailProperties, LenProperties
<1>7. Tail(h \o s) = s
  BY <1>6, SeqEqual
<1>. QED
  BY <1>4, <1>5, <1>7

-----------------------------------------------------------------------------
(* Type correctness.                                                       *)

(* The flags of TypeOK, which are Boolean, apart from the rest of it. *)
FlagType ==
  /\ sourceOpen \in BOOLEAN /\ sinkOpen \in BOOLEAN /\ handles \in BOOLEAN
  /\ paused \in BOOLEAN /\ cancelled \in BOOLEAN /\ contended \in BOOLEAN /\ forced \in BOOLEAN
DataType ==
  /\ pc \in Places /\ phase \in Phases
  /\ hand \in Seq(Nat) /\ source \in Seq(Nat) /\ sink \in Seq(Nat) /\ received \in Seq(Nat)
  /\ (pc \in {"process", "send"} <=> hand # <<>>) /\ Len(hand) <= 1
  /\ sent \in Nat /\ pauses \in Nat /\ sincePause \in Nat /\ sinceCancel \in Nat
  /\ processed \in Nat /\ atStop \in Nat
  /\ node \in [Node -> NodeState]
  /\ result \in {"none", "ok", "init_failed"}

(* TypeOK is those two parts.                                              *)
LEMMA TypeParts == TypeOK <=> FlagType /\ DataType
BY DEF TypeOK, FlagType, DataType

(* No packet in hand, or an empty buffer, is a sequence of packets.        *)
LEMMA EmptyType == <<>> \in Seq(Nat) /\ Len(<<>>) = 0 /\ 0 <= 1
OBVIOUS

(* The loop starts well typed. *)
LEMMA InitType == Init => TypeOK
<1>1. Init => FlagType
  BY DEF Init, FlagType
<1>2. Init => DataType
  <2>. SUFFICES ASSUME Init PROVE DataType
    OBVIOUS
  <2>1. hand = <<>> /\ source = <<>> /\ sink = <<>> /\ received = <<>>
    BY DEF Init
  <2>2. pc = "initialize" /\ phase = "main" /\ result = "none"
    BY DEF Init
  <2>3. sent = 0 /\ pauses = 0 /\ sincePause = 0 /\ sinceCancel = 0 /\ processed = 0 /\ atStop = 0
    BY DEF Init
  <2>4. node \in [Node -> NodeState]
    BY DEF Init, NodeState
  <2>. QED
    BY <2>1, <2>2, <2>3, <2>4, EmptyType DEF DataType, Places, Phases
<1>. QED
  BY <1>1, <1>2, TypeParts

(* A packet taken from the source leaves hand and source well typed.       *)
LEMMA TakeType ==
  ASSUME TypeOK, Take
  PROVE  /\ hand' \in Seq(Nat) /\ hand' # <<>> /\ Len(hand') <= 1 /\ pc' = "process"
         /\ source' \in Seq(Nat)
         /\ sincePause' \in Nat /\ sinceCancel' \in Nat
<1>1. Head(source) \in Nat /\ Tail(source) \in Seq(Nat)
  BY HeadTailProperties DEF TypeOK, Take
<1>. QED
  BY <1>1 DEF TypeOK, Take

(* Every step keeps the flags Boolean.                                     *)
LEMMA NextFlags == TypeOK /\ [Next]_vars => FlagType'
<1>. SUFFICES ASSUME FlagType, [Next]_vars PROVE FlagType'
  BY TypeParts
<1>1. CASE Loop
  BY <1>1 DEF Loop, Initialize, WaitResumed, PollCancelled, PollPaused, PollSource, Break, Take,
              Wake, Process, Send, Drain, ShutdownNodes, channels, control, FlagType
<1>2. CASE Timeout
  BY <1>2 DEF Timeout, DrainTimeout, ShutdownTimeout, channels, control, FlagType
<1>3. CASE Environment
  BY <1>3 DEF Environment, Produce, CloseSource, Consume, CloseSink, Pause, Resume,
              DropHandles, CancelToken, Contend, channels, control, FlagType
<1>4. CASE UNCHANGED vars
  BY <1>4 DEF vars, channels, control, FlagType
<1>. QED
  BY <1>1, <1>2, <1>3, <1>4 DEF Next

(* Every step keeps the loop well typed.                                   *)
LEMMA NextType == TypeOK /\ [Next]_vars => TypeOK'
<1>. SUFFICES ASSUME TypeOK, [Next]_vars PROVE TypeOK'
  OBVIOUS
<1>d. DataType
  BY TypeParts
<1>. SUFFICES DataType'
  BY NextFlags DEF TypeOK, FlagType, DataType
<1>. USE DEF Places, Phases, NodeState, channels, control, observed, late, tally
<1>1. CASE Initialize
  BY <1>d, <1>1 DEF Initialize, DataType
<1>2. CASE WaitResumed
  BY <1>d, <1>2 DEF WaitResumed, DataType
<1>3. CASE PollCancelled
  BY <1>d, <1>3 DEF PollCancelled, Break, DataType
<1>4. CASE PollPaused
  BY <1>d, <1>4 DEF PollPaused, DataType
<1>5. CASE PollSource
  <2>1. CASE Take
    BY <1>d, <1>5, <2>1, TakeType DEF PollSource, Break, DataType, Take
  <2>2. CASE ~Take
    BY <1>d, <1>5, <2>2 DEF PollSource, Break, DataType
  <2>. QED
    BY <2>1, <2>2
<1>6. CASE Wake
  BY <1>d, <1>6 DEF Wake, DataType
<1>7. CASE Process
  <2>1. processed' \in Nat
    BY <1>d, <1>7 DEF Process, DataType
  <2>2. CASE pc' = "send" /\ UNCHANGED hand
    BY <1>d, <1>7, <2>1, <2>2 DEF Process, DataType
  <2>3. CASE pc' = Again /\ hand' = <<>>
    BY <1>d, <1>7, <2>1, <2>3, EmptyType DEF Process, Again, DataType
  <2>. QED
    BY <1>7, <2>2, <2>3 DEF Process
<1>8. CASE Send
  <2>1. sink \o hand \in Seq(Nat)
    BY <1>d, ConcatProperties DEF DataType
  <2>2. sink' \in Seq(Nat)
    BY <1>d, <1>8, <2>1 DEF Send, DataType
  <2>. QED
    BY <1>d, <1>8, <2>2, EmptyType DEF Send, Again, Enough, Break, DataType
<1>9. CASE Drain
  <2>1. CASE Take
    BY <1>d, <1>9, <2>1, TakeType DEF Drain, DataType, Take
  <2>2. CASE ~Take
    BY <1>d, <1>9, <2>2 DEF Drain, DataType
  <2>. QED
    BY <2>1, <2>2
<1>10. CASE ShutdownNodes
  BY <1>d, <1>10 DEF ShutdownNodes, DataType
<1>11. CASE Timeout
  BY <1>d, <1>11, EmptyType DEF Timeout, DrainTimeout, ShutdownTimeout, DataType
<1>12. CASE Produce
  <2>1. source' \in Seq(Nat) /\ sent' \in Nat
    BY <1>d, <1>12 DEF Produce, DataType
  <2>. QED
    BY <1>d, <1>12, <2>1 DEF Produce, DataType
<1>13. CASE Consume
  <2>1. received' \in Seq(Nat) /\ sink' \in Seq(Nat)
    BY <1>d, <1>13, HeadTailProperties DEF Consume, DataType
  <2>. QED
    BY <1>d, <1>13, <2>1 DEF Consume, DataType
<1>14. CASE CloseSource \/ CloseSink
  BY <1>d, <1>14 DEF CloseSource, CloseSink, DataType
<1>15. CASE Pause \/ Resume \/ DropHandles \/ CancelToken \/ Contend
  <2>1. CASE Pause
    BY <1>d, <2>1 DEF Pause, DataType
  <2>2. CASE Resume \/ DropHandles
    BY <1>d, <2>2 DEF Resume, DropHandles, DataType
  <2>3. CASE CancelToken \/ Contend
    BY <1>d, <2>3 DEF CancelToken, Contend, DataType
  <2>. QED
    BY <1>15, <2>1, <2>2, <2>3
<1>16. CASE UNCHANGED vars
  BY <1>d, <1>16 DEF vars, DataType
<1>. QED
  BY <1>1, <1>2, <1>3, <1>4, <1>5, <1>6, <1>7, <1>8, <1>9, <1>10, <1>11, <1>12,
     <1>13, <1>14, <1>15, <1>16 DEF Next, Loop, Environment

(* Every reachable state of the loop and of its channels is well typed, and *)
(* a packet is in hand exactly while one is processed or sent.             *)
THEOREM TypeCorrect == Spec => []TypeOK
BY InitType, NextType, PTL DEF Spec
-----------------------------------------------------------------------------
(* The lifecycle of the nodes.                                             *)

(* Between the initialization and the shutdown of the nodes, all of them   *)
(* run: what makes LifecycleOrder inductive.                               *)
NodesRun == pc \in Places \ {"initialize", "returned"} => \A n \in Node : node[n] = "Running"

(* Every step keeps the nodes running until they are shut down.            *)
LEMMA NextNodesRun == TypeOK /\ NodesRun /\ [Next]_vars => NodesRun'
<1>. SUFFICES ASSUME TypeOK, NodesRun, [Next]_vars PROVE NodesRun'
  OBVIOUS
<1>. USE DEF Places, NodesRun
<1>0. pc \in Places
  BY DEF TypeOK
<1>1. CASE Initialize
  BY <1>1 DEF Initialize
<1>2. CASE ShutdownNodes
  BY <1>2 DEF ShutdownNodes
<1>3. CASE WaitResumed \/ PollCancelled \/ PollPaused \/ PollSource \/ Wake
  BY <1>3 DEF WaitResumed, PollCancelled, PollPaused, PollSource, Break, Take, Wake
<1>4. CASE Process \/ Send \/ Drain
  BY <1>4 DEF Process, Send, Drain, Take
<1>5. CASE Timeout
  BY <1>5 DEF Timeout, DrainTimeout, ShutdownTimeout
<1>6. CASE Environment
  BY <1>6 DEF Environment, Produce, CloseSource, Consume, CloseSink, Pause, Resume,
              DropHandles, CancelToken, Contend
<1>7. CASE UNCHANGED vars
  BY <1>7 DEF vars
<1>. QED
  BY <1>1, <1>2, <1>3, <1>4, <1>5, <1>6, <1>7 DEF Next, Loop

(* A packet is processed only after every node was initialized and before  *)
(* any is shut down, whatever fails, times out, closes or is cancelled.    *)
THEOREM LifecycleOrdered == Spec => []LifecycleOrder
<1>1. Init => NodesRun
  BY DEF Init, NodesRun
<1>2. NodesRun => LifecycleOrder
  BY DEF NodesRun, LifecycleOrder, Places
<1>. QED
  BY <1>1, <1>2, InitType, NextType, NextNodesRun, PTL DEF Spec

-----------------------------------------------------------------------------
(* The implementation of PacketPipe.                                       *)

(* The loop starts as an empty, open pipe.                                 *)
LEMMA InitPipe == Init => Pipe!Init
<1>. SUFFICES ASSUME Init PROVE Pipe!Init
  OBVIOUS
<1>1. <<>> \o <<>> = <<>>
  OBVIOUS
<1>. QED
  BY <1>1 DEF Init, Pipe!Init

(* A step that moves no packet and does not end the loop. *)
LEMMA PipeStutter ==
  ASSUME UNCHANGED <<hand, source, sink, received, sent>>,
         pc = "returned" <=> pc' = "returned"
  PROVE  UNCHANGED Pipe!pipe
BY DEF Pipe!pipe

(* The packet taken from the source is the oldest in the pipe, still. *)
LEMMA TakePipe ==
  ASSUME TypeOK, Take, pc \in {"poll_source", "drain"}
  PROVE  UNCHANGED Pipe!pipe
<1>1. hand = <<>> /\ source \in Seq(Nat) /\ source # <<>>
  BY DEF TypeOK, Take
<1>2. hand' \o source' = source
  BY <1>1, MoveHead DEF Take
<1>3. hand \o source = source
  BY <1>1, ConcatEmptySeq
<1>. QED
  BY <1>2, <1>3 DEF Take, Pipe!pipe

(* Letting the packet in hand go drops the oldest of the pipe. *)
LEMMA DropPipe ==
  ASSUME TypeOK, pc \in {"process", "send"}, pc' # "returned", hand' = <<>>,
         UNCHANGED <<source, sink, received, sent>>
  PROVE  Pipe!Drop
<1>1. hand \in Seq(Nat) /\ source \in Seq(Nat) /\ hand # <<>> /\ Len(hand) <= 1
  BY DEF TypeOK
<1>2. hand = <<Head(hand)>> /\ Head(hand) \in Nat
  BY <1>1, Singleton
<1>3. hand \o source # <<>> /\ Head(hand \o source) = Head(hand) /\ Tail(hand \o source) = source
  BY <1>1, <1>2, ConcatTail
<1>4. hand' \o source' = source
  BY <1>1, ConcatEmptySeq
<1>. QED
  BY <1>3, <1>4 DEF Pipe!Drop

(* Every step of the loop is one of the pipe, or leaves it alone.          *)
LEMMA NextPipe == TypeOK /\ [Next]_vars => [Pipe!Next]_(Pipe!pipe)
<1>. SUFFICES ASSUME TypeOK, [Next]_vars PROVE Pipe!Next \/ UNCHANGED Pipe!pipe
  OBVIOUS
<1>t. /\ hand \in Seq(Nat) /\ source \in Seq(Nat) /\ sink \in Seq(Nat) /\ received \in Seq(Nat)
      /\ sent \in Nat /\ (pc \in {"process", "send"} <=> hand # <<>>) /\ Len(hand) <= 1
  BY DEF TypeOK
<1>1. CASE Initialize
  <2>1. CASE pc' = "returned"
    BY <1>1, <2>1 DEF Initialize, channels, Pipe!Next, Pipe!Stop
  <2>2. CASE pc' # "returned"
    BY <1>1, <2>2, PipeStutter DEF Initialize, channels
  <2>. QED
    BY <2>1, <2>2
<1>2. CASE WaitResumed \/ PollCancelled \/ PollPaused \/ Wake
  BY <1>2, PipeStutter DEF WaitResumed, PollCancelled, Break, PollPaused, Wake, channels
<1>3. CASE PollSource
  <2>1. CASE Take
    BY <1>3, <2>1, TakePipe DEF PollSource, Break
  <2>2. CASE ~Take
    BY <1>3, <2>2, PipeStutter DEF PollSource, Break, channels
  <2>. QED
    BY <2>1, <2>2
<1>4. CASE Process
  <2>1. CASE pc' = "send" /\ UNCHANGED hand
    BY <1>4, <2>1, PipeStutter DEF Process, channels
  <2>2. CASE pc' = Again /\ hand' = <<>>
    BY <1>4, <2>2, DropPipe DEF Process, Again, channels, Pipe!Next
  <2>. QED
    BY <1>4, <2>1, <2>2 DEF Process
<1>5. CASE Send
  <2>1. CASE sinkOpen /\ sink' = sink \o hand /\ pc' = Again
    <3>1. hand = <<Head(hand)>> /\ Head(hand) \in Nat
      BY <1>5, <1>t, Singleton DEF Send
    <3>2. hand \o source # <<>> /\ Head(hand \o source) = Head(hand) /\ Tail(hand \o source) = source
      BY <1>5, <1>t, ConcatTail DEF Send
    <3>3. sink \o hand = Append(sink, Head(hand))
      BY <1>t, <3>1, AppendIsConcat
    <3>4. received \o sink' = Append(received \o sink, Head(hand))
      BY <1>t, <2>1, <3>1, <3>3, AppendConcat
    <3>5. hand' \o source' = source
      BY <1>5, <1>t, ConcatEmptySeq DEF Send
    <3>. QED
      BY <1>5, <2>1, <3>2, <3>4, <3>5 DEF Send, Again, Pipe!Next, Pipe!Forward
  <2>2. CASE ~sinkOpen
    <3>1. hand' = <<>> /\ pc = "send" /\ pc' # "returned"
      BY <1>5, <2>2 DEF Send, Enough, Break
    <3>2. UNCHANGED <<source, sink, received, sent>>
      BY <1>5, <2>2 DEF Send
    <3>. QED
      BY <3>1, <3>2, DropPipe DEF Pipe!Next
  <2>. QED
    BY <1>5, <2>1, <2>2 DEF Send
<1>6. CASE Drain
  <2>1. CASE Take
    BY <1>6, <2>1, TakePipe DEF Drain
  <2>2. CASE ~Take
    BY <1>6, <2>2, PipeStutter DEF Drain, channels
  <2>. QED
    BY <2>1, <2>2
<1>7. CASE ShutdownNodes
  BY <1>7 DEF ShutdownNodes, channels, Pipe!Next, Pipe!Stop
<1>8. CASE DrainTimeout
  BY <1>8, DropPipe DEF DrainTimeout, channels, Pipe!Next
<1>9. CASE ShutdownTimeout
  BY <1>9 DEF ShutdownTimeout, channels, Pipe!Next, Pipe!Stop
<1>10. CASE Produce
  <2>1. hand \o Append(source, sent + 1) = Append(hand \o source, sent + 1)
    <3>1. sent + 1 \in Nat
      BY <1>t
    <3>2. hand \in Seq(Nat) /\ source \in Seq(Nat)
      BY <1>t
    <3>3. \A r, q \in Seq(Nat), n \in Nat : r \o Append(q, n) = Append(r \o q, n)
      BY AppendConcat
    <3>. QED
      BY <3>1, <3>2, <3>3
  <2>2. hand' = hand /\ source' = Append(source, sent + 1)
    BY <1>10 DEF Produce
  <2>3. hand' \o source' = Append(hand \o source, sent + 1)
    BY <2>1, <2>2
  <2>. QED
    BY <1>10, <2>3 DEF Produce, Pipe!Next, Pipe!Accept
<1>11. CASE Consume
  <2>0. Append(received, Head(sink)) \o Tail(sink) = received \o sink
    <3>1. received \in Seq(Nat) /\ sink \in Seq(Nat) /\ sink # <<>>
      BY <1>11, <1>t DEF Consume
    <3>2. \A r, q \in Seq(Nat) : q # <<>> => Append(r, Head(q)) \o Tail(q) = r \o q
      BY MoveHead
    <3>. QED
      BY <3>1, <3>2
  <2>1. received' \o sink' = received \o sink
    BY <1>11, <2>0 DEF Consume
  <2>. QED
    BY <1>11, <2>1 DEF Consume, Pipe!pipe
<1>12. CASE CloseSource \/ CloseSink
  BY <1>12, PipeStutter DEF CloseSource, CloseSink
<1>13. CASE Pause \/ Resume \/ DropHandles \/ CancelToken \/ Contend
  BY <1>13, PipeStutter DEF Pause, Resume, DropHandles, CancelToken, Contend, channels
<1>14. CASE UNCHANGED vars
  BY <1>14, PipeStutter DEF vars, channels
<1>. QED
  BY <1>1, <1>2, <1>3, <1>4, <1>5, <1>6, <1>7, <1>8, <1>9, <1>10, <1>11, <1>12, <1>13, <1>14
     DEF Next, Loop, Timeout, Environment

(* The loop, with its drain, its timeouts and its pauses, is an in-order   *)
(* pipe: no packet is forwarded twice, out of order or after it returned.  *)
THEOREM LoopImplementsPipe == Spec => ImplementsPipe
BY InitType, NextType, InitPipe, NextPipe, PTL DEF Spec, ImplementsPipe, Pipe!Spec
-----------------------------------------------------------------------------
(* How late a pause or a cancellation may be noticed.                      *)

(* Where the biased select! stands after it polled the token in vain.      *)
Uncancelled == {"poll_paused", "poll_source", "asleep"}

(* The inductive invariant behind AtMostOneLate: a poll of the source has  *)
(* passed the polls of the token and of the pause, and only what happens   *)
(* between two polls of one select! may still let a packet through.        *)
LateInv ==
  /\ AtMostOneLate
  /\ pc = "poll_source" /\ paused => sincePause = 0
  /\ pc \in Uncancelled \/ ~cancelled => sinceCancel = 0 \/ phase = "drain"
  /\ pc = "drain" => phase = "drain"

(* Every step keeps it: the token and the pause are polled before the      *)
(* source, and the loop waits for a resume before it polls again.          *)
LEMMA NextLate == TypeOK /\ LateInv /\ [Next]_vars => LateInv'
<1>. SUFFICES ASSUME TypeOK, LateInv, [Next]_vars PROVE LateInv'
  OBVIOUS
<1>0. /\ sincePause \in Nat /\ sinceCancel \in Nat /\ phase \in Phases
      /\ paused \in BOOLEAN /\ cancelled \in BOOLEAN
  BY DEF TypeOK
<1>. USE DEF LateInv, AtMostOneLate, Uncancelled, Phases, channels, control, observed, late, tally
<1>1. CASE Initialize \/ WaitResumed
  BY <1>1 DEF Initialize, WaitResumed
<1>2. CASE PollCancelled
  BY <1>2 DEF PollCancelled, Break
<1>3. CASE PollPaused
  BY <1>0, <1>3 DEF PollPaused
<1>4. CASE PollSource
  BY <1>0, <1>4 DEF PollSource, Break, Take
<1>5. CASE Wake
  BY <1>5 DEF Wake
<1>6. CASE Process \/ Send
  BY <1>0, <1>6 DEF Process, Send, Again, Enough, Break
<1>7. CASE Drain
  BY <1>0, <1>7 DEF Drain, Take
<1>8. CASE ShutdownNodes \/ Timeout
  BY <1>8 DEF ShutdownNodes, Timeout, DrainTimeout, ShutdownTimeout
<1>9. CASE Pause
  BY <1>0, <1>9 DEF Pause
<1>10. CASE Resume \/ DropHandles \/ CancelToken \/ Contend
  BY <1>0, <1>10 DEF Resume, DropHandles, CancelToken, Contend
<1>11. CASE Produce \/ CloseSource \/ Consume \/ CloseSink
  BY <1>11 DEF Produce, CloseSource, Consume, CloseSink
<1>12. CASE UNCHANGED vars
  BY <1>12 DEF vars
<1>. QED
  BY <1>1, <1>2, <1>3, <1>4, <1>5, <1>6, <1>7, <1>8, <1>9, <1>10, <1>11, <1>12
     DEF Next, Loop, Environment

(* Once the graph is paused or the token cancelled, the main loop starts   *)
(* at most the one packet its poll of the source raced for, whatever the   *)
(* producer, the pause handles and the other ends do meanwhile.            *)
THEOREM AtMostOneLateTaken == Spec => []AtMostOneLate
<1>1. Init => LateInv
  BY DEF Init, LateInv, AtMostOneLate, Uncancelled
<1>2. LateInv => AtMostOneLate
  BY DEF LateInv
<1>. QED
  BY <1>1, <1>2, NextLate, TypeCorrect, PTL DEF Spec
-----------------------------------------------------------------------------
(* What a run leaves behind.                                               *)

(* Before the initialization no node has left its first state.             *)
SettledInv ==
  /\ pc = "initialize" => \A n \in Node : node[n] = "Uninitialized"
  /\ NodesSettled

(* Every step settles the nodes before it returns.                         *)
LEMMA NextSettled == TypeOK /\ SettledInv /\ [Next]_vars => SettledInv'
<1>. SUFFICES ASSUME TypeOK, SettledInv, [Next]_vars PROVE SettledInv'
  OBVIOUS
<1>. USE DEF SettledInv, NodesSettled, channels, control, observed, late, tally
<1>1. CASE Initialize
  BY <1>1 DEF Initialize
<1>2. CASE ShutdownNodes
  BY <1>2 DEF ShutdownNodes
<1>3. CASE Timeout
  BY <1>3 DEF Timeout, DrainTimeout, ShutdownTimeout
<1>4. CASE WaitResumed \/ PollCancelled \/ PollPaused \/ PollSource \/ Wake
  BY <1>4 DEF WaitResumed, PollCancelled, PollPaused, PollSource, Break, Take, Wake
<1>5. CASE Process \/ Send \/ Drain
  BY <1>5 DEF Process, Send, Again, Enough, Break, Drain, Take
<1>6. CASE Environment
  BY <1>6 DEF Environment, Produce, CloseSource, Consume, CloseSink, Pause, Resume,
              DropHandles, CancelToken, Contend
<1>7. CASE UNCHANGED vars
  BY <1>7 DEF vars
<1>. QED
  BY <1>1, <1>2, <1>3, <1>4, <1>5, <1>6, <1>7 DEF Next, Loop

(* Until a timeout drops one, every packet sent was run through the graph, *)
(* is about to be, or waits in the source; and no drain that was not       *)
(* forced and kept its sink ended before it had run what it found there.   *)
ProcessedInv ==
  /\ ~forced /\ pc = "process" => processed + Len(source) + 1 = sent
  /\ ~forced /\ pc # "process" => processed + Len(source) = sent
  /\ atStop <= sent
  /\ pc # "returned" => result = "none"
  /\ pc \in {"shutdown", "returned"} =>
       result = "init_failed" \/ processed >= atStop \/ forced \/ ~sinkOpen

(* The packet taken is the only one that leaves the source.                *)
LEMMA TakeCounts ==
  ASSUME TypeOK, Take
  PROVE  /\ Len(source) \in Nat /\ Len(source') = Len(source) - 1
         /\ pc' = "process" /\ UNCHANGED <<sent, sinkOpen>>
<1>1. source \in Seq(Nat) /\ source # <<>>
  BY DEF TypeOK, Take
<1>2. Len(source) \in Nat /\ Len(Tail(source)) = Len(source) - 1
  BY <1>1, HeadTailProperties, LenProperties
<1>. QED
  BY <1>2 DEF Take

(* Every step of the loop and of its producer keeps the account.           *)
LEMMA NextProcessed == TypeOK /\ ProcessedInv /\ [Next]_vars => ProcessedInv'
<1>. SUFFICES ASSUME TypeOK, ProcessedInv, [Next]_vars PROVE ProcessedInv'
  OBVIOUS
<1>t. /\ sent \in Nat /\ processed \in Nat /\ atStop \in Nat /\ Len(source) \in Nat
      /\ source \in Seq(Nat)
  BY DEF TypeOK
<1>. USE DEF channels, control, observed, late, tally
<1>1. CASE Initialize \/ WaitResumed \/ PollPaused \/ Wake
  BY <1>t, <1>1 DEF Initialize, WaitResumed, PollPaused, Wake, ProcessedInv
<1>2. CASE PollCancelled
  BY <1>t, <1>2 DEF PollCancelled, Break, ProcessedInv
<1>3. CASE PollSource
  <2>1. CASE Take
    BY <1>t, <1>3, <2>1, TakeCounts DEF PollSource, ProcessedInv
  <2>2. CASE ~Take
    BY <1>t, <1>3, <2>2 DEF PollSource, Break, ProcessedInv
  <2>. QED
    BY <2>1, <2>2
<1>4. CASE Process
  BY <1>t, <1>4 DEF Process, Again, ProcessedInv
<1>5. CASE Send
  BY <1>t, <1>5 DEF Send, Again, Enough, Break, ProcessedInv
<1>6. CASE Drain
  <2>1. CASE Take
    BY <1>t, <1>6, <2>1, TakeCounts DEF Drain, ProcessedInv
  <2>2. CASE ~Take
    <3>1. source = <<>> /\ Len(source) = 0 /\ pc = "drain" /\ pc' = "shutdown"
      BY <1>6, <2>2 DEF Drain
    <3>. QED
      BY <1>t, <1>6, <2>2, <3>1 DEF Drain, ProcessedInv
  <2>. QED
    BY <2>1, <2>2
<1>7. CASE ShutdownNodes \/ Timeout
  <2>1. CASE ShutdownNodes
    BY <1>t, <2>1 DEF ShutdownNodes, ProcessedInv
  <2>2. CASE DrainTimeout
    BY <1>t, <2>2 DEF DrainTimeout, ProcessedInv
  <2>3. CASE ShutdownTimeout
    BY <1>t, <2>3 DEF ShutdownTimeout, ProcessedInv
  <2>. QED
    BY <1>7, <2>1, <2>2, <2>3 DEF Timeout
<1>8. CASE Produce
  <2>1. Len(source') = Len(source) + 1 /\ sent' = sent + 1
    BY <1>t, <1>8 DEF Produce
  <2>. QED
    BY <1>t, <1>8, <2>1 DEF Produce, ProcessedInv
<1>9. CASE CloseSource \/ Consume \/ CloseSink \/ Pause \/ Resume \/ DropHandles
           \/ CancelToken \/ Contend
  BY <1>9 DEF CloseSource, Consume, CloseSink, Pause, Resume, DropHandles, CancelToken,
              Contend, ProcessedInv
<1>10. CASE UNCHANGED vars
  BY <1>10 DEF vars, ProcessedInv
<1>. QED
  BY <1>1, <1>2, <1>3, <1>4, <1>5, <1>6, <1>7, <1>8, <1>9, <1>10 DEF Next, Loop, Environment

(* A run that was not forced by a timeout returns with every node shut     *)
(* down, and has processed every packet that was sent before its main loop *)
(* ended, unless the sink is gone: for any number of packets, nodes and    *)
(* pauses, and whatever is sent while it drains and shuts down.            *)
THEOREM NothingLeftBehind == Spec => []LeavesNothingBehind
<1>1. Init => SettledInv /\ ProcessedInv
  BY DEF Init, SettledInv, NodesSettled, ProcessedInv
<1>2. SettledInv /\ ProcessedInv => LeavesNothingBehind
  BY DEF SettledInv, ProcessedInv, LeavesNothingBehind, RemainderProcessed
<1>. QED
  BY <1>1, <1>2, NextSettled, NextProcessed, TypeCorrect, PTL DEF Spec
=============================================================================
