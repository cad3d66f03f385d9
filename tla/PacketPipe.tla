------------------------------- MODULE PacketPipe -------------------------------
(***************************************************************************)
(* What the execution loop of nyarix-runtime promises the two ends of its  *)
(* packet pipe (crates/nyarix-runtime/src/execution_loop.rs): a packet     *)
(* accepted from the source leaves at the sink at most once and in order;  *)
(* a packet the graph absorbs or fails on is dropped without holding up    *)
(* the ones behind it; and after the pipe stops nothing comes out.         *)
(***************************************************************************)
EXTENDS Naturals, Sequences

CONSTANT Packets (* How many packets the source ever sends. *)

VARIABLES accepted, (* Packets in the pipe, oldest first. *)
          forwarded, (* Packets that left it at the sink. *)
          sent,      (* How many packets were ever accepted. *)
          stopped

pipe == <<accepted, forwarded, sent, stopped>>

Init == accepted = <<>> /\ forwarded = <<>> /\ sent = 0 /\ stopped = FALSE

Accept ==
  /\ ~stopped /\ sent < Packets
  /\ sent' = sent + 1
  /\ accepted' = Append(accepted, sent + 1)
  /\ UNCHANGED <<forwarded, stopped>>

Forward ==
  /\ ~stopped /\ accepted # <<>>
  /\ forwarded' = Append(forwarded, Head(accepted))
  /\ accepted' = Tail(accepted)
  /\ UNCHANGED <<sent, stopped>>

Drop ==
  /\ ~stopped /\ accepted # <<>>
  /\ accepted' = Tail(accepted)
  /\ UNCHANGED <<forwarded, sent, stopped>>

Stop ==
  /\ ~stopped /\ stopped' = TRUE
  /\ UNCHANGED <<accepted, forwarded, sent>>

Next == Accept \/ Forward \/ Drop \/ Stop

Spec == Init /\ [][Next]_pipe
=============================================================================
