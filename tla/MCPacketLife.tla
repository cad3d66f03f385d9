----------------------------- MODULE MCPacketLife -----------------------------
(* PacketLife for TLC: two packets at a time, which are interchangeable.    *)
EXTENDS PacketLife
CONSTANTS h1, h2
Interchangeable == Permutations(Handles)
=============================================================================
