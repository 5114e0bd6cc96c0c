---------------------------- MODULE MCRingBuffer ----------------------------
(* Instances of RingBuffer for TLC: a ring of four slots in two words. *)
EXTENDS RingBuffer
=============================================================================
