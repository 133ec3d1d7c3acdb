---------------------------- MODULE MCRingBuffer ----------------------------
(* Model-checking instance of RingBuffer; the .cfg files give the constants. *)
EXTENDS RingBuffer
=============================================================================
