---------------------------- MODULE MCRingQueue ----------------------------
(***************************************************************************)
(* Model-checking instance of RingQueue: memory for four nodes.            *)
(***************************************************************************)
EXTENDS RingQueue
=============================================================================
