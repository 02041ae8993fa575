--------------------------- MODULE MCAlphaQueue ---------------------------
(***************************************************************************)
(* Model-checking instance of AlphaQueue: one pair of threads, memory for  *)
(* the dummy and a few items.                                              *)
(***************************************************************************)
EXTENDS AlphaQueue
=============================================================================
