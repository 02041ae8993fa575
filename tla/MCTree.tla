------------------------------- MODULE MCTree -------------------------------
(***************************************************************************)
(* Model-checking instance of Tree.                                        *)
(***************************************************************************)
EXTENDS Tree
=============================================================================
