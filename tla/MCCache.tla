------------------------------ MODULE MCCache ------------------------------
(***************************************************************************)
(* Model-checking instance of Cache: a counter of three bits and a ring    *)
(* whose size does not divide its range, so that the counters wrap between *)
(* slots.  Threads and objects are interchangeable and every property is a *)
(* safety property.                                                        *)
(***************************************************************************)
EXTENDS Cache, TLC

Symmetry == Permutations(Threads) \cup Permutations(Objects)
=============================================================================
