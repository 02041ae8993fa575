--------------------------- MODULE MCGammaQueue ---------------------------
(***************************************************************************)
(* Model-checking instances of GammaQueue, for a few threads that each may *)
(* push, pop and free without a bound on their calls.                      *)
(***************************************************************************)
EXTENDS GammaQueue
=============================================================================
