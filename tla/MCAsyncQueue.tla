---------------------------- MODULE MCAsyncQueue ----------------------------
(***************************************************************************)
(* Model-checking instance of AsyncQueue: three threads, two calls each,   *)
(* of any kind the callers' contract allows.                               *)
(***************************************************************************)
EXTENDS AsyncQueue
=============================================================================
