-------------------------------- MODULE Lock --------------------------------
(***************************************************************************)
(* src/src/lock.c as it is built, with USE_MUTEX: each operation is the    *)
(* pthread call it wraps in an assertion.  A lock is a variable of the     *)
(* caller, the thread that owns it or Null.  A thread parked on a          *)
(* condition is one whose label in the caller's pc is "parked".            *)
(*                                                                         *)
(* The calls are arguments of assert: a build with NDEBUG has no locks at  *)
(* all.                                                                    *)
(***************************************************************************)
CONSTANT Null

\* loomlib_lock_init.
Created(lock) == lock = Null

\* As a build with NDEBUG has it.
AcquireCompiledAway(lock, t) == UNCHANGED lock

\* loomlib_lock_acquire.
Acquire(lock, t) == lock = Null /\ lock' = t

\* loomlib_lock_release.
Release(lock) == lock' = Null

\* loomlib_lock_destroy; pthread_mutex_destroy fails on a lock that is held.
Destroy(lock) == lock = Null /\ UNCHANGED lock

\* loomlib_cond_wait gives the lock up and parks in one step; the thread comes
\* back by acquiring it.
Park(pcs, t, lock) == Release(lock) /\ pcs' = [pcs EXCEPT ![t] = "parked"]

\* loomlib_cond_broadcast: where every thread stands once those parked on the
\* condition are on their way to the lock, at label.
Woken(pcs, label) ==
  [t \in DOMAIN pcs |-> IF pcs[t] = "parked" THEN label ELSE pcs[t]]
=============================================================================
