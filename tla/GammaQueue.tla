----------------------------- MODULE GammaQueue -----------------------------
(***************************************************************************)
(* src/src/gamma_queue.c: BetaQueue whose pops may wait for an item.  The  *)
(* condition nonempty belongs to head_lock, but a push broadcasts it after *)
(* it has given up tail_lock, holding neither.                             *)
(*                                                                         *)
(* A pop with wait = false and a push nobody waits for are those of        *)
(* beta_queue.c.                                                           *)
(***************************************************************************)
EXTENDS BetaQueue

PCs == {"idle", "alloc", "lock_tail", "write", "unlock_tail", "broadcast",
        "lock_head", "look", "wait", "parked", "take", "unlock_empty",
        "unlock_taken", "free_temp", "free_list", "return"}

TypeOK == DataTypeOK /\ LockTypeOK /\ pc \in [Threads -> PCs]

GammaInit == Init /\ LockInit

CallPush(t) == \E x \in Items : Inside(Call(t, "push", x, "alloc"))
CallPop(t) == \E o \in {"pop", "try_pop"} : Inside(Call(t, o, Null, "lock_head"))
CallFree(t) == Inside(Call(t, "free", Null, "free_list"))

\* loomlib_cond_broadcast, made without head_lock.
Broadcast(t) ==
  /\ At(t, "broadcast")
  /\ pc' = [Woken(pc, "lock_head") EXCEPT ![t] = "return"]
  /\ UNCHANGED <<memory, head, tail, call, node, rv, todo, freed, history, locks>>

\* loomlib_cond_wait, on the condition nonempty.
Wait(t) ==
  /\ At(t, "wait")
  /\ Park(pc, t, headLock)
  /\ UNCHANGED <<memory, head, tail, call, node, rv, todo, freed, history, tailLock>>

\* POSIX lets it return although nobody signalled.
SpuriousWake(t) ==
  /\ Move(t, "parked", "lock_head")
  /\ UNCHANGED locks

Pushing(t) == PushStep(t, "broadcast") \/ Broadcast(t)

Next ==
  \E t \in Threads :
    \/ CallPush(t) \/ CallPop(t) \/ CallFree(t)
    \/ Pushing(t)
    \/ PopStep(t, "wait") \/ Wait(t) \/ SpuriousWake(t)
    \/ FreeStep(t)

Spec == GammaInit /\ [][Next]_lockVars

\* Fairness for pushes alone: pops may stop anywhere, with head_lock held.
PushersRun == Spec /\ \A t \in Threads : WF_lockVars(Pushing(t))

-----------------------------------------------------------------------------
\* "two threads to simultaneously push and pop" (gamma_queue.h:30): the owner
\* of tail_lock is never kept waiting, whatever the pops are doing, even if they
\* all stop: every push that got the lock gives it up, and a pop parked while
\* some push has the lock is woken.
PushesGoOn ==
  \A t \in Threads :
    /\ tailLock = t ~> tailLock # t
    /\ (tailLock # Null /\ At(t, "parked")) ~> ~At(t, "parked")

\* "If wait is TRUE then the calling thread will block until another thread
\* pushes an item onto the queue" (gamma_queue.h:65): a pop is parked beside an
\* item only for as long as the push that brought it has yet to broadcast.
NoLostWakeup ==
  (\E t \in Threads : At(t, "parked")) /\ queued # <<>>
  => \E t \in Threads : op[t] = "push" /\ rv[t] = 1 /\ ~At(t, "return")
=============================================================================
