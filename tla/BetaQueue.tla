----------------------------- MODULE BetaQueue -----------------------------
(***************************************************************************)
(* src/src/beta_queue.c: the list of NodeQueue with a lock at each end.    *)
(* Pushes exclude pushes and pops exclude pops, but a push and a pop run   *)
(* at the same time.  GammaQueue takes the steps of its calls and adds its *)
(* own to them, and names the labels where they differ: signalled is where *)
(* a push goes after its unlock, empty where a pop that waits goes when it *)
(* finds no item.                                                          *)
(***************************************************************************)
EXTENDS NodeQueue

VARIABLES
  headLock, tailLock   \* the owner of each lock, or Null

INSTANCE Lock

ASSUME NullIsNoThread == Null \notin Threads

locks == <<headLock, tailLock>>
lockVars == <<vars, locks>>

LockTypeOK == {headLock, tailLock} \subseteq Threads \cup {Null}

LockInit == Created(headLock) /\ Created(tailLock)

\* What the thread does without touching a lock.
Inside(A) == A /\ UNCHANGED locks

Move(t, from, to) ==
  /\ At(t, from)
  /\ Goto(t, to)
  /\ UNCHANGED <<memory, head, tail, call, node, rv, todo, freed, history>>

\* The item has been stored, or its store is to come behind the link.
LockTail(t) ==
  /\ Move(t, "lock_tail", "write")
  /\ Head(todo[t]) # "item"
  /\ Acquire(tailLock, t)
  /\ UNCHANGED headLock

\* As if a push took head_lock, to broadcast under it, before it gave up its own.
UnlockTailUnderHead(t, signalled) ==
  /\ Move(t, "unlock_tail", signalled)
  /\ headLock = Null
  /\ Release(tailLock)
  /\ UNCHANGED headLock

UnlockTail(t, signalled) ==
  /\ Move(t, "unlock_tail", signalled)
  /\ Release(tailLock)
  /\ UNCHANGED headLock

LockHead(t) ==
  /\ Move(t, "lock_head", "look")
  /\ Acquire(headLock, t)
  /\ UNCHANGED tailLock

UnlockHead(t) ==
  /\ \/ Move(t, "unlock_empty", "return")
     \/ Move(t, "unlock_taken", "free_temp")
  /\ Release(headLock)
  /\ UNCHANGED tailLock

PushStep(t, signalled) ==
  \/ Inside(Alloc(t, "lock_tail", "return"))
  \/ LockTail(t)
  \/ Inside(StoreItem(t))
  \/ Inside(StoreLink(t))
  \/ Inside(StoreTail(t, "unlock_tail"))
  \/ UnlockTail(t, signalled)
  \/ op[t] = "push" /\ Inside(Return(t))

PopStep(t, empty) ==
  \/ LockHead(t)
  \/ Inside(LookEmpty(t, IF op[t] = "pop" THEN empty ELSE "unlock_empty"))
  \/ Inside(LookFull(t))
  \/ Inside(Take(t, "unlock_taken"))
  \/ UnlockHead(t)
  \/ Inside(FreeTemp(t))
  \/ op[t] # "push" /\ Inside(Return(t))

FreeStep(t) ==
  \/ Inside(FreeNode(t))
  \/ FreeQueue(t) /\ Destroy(headLock) /\ Destroy(tailLock)

-----------------------------------------------------------------------------
\* The queue of beta_queue.c by itself.  No pop waits, so no push signals.
BetaCall(t) ==
  \/ \E x \in Items : Inside(Call(t, "push", x, "alloc"))
  \/ Inside(Call(t, "try_pop", Null, "lock_head"))
  \/ Inside(Call(t, "free", Null, "free_list"))

BetaNext ==
  \E t \in Threads :
    \/ BetaCall(t)
    \/ PushStep(t, "return")
    \/ PopStep(t, "unlock_empty")
    \/ FreeStep(t)

BetaSpec == Init /\ LockInit /\ [][BetaNext]_lockVars
=============================================================================
