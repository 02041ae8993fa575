----------------------------- MODULE AlphaQueue -----------------------------
(***************************************************************************)
(* src/src/alpha_queue.c: the list of NodeQueue without any lock, for one  *)
(* thread that pushes and one that pops (alpha_queue.h:28).                *)
(***************************************************************************)
EXTENDS NodeQueue

CONSTANTS
  Pusher, Popper   \* the two threads

ASSUME PairAssumption == Threads = {Pusher, Popper} /\ Pusher # Popper

PCs == {"idle", "alloc", "write", "look", "take", "free_temp", "free_list",
        "return"}

TypeOK == DataTypeOK /\ pc \in [Threads -> PCs]

CallPush == \E x \in Items : Call(Pusher, "push", x, "alloc")
CallPop == Call(Popper, "try_pop", Null, "look")
CallFree(t) == Call(t, "free", Null, "free_list")

PushStep ==
  \/ Alloc(Pusher, "write", "return")
  \/ StoreItem(Pusher)
  \/ StoreLink(Pusher)
  \/ StoreTail(Pusher, "return")

PopStep ==
  \/ LookEmpty(Popper, "return")
  \/ LookFull(Popper)
  \/ Take(Popper, "free_temp")
  \/ FreeTemp(Popper)

Next ==
  \/ CallPush \/ PushStep
  \/ CallPop \/ PopStep
  \/ \E t \in Threads :
       CallFree(t) \/ FreeNode(t) \/ FreeQueue(t) \/ Return(t)

Spec == Init /\ [][Next]_vars

=============================================================================
