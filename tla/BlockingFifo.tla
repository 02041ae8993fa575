---------------------------- MODULE BlockingFifo ----------------------------
(***************************************************************************)
(* What include/async_queue.h promises, with no lock, counter or condition *)
(* variable in sight: a first-in first-out queue shared by threads, each   *)
(* of whose calls takes effect in one step between its invocation and its  *)
(* return.  A pop that may wait takes effect only once there is an item,   *)
(* and a free only once there is none.                                     *)
(***************************************************************************)
EXTENDS Naturals, Sequences

CONSTANTS
  Threads,   \* the threads that share the queue
  Items,     \* the pointers that may be enqueued
  Null       \* NULL

VARIABLES
  items,     \* the queue, oldest item first
  op,        \* the call each thread is in, "none" outside
  arg,       \* the item a push was given
  done,      \* whether the call has taken effect
  ret,       \* the value it will return (true is 1, false is 0)
  closed     \* a free has taken effect

vars == <<items, op, arg, done, ret, closed>>

Init ==
  /\ items = <<>>
  /\ op = [t \in Threads |-> "none"]
  /\ arg = [t \in Threads |-> Null]
  /\ done = [t \in Threads |-> FALSE]
  /\ ret = [t \in Threads |-> Null]
  /\ closed = FALSE

Invoke(t, o, x) ==
  /\ op[t] = "none"
  /\ ~closed
  /\ op' = [op EXCEPT ![t] = o]
  /\ arg' = [arg EXCEPT ![t] = x]
  /\ UNCHANGED <<items, done, ret, closed>>

\* The one step in which the call of t takes effect and its result is fixed.
Commit(t, newItems, value) ==
  /\ ~done[t]
  /\ ~closed
  /\ items' = newItems
  /\ done' = [done EXCEPT ![t] = TRUE]
  /\ ret' = [ret EXCEPT ![t] = value]
  /\ UNCHANGED <<op, arg>>

Push(t) ==
  /\ op[t] = "push"
  /\ \/ Commit(t, Append(items, arg[t]), 1)
     \/ Commit(t, items, 0)                      \* out of memory
  /\ UNCHANGED closed

PopItem(t) ==
  /\ op[t] \in {"pop", "try_pop"}
  /\ items # <<>>
  /\ Commit(t, Tail(items), Head(items))
  /\ UNCHANGED closed

PopNothing(t) ==
  /\ op[t] = "try_pop"
  /\ items = <<>>
  /\ Commit(t, items, Null)
  /\ UNCHANGED closed

Count(t) ==
  /\ op[t] = "count"
  /\ Commit(t, items, Len(items))
  /\ UNCHANGED closed

Free(t) ==
  /\ op[t] = "free"
  /\ items = <<>>
  /\ Commit(t, items, Null)
  /\ closed' = TRUE

Return(t) ==
  /\ done[t]
  /\ op' = [op EXCEPT ![t] = "none"]
  /\ arg' = [arg EXCEPT ![t] = Null]
  /\ done' = [done EXCEPT ![t] = FALSE]
  /\ ret' = [ret EXCEPT ![t] = Null]
  /\ UNCHANGED <<items, closed>>

Next ==
  \E t \in Threads :
    \/ \E x \in Items : Invoke(t, "push", x)
    \/ \E o \in {"pop", "try_pop", "count", "free"} : Invoke(t, o, Null)
    \/ Push(t) \/ PopItem(t) \/ PopNothing(t) \/ Count(t) \/ Free(t)
    \/ Return(t)

Spec == Init /\ [][Next]_vars
=============================================================================
