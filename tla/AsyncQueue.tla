----------------------------- MODULE AsyncQueue -----------------------------
(***************************************************************************)
(* src/src/async_queue.c: a FIFO guarded by one mutex and two condition    *)
(* variables.  Every call is lock; body; unlock, and the body is cut where *)
(* another thread can tell the difference: pthread_cond_wait gives up the  *)
(* lock in the middle of it, and a broadcast changes who is parked.        *)
(*                                                                         *)
(* The linked ring of src/src/queue.c that holds the items appears here as *)
(* a sequence; queue_push may find no memory and leave it as it was.       *)
(***************************************************************************)
EXTENDS Naturals, Sequences, FiniteSets

CONSTANTS
  Threads,   \* threads that call into one queue
  Items,     \* the pointers they enqueue
  Null,      \* NULL
  MaxCalls   \* bound: calls one thread makes

ASSUME ThreadsAssumption == IsFiniteSet(Threads)
ASSUME CallsAssumption == MaxCalls \in Nat
ASSUME NullAssumption == Null \notin Items \cup Threads \cup Nat

VARIABLES
  queue,     \* queue->queue, oldest item first
  size,      \* queue->size
  lock,      \* the thread that owns queue->lock, or Null
  pc,        \* where each thread stands in its call
  op,        \* the call: "pop" waits, "try_pop" is pop with wait = false
  arg,       \* the item of a push
  rv,        \* the local rv (true is 1, false is 0)
  calls,     \* calls made so far, counted only to bound them
  destroyed  \* async_queue_free has released the queue

vars == <<queue, size, lock, pc, op, arg, rv, calls, destroyed>>

Ops == {"push", "pop", "try_pop", "count", "free"}
PCs == {"idle", "lock", "body", "signal", "wait_nonempty", "wait_is_empty",
        "unlock", "destroy"}

TypeOK ==
  /\ queue \in Seq(Items)
  /\ size \in Nat
  /\ lock \in Threads \cup {Null}
  /\ pc \in [Threads -> PCs]
  /\ op \in [Threads -> Ops \cup {"none"}]
  /\ arg \in [Threads -> Items \cup {Null}]
  /\ rv \in [Threads -> Items \cup {Null} \cup Nat]
  /\ calls \in [Threads -> 0..MaxCalls]
  /\ destroyed \in BOOLEAN

Init ==
  /\ queue = <<>>
  /\ size = 0
  /\ lock = Null
  /\ pc = [t \in Threads |-> "idle"]
  /\ op = [t \in Threads |-> "none"]
  /\ arg = [t \in Threads |-> Null]
  /\ rv = [t \in Threads |-> Null]
  /\ calls = [t \in Threads |-> 0]
  /\ destroyed = FALSE

Goto(t, label) == pc' = [pc EXCEPT ![t] = label]

-----------------------------------------------------------------------------
(***************************************************************************)
(* The callers.  async_queue.h:45: "A queue should not be popped/pushed/   *)
(* counted after freeing", yet a free may overlap the pops that drain the  *)
(* queue, which is what its wait is for.  So one thread frees, once nobody *)
(* is pushing or counting, and from then on every pop under way has an     *)
(* item that is there for it.                                              *)
(***************************************************************************)
Freeing == \E t \in Threads : op[t] = "free"

PendingPops ==
  {t \in Threads : /\ op[t] \in {"pop", "try_pop"}
                   /\ pc[t] \in {"lock", "body", "wait_nonempty"}}

MayCall(o) ==
  /\ ~destroyed
  /\ o \in {"push", "count"} => ~Freeing
  /\ o \in {"pop", "try_pop"} /\ Freeing => Cardinality(PendingPops) < Len(queue)
  /\ o = "free" => /\ \A t \in Threads : op[t] \notin {"push", "count", "free"}
                   /\ Cardinality(PendingPops) <= Len(queue)

Call(t, o, x) ==
  /\ pc[t] = "idle"
  /\ calls[t] < MaxCalls
  /\ MayCall(o)
  /\ op' = [op EXCEPT ![t] = o]
  /\ arg' = [arg EXCEPT ![t] = x]
  /\ calls' = [calls EXCEPT ![t] = @ + 1]
  /\ Goto(t, "lock")
  /\ UNCHANGED <<queue, size, lock, rv, destroyed>>

CallPush(t) == \E x \in Items : Call(t, "push", x)
CallOther(t) == \E o \in Ops \ {"push"} : Call(t, o, Null)

-----------------------------------------------------------------------------
(* pthread_mutex_lock, also as the last step of pthread_cond_wait. *)
Lock(t) ==
  /\ pc[t] = "lock"
  /\ lock = Null
  /\ lock' = t
  /\ Goto(t, "body")
  /\ UNCHANGED <<queue, size, op, arg, rv, calls, destroyed>>

(* pthread_cond_wait gives up the lock and parks in one step. *)
Park(t, cond) ==
  /\ lock' = Null
  /\ Goto(t, cond)

(* POSIX lets pthread_cond_wait return although nobody signalled. *)
SpuriousWake(t) ==
  /\ pc[t] \in {"wait_nonempty", "wait_is_empty"}
  /\ Goto(t, "lock")
  /\ UNCHANGED <<queue, size, lock, op, arg, rv, calls, destroyed>>

(* pthread_cond_broadcast by t, which moves on to its unlock. *)
Broadcast(t, cond) ==
  pc' = [u \in Threads |-> IF u = t THEN "unlock"
                           ELSE IF pc[u] = cond THEN "lock" ELSE pc[u]]

-----------------------------------------------------------------------------
\* As if pushes went to the end that pops take from.
PushBodyLifo(t) ==
  /\ pc[t] = "body" /\ op[t] = "push"
  /\ \/ /\ queue' = <<arg[t]>> \o queue
        /\ size' = size + 1
        /\ rv' = [rv EXCEPT ![t] = 1]
     \/ /\ rv' = [rv EXCEPT ![t] = 0]
        /\ UNCHANGED <<queue, size>>
  /\ Goto(t, "signal")
  /\ UNCHANGED <<lock, op, arg, calls, destroyed>>

\* async_queue_push up to the broadcast; queue_push fails without memory.
PushBody(t) ==
  /\ pc[t] = "body" /\ op[t] = "push"
  /\ \/ /\ queue' = Append(queue, arg[t])
        /\ size' = size + 1
        /\ rv' = [rv EXCEPT ![t] = 1]
     \/ /\ rv' = [rv EXCEPT ![t] = 0]
        /\ UNCHANGED <<queue, size>>
  /\ Goto(t, "signal")
  /\ UNCHANGED <<lock, op, arg, calls, destroyed>>

\* As if nonempty were signalled only when the queue stops being empty.
PushSignalFirstOnly(t) ==
  /\ pc[t] = "signal" /\ op[t] = "push"
  /\ IF size = 1 /\ \E u \in Threads : pc[u] = "wait_nonempty"
     THEN \E u \in Threads :
            /\ pc[u] = "wait_nonempty"
            /\ pc' = [pc EXCEPT ![t] = "unlock", ![u] = "lock"]
     ELSE Goto(t, "unlock")
  /\ UNCHANGED <<queue, size, lock, op, arg, rv, calls, destroyed>>

\* The broadcast of async_queue_push, made whether or not the push succeeded.
PushSignal(t) ==
  /\ pc[t] = "signal" /\ op[t] = "push"
  /\ Broadcast(t, "wait_nonempty")
  /\ UNCHANGED <<queue, size, lock, op, arg, rv, calls, destroyed>>

-----------------------------------------------------------------------------
PopItem(t) ==
  /\ pc[t] = "body" /\ op[t] \in {"pop", "try_pop"}
  /\ queue # <<>>
  /\ rv' = [rv EXCEPT ![t] = Head(queue)]
  /\ queue' = Tail(queue)
  /\ size' = size - 1
  /\ Goto(t, "signal")
  /\ UNCHANGED <<lock, op, arg, calls, destroyed>>

PopPark(t) ==
  /\ pc[t] = "body" /\ op[t] = "pop"
  /\ queue = <<>>
  /\ Park(t, "wait_nonempty")
  /\ UNCHANGED <<queue, size, op, arg, rv, calls, destroyed>>

\* As if size were decremented whether or not an item came out.
PopNothingUncounted(t) ==
  /\ pc[t] = "body" /\ op[t] = "try_pop"
  /\ queue = <<>>
  /\ size' = size - 1
  /\ Goto(t, "signal")
  /\ UNCHANGED <<queue, lock, op, arg, rv, calls, destroyed>>

PopNothing(t) ==
  /\ pc[t] = "body" /\ op[t] = "try_pop"
  /\ queue = <<>>
  /\ Goto(t, "signal")
  /\ UNCHANGED <<queue, size, lock, op, arg, rv, calls, destroyed>>

\* As if a pop never told the thread that frees.
PopSignalNever(t) ==
  /\ pc[t] = "signal" /\ op[t] \in {"pop", "try_pop"}
  /\ Goto(t, "unlock")
  /\ UNCHANGED <<queue, size, lock, op, arg, rv, calls, destroyed>>

\* The end of async_queue_pop: broadcast is_empty when the queue is empty.
PopSignal(t) ==
  /\ pc[t] = "signal" /\ op[t] \in {"pop", "try_pop"}
  /\ IF size = 0 THEN Broadcast(t, "wait_is_empty") ELSE Goto(t, "unlock")
  /\ UNCHANGED <<queue, size, lock, op, arg, rv, calls, destroyed>>

-----------------------------------------------------------------------------
Count(t) ==
  /\ pc[t] = "body" /\ op[t] = "count"
  /\ rv' = [rv EXCEPT ![t] = size]
  /\ Goto(t, "unlock")
  /\ UNCHANGED <<queue, size, lock, op, arg, calls, destroyed>>

\* As if free did not wait for the queue to drain.
FreeBodyNoWait(t) ==
  /\ pc[t] = "body" /\ op[t] = "free"
  /\ Goto(t, "unlock")
  /\ UNCHANGED <<queue, size, lock, op, arg, rv, calls, destroyed>>

\* The wait loop of async_queue_free.
FreeBody(t) ==
  /\ pc[t] = "body" /\ op[t] = "free"
  /\ IF size # 0 THEN Park(t, "wait_is_empty")
                 ELSE Goto(t, "unlock") /\ UNCHANGED lock
  /\ UNCHANGED <<queue, size, op, arg, rv, calls, destroyed>>

\* The call of t is over and its frame is gone.
Return(t) ==
  /\ op' = [op EXCEPT ![t] = "none"]
  /\ arg' = [arg EXCEPT ![t] = Null]
  /\ rv' = [rv EXCEPT ![t] = Null]
  /\ Goto(t, "idle")

Unlock(t) ==
  /\ pc[t] = "unlock"
  /\ lock' = Null
  /\ IF op[t] = "free" THEN Goto(t, "destroy") /\ UNCHANGED <<op, arg, rv>>
                       ELSE Return(t)
  /\ UNCHANGED <<queue, size, calls, destroyed>>

\* pthread_cond_destroy, pthread_mutex_destroy, free.
Destroy(t) ==
  /\ pc[t] = "destroy"
  /\ destroyed' = TRUE
  /\ Return(t)
  /\ UNCHANGED <<queue, size, lock, calls>>

-----------------------------------------------------------------------------
\* The steps a running thread takes by itself once its call has begun.
Step(t) ==
  \/ Lock(t)
  \/ PushBody(t) \/ PushSignal(t)
  \/ PopItem(t) \/ PopPark(t) \/ PopNothing(t) \/ PopSignal(t)
  \/ Count(t)
  \/ FreeBody(t)
  \/ Unlock(t) \/ Destroy(t)

Next ==
  \E t \in Threads :
    CallPush(t) \/ CallOther(t) \/ SpuriousWake(t) \/ Step(t)

Spec == Init /\ [][Next]_vars

\* The scheduler runs every thread that can run.  Nobody has to call, and
\* wakeups do not stay spurious for ever: a thread that wakes for nothing again
\* and again could keep the (unfair) mutex from all the others.
FairSpec ==
  /\ Spec
  /\ \A t \in Threads : WF_vars(Step(t))
  /\ <>[][\A t \in Threads : ~SpuriousWake(t)]_vars

-----------------------------------------------------------------------------
\* The lock is held exactly by the thread between its lock and its unlock.
LockInv ==
  \A t \in Threads : pc[t] \in {"body", "signal", "unlock"} <=> lock = t

\* Each thread stands at a label of the call it is in.
CallInv ==
  \A t \in Threads :
    /\ pc[t] = "idle" <=> op[t] = "none"
    /\ pc[t] = "signal" => op[t] \in {"push", "pop", "try_pop"}
    /\ pc[t] = "wait_nonempty" => op[t] = "pop"
    /\ pc[t] \in {"wait_is_empty", "destroy"} => op[t] = "free"
    /\ op[t] = "push" <=> arg[t] # Null

\* queue->size agrees with the ring.
SizeInv == size = Len(queue)

\* No wakeup is lost (async_queue.c:95 and :62): a pop is parked beside an
\* item, or a free beside an empty queue, only for as long as the thread that
\* made it so still holds the lock on its way to the broadcast.
NoLostWakeup ==
  /\ (\E t \in Threads : pc[t] = "wait_nonempty") /\ queue # <<>>
     => \E t \in Threads : pc[t] = "signal" /\ op[t] = "push"
  /\ (\E t \in Threads : pc[t] = "wait_is_empty") /\ queue = <<>>
     => \E t \in Threads : pc[t] = "signal" /\ op[t] \in {"pop", "try_pop"}

IInv == TypeOK /\ LockInv /\ CallInv /\ SizeInv /\ NoLostWakeup

\* async_queue_free never destroys the mutex or the condition variables under
\* a thread that is inside a call, nor frees a queue that holds an item, when
\* callers keep to async_queue.h:45.
DestroyedUnused ==
  /\ destroyed => \A t \in Threads : pc[t] = "idle"
  /\ (\E t \in Threads : pc[t] = "destroy") =>
        /\ queue = <<>>
        /\ lock = Null
        /\ \A t \in Threads : pc[t] \in {"idle", "destroy"}

\* The queue never stays forever with an item in it and a pop that waits for
\* one (async_queue.h:59).
ItemsReachPops == []<>(queue = <<>> \/ PendingPops = {})

\* A free whose queue is drained, by whichever pops, returns (async_queue.c:61).
DrainedFreeReturns == (Freeing /\ queue = <<>>) ~> destroyed

-----------------------------------------------------------------------------
\* Refinement: a call takes effect when its body has read or changed the ring.
Done(t) == \/ pc[t] \in {"signal", "unlock", "destroy"}

Fifo == INSTANCE BlockingFifo WITH
  items <- queue,
  done <- [t \in Threads |-> Done(t)],
  ret <- rv,
  closed <- destroyed \/ \E t \in Threads : op[t] = "free" /\ Done(t)

\* Every behaviour of the locked, counted, signalled queue is one of the FIFO
\* of BlockingFifo: no item is lost, duplicated or reordered, a count is exact
\* when it is taken, a waiting pop never returns NULL.
ImplementsFifo == Fifo!Spec
=============================================================================
