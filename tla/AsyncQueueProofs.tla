-------------------------- MODULE AsyncQueueProofs --------------------------
(***************************************************************************)
(* Proofs about AsyncQueue, for every set of threads and items and every   *)
(* number of calls: that no wakeup is lost, and then, for callers that     *)
(* keep to the contract of AsyncQueue, that nothing in use is destroyed    *)
(* and that BlockingFifo is implemented.                                   *)
(***************************************************************************)
EXTENDS AsyncQueue, SequenceTheorems, FiniteSetTheorems, TLAPS

(***************************************************************************)
(* IInv is inductive.  No wakeup is lost because a thread that changes the *)
(* ring keeps the lock until it has signalled (LockInv), stands at the     *)
(* signal of its own call (CallInv), and a pop signals when size is zero,  *)
(* which is when the ring is empty (SizeInv).                              *)
(***************************************************************************)
LEMMA IInvInit == Init => IInv
<1> SUFFICES ASSUME Init PROVE IInv
  OBVIOUS
<1>1. TypeOK
  <2>1. queue \in Seq(Items) /\ size \in Nat
    BY DEF Init
  <2>2. lock \in Threads \cup {Null}
    BY DEF Init
  <2>3. pc \in [Threads -> PCs]
    BY DEF Init, PCs
  <2>4. op \in [Threads -> Ops \cup {"none"}]
    BY DEF Init
  <2>5. arg \in [Threads -> Items \cup {Null}]
    BY DEF Init
  <2>6. rv \in [Threads -> Items \cup {Null} \cup Nat]
    BY DEF Init
  <2>7. calls \in [Threads -> 0..MaxCalls]
    BY CallsAssumption DEF Init
  <2>8. destroyed \in BOOLEAN
    BY DEF Init
  <2> QED BY <2>1, <2>2, <2>3, <2>4, <2>5, <2>6, <2>7, <2>8 DEF TypeOK
<1>2. LockInv
  BY NullAssumption DEF Init, LockInv
<1>3. CallInv
  BY DEF Init, CallInv
<1>4. SizeInv /\ NoLostWakeup
  BY DEF Init, SizeInv, NoLostWakeup
<1> QED BY <1>1, <1>2, <1>3, <1>4 DEF IInv

-----------------------------------------------------------------------------
\* Each step keeps the types; a pop has an item to take off the count.
LEMMA TypeStep == IInv /\ [Next]_vars => TypeOK'
<1> SUFFICES ASSUME IInv, [Next]_vars PROVE TypeOK'
  OBVIOUS
<1>0. TypeOK /\ SizeInv /\ CallInv
  BY DEF IInv
<1> USE DEF TypeOK, PCs, Ops, Goto
<1>1. ASSUME NEW t \in Threads, NEW o \in Ops, NEW x \in Items \cup {Null},
             Call(t, o, x)
      PROVE  TypeOK'
  <2>1. op' \in [Threads -> Ops \cup {"none"}] /\ pc' \in [Threads -> PCs]
    BY <1>0, <1>1 DEF Call
  <2>2. arg' \in [Threads -> Items \cup {Null}]
    BY <1>0, <1>1 DEF Call
  <2>3. calls' \in [Threads -> 0..MaxCalls]
    BY <1>0, <1>1, CallsAssumption DEF Call
  <2> QED BY <1>0, <1>1, <2>1, <2>2, <2>3 DEF Call
<1>2. ASSUME NEW t \in Threads, SpuriousWake(t) \/ Lock(t) PROVE TypeOK'
  BY <1>0, <1>2 DEF SpuriousWake, Lock
<1>3. ASSUME NEW t \in Threads, PushBody(t) PROVE TypeOK'
  <2>1. arg[t] \in Items
    BY <1>0, <1>3 DEF PushBody, CallInv
  <2>2. Append(queue, arg[t]) \in Seq(Items)
    BY <1>0, <2>1
  <2>3. queue' \in Seq(Items) /\ size' \in Nat
    <3>1. CASE queue' = Append(queue, arg[t]) /\ size' = size + 1
      BY <1>0, <2>2, <3>1
    <3>2. CASE queue' = queue /\ size' = size
      BY <1>0, <3>2
    <3> QED BY <1>3, <3>1, <3>2 DEF PushBody
  <2>4. rv' \in [Threads -> Items \cup {Null} \cup Nat]
    BY <1>0, <1>3 DEF PushBody
  <2>5. pc' \in [Threads -> PCs]
    BY <1>0, <1>3 DEF PushBody
  <2> QED BY <1>0, <1>3, <2>3, <2>4, <2>5 DEF PushBody
<1>4. ASSUME NEW t \in Threads, PopItem(t) PROVE TypeOK'
  <2>1. Head(queue) \in Items /\ Tail(queue) \in Seq(Items) /\ size - 1 \in Nat
    BY <1>0, <1>4 DEF PopItem, SizeInv
  <2> QED BY <1>0, <1>4, <2>1 DEF PopItem
<1>5. ASSUME NEW t \in Threads, PopPark(t) \/ FreeBody(t) PROVE TypeOK'
  BY <1>0, <1>5 DEF PopPark, FreeBody, Park
<1>6. ASSUME NEW t \in Threads, PushSignal(t) \/ PopSignal(t) PROVE TypeOK'
  <2>1. pc' \in [Threads -> PCs]
    BY <1>0, <1>6 DEF PushSignal, PopSignal, Broadcast
  <2> QED BY <1>0, <1>6, <2>1 DEF PushSignal, PopSignal
<1>7. ASSUME NEW t \in Threads, PopNothing(t) \/ Count(t) PROVE TypeOK'
  BY <1>0, <1>7 DEF PopNothing, Count
<1>8. ASSUME NEW t \in Threads, Unlock(t) PROVE TypeOK'
  BY <1>0, <1>8 DEF Unlock, Return
<1>9. ASSUME NEW t \in Threads, Destroy(t) PROVE TypeOK'
  BY <1>0, <1>9 DEF Destroy, Return
<1>10. CASE UNCHANGED vars
  BY <1>0, <1>10 DEF vars
<1> QED
  BY <1>1, <1>2, <1>3, <1>4, <1>5, <1>6, <1>7, <1>8, <1>9, <1>10
  DEF Next, Step, CallPush, CallOther

\* The lock is given up and taken where pc says so.
LEMMA LockStep == IInv /\ [Next]_vars => LockInv'
<1> SUFFICES ASSUME IInv, [Next]_vars PROVE LockInv'
  OBVIOUS
<1>0. TypeOK /\ LockInv /\ CallInv
  BY DEF IInv
<1> USE NullAssumption DEF TypeOK, LockInv, Goto
<1>1. ASSUME NEW t \in Threads, NEW o \in Ops, NEW x, Call(t, o, x)
      PROVE  LockInv'
  BY <1>0, <1>1 DEF Call
<1>2. ASSUME NEW t \in Threads, SpuriousWake(t) \/ Lock(t) PROVE LockInv'
  BY <1>0, <1>2 DEF SpuriousWake, Lock
<1>3. ASSUME NEW t \in Threads,
             PushBody(t) \/ PopItem(t) \/ PopNothing(t) \/ Count(t)
      PROVE  LockInv'
  BY <1>0, <1>3 DEF PushBody, PopItem, PopNothing, Count
<1>4. ASSUME NEW t \in Threads, PopPark(t) \/ FreeBody(t) PROVE LockInv'
  <2>1. lock = t /\ \A u \in Threads \ {t} : pc'[u] = pc[u]
    BY <1>0, <1>4 DEF PopPark, FreeBody, Park
  <2>2. \/ lock' = Null /\ pc'[t] \in {"wait_nonempty", "wait_is_empty"}
        \/ lock' = lock /\ pc'[t] = "unlock"
    BY <1>0, <1>4 DEF PopPark, FreeBody, Park
  <2> QED BY <1>0, <2>1, <2>2
<1>5. ASSUME NEW t \in Threads, PushSignal(t) \/ PopSignal(t) PROVE LockInv'
  BY <1>0, <1>5 DEF PushSignal, PopSignal, Broadcast
<1>6. ASSUME NEW t \in Threads, Unlock(t) \/ Destroy(t) PROVE LockInv'
  BY <1>0, <1>6 DEF Unlock, Destroy, Return
<1>7. CASE UNCHANGED vars
  BY <1>0, <1>7 DEF vars
<1> QED
  BY <1>1, <1>2, <1>3, <1>4, <1>5, <1>6, <1>7
  DEF Next, Step, CallPush, CallOther, Ops

\* Threads stay at labels of the calls they are in.
LEMMA CallStep == IInv /\ [Next]_vars => CallInv'
<1> SUFFICES ASSUME IInv, [Next]_vars PROVE CallInv'
  OBVIOUS
<1>0. TypeOK /\ CallInv
  BY DEF IInv
<1> USE NullAssumption DEF TypeOK, CallInv, Goto, Ops
<1>1. ASSUME NEW t \in Threads, CallPush(t) PROVE CallInv'
  BY <1>0, <1>1 DEF CallPush, Call
<1>2. ASSUME NEW t \in Threads, CallOther(t) PROVE CallInv'
  BY <1>0, <1>2 DEF CallOther, Call
<1>3. ASSUME NEW t \in Threads, SpuriousWake(t) \/ Lock(t) PROVE CallInv'
  BY <1>0, <1>3 DEF SpuriousWake, Lock
<1>4. ASSUME NEW t \in Threads,
             PushBody(t) \/ PopItem(t) \/ PopNothing(t) \/ Count(t)
      PROVE  CallInv'
  BY <1>0, <1>4 DEF PushBody, PopItem, PopNothing, Count
<1>5. ASSUME NEW t \in Threads, PopPark(t) \/ FreeBody(t) PROVE CallInv'
  BY <1>0, <1>5 DEF PopPark, FreeBody, Park
<1>6. ASSUME NEW t \in Threads, PushSignal(t) \/ PopSignal(t) PROVE CallInv'
  BY <1>0, <1>6 DEF PushSignal, PopSignal, Broadcast
<1>7. ASSUME NEW t \in Threads, Unlock(t) PROVE CallInv'
  BY <1>0, <1>7 DEF Unlock, Return
<1>8. ASSUME NEW t \in Threads, Destroy(t) PROVE CallInv'
  BY <1>0, <1>8 DEF Destroy, Return
<1>9. CASE UNCHANGED vars
  BY <1>0, <1>9 DEF vars
<1> QED
  BY <1>1, <1>2, <1>3, <1>4, <1>5, <1>6, <1>7, <1>8, <1>9 DEF Next, Step

\* The size follows the ring.
LEMMA SizeStep == IInv /\ [Next]_vars => SizeInv'
<1> SUFFICES ASSUME IInv, [Next]_vars PROVE SizeInv'
  OBVIOUS
<1>0. TypeOK /\ SizeInv /\ CallInv
  BY DEF IInv
<1>1. ASSUME NEW t \in Threads, PushBody(t) PROVE SizeInv'
  <2>1. arg[t] \in Items
    BY <1>0, <1>1 DEF PushBody, CallInv, TypeOK
  <2>2. Len(Append(queue, arg[t])) = Len(queue) + 1
    BY <1>0, <2>1 DEF TypeOK
  <2> QED BY <1>0, <1>1, <2>2 DEF PushBody, SizeInv
<1>2. ASSUME NEW t \in Threads, PopItem(t) PROVE SizeInv'
  <2>1. Len(Tail(queue)) = Len(queue) - 1
    BY <1>0, <1>2 DEF PopItem, TypeOK
  <2> QED BY <1>0, <1>2, <2>1 DEF PopItem, SizeInv
<1>3. ASSUME queue' = queue, size' = size PROVE SizeInv'
  BY <1>0, <1>3 DEF SizeInv
<1> QED
  BY <1>1, <1>2, <1>3
  DEF Next, Step, CallPush, CallOther, Call, SpuriousWake, Lock, PushSignal,
      PopPark, PopNothing, PopSignal, Count, FreeBody, Unlock, Destroy, vars

-----------------------------------------------------------------------------
\* A thread that is not at a signal may step without losing a wakeup as long
\* as it neither parks nor changes the ring.
LEMMA WakeKept ==
  ASSUME NoLostWakeup, queue' = queue, NEW t \in Threads, pc[t] # "signal",
         \A u \in Threads \ {t} : pc'[u] = pc[u] /\ op'[u] = op[u],
         pc'[t] \notin {"wait_nonempty", "wait_is_empty"}
  PROVE  NoLostWakeup'
BY DEF NoLostWakeup

\* No step leaves a parked pop beside an item, or a parked free beside an
\* empty queue, unless a broadcast is still to come.
LEMMA WakeStep == IInv /\ [Next]_vars => NoLostWakeup'
<1> SUFFICES ASSUME IInv, [Next]_vars PROVE NoLostWakeup'
  OBVIOUS
<1>0. TypeOK /\ LockInv /\ CallInv /\ SizeInv /\ NoLostWakeup
  BY DEF IInv
<1> USE DEF Goto
<1>1. ASSUME NEW t \in Threads, NEW o \in Ops, NEW x, Call(t, o, x)
      PROVE  NoLostWakeup'
  BY <1>0, <1>1, WakeKept DEF Call, TypeOK
<1>2. ASSUME NEW t \in Threads, SpuriousWake(t) \/ Lock(t) PROVE NoLostWakeup'
  BY <1>0, <1>2, WakeKept DEF SpuriousWake, Lock, TypeOK
<1>3. ASSUME NEW t \in Threads, PopNothing(t) \/ Count(t) PROVE NoLostWakeup'
  BY <1>0, <1>3, WakeKept DEF PopNothing, Count, TypeOK
<1>4. ASSUME NEW t \in Threads, Unlock(t) \/ Destroy(t) PROVE NoLostWakeup'
  BY <1>0, <1>4, WakeKept DEF Unlock, Destroy, Return, TypeOK
<1>5. ASSUME NEW t \in Threads, PushBody(t) PROVE NoLostWakeup'
  <2>1. pc'[t] = "signal" /\ op'[t] = "push"
    BY <1>0, <1>5 DEF PushBody, TypeOK
  <2>2. \A u \in Threads \ {t} : pc'[u] = pc[u] /\ op'[u] = op[u]
    BY <1>0, <1>5 DEF PushBody, TypeOK
  <2>3. queue' = queue \/ queue' # <<>>
    BY <1>0, <1>5 DEF PushBody, TypeOK, CallInv
  <2>4. pc[t] = "body"
    BY <1>5 DEF PushBody
  <2> QED BY <1>0, <2>1, <2>2, <2>3, <2>4 DEF NoLostWakeup
<1>6. ASSUME NEW t \in Threads, PopItem(t) PROVE NoLostWakeup'
  <2>1. pc'[t] = "signal" /\ op'[t] \in {"pop", "try_pop"}
    BY <1>0, <1>6 DEF PopItem, TypeOK
  <2>2. \A u \in Threads \ {t} : pc'[u] = pc[u] /\ op'[u] = op[u]
    BY <1>0, <1>6 DEF PopItem, TypeOK
  <2>3. pc[t] = "body" /\ queue # <<>>
    BY <1>6 DEF PopItem
  <2> QED BY <1>0, <2>1, <2>2, <2>3 DEF NoLostWakeup
<1>7. ASSUME NEW t \in Threads, PopPark(t) PROVE NoLostWakeup'
  <2>1. queue' = queue /\ queue = <<>> /\ pc[t] = "body"
    BY <1>7 DEF PopPark
  <2>2. pc'[t] = "wait_nonempty"
    BY <1>0, <1>7 DEF PopPark, Park, TypeOK
  <2>3. \A u \in Threads \ {t} : pc'[u] = pc[u] /\ op'[u] = op[u]
    BY <1>0, <1>7 DEF PopPark, Park, TypeOK
  <2> QED BY <1>0, <2>1, <2>2, <2>3 DEF NoLostWakeup
<1>8. ASSUME NEW t \in Threads, FreeBody(t) PROVE NoLostWakeup'
  <2>1. queue' = queue /\ pc[t] = "body"
    BY <1>8 DEF FreeBody
  <2>2. \A u \in Threads \ {t} : pc'[u] = pc[u] /\ op'[u] = op[u]
    BY <1>0, <1>8 DEF FreeBody, Park, TypeOK
  <2>3. CASE size # 0
    <3>1. queue # <<>>
      BY <1>0, <2>3 DEF SizeInv
    <3>2. pc'[t] = "wait_is_empty"
      BY <1>0, <1>8, <2>3 DEF FreeBody, Park, TypeOK
    <3> QED BY <1>0, <2>1, <2>2, <3>1, <3>2 DEF NoLostWakeup
  <2>4. CASE size = 0
    <3>1. pc'[t] = "unlock"
      BY <1>0, <1>8, <2>4 DEF FreeBody, TypeOK
    <3> QED BY <1>0, <2>1, <2>2, <3>1, WakeKept
  <2> QED BY <2>3, <2>4
<1>9. ASSUME NEW t \in Threads, PushSignal(t) PROVE NoLostWakeup'
  <2>1. queue' = queue /\ op' = op /\ op[t] = "push"
    BY <1>9 DEF PushSignal
  <2>2. \A u \in Threads : pc'[u] # "wait_nonempty"
    BY <1>9 DEF PushSignal, Broadcast
  <2>3. \A u \in Threads \ {t} : pc[u] # "wait_nonempty" => pc'[u] = pc[u]
    BY <1>9 DEF PushSignal, Broadcast
  <2>4. pc'[t] = "unlock" /\ \A u \in Threads \ {t} :
          pc'[u] = "wait_is_empty" => pc[u] = "wait_is_empty"
    BY <1>9 DEF PushSignal, Broadcast
  <2> QED BY <1>0, <2>1, <2>2, <2>3, <2>4 DEF NoLostWakeup
<1>10. ASSUME NEW t \in Threads, PopSignal(t) PROVE NoLostWakeup'
  <2>1. queue' = queue /\ op' = op /\ op[t] \in {"pop", "try_pop"}
    BY <1>10 DEF PopSignal
  <2>2. CASE size = 0
    <3>1. queue = <<>>
      BY <1>0, <2>2, EmptySeq DEF SizeInv, TypeOK
    <3>2. \A u \in Threads : pc'[u] # "wait_is_empty"
      BY <1>10, <2>2 DEF PopSignal, Broadcast
    <3> QED BY <2>1, <3>1, <3>2 DEF NoLostWakeup
  <2>3. CASE size # 0
    <3>1. queue # <<>>
      BY <1>0, <2>3 DEF SizeInv
    <3>2. pc'[t] = "unlock" /\ \A u \in Threads \ {t} : pc'[u] = pc[u]
      BY <1>0, <1>10, <2>3 DEF PopSignal, TypeOK
    <3> QED BY <1>0, <2>1, <3>1, <3>2 DEF NoLostWakeup
  <2> QED BY <2>2, <2>3
<1>11. CASE UNCHANGED vars
  BY <1>0, <1>11 DEF vars, NoLostWakeup
<1> QED
  BY <1>1, <1>2, <1>3, <1>4, <1>5, <1>6, <1>7, <1>8, <1>9, <1>10, <1>11
  DEF Next, Step, CallPush, CallOther, Ops

-----------------------------------------------------------------------------
LEMMA IInvStep == IInv /\ [Next]_vars => IInv'
BY TypeStep, LockStep, CallStep, SizeStep, WakeStep DEF IInv

LEMMA IInvCorrect == Spec => []IInv
BY IInvInit, IInvStep, PTL DEF Spec

\* The queue's variables keep their types: size, a size_t in the code, never
\* wraps below zero, and every label is reached with the call it belongs to.
THEOREM TypeCorrect == Spec => []TypeOK
<1>1. IInv => TypeOK
  BY DEF IInv
<1> QED BY <1>1, IInvCorrect, PTL

\* A pop is parked beside an item, or a free beside an empty queue, only until
\* the thread that made it so has signalled (async_queue.c:95 and :62).
THEOREM NoLostWakeupCorrect == Spec => []NoLostWakeup
<1>1. IInv => NoLostWakeup
  BY DEF IInv
<1> QED BY <1>1, IInvCorrect, PTL
-----------------------------------------------------------------------------
(* What a free may find: the contract of the callers as an invariant.      *)
FreeDone == \E t \in Threads : op[t] = "free" /\ pc[t] \in {"unlock", "destroy"}

\* One free at a time, beside pops only, each of which has its item.
Overlap ==
  /\ \A t, u \in Threads : op[t] = "free" /\ op[u] = "free" => t = u
  /\ Freeing => \A t \in Threads : op[t] \notin {"push", "count"}
  /\ Freeing => Cardinality(PendingPops) <= Len(queue)

\* From the moment a free has found the queue drained it is alone.
Alone ==
  /\ FreeDone => queue = <<>> /\ \A t \in Threads : op[t] # "free" => pc[t] = "idle"
  /\ destroyed => \A t \in Threads : pc[t] = "idle"

ContractInv == Overlap /\ Alone

-----------------------------------------------------------------------------
LEMMA PendingFinite ==
  IsFiniteSet(PendingPops) /\ Cardinality(PendingPops) \in Nat
<1>1. PendingPops \subseteq Threads
  BY DEF PendingPops
<1> QED BY <1>1, ThreadsAssumption, FS_Subset, FS_CardinalityType

\* A pop under way beside a free has an item.
LEMMA PendingHasItem ==
  ASSUME TypeOK, Overlap, Freeing, PendingPops # {}
  PROVE  queue # <<>>
<1>1. Cardinality(PendingPops) # 0
  BY PendingFinite, FS_EmptySet
<1>2. Len(queue) # 0
  BY <1>1, PendingFinite DEF Overlap, TypeOK
<1> QED BY <1>2

LEMMA ContractInit == Init => ContractInv
BY DEF Init, ContractInv, Overlap, Alone, Freeing, FreeDone

\* Steps that change no call and no item.
LEMMA OverlapKept ==
  ASSUME Overlap, op' = op, queue' = queue, PendingPops' = PendingPops
  PROVE  Overlap'
BY DEF Overlap, Freeing

LEMMA OverlapStep == IInv /\ ContractInv /\ [Next]_vars => Overlap'
<1> SUFFICES ASSUME IInv, ContractInv, [Next]_vars PROVE Overlap'
  OBVIOUS
<1>0. TypeOK /\ LockInv /\ CallInv /\ SizeInv /\ Overlap /\ Alone
  BY DEF IInv, ContractInv
<1> USE DEF Goto
<1>1. ASSUME NEW t \in Threads, NEW o \in Ops, NEW x, Call(t, o, x)
      PROVE  Overlap'
  <2>1. /\ op[t] = "none" /\ op'[t] = o /\ pc'[t] = "lock" /\ pc[t] = "idle"
        /\ \A u \in Threads \ {t} : op'[u] = op[u] /\ pc'[u] = pc[u]
        /\ queue' = queue
    BY <1>0, <1>1 DEF Call, TypeOK, CallInv
  <2>2. CASE o \in {"push", "count"}
    <3>1. ~Freeing /\ ~Freeing'
      BY <1>1, <2>1, <2>2 DEF Call, MayCall, Freeing
    <3> QED BY <3>1 DEF Overlap, Freeing
  <2>3. CASE o \in {"pop", "try_pop"}
    <3>1. PendingPops' = PendingPops \cup {t} /\ t \notin PendingPops
      BY <2>1, <2>3 DEF PendingPops
    <3>2. Cardinality(PendingPops') = Cardinality(PendingPops) + 1
      BY <3>1, PendingFinite, FS_AddElement
    <3>3. Freeing' => Freeing /\ Cardinality(PendingPops) < Len(queue)
      BY <1>1, <2>1, <2>3 DEF Call, MayCall, Freeing
    <3>4. Freeing' => Cardinality(PendingPops') <= Len(queue')
      BY <1>0, <2>1, <3>2, <3>3, PendingFinite DEF TypeOK
    <3> QED BY <1>0, <2>1, <2>3, <3>3, <3>4 DEF Overlap
  <2>4. CASE o = "free"
    <3>1. PendingPops' = PendingPops
      BY <2>1, <2>4 DEF PendingPops
    <3>2. /\ \A u \in Threads : op[u] \notin {"push", "count", "free"}
          /\ Cardinality(PendingPops) <= Len(queue)
      BY <1>1, <2>4 DEF Call, MayCall
    <3> QED BY <2>1, <2>4, <3>1, <3>2 DEF Overlap
  <2> QED BY <2>2, <2>3, <2>4 DEF Ops
<1>2. ASSUME NEW t \in Threads, SpuriousWake(t) \/ Lock(t) PROVE Overlap'
  <2>1. PendingPops' = PendingPops
    BY <1>0, <1>2 DEF SpuriousWake, Lock, PendingPops, TypeOK, CallInv
  <2> QED BY <1>0, <1>2, <2>1, OverlapKept DEF SpuriousWake, Lock
<1>3. ASSUME NEW t \in Threads, PushBody(t) \/ PushSignal(t) \/ Count(t)
      PROVE  Overlap'
  <2>1. ~Freeing /\ op' = op
    BY <1>0, <1>3 DEF PushBody, PushSignal, Count, Overlap
  <2> QED BY <2>1 DEF Overlap, Freeing
<1>4. ASSUME NEW t \in Threads, PopItem(t) PROVE Overlap'
  <2>1. PendingPops' = PendingPops \ {t} /\ t \in PendingPops
    BY <1>0, <1>4 DEF PopItem, PendingPops, TypeOK
  <2>2. Cardinality(PendingPops') = Cardinality(PendingPops) - 1
    BY <2>1, PendingFinite, FS_RemoveElement
  <2>3. Len(queue') = Len(queue) - 1 /\ op' = op
    BY <1>0, <1>4 DEF PopItem, TypeOK
  <2>4. Len(queue) \in Nat
    BY <1>0 DEF TypeOK
  <2> QED BY <1>0, <2>2, <2>3, <2>4, PendingFinite DEF Overlap, Freeing
<1>5. ASSUME NEW t \in Threads, PopPark(t) \/ PopNothing(t) PROVE Overlap'
  <2>1. t \in PendingPops /\ queue = <<>> /\ op' = op
    BY <1>5 DEF PopPark, PopNothing, PendingPops
  <2>2. ~Freeing
    BY <1>0, <2>1, PendingHasItem
  <2> QED BY <2>1, <2>2 DEF Overlap, Freeing
<1>6. ASSUME NEW t \in Threads, PopSignal(t) PROVE Overlap'
  <2>1. PendingPops' = PendingPops
    BY <1>0, <1>6 DEF PopSignal, Broadcast, PendingPops, TypeOK, CallInv
  <2> QED BY <1>0, <1>6, <2>1, OverlapKept DEF PopSignal
<1>7. ASSUME NEW t \in Threads, FreeBody(t) PROVE Overlap'
  <2>1. PendingPops' = PendingPops
    BY <1>0, <1>7 DEF FreeBody, Park, PendingPops, TypeOK
  <2> QED BY <1>0, <1>7, <2>1, OverlapKept DEF FreeBody
<1>8. ASSUME NEW t \in Threads, Unlock(t) \/ Destroy(t) PROVE Overlap'
  <2>1. PendingPops' = PendingPops
    BY <1>0, <1>8 DEF Unlock, Destroy, Return, PendingPops, TypeOK, CallInv
  <2>2. queue' = queue /\ \A u \in Threads : op'[u] \in {op[u], "none"}
    BY <1>0, <1>8 DEF Unlock, Destroy, Return, TypeOK
  <2> QED BY <1>0, <2>1, <2>2 DEF Overlap, Freeing
<1>9. CASE UNCHANGED vars
  BY <1>0, <1>9, OverlapKept DEF vars, PendingPops
<1> QED
  BY <1>1, <1>2, <1>3, <1>4, <1>5, <1>6, <1>7, <1>8, <1>9
  DEF Next, Step, CallPush, CallOther, Ops

-----------------------------------------------------------------------------
\* A free that holds the lock beside an empty queue is the only call.
LEMMA DrainedAlone ==
  ASSUME TypeOK, LockInv, CallInv, Overlap, queue = <<>>,
         NEW t \in Threads, op[t] = "free", lock = t,
         NEW u \in Threads, u # t
  PROVE  pc[u] = "idle"
<1>1. op[u] \in {"pop", "try_pop", "none"}
  BY DEF Overlap, Freeing, TypeOK, Ops
<1>2. pc[u] \notin {"body", "signal", "unlock"}
  BY DEF LockInv
<1>3. pc[u] \notin {"wait_is_empty", "destroy"}
  BY <1>1 DEF CallInv
<1>4. u \notin PendingPops
  BY PendingHasItem DEF Freeing
<1>5. pc[u] \notin {"lock", "wait_nonempty"}
  BY <1>1, <1>4 DEF PendingPops, CallInv
<1> QED BY <1>2, <1>3, <1>5 DEF TypeOK, PCs

\* A call begins only on a queue that no free has found drained.
LEMMA CallOpen ==
  ASSUME TypeOK, CallInv, Alone, NEW t \in Threads, NEW o \in Ops, NEW x,
         Call(t, o, x)
  PROVE  ~destroyed /\ ~destroyed' /\ ~FreeDone /\ ~FreeDone'
<1>1. ~destroyed /\ destroyed' = destroyed
  BY DEF Call, MayCall
<1>2. /\ op[t] = "none" /\ op'[t] = o /\ pc'[t] = "lock"
      /\ \A u \in Threads \ {t} : op'[u] = op[u] /\ pc'[u] = pc[u]
  BY DEF Call, Goto, TypeOK, CallInv
<1>3. ~FreeDone
  <2>1. SUFFICES ASSUME FreeDone PROVE FALSE
    OBVIOUS
  <2>2. Freeing /\ Len(queue) = 0
    BY <2>1 DEF FreeDone, Freeing, Alone
  <2>3. o \in {"pop", "try_pop"} /\ Cardinality(PendingPops) < 0
    BY <2>2 DEF Call, MayCall, Ops, Freeing
  <2> QED BY <2>3, PendingFinite
<1>4. ~FreeDone'
  BY <1>2, <1>3 DEF FreeDone
<1> QED BY <1>1, <1>3, <1>4

LEMMA AloneStep == IInv /\ ContractInv /\ [Next]_vars => Alone'
<1> SUFFICES ASSUME IInv, ContractInv, [Next]_vars PROVE Alone'
  OBVIOUS
<1>0. TypeOK /\ LockInv /\ CallInv /\ SizeInv /\ Overlap /\ Alone
  BY DEF IInv, ContractInv
<1> USE DEF Goto
\* No call begins, so nobody but the freeing thread has a step to take.
<1>1. ASSUME NEW t \in Threads, NEW o \in Ops, NEW x, Call(t, o, x)
      PROVE  Alone'
  BY <1>0, <1>1, CallOpen DEF Alone
<1>2. ASSUME NEW t \in Threads,
             pc[t] \notin {"idle", "unlock", "destroy"}, op[t] # "free",
             op' = op, destroyed' = destroyed,
             \A u \in Threads \ {t} :
               pc'[u] \in {"unlock", "destroy"} => pc[u] \in {"unlock", "destroy"}
      PROVE  Alone'
  <2>1. ~FreeDone /\ ~destroyed
    BY <1>0, <1>2 DEF Alone
  <2>2. ~FreeDone'
    BY <1>2, <2>1 DEF FreeDone
  <2> QED BY <1>2, <2>1, <2>2 DEF Alone
<1>3. ASSUME NEW t \in Threads, SpuriousWake(t) \/ Lock(t) PROVE Alone'
  <2>1. /\ op' = op /\ destroyed' = destroyed /\ queue' = queue
        /\ pc[t] \notin {"idle", "unlock", "destroy"}
        /\ pc'[t] \in {"lock", "body"}
        /\ \A u \in Threads \ {t} : pc'[u] = pc[u]
    BY <1>0, <1>3 DEF SpuriousWake, Lock, TypeOK
  <2>2. ~destroyed
    BY <1>0, <2>1 DEF Alone
  <2>3. ~FreeDone
    BY <1>0, <2>1 DEF Alone, FreeDone, Overlap
  <2>4. ~FreeDone'
    BY <2>1, <2>3 DEF FreeDone
  <2> QED BY <2>1, <2>2, <2>4 DEF Alone
<1>4. ASSUME NEW t \in Threads,
             \/ PushBody(t) \/ PopItem(t) \/ PopPark(t) \/ PopNothing(t)
             \/ Count(t)
      PROVE  Alone'
  BY <1>0, <1>2, <1>4 DEF PushBody, PopItem, PopPark, Park, PopNothing, Count, TypeOK
<1>5. ASSUME NEW t \in Threads, PushSignal(t) \/ PopSignal(t) PROVE Alone'
  BY <1>0, <1>2, <1>5 DEF PushSignal, PopSignal, Broadcast, TypeOK
<1>6. ASSUME NEW t \in Threads, FreeBody(t) PROVE Alone'
  <2>1. /\ pc[t] = "body" /\ op[t] = "free" /\ lock = t
        /\ op' = op /\ destroyed' = destroyed /\ queue' = queue
    BY <1>0, <1>6 DEF FreeBody, LockInv
  <2>2. /\ \A u \in Threads \ {t} : pc'[u] = pc[u]
        /\ pc'[t] = (IF size # 0 THEN "wait_is_empty" ELSE "unlock")
    BY <1>0, <1>6 DEF FreeBody, Park, TypeOK
  <2>3. ~destroyed
    BY <1>0, <2>1 DEF Alone
  <2>4. \A u \in Threads : op[u] = "free" => u = t
    BY <1>0, <2>1 DEF Overlap
  <2>5. CASE size # 0
    <3>1. ~FreeDone'
      BY <2>1, <2>2, <2>4, <2>5 DEF FreeDone
    <3> QED BY <2>1, <2>3, <3>1 DEF Alone
  <2>6. CASE size = 0
    <3>1. queue = <<>>
      BY <1>0, <2>6, EmptySeq DEF SizeInv, TypeOK
    <3>2. \A u \in Threads \ {t} : pc[u] = "idle"
      BY <1>0, <2>1, <3>1, DrainedAlone
    <3> QED BY <2>1, <2>2, <2>3, <3>1, <3>2 DEF Alone
  <2> QED BY <2>5, <2>6
<1>7. ASSUME NEW t \in Threads, Unlock(t) PROVE Alone'
  <2>1. /\ pc[t] = "unlock" /\ destroyed' = destroyed /\ queue' = queue
        /\ \A u \in Threads \ {t} : pc'[u] = pc[u] /\ op'[u] = op[u]
    BY <1>0, <1>7 DEF Unlock, Return, TypeOK
  <2>2. ~destroyed
    BY <1>0, <2>1 DEF Alone
  <2>3. CASE op[t] = "free"
    <3>1. FreeDone /\ op' = op
      BY <1>7, <2>1, <2>3 DEF FreeDone, Unlock
    <3> QED BY <1>0, <2>1, <2>2, <2>3, <3>1 DEF Alone, Overlap
  <2>4. CASE op[t] # "free"
    <3>1. ~FreeDone
      BY <1>0, <2>1, <2>4 DEF Alone
    <3>2. op'[t] = "none"
      BY <1>0, <1>7, <2>4 DEF Unlock, Return, TypeOK
    <3>3. ~FreeDone'
      BY <2>1, <3>1, <3>2 DEF FreeDone
    <3> QED BY <2>1, <2>2, <3>3 DEF Alone
  <2> QED BY <2>3, <2>4
<1>8. ASSUME NEW t \in Threads, Destroy(t) PROVE Alone'
  <2>1. /\ pc[t] = "destroy" /\ op[t] = "free"
        /\ pc'[t] = "idle" /\ op'[t] = "none"
        /\ \A u \in Threads \ {t} : pc'[u] = pc[u] /\ op'[u] = op[u]
    BY <1>0, <1>8 DEF Destroy, Return, TypeOK, CallInv
  <2>2. \A u \in Threads \ {t} : pc[u] = "idle"
    BY <1>0, <2>1 DEF Alone, FreeDone, Overlap
  <2> QED BY <2>1, <2>2 DEF Alone, FreeDone
<1>9. CASE UNCHANGED vars
  BY <1>0, <1>9 DEF vars, Alone, FreeDone
<1> QED
  BY <1>1, <1>3, <1>4, <1>5, <1>6, <1>7, <1>8, <1>9
  DEF Next, Step, CallPush, CallOther, Ops

LEMMA ContractCorrect == Spec => [](IInv /\ ContractInv)
<1>1. IInv /\ ContractInv /\ [Next]_vars => ContractInv'
  BY OverlapStep, AloneStep DEF ContractInv
<1> QED BY <1>1, ContractInit, IInvCorrect, PTL DEF Spec

\* async_queue_free destroys the mutex and the condition variables only when
\* every other thread is outside its calls and no item is left, if callers
\* keep to async_queue.h:45.
THEOREM DestroyedUnusedCorrect == Spec => []DestroyedUnused
<1>1. IInv /\ ContractInv => DestroyedUnused
  <2> SUFFICES ASSUME IInv, ContractInv PROVE DestroyedUnused
    OBVIOUS
  <2>1. TypeOK /\ LockInv /\ CallInv /\ Overlap /\ Alone
    BY DEF IInv, ContractInv
  <2>2. ASSUME NEW t \in Threads, pc[t] = "destroy"
        PROVE  /\ queue = <<>> /\ lock = Null
               /\ \A u \in Threads : pc[u] \in {"idle", "destroy"}
    <3>1. FreeDone /\ op[t] = "free"
      BY <2>1, <2>2 DEF CallInv, FreeDone
    <3>2. \A u \in Threads : u # t => pc[u] = "idle"
      BY <2>1, <3>1 DEF Alone, Overlap
    <3>3. lock = Null
      BY <2>1, <2>2, <3>2 DEF LockInv, TypeOK
    <3> QED BY <2>1, <2>2, <3>1, <3>2, <3>3 DEF Alone
  <2> QED BY <2>1, <2>2 DEF DestroyedUnused, Alone
<1> QED BY <1>1, ContractCorrect, PTL

-----------------------------------------------------------------------------
(***************************************************************************)
(* The refinement.  PushBody, PopItem, PopNothing, Count and the FreeBody  *)
(* that finds the queue drained are the steps in which calls take effect;  *)
(* the unlock or the destruction at the end is the return.                 *)
(***************************************************************************)
\* rv is set in the step in which a call takes effect, and by a free never.
RvInv ==
  \A t \in Threads :
    pc[t] \notin {"signal", "unlock", "destroy"} \/ op[t] = "free" => rv[t] = Null

LEMMA RvInit == Init => RvInv
BY DEF Init, RvInv

LEMMA RvStep == IInv /\ RvInv /\ [Next]_vars => RvInv'
<1> SUFFICES ASSUME IInv, RvInv, [Next]_vars PROVE RvInv'
  OBVIOUS
<1>0. TypeOK /\ CallInv
  BY DEF IInv
<1> USE DEF RvInv, Goto, TypeOK
<1>1. ASSUME NEW t \in Threads, NEW o \in Ops, NEW x, Call(t, o, x) PROVE RvInv'
  BY <1>0, <1>1 DEF Call, CallInv
<1>2. ASSUME NEW t \in Threads, SpuriousWake(t) \/ Lock(t) PROVE RvInv'
  BY <1>0, <1>2 DEF SpuriousWake, Lock
<1>3. ASSUME NEW t \in Threads,
             PushBody(t) \/ PopItem(t) \/ PopNothing(t) \/ Count(t)
      PROVE  RvInv'
  BY <1>0, <1>3 DEF PushBody, PopItem, PopNothing, Count
<1>4. ASSUME NEW t \in Threads, PopPark(t) \/ FreeBody(t) PROVE RvInv'
  BY <1>0, <1>4 DEF PopPark, FreeBody, Park
<1>5. ASSUME NEW t \in Threads, PushSignal(t) \/ PopSignal(t) PROVE RvInv'
  BY <1>0, <1>5 DEF PushSignal, PopSignal, Broadcast, CallInv
<1>6. ASSUME NEW t \in Threads, Unlock(t) PROVE RvInv'
  BY <1>0, <1>6 DEF Unlock, Return
<1>7. ASSUME NEW t \in Threads, Destroy(t) PROVE RvInv'
  BY <1>0, <1>7 DEF Destroy, Return
<1>8. CASE UNCHANGED vars
  BY <1>8 DEF vars
<1> QED
  BY <1>1, <1>2, <1>3, <1>4, <1>5, <1>6, <1>7, <1>8
  DEF Next, Step, CallPush, CallOther, Ops

LEMMA RefineInit == Init => Fifo!Init
BY DEF Init, Fifo!Init, Done

LEMMA RefineStep ==
  IInv /\ ContractInv /\ RvInv /\ [Next]_vars => [Fifo!Next]_Fifo!vars
<1> SUFFICES ASSUME IInv, ContractInv, RvInv, [Next]_vars
             PROVE  [Fifo!Next]_Fifo!vars
  OBVIOUS
<1> DEFINE D == [t \in Threads |-> Done(t)]
           C == destroyed \/ \E t \in Threads : op[t] = "free" /\ Done(t)
<1>0. TypeOK /\ LockInv /\ CallInv /\ SizeInv /\ Overlap /\ Alone
  BY DEF IInv, ContractInv
<1>1. C = (destroyed \/ FreeDone)
  BY <1>0 DEF Done, FreeDone, CallInv
<1>2. C' = (destroyed' \/ FreeDone')
  BY CallStep DEF Done, FreeDone, CallInv
<1> HIDE DEF C
<1> USE DEF Goto
<1>3. ASSUME NEW t \in Threads, NEW o \in Ops, NEW x, Call(t, o, x)
      PROVE  Fifo!Invoke(t, o, x)
  <2>1. ~C /\ ~C'
    BY <1>0, <1>1, <1>2, <1>3, CallOpen
  <2>2. op[t] = "none"
    BY <1>0, <1>3 DEF Call, CallInv
  <2>3. D' = D
    BY <1>0, <1>3 DEF Call, Done, TypeOK
  <2> QED BY <1>3, <2>1, <2>2, <2>3 DEF Fifo!Invoke, Call, C
\* The steps in which a call other than a free takes effect.
<1>4. ASSUME NEW t \in Threads, NEW s, NEW v,
             pc[t] = "body", op[t] # "free", pc'[t] \in {"signal", "unlock"},
             \A u \in Threads \ {t} : pc'[u] = pc[u],
             queue' = s, rv' = [rv EXCEPT ![t] = v],
             op' = op, arg' = arg, destroyed' = destroyed
      PROVE  Fifo!Commit(t, s, v) /\ C' = C
  <2>1. ~destroyed /\ ~FreeDone
    BY <1>0, <1>4 DEF Alone
  <2>2. ~FreeDone'
    BY <1>4, <2>1 DEF FreeDone
  <2>3. ~C /\ ~C'
    BY <1>1, <1>2, <1>4, <2>1, <2>2
  <2>4. ~D[t] /\ D' = [D EXCEPT ![t] = TRUE]
    BY <1>4 DEF Done
  <2> QED BY <1>4, <2>3, <2>4 DEF Fifo!Commit, C
<1>5. ASSUME NEW t \in Threads, PushBody(t) PROVE Fifo!Push(t)
  <2>1. CASE queue' = Append(queue, arg[t]) /\ rv' = [rv EXCEPT ![t] = 1]
    <3>1. Fifo!Commit(t, Append(queue, arg[t]), 1) /\ C' = C
      BY <1>0, <1>4, <1>5, <2>1 DEF PushBody, TypeOK
    <3> QED BY <1>5, <3>1 DEF PushBody, Fifo!Push, C
  <2>2. CASE queue' = queue /\ rv' = [rv EXCEPT ![t] = 0]
    <3>1. Fifo!Commit(t, queue, 0) /\ C' = C
      BY <1>0, <1>4, <1>5, <2>2 DEF PushBody, TypeOK
    <3> QED BY <1>5, <3>1 DEF PushBody, Fifo!Push, C
  <2> QED BY <1>5, <2>1, <2>2 DEF PushBody
<1>6. ASSUME NEW t \in Threads, PopItem(t) PROVE Fifo!PopItem(t)
  <2>1. Fifo!Commit(t, Tail(queue), Head(queue)) /\ C' = C
    BY <1>0, <1>4, <1>6 DEF PopItem, TypeOK
  <2> QED BY <1>6, <2>1 DEF PopItem, Fifo!PopItem, C
<1>7. ASSUME NEW t \in Threads, PopNothing(t) PROVE Fifo!PopNothing(t)
  <2>1. rv' = [rv EXCEPT ![t] = Null]
    BY <1>0, <1>7 DEF PopNothing, RvInv, TypeOK
  <2>2. Fifo!Commit(t, queue, Null) /\ C' = C
    BY <1>0, <1>4, <1>7, <2>1 DEF PopNothing, TypeOK
  <2> QED BY <1>7, <2>2 DEF PopNothing, Fifo!PopNothing, C
<1>8. ASSUME NEW t \in Threads, Count(t) PROVE Fifo!Count(t)
  <2>1. Fifo!Commit(t, queue, Len(queue)) /\ C' = C
    BY <1>0, <1>4, <1>8 DEF Count, SizeInv, TypeOK
  <2> QED BY <1>8, <2>1 DEF Count, Fifo!Count, C
<1>9. ASSUME NEW t \in Threads, FreeBody(t), size = 0 PROVE Fifo!Free(t)
  <2>1. /\ pc[t] = "body" /\ op[t] = "free" /\ pc'[t] = "unlock"
        /\ \A u \in Threads \ {t} : pc'[u] = pc[u]
        /\ op' = op /\ arg' = arg /\ queue' = queue /\ destroyed' = destroyed
    BY <1>0, <1>9 DEF FreeBody, TypeOK
  <2>2. queue = <<>>
    BY <1>0, <1>9, EmptySeq DEF SizeInv, TypeOK
  <2>3. rv' = [rv EXCEPT ![t] = Null]
    BY <1>0, <1>9, <2>1 DEF FreeBody, RvInv, TypeOK
  <2>4. ~C
    BY <1>0, <1>1, <2>1 DEF Alone, Overlap, FreeDone
  <2>5. C'
    BY <1>2, <2>1 DEF FreeDone
  <2>6. ~D[t] /\ D' = [D EXCEPT ![t] = TRUE]
    BY <2>1 DEF Done
  <2> QED
    BY <2>1, <2>2, <2>3, <2>4, <2>5, <2>6 DEF Fifo!Free, Fifo!Commit, C
\* Steps that are invisible in the FIFO.
<1>10. ASSUME \A u \in Threads : Done(u)' <=> Done(u), destroyed' = destroyed,
              queue' = queue, op' = op, arg' = arg, rv' = rv
       PROVE  UNCHANGED Fifo!vars
  <2>1. D' = D
    <3>1. \A u \in Threads : Done(u)' = Done(u)
      BY <1>10 DEF Done
    <3> QED BY <3>1
  <2>2. C' = C
    BY <1>10 DEF C
  <2> QED BY <1>10, <2>1, <2>2 DEF Fifo!vars, C
<1>11. ASSUME NEW t \in Threads,
              \/ SpuriousWake(t) \/ Lock(t) \/ PushSignal(t) \/ PopSignal(t)
              \/ PopPark(t) \/ (FreeBody(t) /\ size # 0)
       PROVE  UNCHANGED Fifo!vars
  <2>1. CASE SpuriousWake(t) \/ Lock(t)
    BY <1>0, <1>10, <2>1 DEF SpuriousWake, Lock, Done, TypeOK
  <2>2. CASE PushSignal(t) \/ PopSignal(t)
    <3>1. \A u \in Threads : Done(u)' <=> Done(u)
      BY <1>0, <2>2 DEF PushSignal, PopSignal, Broadcast, Done, TypeOK
    <3> QED BY <1>10, <2>2, <3>1 DEF PushSignal, PopSignal
  <2>3. CASE PopPark(t) \/ (FreeBody(t) /\ size # 0)
    <3>1. \A u \in Threads : Done(u)' <=> Done(u)
      BY <1>0, <2>3 DEF PopPark, FreeBody, Park, Done, TypeOK
    <3> QED BY <1>10, <2>3, <3>1 DEF PopPark, FreeBody
  <2> QED BY <1>11, <2>1, <2>2, <2>3
<1>12. ASSUME NEW t \in Threads, Unlock(t), op[t] = "free"
       PROVE  UNCHANGED Fifo!vars
  <2>1. \A u \in Threads : Done(u)' <=> Done(u)
    BY <1>0, <1>12 DEF Unlock, Done, TypeOK
  <2> QED BY <1>10, <1>12, <2>1 DEF Unlock
<1>13. ASSUME NEW t \in Threads, (Unlock(t) /\ op[t] # "free") \/ Destroy(t)
       PROVE  Fifo!Return(t)
  <2>1. /\ pc[t] \in {"unlock", "destroy"} /\ pc'[t] = "idle"
        /\ \A u \in Threads \ {t} : pc'[u] = pc[u]
    BY <1>0, <1>13 DEF Unlock, Destroy, Return, TypeOK
  <2>2. /\ op' = [op EXCEPT ![t] = "none"] /\ arg' = [arg EXCEPT ![t] = Null]
        /\ rv' = [rv EXCEPT ![t] = Null] /\ queue' = queue
    BY <1>13 DEF Unlock, Destroy, Return
  <2>3. D[t] /\ D' = [D EXCEPT ![t] = FALSE]
    <3>1. Done(t) /\ Done(t)' = FALSE
      BY <2>1 DEF Done
    <3>2. \A u \in Threads \ {t} : Done(u)' = Done(u)
      BY <2>1 DEF Done
    <3> QED BY <3>1, <3>2
  <2>4. C' = C
    <3>1. CASE Destroy(t)
      <4>1. FreeDone /\ destroyed'
        BY <1>0, <3>1 DEF Destroy, FreeDone, CallInv
      <4> QED BY <1>1, <1>2, <4>1
    <3>2. CASE Unlock(t) /\ op[t] # "free"
      <4>1. ~FreeDone /\ destroyed' = destroyed
        BY <1>0, <3>2 DEF Unlock, Alone
      <4>2. ~FreeDone'
        BY <1>0, <2>1, <2>2, <4>1 DEF FreeDone, TypeOK
      <4> QED BY <1>1, <1>2, <4>1, <4>2
    <3> QED BY <1>13, <3>1, <3>2
  <2> QED BY <2>2, <2>3, <2>4 DEF Fifo!Return, C
<1>14. CASE UNCHANGED vars
  BY <1>10, <1>14 DEF vars, Done
<1>15. ASSUME NEW t \in Threads, CallPush(t) \/ CallOther(t) PROVE Fifo!Next
  BY <1>3, <1>15 DEF CallPush, CallOther, Ops, Fifo!Next
<1>16. ASSUME NEW t \in Threads, Step(t) \/ SpuriousWake(t)
       PROVE  [Fifo!Next]_Fifo!vars
  <2>1. CASE \/ PushBody(t) \/ PopItem(t) \/ PopNothing(t) \/ Count(t)
             \/ (FreeBody(t) /\ size = 0) \/ Destroy(t)
             \/ Unlock(t) /\ op[t] # "free"
    BY <1>5, <1>6, <1>7, <1>8, <1>9, <1>13, <2>1 DEF Fifo!Next
  <2>2. CASE \/ SpuriousWake(t) \/ Lock(t) \/ PushSignal(t) \/ PopSignal(t)
             \/ PopPark(t) \/ (FreeBody(t) /\ size # 0)
             \/ Unlock(t) /\ op[t] = "free"
    BY <1>11, <1>12, <2>2
  <2> QED BY <1>16, <2>1, <2>2 DEF Step
<1> QED BY <1>14, <1>15, <1>16 DEF Next

\* Behind its lock, counter and condition variables async_queue is a FIFO each
\* of whose calls takes effect at one point between its call and its return
\* (include/async_queue.h), for any number of threads and items.
THEOREM Refinement == Spec => ImplementsFifo
<1>1. Spec => []RvInv
  BY RvInit, RvStep, IInvCorrect, PTL DEF Spec
<1> QED
  BY <1>1, RefineInit, RefineStep, ContractCorrect, PTL
  DEF Spec, ImplementsFifo, Fifo!Spec
=============================================================================
