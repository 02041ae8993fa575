-------------------------- MODULE ThreadPoolProofs --------------------------
(***************************************************************************)
(* Proofs about ThreadPool, for every number of workers, clients and jobs  *)
(* and every bound on the queue.                                           *)
(***************************************************************************)
EXTENDS ThreadPool, Counting

NotExited == {w \in Workers : wpc[w] # "exited"}

CountInv == TypeOK /\ NumThreadsAccurate

-----------------------------------------------------------------------------
(* What the two ways to enqueue leave behind. *)

\* The queues hold units, early or late.
LEMMA UnitType ==
  ASSUME TypeOK, NEW j \in Jobs \cup {Term}
  PROVE  Unit(j) \in Units
<1>1. (terms > 0) \in BOOLEAN
  BY DEF TypeOK
<1> QED BY <1>1, Zenon DEF Unit, Units

\* thread_pool_push keeps the work queue a sequence of units.
LEMMA PushType ==
  ASSUME TypeOK, NEW j \in Jobs \cup {Term}, Push(j)
  PROVE  work' \in Seq(Units) /\ lost' \in SUBSET (Jobs \cup {Term})
<1>1. Append(work, Unit(j)) \in Seq(Units)
  BY UnitType DEF TypeOK
<1> QED BY <1>1 DEF TypeOK, Push, Refuse

\* So does thread_pool_terminate, which also keeps its count in range.
LEMMA TerminateType ==
  ASSUME TypeOK, Terminate
  PROVE  work' \in Seq(Units) /\ lost' \in SUBSET (Jobs \cup {Term}) /\ terms' \in 0..2
<1>1. Append(work, Unit(Term)) \in Seq(Units)
  BY UnitType DEF TypeOK
<1>2. work' \in Seq(Units)
  BY <1>1 DEF TypeOK, Terminate, Refuse
<1>3. lost' \in SUBSET (Jobs \cup {Term})
  BY DEF TypeOK, Terminate, Refuse
<1>4. terms' \in 0..2
  BY DEF TypeOK, Terminate
<1> QED BY <1>2, <1>3, <1>4

\* While no thread exits, the threads that have not are the same.
LEMMA SameCount ==
  ASSUME NumThreadsAccurate, numThreads' = numThreads,
         \A w \in Workers : wpc'[w] = "exited" <=> wpc[w] = "exited"
  PROVE  NumThreadsAccurate'
<1>1. NotExited' = NotExited
  BY DEF NotExited
<1> QED BY <1>1 DEF NumThreadsAccurate, NotExited

-----------------------------------------------------------------------------
\* The pool's variables keep their types, num_threads never drops below zero,
\* and it counts the threads that have not left: what thread_loop relies on to
\* recognise the last worker (thread_pool.c:64-67).
LEMMA CountInit == Init => CountInv
<1> SUFFICES ASSUME Init PROVE CountInv
  OBVIOUS
<1>1. NotExited = Workers
  BY DEF Init, NotExited
<1>2. NumThreadsAccurate
  BY <1>1 DEF Init, NumThreadsAccurate, NotExited
<1>3. Cardinality(Workers) \in Nat
  BY WorkersAssumption, FS_CardinalityType
<1>4. TypeOK
  <2>1. work \in Seq(Units) /\ threadQueue \in Seq(Workers)
    BY DEF Init
  <2>2. numThreads \in 0..Cardinality(Workers)
    BY <1>3 DEF Init
  <2>3. poolLock \in Workers \cup Clients \cup {Null}
    BY DEF Init
  <2>4. wpc \in [Workers ->
          {"unborn", "pop", "run", "term", "relay", "leave", "exited"}]
    BY DEF Init
  <2>5. unit \in [Workers -> Units \cup {Null}]
    BY DEF Init
  <2>6. cpc \in [Clients -> {"new", "use", "done", "free", "drain", "aborted", "freed"}]
    BY DEF Init
  <2>7. terms \in 0..2
    BY DEF Init
  <2>8. lost \in SUBSET (Jobs \cup {Term}) /\ unjoined \in SUBSET Workers
    BY DEF Init
  <2> QED BY <2>1, <2>2, <2>3, <2>4, <2>5, <2>6, <2>7, <2>8 DEF TypeOK
<1> QED BY <1>2, <1>4 DEF CountInv

LEMMA CountStep == CountInv /\ [Next]_vars => CountInv'
<1> SUFFICES ASSUME CountInv, [Next]_vars PROVE CountInv'
  OBVIOUS
<1> USE DEF CountInv
<1>1. ASSUME NEW w \in Workers, Pop(w) PROVE CountInv'
  <2>1. Head(work) \in Units /\ Tail(work) \in Seq(Units)
    BY <1>1 DEF Pop, TypeOK
  <2>2. TypeOK'
    BY <1>1, <2>1 DEF Pop, GotoW, TypeOK, clientVars
  <2>3. NumThreadsAccurate'
    BY <1>1, SameCount DEF Pop, GotoW, TypeOK
  <2> QED BY <2>2, <2>3
<1>2. ASSUME NEW w \in Workers, TermLock(w) PROVE CountInv'
  <2>1. TypeOK'
    BY <1>2 DEF TermLock, GotoW, TypeOK, clientVars
  <2>2. NumThreadsAccurate'
    BY <1>2, SameCount DEF TermLock, GotoW, TypeOK
  <2> QED BY <2>1, <2>2
<1>3. ASSUME NEW w \in Workers, Relay(w) PROVE CountInv'
  <2>1. work' \in Seq(Units) /\ lost' \in SUBSET (Jobs \cup {Term})
    BY <1>3, PushType DEF Relay, TypeOK
  <2>2. TypeOK'
    BY <1>3, <2>1 DEF Relay, GotoW, TypeOK, clientVars
  <2>3. NumThreadsAccurate'
    BY <1>3, SameCount DEF Relay, GotoW, TypeOK
  <2> QED BY <2>2, <2>3
<1>4. ASSUME NEW w \in Workers, Leave(w) PROVE CountInv'
  <2>1. w \in NotExited
    BY <1>4 DEF Leave, NotExited
  <2>2. NotExited' = NotExited \ {w}
    BY <1>4 DEF Leave, GotoW, NotExited, TypeOK
  <2>3. IsFiniteSet(NotExited)
    BY WorkersAssumption, FS_Subset DEF NotExited
  <2>4. /\ Cardinality(NotExited') = Cardinality(NotExited) - 1
        /\ Cardinality(NotExited) \in Nat
        /\ Cardinality(NotExited') \in Nat
    BY <2>1, <2>2, <2>3, FS_RemoveElement, FS_CardinalityType
  <2>5. NumThreadsAccurate'
    BY <1>4, <2>4 DEF Leave, NumThreadsAccurate, NotExited
  <2>6. numThreads' \in 0..Cardinality(Workers)
    <3>1. numThreads' = numThreads - 1 /\ numThreads' \in Nat
      BY <1>4, <2>4 DEF Leave, NumThreadsAccurate, NotExited
    <3>2. Cardinality(Workers) \in Nat
      BY WorkersAssumption, FS_CardinalityType
    <3> QED BY <3>1, <3>2 DEF TypeOK
  <2>7. TypeOK'
    BY <1>4, <2>6 DEF Leave, GotoW, TypeOK, clientVars
  <2> QED BY <2>5, <2>7
<1>5. ASSUME NEW w \in Workers, JobReturn(w) PROVE CountInv'
  <2>1. TypeOK'
    BY <1>5 DEF JobReturn, Finish, GotoW, TypeOK, clientVars
  <2>2. NumThreadsAccurate'
    BY <1>5, SameCount DEF JobReturn, Finish, GotoW, TypeOK
  <2> QED BY <2>1, <2>2
<1>6. ASSUME NEW w \in Workers, NEW j \in Jobs, JobPush(w, j) PROVE CountInv'
  <2>1. work' \in Seq(Units) /\ lost' \in SUBSET (Jobs \cup {Term})
    BY <1>6, PushType DEF JobPush
  <2>2. TypeOK'
    BY <1>6, <2>1 DEF JobPush, TypeOK, workerVars, clientVars
  <2>3. NumThreadsAccurate'
    BY <1>6, SameCount DEF JobPush, workerVars
  <2> QED BY <2>2, <2>3
<1>7. ASSUME NEW w \in Workers, JobTerminate(w) PROVE CountInv'
  <2>1. work' \in Seq(Units) /\ lost' \in SUBSET (Jobs \cup {Term}) /\ terms' \in 0..2
    BY <1>7, TerminateType DEF JobTerminate
  <2>2. TypeOK'
    BY <1>7, <2>1 DEF JobTerminate, TypeOK, workerVars, clientVars
  <2>3. NumThreadsAccurate'
    BY <1>7, SameCount DEF JobTerminate, workerVars
  <2> QED BY <2>2, <2>3
<1>8. ASSUME NEW w \in Workers, Create(w) PROVE CountInv'
  <2>1. threadQueue' \in Seq(Workers) /\ unjoined' \in SUBSET Workers
    <3>1. CASE threadQueue' = Append(threadQueue, w) /\ unjoined' = unjoined
      BY <3>1 DEF TypeOK
    <3>2. CASE threadQueue' = threadQueue /\ unjoined' = unjoined \cup {w}
      BY <3>2 DEF TypeOK
    <3> QED BY <1>8, <3>1, <3>2 DEF Create
  <2>2. TypeOK'
    BY <1>8, <2>1 DEF Create, GotoW, TypeOK
  <2>3. NumThreadsAccurate'
    BY <1>8, SameCount DEF Create, GotoW, TypeOK
  <2> QED BY <2>2, <2>3
<1>9. CASE NewReturns
  <2>1. TypeOK'
    BY <1>9 DEF NewReturns, TypeOK, workerVars
  <2>2. NumThreadsAccurate'
    BY <1>9, SameCount DEF NewReturns, workerVars
  <2> QED BY <2>1, <2>2
<1>10. CASE Join
  <2>1. Tail(threadQueue) \in Seq(Workers)
    BY <1>10 DEF Join, TypeOK
  <2>2. TypeOK'
    BY <1>10, <2>1 DEF Join, TypeOK, workerVars
  <2>3. NumThreadsAccurate'
    BY <1>10, SameCount DEF Join, workerVars
  <2> QED BY <2>2, <2>3
<1>11. CASE FreeAssert \/ FreeReturns
  <2>1. TypeOK'
    BY <1>11 DEF FreeAssert, FreeReturns, GotoC, TypeOK, workerVars
  <2>2. NumThreadsAccurate'
    BY <1>11, SameCount DEF FreeAssert, FreeReturns, workerVars
  <2> QED BY <2>1, <2>2
<1>12. CASE FreeCalled
  <2>1. TypeOK'
    BY <1>12 DEF FreeCalled, GotoC, TypeOK, workerVars
  <2>2. NumThreadsAccurate'
    BY <1>12, SameCount DEF FreeCalled, workerVars
  <2> QED BY <2>1, <2>2
<1>13. ASSUME NEW c \in Clients, NEW j \in Jobs, ClientPush(c, j) PROVE CountInv'
  <2>1. work' \in Seq(Units) /\ lost' \in SUBSET (Jobs \cup {Term})
    BY <1>13, PushType DEF ClientPush
  <2>2. TypeOK'
    BY <1>13, <2>1 DEF ClientPush, TypeOK, workerVars, clientVars
  <2>3. NumThreadsAccurate'
    BY <1>13, SameCount DEF ClientPush, workerVars
  <2> QED BY <2>2, <2>3
<1>14. ASSUME NEW c \in Clients, ClientTerminate(c) PROVE CountInv'
  <2>1. work' \in Seq(Units) /\ lost' \in SUBSET (Jobs \cup {Term}) /\ terms' \in 0..2
    BY <1>14, TerminateType DEF ClientTerminate
  <2>2. TypeOK'
    BY <1>14, <2>1 DEF ClientTerminate, TypeOK, workerVars, clientVars
  <2>3. NumThreadsAccurate'
    BY <1>14, SameCount DEF ClientTerminate, workerVars
  <2> QED BY <2>2, <2>3
<1>15. ASSUME NEW c \in Clients, ClientDone(c) PROVE CountInv'
  <2>1. TypeOK'
    BY <1>15 DEF ClientDone, GotoC, TypeOK, workerVars
  <2>2. NumThreadsAccurate'
    BY <1>15, SameCount DEF ClientDone, workerVars
  <2> QED BY <2>1, <2>2
<1>16. CASE UNCHANGED vars
  <2>1. TypeOK'
    BY <1>16 DEF vars, TypeOK
  <2>2. NumThreadsAccurate'
    BY <1>16, SameCount DEF vars
  <2> QED BY <2>1, <2>2
<1> QED
  BY <1>1, <1>2, <1>3, <1>4, <1>5, <1>6, <1>7, <1>8, <1>9, <1>10, <1>11,
     <1>12, <1>13, <1>14, <1>15, <1>16
  DEF Next, WorkerStep, OwnerStep

\* The pool's variables keep their types, so num_threads, a size_t in the code,
\* never wraps below zero (thread_pool.c:67).
THEOREM TypeCorrect == Spec => []TypeOK
<1>1. CountInv => TypeOK
  BY DEF CountInv
<1> QED BY <1>1, CountInit, CountStep, PTL DEF Spec

\* num_threads counts the threads that have not left (thread_pool.c:64-67).
THEOREM NumThreadsCorrect == Spec => []NumThreadsAccurate
<1>1. CountInv => NumThreadsAccurate
  BY DEF CountInv
<1> QED BY <1>1, CountInit, CountStep, PTL DEF Spec

-----------------------------------------------------------------------------
(***************************************************************************)
(* Nothing queued before the first terminate is abandoned.  Inductive only *)
(* together with the order of the queue: what stands behind a sentinel was *)
(* pushed after one, so the worker that dequeues the sentinel leaves only  *)
(* late units to those that come after it.                                 *)
(***************************************************************************)
Met == {w \in Workers : wpc[w] \in {"term", "relay", "leave", "exited"}}

SentinelSent ==
  (\E i \in DOMAIN work : work[i].job = Term) \/ Met # {} => terms > 0

BehindSentinel ==
  \A i, k \in DOMAIN work : i < k /\ work[i].job = Term => work[k].late

EarlyInv == SentinelSent /\ BehindSentinel /\ NothingEarlyAbandoned

\* A step that touches neither the queue nor the workers that met a sentinel.
LEMMA KeepEarly ==
  ASSUME EarlyInv, work' = work, terms' = terms, Met' = Met
  PROVE  EarlyInv'
BY DEF EarlyInv, SentinelSent, BehindSentinel, NothingEarlyAbandoned, Met

\* A unit enqueued behind the others, late exactly if a sentinel was sent.
LEMMA EnqueueEarly ==
  ASSUME TypeOK, EarlyInv, NEW j \in Jobs \cup {Term},
         work' = Append(work, Unit(j)),
         terms > 0 => terms' > 0, j = Term => terms' > 0, Met' = Met
  PROVE  EarlyInv'
<1>1. /\ DOMAIN work' = 1..(Len(work) + 1)
      /\ DOMAIN work = 1..Len(work)
      /\ Len(work) \in Nat
      /\ \A i \in DOMAIN work : work'[i] = work[i]
      /\ work'[Len(work) + 1] = Unit(j)
  BY UnitType DEF TypeOK
<1>2. Unit(j).job = j /\ Unit(j).late = (terms > 0)
  BY DEF Unit
<1>3. SentinelSent'
  BY <1>1, <1>2 DEF EarlyInv, SentinelSent
<1>4. BehindSentinel'
  <2>1. SUFFICES ASSUME NEW i \in DOMAIN work', NEW k \in DOMAIN work',
                        i < k, work'[i].job = Term
                 PROVE  work'[k].late
    BY DEF BehindSentinel
  <2>2. i \in DOMAIN work /\ work[i].job = Term
    BY <1>1, <2>1
  <2>3. CASE k \in DOMAIN work
    BY <1>1, <2>1, <2>2, <2>3 DEF EarlyInv, BehindSentinel
  <2>4. CASE k = Len(work) + 1
    BY <1>1, <1>2, <2>2, <2>4 DEF EarlyInv, SentinelSent
  <2> QED BY <1>1, <2>3, <2>4
<1>5. NothingEarlyAbandoned'
  <2>1. SUFFICES ASSUME Met' # {}, NEW i \in DOMAIN work'
                 PROVE  work'[i].late
    BY DEF NothingEarlyAbandoned, Met
  <2>2. CASE i \in DOMAIN work
    BY <1>1, <2>1, <2>2 DEF EarlyInv, NothingEarlyAbandoned, Met
  <2>3. CASE i = Len(work) + 1
    BY <1>1, <1>2, <2>1, <2>3 DEF EarlyInv, SentinelSent
  <2> QED BY <1>1, <2>2, <2>3
<1> QED BY <1>3, <1>4, <1>5 DEF EarlyInv

LEMMA PushEarly ==
  ASSUME TypeOK, EarlyInv, NEW j \in Jobs \cup {Term}, Push(j),
         j = Term => terms > 0, terms' = terms, Met' = Met
  PROVE  EarlyInv'
<1>1. CASE work' = work
  BY <1>1, KeepEarly
<1>2. CASE work' = Append(work, Unit(j))
  BY <1>2, EnqueueEarly
<1> QED BY <1>1, <1>2 DEF Push, Refuse

LEMMA TerminateEarly ==
  ASSUME TypeOK, EarlyInv, Terminate, Met' = Met
  PROVE  EarlyInv'
<1>1. CASE work' = work /\ terms' = terms
  BY <1>1, KeepEarly
<1>2. CASE work' = Append(work, Unit(Term)) /\ terms' > 0
  BY <1>2, EnqueueEarly
<1>3. terms \in 0..2
  BY DEF TypeOK
<1> QED BY <1>1, <1>2, <1>3 DEF Terminate, Refuse

LEMMA EarlyInit == Init => EarlyInv
BY DEF Init, EarlyInv, SentinelSent, BehindSentinel, NothingEarlyAbandoned, Met

LEMMA EarlyStep == TypeOK /\ EarlyInv /\ [Next]_vars => EarlyInv'
<1> SUFFICES ASSUME TypeOK, EarlyInv, [Next]_vars PROVE EarlyInv'
  OBVIOUS
<1>1. ASSUME NEW w \in Workers, Pop(w) PROVE EarlyInv'
  <2>1. /\ work \in Seq(Units) /\ work # <<>>
        /\ work' = Tail(work) /\ terms' = terms
    BY <1>1 DEF Pop, TypeOK
  <2>2. /\ 1 \in DOMAIN work /\ work[1] = Head(work)
        /\ \A i \in DOMAIN work' : /\ i + 1 \in DOMAIN work /\ i \in Nat
                                   /\ work'[i] = work[i + 1]
                                   /\ 1 < i + 1
    BY <2>1
  <2>3. BehindSentinel'
    <3>1. SUFFICES ASSUME NEW i \in DOMAIN work', NEW k \in DOMAIN work',
                          i < k, work'[i].job = Term
                   PROVE  work'[k].late
      BY DEF BehindSentinel
    <3>2. i + 1 < k + 1
      BY <2>2, <3>1
    <3> QED BY <2>2, <3>1, <3>2 DEF EarlyInv, BehindSentinel
  <2>4. CASE work[1].job = Term
    <3>1. \A i \in DOMAIN work' : work'[i].late
      BY <2>2, <2>4 DEF EarlyInv, BehindSentinel
    <3>2. terms' > 0
      BY <2>1, <2>2, <2>4 DEF EarlyInv, SentinelSent
    <3> QED BY <2>3, <3>1, <3>2 DEF EarlyInv, SentinelSent, NothingEarlyAbandoned
  <2>5. CASE work[1].job # Term
    <3>1. Met' = Met
      BY <1>1, <2>2, <2>5 DEF Pop, GotoW, Met, TypeOK
    <3>2. SentinelSent'
      BY <2>1, <2>2, <3>1 DEF EarlyInv, SentinelSent
    <3>3. NothingEarlyAbandoned'
      BY <2>2, <3>1 DEF EarlyInv, NothingEarlyAbandoned, Met
    <3> QED BY <2>3, <3>2, <3>3 DEF EarlyInv
  <2> QED BY <2>4, <2>5
<1>2. ASSUME NEW w \in Workers, TermLock(w) PROVE EarlyInv'
  <2>1. Met' = Met
    BY <1>2 DEF TermLock, GotoW, Met, TypeOK
  <2> QED BY <1>2, <2>1, KeepEarly DEF TermLock
<1>3. ASSUME NEW w \in Workers, Relay(w) PROVE EarlyInv'
  <2>1. Met' = Met
    BY <1>3 DEF Relay, GotoW, Met, TypeOK
  <2>2. terms > 0
    BY <1>3 DEF Relay, Met, EarlyInv, SentinelSent
  <2> QED BY <1>3, <2>1, <2>2, PushEarly, KeepEarly DEF Relay
<1>4. ASSUME NEW w \in Workers, Leave(w) PROVE EarlyInv'
  <2>1. Met' = Met
    BY <1>4 DEF Leave, GotoW, Met, TypeOK
  <2> QED BY <1>4, <2>1, KeepEarly DEF Leave
<1>5. ASSUME NEW w \in Workers, JobReturn(w) PROVE EarlyInv'
  <2>1. Met' = Met
    BY <1>5 DEF JobReturn, Finish, GotoW, Met, TypeOK
  <2> QED BY <1>5, <2>1, KeepEarly DEF JobReturn
<1>6. ASSUME NEW w \in Workers, NEW j \in Jobs, JobPush(w, j) PROVE EarlyInv'
  BY <1>6, PushEarly, NamesAssumption DEF JobPush, workerVars, Met
<1>7. ASSUME NEW w \in Workers, JobTerminate(w) PROVE EarlyInv'
  BY <1>7, TerminateEarly DEF JobTerminate, workerVars, Met
<1>8. ASSUME NEW w \in Workers, Create(w) PROVE EarlyInv'
  <2>1. Met' = Met
    BY <1>8 DEF Create, GotoW, Met, TypeOK
  <2> QED BY <1>8, <2>1, KeepEarly DEF Create
<1>9. CASE NewReturns \/ Join \/ FreeAssert \/ FreeReturns \/ FreeCalled
  BY <1>9, KeepEarly
  DEF NewReturns, Join, FreeAssert, FreeReturns, FreeCalled, workerVars, Met
<1>10. ASSUME NEW c \in Clients, NEW j \in Jobs, ClientPush(c, j) PROVE EarlyInv'
  BY <1>10, PushEarly, NamesAssumption DEF ClientPush, workerVars, Met
<1>11. ASSUME NEW c \in Clients, ClientTerminate(c) PROVE EarlyInv'
  BY <1>11, TerminateEarly DEF ClientTerminate, workerVars, Met
<1>12. ASSUME NEW c \in Clients, ClientDone(c) PROVE EarlyInv'
  BY <1>12, KeepEarly DEF ClientDone, workerVars, Met
<1>13. CASE UNCHANGED vars
  BY <1>13, KeepEarly DEF vars, Met
<1> QED
  BY <1>1, <1>2, <1>3, <1>4, <1>5, <1>6, <1>7, <1>8, <1>9, <1>10, <1>11,
     <1>12, <1>13
  DEF Next, WorkerStep, OwnerStep

\* Once a worker has met a sentinel, every unit still queued was pushed after
\* a terminate: "once all of the work has been finished" (thread_pool.h:68).
THEOREM NothingEarlyAbandonedCorrect == Spec => []NothingEarlyAbandoned
<1>1. EarlyInv => NothingEarlyAbandoned
  BY DEF EarlyInv
<1> QED BY <1>1, EarlyInit, EarlyStep, TypeCorrect, PTL DEF Spec

-----------------------------------------------------------------------------
(***************************************************************************)
(* A freed pool is quiet.  thread_pool_free looks at its thread queue and  *)
(* nothing else: what makes an empty thread queue mean that every thread   *)
(* that was entered there exited is that a thread leaves the queue only    *)
(* once it was joined.                                                     *)
(***************************************************************************)
\* pool->lock belongs to the worker between TermLock and Leave.
PoolLockInv ==
  /\ poolLock \in Workers \cup {Null}
  /\ \A w \in Workers : poolLock = w <=> wpc[w] \in {"relay", "leave"}

\* Every thread that was created and has not exited is still to be joined, or
\* never will be.
JoinInv ==
  \A w \in Workers :
    \/ wpc[w] = "unborn" /\ cpc[Owner] = "new"
    \/ wpc[w] = "exited"
    \/ w \in unjoined
    \/ \E i \in DOMAIN threadQueue : threadQueue[i] = w

\* The assert comes when nobody is left to be joined.
DrainInv == cpc[Owner] \in {"drain", "aborted"} => threadQueue = <<>>

\* The owner frees the pool after the last use by another client.
ClientsInv ==
  cpc[Owner] \in {"free", "drain", "aborted", "freed"} =>
    \A c \in Clients \ {Owner} : cpc[c] = "done"

QuietInv == PoolLockInv /\ JoinInv /\ DrainInv /\ ClientsInv /\ FreedIsQuiet

LEMMA QuietInit == Init => QuietInv
<1> SUFFICES ASSUME Init PROVE QuietInv
  OBVIOUS
<1>1. PoolLockInv
  BY NamesAssumption DEF Init, PoolLockInv
<1>2. JoinInv /\ DrainInv /\ ClientsInv /\ FreedIsQuiet
  BY OwnerAssumption DEF Init, JoinInv, DrainInv, ClientsInv, FreedIsQuiet
<1> QED BY <1>1, <1>2 DEF QuietInv

LEMMA QuietStep == TypeOK /\ QuietInv /\ [Next]_vars => QuietInv'
<1> SUFFICES ASSUME TypeOK, QuietInv, [Next]_vars PROVE QuietInv'
  OBVIOUS
<1> USE DEF QuietInv
<1>1. ASSUME NEW w \in Workers, Exists, Pop(w) PROVE QuietInv'
  <2>1. /\ cpc' = cpc /\ threadQueue' = threadQueue /\ unjoined' = unjoined
        /\ cpc[Owner] # "freed"
    BY <1>1 DEF Exists, Pop, clientVars
  <2>2. PoolLockInv'
    BY <1>1 DEF Pop, GotoW, PoolLockInv, TypeOK
  <2>3. JoinInv'
    BY <1>1, <2>1 DEF Pop, GotoW, JoinInv, TypeOK
  <2> QED BY <2>1, <2>2, <2>3 DEF DrainInv, ClientsInv, FreedIsQuiet
<1>2. ASSUME NEW w \in Workers, Exists, TermLock(w) PROVE QuietInv'
  <2>1. /\ cpc' = cpc /\ threadQueue' = threadQueue /\ unjoined' = unjoined
        /\ cpc[Owner] # "freed"
    BY <1>2 DEF Exists, TermLock, clientVars
  <2>2. PoolLockInv'
    BY <1>2, NamesAssumption DEF TermLock, GotoW, PoolLockInv, TypeOK
  <2>3. JoinInv'
    BY <1>2, <2>1 DEF TermLock, GotoW, JoinInv, TypeOK
  <2> QED BY <2>1, <2>2, <2>3 DEF DrainInv, ClientsInv, FreedIsQuiet
<1>3. ASSUME NEW w \in Workers, Exists, Relay(w) PROVE QuietInv'
  <2>1. /\ cpc' = cpc /\ threadQueue' = threadQueue /\ unjoined' = unjoined
        /\ cpc[Owner] # "freed"
    BY <1>3 DEF Exists, Relay, clientVars
  <2>2. PoolLockInv'
    BY <1>3 DEF Relay, GotoW, PoolLockInv, TypeOK
  <2>3. JoinInv'
    BY <1>3, <2>1 DEF Relay, GotoW, JoinInv, TypeOK
  <2> QED BY <2>1, <2>2, <2>3 DEF DrainInv, ClientsInv, FreedIsQuiet
<1>4. ASSUME NEW w \in Workers, Exists, Leave(w) PROVE QuietInv'
  <2>1. /\ cpc' = cpc /\ threadQueue' = threadQueue /\ unjoined' = unjoined
        /\ cpc[Owner] # "freed"
    BY <1>4 DEF Exists, Leave, clientVars
  <2>2. PoolLockInv'
    BY <1>4, NamesAssumption DEF Leave, GotoW, PoolLockInv, TypeOK
  <2>3. JoinInv'
    BY <1>4, <2>1 DEF Leave, GotoW, JoinInv, TypeOK
  <2> QED BY <2>1, <2>2, <2>3 DEF DrainInv, ClientsInv, FreedIsQuiet
<1>5. ASSUME NEW w \in Workers, Exists, JobReturn(w) PROVE QuietInv'
  <2>1. /\ cpc' = cpc /\ threadQueue' = threadQueue /\ unjoined' = unjoined
        /\ cpc[Owner] # "freed"
    BY <1>5 DEF Exists, JobReturn, Finish, clientVars
  <2>2. PoolLockInv'
    BY <1>5 DEF JobReturn, Finish, GotoW, PoolLockInv, TypeOK
  <2>3. JoinInv'
    BY <1>5, <2>1 DEF JobReturn, Finish, GotoW, JoinInv, TypeOK
  <2> QED BY <2>1, <2>2, <2>3 DEF DrainInv, ClientsInv, FreedIsQuiet
<1>6. ASSUME NEW w \in Workers,
             (\E j \in Jobs : JobPush(w, j)) \/ JobTerminate(w)
      PROVE  QuietInv'
  <2>1. /\ cpc' = cpc /\ threadQueue' = threadQueue /\ unjoined' = unjoined
        /\ cpc[Owner] # "freed"
    BY <1>6 DEF Exists, JobPush, JobTerminate, clientVars
  <2>2. wpc' = wpc /\ poolLock' = poolLock
    BY <1>6 DEF JobPush, JobTerminate, workerVars
  <2> QED BY <2>1, <2>2 DEF PoolLockInv, JoinInv, DrainInv, ClientsInv, FreedIsQuiet
<1>7. ASSUME NEW w \in Workers, Create(w) PROVE QuietInv'
  <2>1. cpc' = cpc /\ cpc[Owner] = "new"
    BY <1>7 DEF Create
  <2>2. PoolLockInv'
    BY <1>7 DEF Create, GotoW, PoolLockInv, TypeOK
  <2>3. JoinInv'
    <3>1. CASE threadQueue' = Append(threadQueue, w) /\ unjoined' = unjoined
      <4>1. /\ \A i \in DOMAIN threadQueue :
                 i \in DOMAIN threadQueue' /\ threadQueue'[i] = threadQueue[i]
            /\ Len(threadQueue) + 1 \in DOMAIN threadQueue'
            /\ threadQueue'[Len(threadQueue) + 1] = w
        BY <3>1 DEF TypeOK
      <4> QED BY <1>7, <2>1, <3>1, <4>1 DEF Create, GotoW, JoinInv, TypeOK
    <3>2. CASE threadQueue' = threadQueue /\ unjoined' = unjoined \cup {w}
      BY <1>7, <2>1, <3>2 DEF Create, GotoW, JoinInv, TypeOK
    <3> QED BY <1>7, <3>1, <3>2 DEF Create
  <2> QED BY <2>1, <2>2, <2>3 DEF DrainInv, ClientsInv, FreedIsQuiet
<1>8. CASE NewReturns
  <2>1. cpc' = [c \in Clients |-> "use"] /\ \A w \in Workers : wpc[w] # "unborn"
    BY <1>8 DEF NewReturns
  <2>2. /\ wpc' = wpc /\ poolLock' = poolLock
        /\ threadQueue' = threadQueue /\ unjoined' = unjoined
    BY <1>8 DEF NewReturns, workerVars
  <2> QED
    BY <2>1, <2>2, OwnerAssumption
    DEF PoolLockInv, JoinInv, DrainInv, ClientsInv, FreedIsQuiet
<1>9. CASE Join
  <2>1. /\ cpc' = cpc /\ cpc[Owner] = "free" /\ wpc' = wpc
        /\ poolLock' = poolLock /\ unjoined' = unjoined
    BY <1>9 DEF Join, workerVars
  <2>2. wpc[threadQueue[1]] = "exited"
    BY <1>9 DEF Join, TypeOK
  <2>3. \A i \in DOMAIN threadQueue : i # 1 =>
          i - 1 \in DOMAIN threadQueue' /\ threadQueue'[i - 1] = threadQueue[i]
    BY <1>9 DEF Join, TypeOK
  <2>4. JoinInv'
    BY <2>1, <2>2, <2>3 DEF JoinInv
  <2> QED BY <2>1, <2>4 DEF PoolLockInv, DrainInv, ClientsInv, FreedIsQuiet
<1>10. CASE FreeAssert
  <2>1. /\ cpc[Owner] = "free" /\ threadQueue = <<>>
        /\ cpc'[Owner] \in {"drain", "aborted"}
        /\ \A c \in Clients \ {Owner} : cpc'[c] = cpc[c]
    BY <1>10, OwnerAssumption DEF FreeAssert, GotoC, TypeOK
  <2>2. /\ wpc' = wpc /\ poolLock' = poolLock
        /\ threadQueue' = threadQueue /\ unjoined' = unjoined
    BY <1>10 DEF FreeAssert, workerVars
  <2> QED
    BY <2>1, <2>2 DEF PoolLockInv, JoinInv, DrainInv, ClientsInv, FreedIsQuiet
<1>15. CASE FreeReturns
  <2>1. /\ cpc[Owner] = "drain" /\ work = <<>> /\ cpc'[Owner] = "freed"
        /\ \A c \in Clients \ {Owner} : cpc'[c] = cpc[c]
    BY <1>15, OwnerAssumption DEF FreeReturns, GotoC, TypeOK
  <2>2. /\ wpc' = wpc /\ poolLock' = poolLock /\ work' = work
        /\ threadQueue' = threadQueue /\ unjoined' = unjoined
    BY <1>15 DEF FreeReturns, workerVars
  <2>3. \A w \in Workers : wpc[w] = "exited" \/ w \in unjoined
    BY <2>1 DEF JoinInv, DrainInv
  <2>4. poolLock \in unjoined \cup {Null}
    BY <2>3 DEF PoolLockInv
  <2>5. FreedIsQuiet'
    BY <2>1, <2>2, <2>3, <2>4 DEF FreedIsQuiet
  <2>6. DrainInv' /\ ClientsInv'
    BY <2>1 DEF DrainInv, ClientsInv
  <2>7. PoolLockInv' /\ JoinInv'
    BY <2>1, <2>2, <2>3 DEF PoolLockInv, JoinInv
  <2> QED BY <2>5, <2>6, <2>7
<1>11. CASE FreeCalled
  <2>1. /\ cpc[Owner] = "use" /\ cpc'[Owner] = "free"
        /\ \A c \in Clients \ {Owner} : cpc[c] = "done" /\ cpc'[c] = cpc[c]
    BY <1>11, OwnerAssumption DEF FreeCalled, GotoC, TypeOK
  <2>2. /\ wpc' = wpc /\ poolLock' = poolLock
        /\ threadQueue' = threadQueue /\ unjoined' = unjoined
    BY <1>11 DEF FreeCalled, workerVars
  <2> QED BY <2>1, <2>2 DEF PoolLockInv, JoinInv, DrainInv, ClientsInv, FreedIsQuiet
<1>12. ASSUME NEW c \in Clients,
              (\E j \in Jobs : ClientPush(c, j)) \/ ClientTerminate(c)
       PROVE  QuietInv'
  <2>1. /\ cpc' = cpc /\ threadQueue' = threadQueue /\ unjoined' = unjoined
        /\ cpc[c] = "use"
    BY <1>12 DEF ClientPush, ClientTerminate, clientVars
  <2>2. wpc' = wpc /\ poolLock' = poolLock
    BY <1>12 DEF ClientPush, ClientTerminate, workerVars
  <2>3. cpc[Owner] # "freed"
    BY <2>1 DEF ClientsInv
  <2> QED BY <2>1, <2>2, <2>3 DEF PoolLockInv, JoinInv, DrainInv, ClientsInv, FreedIsQuiet
<1>13. ASSUME NEW c \in Clients, ClientDone(c) PROVE QuietInv'
  <2>1. /\ cpc'[Owner] = cpc[Owner]
        /\ \A d \in Clients : cpc'[d] = IF d = c THEN "done" ELSE cpc[d]
    BY <1>13, OwnerAssumption DEF ClientDone, GotoC, TypeOK
  <2>2. /\ wpc' = wpc /\ poolLock' = poolLock
        /\ threadQueue' = threadQueue /\ work' = work /\ unjoined' = unjoined
    BY <1>13 DEF ClientDone, workerVars
  <2> QED
    BY <2>1, <2>2
    DEF PoolLockInv, JoinInv, DrainInv, ClientsInv, FreedIsQuiet
<1>14. CASE UNCHANGED vars
  BY <1>14 DEF vars, PoolLockInv, JoinInv, DrainInv, ClientsInv, FreedIsQuiet
<1> QED
  BY <1>1, <1>2, <1>3, <1>4, <1>5, <1>6, <1>7, <1>8, <1>9, <1>10, <1>11,
     <1>12, <1>13, <1>14, <1>15
  DEF Next, WorkerStep, OwnerStep

\* thread_pool_free returns only when no unit is left, every thread that could be
\* entered among those to be joined has exited, and none of these owns the mutex
\* it destroys (thread_pool.h:44, thread_pool.c:96).
THEOREM FreedIsQuietCorrect == Spec => []FreedIsQuiet
<1>1. QuietInv => FreedIsQuiet
  BY DEF QuietInv
<1> QED BY <1>1, QuietInit, QuietStep, TypeCorrect, PTL DEF Spec

-----------------------------------------------------------------------------
(***************************************************************************)
(* One sentinel.  The worker that passes it on must not be the last that   *)
(* can take it, and the worker that keeps it must be: num_threads is read  *)
(* under pool->lock, and no worker is between its relay and its leaving    *)
(* while another holds the lock.                                           *)
(***************************************************************************)
TermUnits == {u \in Units : u.job = Term}
Holders == {w \in Workers : wpc[w] \in {"term", "relay"}}
QueuedTerms == Count(work, TermUnits)
Due == IF Serving = {} THEN 0 ELSE 1

SentinelInv ==
  /\ terms = 0 => QueuedTerms + Cardinality(Holders) = 0
  /\ terms = 1 => QueuedTerms + Cardinality(Holders) <= Due
  /\ terms > 0 /\ Term \notin lost => QueuedTerms + Cardinality(Holders) >= Due

LEMMA SentinelTypes ==
  ASSUME TypeOK
  PROVE  /\ QueuedTerms \in Nat /\ Cardinality(Holders) \in Nat
         /\ Sentinels = QueuedTerms + Cardinality(Holders)
         /\ Due \in {0, 1} /\ terms \in 0..2
<1>1. work \in Seq(Units)
  BY DEF TypeOK
<1>2. QueuedTerms \in Nat
  BY <1>1, CountType DEF QueuedTerms
<1>3. Cardinality(Holders) \in Nat
  BY WorkersAssumption, FS_Subset, FS_CardinalityType DEF Holders
<1>4. {i \in DOMAIN work : work[i].job = Term} = Places(work, TermUnits)
  BY <1>1 DEF Places, TermUnits
<1>5. Sentinels = QueuedTerms + Cardinality(Holders)
  BY <1>4 DEF Sentinels, Holders, QueuedTerms, Count
<1> QED BY <1>2, <1>3, <1>5 DEF Due, TypeOK

\* A unit enqueued, or refused for lack of memory.
LEMMA TermEnqueued ==
  ASSUME TypeOK, NEW j \in Jobs \cup {Term}, Push(j)
  PROVE  \/ lost' = lost \cup {j} /\ QueuedTerms' = QueuedTerms
         \/ lost' = lost /\ QueuedTerms' = QueuedTerms + One(j = Term)
<1>1. CASE Refuse(j)
  BY <1>1 DEF Refuse, QueuedTerms
<1>2. CASE work' = Append(work, Unit(j)) /\ lost' = lost
  <2>1. work \in Seq(Units) /\ Unit(j) \in Units
    BY UnitType DEF TypeOK
  <2>2. QueuedTerms' = QueuedTerms + One(Unit(j) \in TermUnits)
    BY <1>2, <2>1, CountAppend DEF QueuedTerms
  <2> QED BY <1>2, <2>1, <2>2 DEF TermUnits, Unit, One
<1> QED BY <1>1, <1>2 DEF Push

\* A step that moves no sentinel and lets no worker leave.
LEMMA KeepSentinel ==
  ASSUME SentinelInv, work' = work, terms' = terms, lost' = lost,
         Holders' = Holders, Serving' = Serving
  PROVE  SentinelInv'
BY DEF SentinelInv, QueuedTerms, Due

\* A push of work, by a unit or by a client.
LEMMA PushSentinel ==
  ASSUME TypeOK, SentinelInv, NEW j \in Jobs, Push(j), terms' = terms, wpc' = wpc
  PROVE  SentinelInv'
<1>1. Holders' = Holders /\ Serving' = Serving
  BY DEF Holders, Serving
<1>2. QueuedTerms' = QueuedTerms /\ lost \subseteq lost'
  BY TermEnqueued, NamesAssumption, SentinelTypes DEF One
<1> QED BY <1>1, <1>2 DEF SentinelInv, Due

\* thread_pool_terminate finds every worker serving, or has been called before.
LEMMA TerminateSentinel ==
  ASSUME TypeOK, EarlyInv, SentinelInv, Terminate, wpc' = wpc
  PROVE  SentinelInv'
<1>1. Holders' = Holders /\ Serving' = Serving
  BY DEF Holders, Serving
<1>2. CASE Refuse(Term) /\ terms' = terms
  BY <1>1, <1>2 DEF SentinelInv, Due, QueuedTerms, Refuse
<1>3. CASE work' = Append(work, Unit(Term)) /\ lost' = lost
           /\ terms' = IF terms = 2 THEN 2 ELSE terms + 1
  <2>1. Push(Term)
    BY <1>3 DEF Push
  <2>2. Term \in lost' \/ QueuedTerms' = QueuedTerms + 1
    BY <2>1, TermEnqueued, SentinelTypes DEF One
  <2>3. CASE terms = 0
    <3>1. Met = {}
      BY <2>3 DEF EarlyInv, SentinelSent
    <3>2. Serving = Workers
      BY <3>1 DEF Met, Serving
    <3>3. Due' = 1
      BY <1>1, <3>2, WorkersAssumption DEF Due
    <3>4. QueuedTerms' = QueuedTerms + 1 \/ QueuedTerms' = QueuedTerms
      BY <2>1, TermEnqueued, SentinelTypes DEF One
    <3> QED BY <1>1, <1>3, <2>2, <2>3, <3>3, <3>4, SentinelTypes DEF SentinelInv
  <2>4. CASE terms # 0
    <3>1. terms' = 2 /\ terms > 0
      BY <1>3, <2>4, SentinelTypes
    <3>2. Due' \in {0, 1}
      BY DEF Due
    <3> QED BY <1>1, <2>2, <3>1, <3>2, SentinelTypes DEF SentinelInv
  <2> QED BY <2>3, <2>4
<1> QED BY <1>2, <1>3 DEF Terminate

\* The worker that passes the sentinel on leaves another to take it; the one
\* that keeps it is the last.
LEMMA RelaySentinel ==
  ASSUME TypeOK, NumThreadsAccurate, PoolLockInv, SentinelInv,
         NEW w \in Workers, Relay(w)
  PROVE  SentinelInv'
<1>1. /\ wpc[w] = "relay" /\ wpc'[w] = "leave" /\ terms' = terms
      /\ \A v \in Workers \ {w} : wpc'[v] = wpc[v]
  BY DEF Relay, GotoW, TypeOK
<1>2. Serving' = Serving \ {w} /\ w \in Serving
  BY <1>1 DEF Serving
<1>3. /\ Cardinality(Holders)' \in Nat
      /\ Cardinality(Holders)' = Cardinality(Holders) - 1
  <2>1. /\ Holders \in SUBSET Workers /\ Holders' \in SUBSET Workers
        /\ w \in Holders /\ w \notin Holders'
        /\ \A v \in Workers \ {w} : v \in Holders <=> v \in Holders'
    BY <1>1 DEF Holders
  <2> QED BY <2>1, WorkersAssumption, OneMoves, SentinelTypes DEF One
<1>4. Due = 1
  BY <1>2 DEF Due
<1>5. \A v \in Workers \ {w} : wpc[v] # "leave"
  BY <1>1 DEF PoolLockInv
<1>6. IsFiniteSet(NotExited) /\ w \in NotExited /\ numThreads = Cardinality(NotExited)
  BY <1>1, WorkersAssumption, FS_Subset DEF NotExited, NumThreadsAccurate
<1>7. CASE 1 < numThreads
  <2>1. NotExited # {w}
    BY <1>6, <1>7, FS_Singleton
  <2>2. PICK v \in NotExited : v # w
    BY <1>6, <2>1
  <2>3. v \in Serving'
    BY <1>2, <1>5, <2>2 DEF NotExited, Serving
  <2>4. Due' = 1
    BY <2>3 DEF Due
  <2>5. \/ Term \in lost' /\ QueuedTerms' = QueuedTerms
        \/ lost' = lost /\ QueuedTerms' = QueuedTerms + 1
    BY <1>7, TermEnqueued DEF Relay, One
  <2> QED BY <1>1, <1>3, <1>4, <2>4, <2>5, SentinelTypes DEF SentinelInv
<1>8. CASE ~(1 < numThreads)
  <2>1. Cardinality(NotExited) \in Nat /\ Cardinality(NotExited) # 0
    BY <1>6, FS_CardinalityType, FS_EmptySet
  <2>2. Cardinality(NotExited) = 1
    BY <1>6, <1>8, <2>1
  <2>3. NotExited = {w}
    BY <1>6, <2>2, FS_Singleton
  <2>4. Serving' = {}
    BY <1>2, <2>3 DEF NotExited, Serving
  <2>5. Due' = 0
    BY <2>4 DEF Due
  <2>6. QueuedTerms' = QueuedTerms /\ lost' = lost
    BY <1>8 DEF Relay, QueuedTerms
  <2> QED BY <1>1, <1>3, <1>4, <2>5, <2>6, SentinelTypes DEF SentinelInv
<1> QED BY <1>7, <1>8

LEMMA PopSentinel ==
  ASSUME TypeOK, SentinelInv, NEW w \in Workers, Pop(w)
  PROVE  SentinelInv'
<1>1. /\ work \in Seq(Units) /\ work # <<>> /\ work' = Tail(work)
      /\ Head(work) \in Units /\ Tail(work) \in Seq(Units)
      /\ wpc[w] = "pop" /\ terms' = terms /\ lost' = lost
      /\ wpc'[w] = (IF Head(work).job = Term THEN "term" ELSE "run")
      /\ \A v \in Workers \ {w} : wpc'[v] = wpc[v]
  BY DEF Pop, GotoW, TypeOK
<1>2. Serving' = Serving
  BY <1>1 DEF Serving
<1>3. /\ Cardinality(Holders)' \in Nat
      /\ Cardinality(Holders)' = Cardinality(Holders) + One(Head(work).job = Term)
  <2>1. /\ Holders \in SUBSET Workers /\ Holders' \in SUBSET Workers
        /\ w \notin Holders /\ (w \in Holders' <=> Head(work).job = Term)
        /\ \A v \in Workers \ {w} : v \in Holders <=> v \in Holders'
    BY <1>1 DEF Holders
  <2> QED BY <2>1, WorkersAssumption, OneMoves, SentinelTypes DEF One
<1>4. QueuedTerms = QueuedTerms' + One(Head(work) \in TermUnits)
  BY <1>1, CountTail DEF QueuedTerms
<1>5. QueuedTerms' \in Nat
  BY <1>1, CountType DEF QueuedTerms
<1>6. QueuedTerms' + Cardinality(Holders)' = QueuedTerms + Cardinality(Holders)
  BY <1>1, <1>3, <1>4, <1>5, SentinelTypes DEF TermUnits, One
<1> QED BY <1>1, <1>2, <1>6 DEF SentinelInv, Due

LEMMA SentinelInit == Init => SentinelInv
<1> SUFFICES ASSUME Init PROVE SentinelInv
  OBVIOUS
<1>1. QueuedTerms = 0
  BY CountEmpty DEF Init, QueuedTerms
<1>2. Holders = {}
  BY DEF Init, Holders
<1> QED BY <1>1, <1>2, FS_EmptySet DEF Init, SentinelInv

LEMMA SentinelStep ==
  CountInv /\ EarlyInv /\ QuietInv /\ SentinelInv /\ [Next]_vars => SentinelInv'
<1> SUFFICES ASSUME TypeOK, NumThreadsAccurate, EarlyInv, PoolLockInv, SentinelInv,
                    [Next]_vars
             PROVE  SentinelInv'
  BY DEF CountInv, QuietInv
<1>1. ASSUME NEW w \in Workers, Pop(w) PROVE SentinelInv'
  BY <1>1, PopSentinel
<1>2. ASSUME NEW w \in Workers, Relay(w) PROVE SentinelInv'
  BY <1>2, RelaySentinel
<1>3. ASSUME NEW w \in Workers, TermLock(w) \/ Leave(w) \/ JobReturn(w) \/ Create(w)
      PROVE  SentinelInv'
  <2>1. work' = work /\ terms' = terms /\ lost' = lost
    BY <1>3 DEF TermLock, Leave, JobReturn, Create
  <2>2. Holders' = Holders /\ Serving' = Serving
    BY <1>3 DEF TermLock, Leave, JobReturn, Finish, Create, GotoW, Holders,
                Serving, TypeOK
  <2> QED BY <2>1, <2>2, KeepSentinel
<1>4. ASSUME NEW w \in Workers, NEW j \in Jobs, JobPush(w, j) PROVE SentinelInv'
  BY <1>4, PushSentinel DEF JobPush, workerVars
<1>5. ASSUME NEW w \in Workers, JobTerminate(w) PROVE SentinelInv'
  BY <1>5, TerminateSentinel DEF JobTerminate, workerVars
<1>6. ASSUME NEW c \in Clients, NEW j \in Jobs, ClientPush(c, j) PROVE SentinelInv'
  BY <1>6, PushSentinel DEF ClientPush, workerVars
<1>7. ASSUME NEW c \in Clients, ClientTerminate(c) PROVE SentinelInv'
  BY <1>7, TerminateSentinel DEF ClientTerminate, workerVars
<1>8. ASSUME NEW c \in Clients, ClientDone(c) PROVE SentinelInv'
  BY <1>8, KeepSentinel DEF ClientDone, workerVars, Holders, Serving
<1>9. CASE \/ NewReturns \/ Join \/ FreeAssert \/ FreeReturns \/ FreeCalled
          \/ UNCHANGED vars
  BY <1>9, KeepSentinel
  DEF NewReturns, Join, FreeAssert, FreeReturns, FreeCalled, vars, workerVars,
      Holders, Serving
<1> QED
  BY <1>1, <1>2, <1>3, <1>4, <1>5, <1>6, <1>7, <1>8, <1>9
  DEF Next, WorkerStep, OwnerStep

LEMMA SentinelAlways == Spec => [](CountInv /\ EarlyInv /\ QuietInv /\ SentinelInv)
<1>1. CountInv => TypeOK
  BY DEF CountInv
<1> QED
  BY <1>1, CountInit, CountStep, EarlyInit, EarlyStep, QuietInit, QuietStep,
     SentinelInit, SentinelStep, PTL
  DEF Spec

\* One terminate puts one sentinel on its way, which reaches every worker and
\* stays with the last (thread_pool.c:64-70).
THEOREM OneSentinelCorrect == Spec => []OneSentinelOnItsWay
<1>1. CountInv /\ SentinelInv => OneSentinelOnItsWay
  BY SentinelTypes DEF CountInv, SentinelInv, Due, OneSentinelOnItsWay
<1> QED BY <1>1, SentinelAlways, PTL

-----------------------------------------------------------------------------
(***************************************************************************)
(* The safety half of TerminateStops: a terminated pool does not come to a *)
(* halt with a thread left in it.  It holds for any number of terminates   *)
(* and whatever is pushed after them.                                      *)
(***************************************************************************)
\* Until thread_pool_new returns nobody can call into the pool, and it returns
\* when every thread has been created.
NewInv ==
  /\ cpc[Owner] = "new" =>
       /\ \A c \in Clients : cpc[c] = "new"
       /\ work = <<>> /\ terms = 0
       /\ \A w \in Workers : wpc[w] \in {"unborn", "pop"}
  /\ cpc[Owner] # "new" => \A w \in Workers : wpc[w] # "unborn"

LEMMA NewInit == Init => NewInv
BY OwnerAssumption DEF Init, NewInv

LEMMA NewStep == TypeOK /\ NewInv /\ [Next]_vars => NewInv'
<1> SUFFICES ASSUME TypeOK, NewInv, [Next]_vars PROVE NewInv'
  OBVIOUS
<1>1. ASSUME NEW w \in Workers, WorkerStep(w) \/ JobTerminate(w)
               \/ (\E j \in Jobs : JobPush(w, j))
      PROVE  NewInv'
  <2>1. /\ wpc[w] \notin {"unborn", "exited"} /\ (wpc[w] = "pop" => work # <<>>)
        /\ cpc' = cpc
        /\ \A v \in Workers : wpc'[v] = "unborn" => wpc[v] = "unborn"
    BY <1>1 DEF WorkerStep, Pop, TermLock, Relay, Leave, JobReturn, Finish, GotoW,
                JobTerminate, JobPush, workerVars, clientVars, TypeOK
  <2>2. cpc[Owner] # "new"
    BY <2>1 DEF NewInv
  <2> QED BY <2>1, <2>2 DEF NewInv
<1>2. ASSUME NEW w \in Workers, Create(w) PROVE NewInv'
  BY <1>2 DEF Create, GotoW, NewInv, TypeOK
<1>3. CASE NewReturns
  BY <1>3, OwnerAssumption DEF NewReturns, workerVars, NewInv
<1>4. ASSUME NEW c \in Clients,
             \/ \E j \in Jobs : ClientPush(c, j)
             \/ ClientTerminate(c) \/ ClientDone(c)
      PROVE  NewInv'
  <2>1. cpc[Owner] # "new"
    BY <1>4 DEF ClientPush, ClientTerminate, ClientDone, NewInv
  <2>2. cpc'[Owner] = cpc[Owner] /\ wpc' = wpc
    BY <1>4, OwnerAssumption
    DEF ClientPush, ClientTerminate, ClientDone, GotoC, workerVars, clientVars, TypeOK
  <2> QED BY <2>1, <2>2 DEF NewInv
<1>5. CASE Join \/ FreeAssert \/ FreeReturns \/ FreeCalled
  <2>1. cpc[Owner] # "new" /\ cpc'[Owner] # "new" /\ wpc' = wpc
    BY <1>5, OwnerAssumption
    DEF Join, FreeAssert, FreeReturns, FreeCalled, GotoC, workerVars, TypeOK
  <2> QED BY <2>1 DEF NewInv
<1>6. CASE UNCHANGED vars
  BY <1>6 DEF vars, NewInv
<1> QED BY <1>1, <1>2, <1>3, <1>4, <1>5, <1>6 DEF Next, OwnerStep

LEMMA NewAlways == Spec => []NewInv
BY NewInit, NewStep, TypeCorrect, PTL DEF Spec

\* The step of thread_loop that w has come to is one it can make.
CanGoOn(w) ==
  /\ Exists
  /\ \/ wpc[w] = "pop" /\ work # <<>>
     \/ wpc[w] = "term" /\ poolLock = Null
     \/ wpc[w] \in {"run", "relay", "leave"}

NeverStuck ==
  terms > 0 /\ Term \notin lost /\ ~AllExited /\ Exists =>
    \E w \in Workers : CanGoOn(w)

\* NeverStuck: as long as a thread of a terminated pool has not exited and the pool
\* is there, one of them has something to do: no thread waits for a sentinel that
\* does not come, or for a lock that nobody gives back (thread_pool.c:57-79), unless
\* the memory to pass the sentinel on was refused.
THEOREM NeverStuckCorrect == Spec => []NeverStuck
<1>1. CountInv /\ QuietInv /\ SentinelInv /\ NewInv => NeverStuck
  <2> SUFFICES ASSUME TypeOK, PoolLockInv, SentinelInv, NewInv,
                      terms > 0, Term \notin lost, ~AllExited, Exists,
                      \A w \in Workers : ~CanGoOn(w)
               PROVE  FALSE
    BY DEF CountInv, QuietInv, NeverStuck
  <2>1. \A w \in Workers :
          \/ wpc[w] = "pop" /\ work = <<>>
          \/ wpc[w] = "term" /\ poolLock # Null
          \/ wpc[w] = "exited"
    <3>1. cpc[Owner] # "new"
      BY DEF NewInv
    <3>2. \A w \in Workers : wpc[w] # "unborn"
      BY <3>1 DEF NewInv
    <3> QED BY <3>2 DEF TypeOK, CanGoOn
  <2>2. poolLock = Null
    BY <2>1 DEF PoolLockInv
  <2>3. Holders = {}
    BY <2>1, <2>2 DEF Holders
  <2>4. PICK v \in Workers : wpc[v] # "exited"
    BY DEF AllExited
  <2>5. v \in Serving /\ work = <<>>
    BY <2>1, <2>2, <2>4 DEF Serving
  <2>6. QueuedTerms = 0
    BY <2>5, CountEmpty DEF QueuedTerms
  <2>7. Due = 1
    BY <2>5 DEF Due
  <2> QED BY <2>3, <2>6, <2>7, FS_EmptySet DEF SentinelInv
<1> QED BY <1>1, SentinelAlways, NewAlways, PTL

-----------------------------------------------------------------------------
\* The assertion is evaluated when everyone who could be joined has exited.
LEMMA AbortStep ==
  CountInv /\ QuietInv /\ SentinelInv /\ AbortOnlyByLateUse /\ [Next]_vars
    => AbortOnlyByLateUse'
<1> SUFFICES ASSUME CountInv, QuietInv, SentinelInv, AbortOnlyByLateUse, [Next]_vars
             PROVE  AbortOnlyByLateUse'
  OBVIOUS
<1> USE DEF AbortOnlyByLateUse
<1>1. ASSUME NEW w \in Workers, WorkerStep(w) \/ JobTerminate(w)
               \/ (\E j \in Jobs : JobPush(w, j)) \/ Create(w)
      PROVE  AbortOnlyByLateUse'
  <2>1. cpc[Owner] # "aborted" /\ cpc' = cpc
    BY <1>1 DEF Exists, WorkerStep, Pop, TermLock, Relay, Leave, JobReturn, Finish,
                JobTerminate, JobPush, Create, clientVars
  <2> QED BY <2>1
<1>2. ASSUME NEW c \in Clients,
             (\E j \in Jobs : ClientPush(c, j)) \/ ClientTerminate(c) \/ ClientDone(c)
      PROVE  AbortOnlyByLateUse'
  <2>1. cpc[c] = "use" /\ cpc'[Owner] = cpc[Owner]
    BY <1>2, OwnerAssumption
    DEF ClientPush, ClientTerminate, ClientDone, clientVars, GotoC, CountInv, TypeOK
  <2>2. cpc[Owner] # "aborted"
    BY <2>1 DEF QuietInv, ClientsInv
  <2> QED BY <2>1, <2>2
<1>3. CASE NewReturns \/ Join \/ FreeCalled \/ FreeReturns
  <2>1. cpc'[Owner] # "aborted"
    BY <1>3, OwnerAssumption
    DEF NewReturns, Join, FreeCalled, FreeReturns, GotoC, CountInv, TypeOK
  <2> QED BY <2>1
<1>4. CASE FreeAssert
  <2>1. /\ threadQueue = <<>> /\ cpc[Owner] = "free" /\ work' = work
        /\ wpc' = wpc /\ terms' = terms /\ unjoined' = unjoined
    BY <1>4 DEF FreeAssert, workerVars
  <2>2. CASE work = <<>>
    <3>1. cpc'[Owner] = "drain"
      BY <1>4, <2>2, OwnerAssumption DEF FreeAssert, GotoC, CountInv, TypeOK
    <3> QED BY <3>1
  <2>3. CASE terms = 2 \/ \E w \in unjoined : wpc[w] # "exited"
    BY <2>1, <2>3
  <2>4. CASE work # <<>> /\ terms # 2 /\ \A w \in unjoined : wpc[w] = "exited"
    <3>1. AllExited
      BY <2>1, <2>4 DEF QuietInv, JoinInv, AllExited
    <3>2. Serving = {} /\ Due = 0
      BY <3>1 DEF AllExited, Serving, Due
    <3>3. QueuedTerms = 0
      BY <2>4, <3>2, SentinelTypes DEF CountInv, SentinelInv
    <3>4. Places(work, TermUnits) = {}
      BY <3>3, CountType, FS_EmptySet DEF CountInv, TypeOK, QueuedTerms, Count
    <3>5. 1 \in DOMAIN work /\ work[1] \in Units
      BY <2>4 DEF CountInv, TypeOK
    <3>6. work[1].job # Term
      BY <3>4, <3>5 DEF Places, TermUnits
    <3> QED BY <2>1, <3>5, <3>6
  <2> QED BY <2>2, <2>3, <2>4
<1>5. CASE UNCHANGED vars
  BY <1>5 DEF vars
<1> QED
  BY <1>1, <1>2, <1>3, <1>4, <1>5 DEF Next, OwnerStep

\* thread_pool_free fails its asserts only on a pool that was terminated twice or
\* given work after it was terminated, or beside a thread that it could not join
\* (thread_pool.c:112, :96).
THEOREM AbortOnlyByLateUseCorrect == Spec => []AbortOnlyByLateUse
<1>1. Init => AbortOnlyByLateUse
  BY OwnerAssumption DEF Init, AbortOnlyByLateUse
<1> QED BY <1>1, AbortStep, SentinelAlways, PTL DEF Spec
=============================================================================
