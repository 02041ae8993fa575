---------------------------- MODULE CacheProofs ----------------------------
(***************************************************************************)
(* Proofs about Cache, for every number of threads and objects, every size *)
(* of the ring and every width of size_t that exceeds it.                  *)
(***************************************************************************)
EXTENDS Cache, Integers, FiniteSetTheorems, TLAPS

(* The counters from h up to t, and how many they are. *)
Between(h, t) == IF h <= t THEN h..(t - 1) ELSE (h..(W - 1)) \cup (0..(t - 1))
Distance(h, t) == IF h <= t THEN t - h ELSE t + W - h

AtHead == {"look_head", "take", "unlock_miss", "unlock_hit"}
AtTail == {"look_tail", "put", "unlock_full", "unlock_put"}
WithObject == {"lock_tail", "look_tail", "put", "unlock_full", "release", "unlock_hit"}

\* Each lock belongs to the thread in its section, and what that thread has seen
\* in the slot still holds, whatever is done under the other lock.
OwnersInv ==
  \A t \in Threads :
    /\ headLock = t <=> pc[t] \in AtHead
    /\ tailLock = t <=> pc[t] \in AtTail
    /\ pc[t] = "take" => table[Slot(head)] # Null
    /\ pc[t] = "put" => table[Slot(tail)] = Null

HandsInv == \A t \in Threads : ptr[t] # Null <=> pc[t] \in WithObject

\* Whoever destroys the cache is alone.
AloneInv ==
  \A t \in Threads :
    pc[t] \in {"destroy", "destroyed"} =>
      /\ \A u \in Threads \ {t} : pc[u] = "idle"
      /\ pc[t] = "destroyed" => head = tail

\* What is left of RingIntact while the cache is being destroyed.
SlotsInv ==
  /\ \A c, d \in Counters : Slot(c) = Slot(d) => c = d
  /\ \A c \in Counters : table[Slot(c)] # Null
  /\ \A r, s \in DOMAIN table : table[r] = table[s] /\ table[r] # Null => r = s

RingInv == SlotsInv /\ RingIntact

Kept == {table[Slot(c)] : c \in Counters}
Passed == {ptr[t] : t \in Threads} \ {Null}
PassedOnce == \A t, u \in Threads : ptr[t] = ptr[u] /\ ptr[t] # Null => t = u

HolderInv ==
  /\ live = Kept \cup Passed \cup held
  /\ Kept \cap Passed = {} /\ Kept \cap held = {} /\ Passed \cap held = {}
  /\ PassedOnce
  /\ (\E t \in Threads : At(t, "destroyed")) => live = held

LEMMA HolderIsOneHolder == HolderInv <=> OneHolder
BY DEF HolderInv, OneHolder, Kept, Passed, PassedOnce

-----------------------------------------------------------------------------
(* Arithmetic of the counters and slots. *)

LEMMA Wrapped ==
  ASSUME NEW a \in 0..(2 * W - 1)
  PROVE  a % W = IF a < W THEN a ELSE a - W
<1>1. CASE a < W
  BY <1>1, RingAssumption
<1>2. CASE ~(a < W)
  <2>1. a - W \in 0..(W - 1) /\ a = W * 1 + (a - W)
    BY <1>2, RingAssumption
  <2> QED BY <2>1, <1>2, RingAssumption
<1> QED BY <1>1, <1>2

LEMMA CounterTypes == TypeOK => head \in 0..(W - 1) /\ tail \in 0..(W - 1)
BY DEF TypeOK

LEMMA SlotType == \A c \in Nat : Slot(c) \in 0..(N - 1)
BY RingAssumption DEF Slot

LEMMA WindowOf ==
  ASSUME NEW h \in 0..(W - 1), NEW t \in 0..(W - 1)
  PROVE  /\ (t + W - h) % W = Distance(h, t)
         /\ {(h + i) % W : i \in 0..(((t + W - h) % W) - 1)} = Between(h, t)
<1> DEFINE n == (t + W - h) % W
           window == {(h + i) % W : i \in 0..(n - 1)}
<1>1. t + W - h \in 0..(2 * W - 1)
  BY RingAssumption
<1>2. n = Distance(h, t) /\ n \in 0..(W - 1)
  BY <1>1, Wrapped, RingAssumption DEF Distance
<1> HIDE DEF n
<1>3. \A i \in 0..(n - 1) : (h + i) % W = IF h + i < W THEN h + i ELSE h + i - W
  <2> TAKE i \in 0..(n - 1)
  <2>1. h + i \in 0..(2 * W - 1)
    BY <1>2, RingAssumption
  <2> QED BY <2>1, Wrapped, RingAssumption
<1>4. ASSUME NEW c \in window PROVE c \in Between(h, t)
  <2>1. PICK i \in 0..(n - 1) : c = (h + i) % W
    BY <1>4
  <2>2. c = IF h + i < W THEN h + i ELSE h + i - W
    BY <2>1, <1>3
  <2> QED BY <2>1, <2>2, <1>2, RingAssumption DEF Distance, Between
<1>5. ASSUME NEW c \in Between(h, t) PROVE c \in window
  <2> DEFINE i == IF h <= c THEN c - h ELSE c + W - h
  <2>1. i \in 0..(n - 1) /\ c = IF h + i < W THEN h + i ELSE h + i - W
    BY <1>2, <1>5, RingAssumption DEF Distance, Between
  <2> HIDE DEF i
  <2> QED BY <2>1, <1>3
<1>6. window = Between(h, t)
  BY <1>4, <1>5
<1> QED BY <1>2, <1>6 DEF n

LEMMA Window ==
  ASSUME head \in 0..(W - 1), tail \in 0..(W - 1)
  PROVE  /\ Cached = Distance(head, tail)
         /\ Counters = Between(head, tail)
         /\ Cached \in 0..(W - 1)
         /\ Counters \subseteq 0..(W - 1)
<1>1. Cached = Distance(head, tail) /\ Counters = Between(head, tail)
  BY WindowOf DEF Cached, Counters
<1> QED BY <1>1, RingAssumption DEF Distance, Between

LEMMA WindowNext ==
  ASSUME head' \in 0..(W - 1), tail' \in 0..(W - 1)
  PROVE  Cached' = Distance(head', tail') /\ Counters' = Between(head', tail')
BY WindowOf DEF Cached, Counters

\* cache_free counts tail up.
LEMMA Grows ==
  ASSUME NEW h \in 0..(W - 1), NEW t \in 0..(W - 1), Distance(h, t) < W - 1
  PROVE  /\ (t + 1) % W \in 0..(W - 1)
         /\ Distance(h, (t + 1) % W) = Distance(h, t) + 1
         /\ Between(h, (t + 1) % W) = Between(h, t) \cup {t}
         /\ t \notin Between(h, t)
<1>1. (t + 1) % W = IF t + 1 < W THEN t + 1 ELSE 0
  BY Wrapped, RingAssumption
<1>2. CASE t + 1 < W
  BY <1>1, <1>2, RingAssumption DEF Distance, Between
<1>3. CASE ~(t + 1 < W)
  BY <1>1, <1>3, RingAssumption DEF Distance, Between
<1> QED BY <1>2, <1>3

\* cache_alloc and cache_destroy count head up.
LEMMA Shrinks ==
  ASSUME NEW h \in 0..(W - 1), NEW t \in 0..(W - 1), h # t
  PROVE  /\ (h + 1) % W \in 0..(W - 1)
         /\ Distance((h + 1) % W, t) = Distance(h, t) - 1
         /\ Between((h + 1) % W, t) = Between(h, t) \ {h}
         /\ h \in Between(h, t)
<1>1. (h + 1) % W = IF h + 1 < W THEN h + 1 ELSE 0
  BY Wrapped, RingAssumption
<1>2. CASE h + 1 < W
  BY <1>1, <1>2, RingAssumption DEF Distance, Between
<1>3. CASE ~(h + 1 < W)
  BY <1>1, <1>3, RingAssumption DEF Distance, Between
<1> QED BY <1>2, <1>3

\* As long as no two counters share a slot there are no more of them than slots.
LEMMA Pigeons ==
  ASSUME TypeOK, \A c, d \in Counters : Slot(c) = Slot(d) => c = d
  PROVE  /\ Cached <= N
         /\ (\A c \in Counters : Slot(c) # Slot(tail)) => Cached < N
<1> USE RingAssumption
<1>1. head \in 0..(W - 1) /\ tail \in 0..(W - 1)
  BY CounterTypes
<1>2. Cached = Distance(head, tail) /\ Cached \in 0..(W - 1)
      /\ Counters = Between(head, tail) /\ Counters \subseteq 0..(W - 1)
  BY <1>1, Window
<1>3. Counters \subseteq Nat
  BY <1>2
<1>4. IsFiniteSet(Counters) /\ Cardinality(Counters) = Cached
  <2>1. CASE head <= tail
    <3>1. Counters = head..(tail - 1) /\ Cached = tail - head
      BY <2>1, <1>2 DEF Distance, Between
    <3>2. /\ IsFiniteSet(head..(tail - 1))
          /\ Cardinality(head..(tail - 1)) =
               IF head > tail - 1 THEN 0 ELSE (tail - 1) - head + 1
      BY <1>1, FS_Interval
    <3> QED BY <3>1, <3>2, <2>1, <1>1
  <2>2. CASE ~(head <= tail)
    <3>1. /\ IsFiniteSet(head..(W - 1)) /\ IsFiniteSet(0..(tail - 1))
          /\ Cardinality(head..(W - 1)) = W - head
          /\ Cardinality(0..(tail - 1)) = tail
      BY <1>1, <2>2, FS_Interval
    <3>2. (head..(W - 1)) \cap (0..(tail - 1)) = {}
      BY <1>1, <2>2
    <3>3. Cardinality({}) = 0
      BY FS_EmptySet
    <3>4. Cached = tail + W - head
          /\ Counters = (head..(W - 1)) \cup (0..(tail - 1))
      BY <1>2, <2>2 DEF Distance, Between
    <3> DEFINE upper == head..(W - 1)
               lower == 0..(tail - 1)
    <3>5. IsFiniteSet(upper) /\ IsFiniteSet(lower) /\ upper \cap lower = {}
          /\ Cardinality(upper) = W - head /\ Cardinality(lower) = tail
          /\ Counters = upper \cup lower
      BY <3>1, <3>2, <3>4
    <3> HIDE DEF upper, lower
    <3>6. /\ IsFiniteSet(upper \cup lower)
          /\ Cardinality(upper \cup lower) =
               Cardinality(upper) + Cardinality(lower) - Cardinality(upper \cap lower)
      BY <3>5, FS_Union
    <3>7. Cardinality(Counters) = (W - head) + tail - 0
      BY <3>3, <3>5, <3>6
    <3> QED BY <3>4, <3>5, <3>6, <3>7, <1>1
  <2> QED BY <2>1, <2>2
<1>5. IsFiniteSet(0..(N - 1)) /\ Cardinality(0..(N - 1)) = N
  BY FS_Interval
<1>6. Cached <= N
  <2> SUFFICES ASSUME N < Cached PROVE FALSE
    BY <1>2
  <2> DEFINE f == [c \in Counters |-> Slot(c)]
  <2>1. f \in [Counters -> 0..(N - 1)]
    BY <1>3, SlotType
  <2> HIDE DEF f
  <2>2. \E c, d \in Counters : c # d /\ f[c] = f[d]
    BY <1>4, <1>5, <2>1, FS_PigeonHole
  <2> QED BY <2>2 DEF f
<1>7. ASSUME \A c \in Counters : Slot(c) # Slot(tail) PROVE Cached < N
  <2> SUFFICES ASSUME Cached = N PROVE FALSE
    BY <1>2, <1>6
  <2> DEFINE S == Counters \cup {tail}
             f == [c \in S |-> Slot(c)]
  <2>1. f \in [S -> 0..(N - 1)]
    BY <1>1, <1>3, SlotType
  <2>2. tail \notin Counters
    BY <1>7
  <2>3. IsFiniteSet(S) /\ Cardinality(S) = N + 1
    BY <1>4, <2>2, FS_AddElement
  <2> HIDE DEF f
  <2>4. \E c, d \in S : c # d /\ f[c] = f[d]
    <3> HIDE DEF S
    <3> QED BY <1>5, <2>1, <2>3, FS_PigeonHole
  <2> QED BY <2>4, <1>7 DEF f
<1> QED BY <1>6, <1>7

-----------------------------------------------------------------------------
(* Types, locks and the labels the pointers go with. *)

PlacesInv == TypeOK /\ OwnersInv /\ HandsInv /\ AloneInv

LEMMA PlacesInit == Init => PlacesInv
BY ThreadsAssumption, RingAssumption
DEF Init, Created, PlacesInv, TypeOK, OwnersInv, HandsInv, AloneInv, AtHead, AtTail,
    WithObject

LEMMA TypeStep == PlacesInv /\ [Next]_vars => TypeOK'
<1> SUFFICES ASSUME PlacesInv, [Next]_vars PROVE TypeOK'
  OBVIOUS
<1> USE DEF PlacesInv, At, Goto, ring, locks
<1>1. ASSUME NEW t \in Threads, CallAlloc(t) PROVE TypeOK'
  BY <1>1 DEF CallAlloc, TypeOK
<1>2. ASSUME NEW t \in Threads, CallFree(t) PROVE TypeOK'
  BY <1>2 DEF CallFree, TypeOK
<1>3. ASSUME NEW t \in Threads, CallDestroy(t) PROVE TypeOK'
  BY <1>3 DEF CallDestroy, Destroy, TypeOK
<1>4. ASSUME NEW t \in Threads, LockHead(t) PROVE TypeOK'
  BY <1>4 DEF LockHead, Acquire, TypeOK
<1>5. ASSUME NEW t \in Threads, LookHead(t) PROVE TypeOK'
  BY <1>5 DEF LookHead, TypeOK
<1>6. ASSUME NEW t \in Threads, Take(t) PROVE TypeOK'
  <2>1. Slot(head) \in 0..(N - 1) /\ head' \in 0..(W - 1)
    BY <1>6, SlotType, CounterTypes, Wrapped, RingAssumption DEF Take
  <2>2. table[Slot(head)] \in Objects
    BY <1>6, <2>1 DEF Take, TypeOK, OwnersInv
  <2> QED BY <1>6, <2>1, <2>2, ObjectsAssumption DEF Take, TypeOK
<1>7. ASSUME NEW t \in Threads, UnlockHead(t) PROVE TypeOK'
  BY <1>7 DEF UnlockHead, Release, ReturnObject, TypeOK
<1>8. ASSUME NEW t \in Threads, Alloc(t) PROVE TypeOK'
  BY <1>8 DEF Alloc, ReturnObject, TypeOK
<1>9. ASSUME NEW t \in Threads, LockTail(t) PROVE TypeOK'
  BY <1>9 DEF LockTail, Acquire, TypeOK, HandsInv, WithObject
<1>10. ASSUME NEW t \in Threads, LookTail(t) PROVE TypeOK'
  BY <1>10 DEF LookTail, TypeOK
<1>11. ASSUME NEW t \in Threads, Put(t) PROVE TypeOK'
  <2>1. Slot(tail) \in 0..(N - 1) /\ tail' \in 0..(W - 1)
    BY <1>11, SlotType, CounterTypes, Wrapped, RingAssumption DEF Put
  <2> QED BY <1>11, <2>1 DEF Put, TypeOK
<1>12. ASSUME NEW t \in Threads, UnlockTail(t) PROVE TypeOK'
  BY <1>12 DEF UnlockTail, Release, TypeOK, HandsInv, WithObject
<1>13. ASSUME NEW t \in Threads, FreeObject(t) PROVE TypeOK'
  BY <1>13 DEF FreeObject, TypeOK
<1>14. ASSUME NEW t \in Threads, DestroyObject(t) PROVE TypeOK'
  <2>1. (head + 1) % W \in 0..(W - 1)
    BY Wrapped, CounterTypes, RingAssumption
  <2> QED BY <1>14, <2>1 DEF DestroyObject, TypeOK
<1>15. CASE UNCHANGED vars
  BY <1>15 DEF vars, TypeOK
<1> QED
  BY <1>1, <1>2, <1>3, <1>4, <1>5, <1>6, <1>7, <1>8, <1>9, <1>10, <1>11, <1>12,
     <1>13, <1>14, <1>15
  DEF Next, Step

LEMMA HandsStep == PlacesInv /\ [Next]_vars => HandsInv'
<1> SUFFICES ASSUME PlacesInv, [Next]_vars PROVE HandsInv'
  OBVIOUS
<1> USE DEF PlacesInv, At, Goto, ring, locks, HandsInv, WithObject
<1>1. ASSUME NEW t \in Threads, CallFree(t) PROVE HandsInv'
  BY <1>1, ObjectsAssumption DEF CallFree, TypeOK
<1>2. ASSUME NEW t \in Threads, Take(t) PROVE HandsInv'
  BY <1>2 DEF Take, TypeOK, OwnersInv
<1>3. ASSUME NEW t \in Threads, UnlockHead(t) PROVE HandsInv'
  BY <1>3 DEF UnlockHead, ReturnObject, TypeOK
<1>4. ASSUME NEW t \in Threads, Alloc(t) PROVE HandsInv'
  BY <1>4 DEF Alloc, ReturnObject, TypeOK
<1>5. ASSUME NEW t \in Threads, Put(t) \/ FreeObject(t) PROVE HandsInv'
  BY <1>5 DEF Put, FreeObject, TypeOK
<1>6. ASSUME NEW t \in Threads,
             \/ CallAlloc(t) \/ CallDestroy(t) \/ LockHead(t) \/ LookHead(t)
             \/ LockTail(t) \/ LookTail(t) \/ UnlockTail(t) \/ DestroyObject(t)
      PROVE HandsInv'
  BY <1>6 DEF CallAlloc, CallDestroy, LockHead, LookHead, LockTail, LookTail,
              UnlockTail, DestroyObject, TypeOK
<1>7. CASE UNCHANGED vars
  BY <1>7 DEF vars
<1> QED BY <1>1, <1>2, <1>3, <1>4, <1>5, <1>6, <1>7 DEF Next, Step

LEMMA AloneStep == PlacesInv /\ [Next]_vars => AloneInv'
<1> SUFFICES ASSUME PlacesInv, [Next]_vars PROVE AloneInv'
  OBVIOUS
<1> USE DEF PlacesInv, At, Goto, ring, locks, AloneInv
<1>1. ASSUME NEW t \in Threads, CallAlloc(t) \/ CallFree(t) PROVE AloneInv'
  BY <1>1 DEF CallAlloc, CallFree, Usable, TypeOK
<1>2. ASSUME NEW t \in Threads, CallDestroy(t) PROVE AloneInv'
  BY <1>2 DEF CallDestroy, TypeOK
<1>3. ASSUME NEW t \in Threads, Take(t) PROVE AloneInv'
  BY <1>3 DEF Take, TypeOK
<1>4. ASSUME NEW t \in Threads, UnlockHead(t) \/ Alloc(t) PROVE AloneInv'
  BY <1>4 DEF UnlockHead, Alloc, ReturnObject, TypeOK
<1>5. ASSUME NEW t \in Threads, LockHead(t) \/ LookHead(t) \/ LockTail(t) PROVE AloneInv'
  BY <1>5 DEF LockHead, LookHead, LockTail, TypeOK
<1>6. ASSUME NEW t \in Threads, LookTail(t) \/ Put(t) \/ UnlockTail(t) \/ FreeObject(t)
      PROVE AloneInv'
  BY <1>6 DEF LookTail, Put, UnlockTail, FreeObject, TypeOK
<1>7. ASSUME NEW t \in Threads, DestroyObject(t) PROVE AloneInv'
  BY <1>7 DEF DestroyObject, TypeOK
<1>8. CASE UNCHANGED vars
  BY <1>8 DEF vars
<1> QED BY <1>1, <1>2, <1>3, <1>4, <1>5, <1>6, <1>7, <1>8 DEF Next, Step

LEMMA OwnersStep == PlacesInv /\ [Next]_vars => OwnersInv'
<1> SUFFICES ASSUME PlacesInv, [Next]_vars PROVE OwnersInv'
  OBVIOUS
<1> USE ThreadsAssumption DEF PlacesInv, At, Goto, ring, locks, OwnersInv, AtHead, AtTail
<1>1. ASSUME NEW t \in Threads, CallAlloc(t) \/ CallFree(t) PROVE OwnersInv'
  BY <1>1 DEF CallAlloc, CallFree, TypeOK
<1>2. ASSUME NEW t \in Threads, CallDestroy(t) PROVE OwnersInv'
  BY <1>2 DEF CallDestroy, Destroy, TypeOK
<1>3. ASSUME NEW t \in Threads, LockHead(t) \/ LookHead(t) PROVE OwnersInv'
  <2>1. CASE LockHead(t)
    BY <2>1 DEF LockHead, Acquire, TypeOK
  <2>2. CASE LookHead(t)
    <3>1. /\ pc[t] = "look_head" /\ UNCHANGED <<ring, locks>>
          /\ \/ table[Slot(head)] # Null /\ pc' = [pc EXCEPT ![t] = "take"]
             \/ pc' = [pc EXCEPT ![t] = "unlock_miss"]
      BY <2>2 DEF LookHead
    <3>2. table'[Slot(head)'] = table[Slot(head)]
      BY <3>1 DEF Slot
    <3> QED BY <3>1, <3>2 DEF TypeOK, Slot
  <2> QED BY <1>3, <2>1, <2>2
<1>4. ASSUME NEW t \in Threads, Take(t) PROVE OwnersInv'
  <2>1. /\ headLock = t /\ \A u \in Threads \ {t} : pc[u] \notin AtHead
        /\ pc' = [pc EXCEPT ![t] = "unlock_hit"]
        /\ headLock' = headLock /\ tailLock' = tailLock /\ tail' = tail
        /\ table' = [table EXCEPT ![Slot(head)] = Null]
    BY <1>4 DEF Take
  <2>2. Slot(tail) \in 0..(N - 1)
    BY CounterTypes, SlotType
  <2>3. table[Slot(tail)] = Null => table'[Slot(tail)] = Null
    BY <2>1, <2>2 DEF TypeOK
  <2>4. Slot(tail)' = Slot(tail)
    BY <2>1 DEF Slot
  <2> QED BY <2>1, <2>3, <2>4, <1>4 DEF Take, TypeOK
<1>5. ASSUME NEW t \in Threads, UnlockHead(t) PROVE OwnersInv'
  BY <1>5 DEF UnlockHead, Release, ReturnObject, TypeOK
<1>6. ASSUME NEW t \in Threads, Alloc(t) PROVE OwnersInv'
  BY <1>6 DEF Alloc, ReturnObject, TypeOK
<1>7. ASSUME NEW t \in Threads, LockTail(t) \/ LookTail(t) PROVE OwnersInv'
  <2>1. CASE LockTail(t)
    BY <2>1 DEF LockTail, Acquire, TypeOK
  <2>2. CASE LookTail(t)
    <3>1. /\ pc[t] = "look_tail" /\ UNCHANGED <<ring, locks>>
          /\ \/ table[Slot(tail)] = Null /\ pc' = [pc EXCEPT ![t] = "put"]
             \/ pc' = [pc EXCEPT ![t] = "unlock_full"]
      BY <2>2 DEF LookTail
    <3>2. table'[Slot(tail)'] = table[Slot(tail)]
      BY <3>1 DEF Slot
    <3> QED BY <3>1, <3>2 DEF TypeOK, Slot
  <2> QED BY <1>7, <2>1, <2>2
<1>8. ASSUME NEW t \in Threads, Put(t) PROVE OwnersInv'
  <2>1. /\ tailLock = t /\ \A u \in Threads \ {t} : pc[u] \notin AtTail
        /\ pc' = [pc EXCEPT ![t] = "unlock_put"]
        /\ headLock' = headLock /\ tailLock' = tailLock /\ head' = head
        /\ table' = [table EXCEPT ![Slot(tail)] = ptr[t]] /\ ptr[t] # Null
    BY <1>8 DEF Put, HandsInv, WithObject
  <2>2. Slot(head) \in 0..(N - 1)
    BY CounterTypes, SlotType
  <2>3. table[Slot(head)] # Null => table'[Slot(head)] # Null
    BY <2>1, <2>2 DEF TypeOK
  <2>4. Slot(head)' = Slot(head)
    BY <2>1 DEF Slot
  <2> QED BY <2>1, <2>3, <2>4, <1>8 DEF Put, TypeOK
<1>9. ASSUME NEW t \in Threads, UnlockTail(t) \/ FreeObject(t) PROVE OwnersInv'
  BY <1>9 DEF UnlockTail, FreeObject, Release, TypeOK
<1>10. ASSUME NEW t \in Threads, DestroyObject(t) PROVE OwnersInv'
  BY <1>10 DEF DestroyObject, TypeOK, AloneInv
<1>11. CASE UNCHANGED vars
  BY <1>11 DEF vars
<1> QED
  BY <1>1, <1>2, <1>3, <1>4, <1>5, <1>6, <1>7, <1>8, <1>9, <1>10, <1>11 DEF Next, Step

LEMMA PlacesStep == PlacesInv /\ [Next]_vars => PlacesInv'
BY TypeStep, OwnersStep, HandsStep, AloneStep DEF PlacesInv

\* Every variable of the cache keeps its type; head and tail stay within a size_t.
THEOREM TypeCorrect == Spec => []TypeOK
<1>1. PlacesInv => TypeOK
  BY DEF PlacesInv
<1> QED BY <1>1, PlacesInit, PlacesStep, PTL DEF Spec

-----------------------------------------------------------------------------
(* The slots between head and tail, and who has which object. *)

CacheInv == PlacesInv /\ RingInv /\ HolderInv

\* A thread inside a call shows that nobody destroys the cache.
LEMMA BusyIsUsable ==
  ASSUME PlacesInv, NEW t \in Threads, pc[t] \notin {"idle", "destroy", "destroyed"}
  PROVE  Usable
BY DEF PlacesInv, AloneInv, Usable

LEMMA NobodyDone ==
  ASSUME PlacesInv, Usable, NEW t \in Threads, NEW l, pc' = [pc EXCEPT ![t] = l],
         l # "destroyed"
  PROVE  ~\E u \in Threads : At(u, "destroyed")'
BY DEF PlacesInv, TypeOK, Usable, At

\* Calls that neither touch the ring nor hand an object on.
LEMMA SameRing ==
  ASSUME RingInv, UNCHANGED ring, Usable' => Usable
  PROVE  RingInv' /\ Kept' = Kept
<1>1. Counters' = Counters /\ Cached' = Cached /\ table' = table
  BY DEF ring, Counters, Cached
<1>2. SlotsInv'
  BY <1>1 DEF RingInv, SlotsInv, Slot
<1>3. RingIntact'
  BY <1>1 DEF RingInv, RingIntact, Slot
<1>4. Kept' = Kept
  BY <1>1 DEF Kept, Slot
<1> QED BY <1>2, <1>3, <1>4 DEF RingInv

LEMMA SameHolders ==
  ASSUME HolderInv, Kept' = Kept, ptr' = ptr, live' = live, held' = held,
         ~\E u \in Threads : At(u, "destroyed")'
  PROVE  HolderInv'
<1>1. Passed' = Passed /\ PassedOnce'
  BY DEF HolderInv, Passed, PassedOnce
<1> QED BY <1>1 DEF HolderInv

LEMMA PassedGains ==
  ASSUME TypeOK, PassedOnce, NEW t \in Threads, NEW p, p # Null, p \notin Passed,
         ptr[t] = Null, ptr' = [ptr EXCEPT ![t] = p]
  PROVE  Passed' = Passed \cup {p} /\ PassedOnce'
<1>1. ptr'[t] = p /\ \A u \in Threads \ {t} : ptr'[u] = ptr[u] /\ ptr[u] # p
  BY DEF TypeOK, Passed
<1> QED BY <1>1 DEF Passed, PassedOnce

LEMMA PassedLoses ==
  ASSUME TypeOK, PassedOnce, NEW t \in Threads, ptr' = [ptr EXCEPT ![t] = Null]
  PROVE  Passed' = Passed \ {ptr[t]} /\ PassedOnce'
<1>1. /\ ptr'[t] = Null
      /\ \A u \in Threads \ {t} : ptr'[u] = ptr[u] /\ (ptr[u] = ptr[t] => ptr[u] = Null)
  BY DEF TypeOK, PassedOnce
<1> QED BY <1>1 DEF Passed, PassedOnce

\* cache_alloc finds a pointer at head: the oldest one kept.
LEMMA TakeRing ==
  ASSUME PlacesInv, RingInv, TypeOK', NEW t \in Threads, Take(t)
  PROVE  /\ RingInv' /\ table[Slot(head)] \in Kept
         /\ Kept' = Kept \ {table[Slot(head)]}
<1> DEFINE x == Slot(head)
<1>1. /\ head \in 0..(W - 1) /\ tail \in 0..(W - 1) /\ head' \in 0..(W - 1)
      /\ tail' = tail /\ head' = (head + 1) % W
      /\ table' = [table EXCEPT ![x] = Null]
      /\ table \in [0..(N - 1) -> Objects \cup {Null}]
      /\ table[x] # Null /\ x \in 0..(N - 1)
      /\ Usable
  <2>1. head \in 0..(W - 1) /\ tail \in 0..(W - 1) /\ x \in 0..(N - 1)
    BY CounterTypes, SlotType DEF PlacesInv
  <2>2. head' \in 0..(W - 1)
    BY DEF TypeOK
  <2>3. pc[t] = "take" /\ table[x] # Null
    BY DEF Take, At, PlacesInv, OwnersInv
  <2>4. Usable
    BY <2>3, BusyIsUsable
  <2> QED BY <2>1, <2>2, <2>3, <2>4 DEF Take, PlacesInv, TypeOK
<1>2. /\ Cached <= N /\ {s \in DOMAIN table : table[s] # Null} = {Slot(c) : c \in Counters}
      /\ SlotsInv
  BY <1>1 DEF RingInv, RingIntact
<1>3. Counters = Between(head, tail) /\ Counters' = Between(head', tail)
      /\ Cached = Distance(head, tail) /\ Cached' = Distance(head', tail)
      /\ Cached \in 0..(W - 1) /\ Counters \subseteq Nat
  BY <1>1, Window, WindowNext
<1>4. head # tail
  <2> SUFFICES ASSUME head = tail PROVE FALSE
    OBVIOUS
  <2>1. Counters = {}
    BY <1>1, <1>3 DEF Between
  <2> QED BY <1>1, <1>2, <2>1
<1>5. /\ head \in Counters /\ Counters' = Counters \ {head} /\ Cached' = Cached - 1
  BY <1>1, <1>3, <1>4, Shrinks
<1>6. \A c \in Counters : c # head => Slot(c) # x /\ Slot(c) \in 0..(N - 1)
  BY <1>2, <1>3, <1>5, SlotType DEF SlotsInv
<1> HIDE DEF x
<1>7. \A s \in DOMAIN table : table'[s] = IF s = x THEN Null ELSE table[s]
  BY <1>1
<1>9. SlotsInv'
  BY <1>1, <1>2, <1>5, <1>6, <1>7 DEF SlotsInv, Slot
<1>10. {s \in DOMAIN table' : table'[s] # Null} = {Slot(c) : c \in Counters'}
  <2>1. DOMAIN table' = DOMAIN table
    BY <1>1
  <2>2. {s \in DOMAIN table : table'[s] # Null} =
          {s \in DOMAIN table : table[s] # Null} \ {x}
    BY <1>7
  <2>3. {Slot(c) : c \in Counters'} = {Slot(c) : c \in Counters} \ {x}
    BY <1>5, <1>6 DEF x
  <2> QED BY <1>2, <2>1, <2>2, <2>3
<1>11. RingIntact'
  <2>1. Cached' <= N
    BY <1>2, <1>3, <1>5, RingAssumption
  <2> QED BY <1>9, <1>10, <2>1 DEF RingIntact, SlotsInv, Slot
<1>12. table[x] \in Kept
  BY <1>5 DEF Kept, x
<1>13. \A c \in Counters' : table'[Slot(c)] = table[Slot(c)] /\ table[Slot(c)] # table[x]
  <2> TAKE c \in Counters'
  <2>1. c \in Counters /\ Slot(c) # x /\ Slot(c) \in 0..(N - 1)
    BY <1>5, <1>6
  <2> QED BY <1>1, <1>2, <1>7, <2>1 DEF SlotsInv
<1>14. Kept' = {table'[Slot(c)] : c \in Counters'}
  BY DEF Kept, Slot
<1>15. Kept' = Kept \ {table[x]}
  BY <1>5, <1>13, <1>14 DEF Kept, x
<1> QED BY <1>9, <1>11, <1>12, <1>15 DEF RingInv, x

\* cache_free finds NULL at tail: there is room for one more.
LEMMA PutRing ==
  ASSUME PlacesInv, RingInv, TypeOK', NEW t \in Threads, Put(t), ptr[t] \notin Kept
  PROVE  RingInv' /\ Kept' = Kept \cup {ptr[t]}
<1> DEFINE x == Slot(tail)
<1>1. /\ head \in 0..(W - 1) /\ tail \in 0..(W - 1) /\ tail' \in 0..(W - 1)
      /\ head' = head /\ tail' = (tail + 1) % W
      /\ table' = [table EXCEPT ![x] = ptr[t]] /\ ptr[t] # Null
      /\ table \in [0..(N - 1) -> Objects \cup {Null}]
      /\ table[x] = Null /\ x \in 0..(N - 1)
      /\ Usable
  <2>1. head \in 0..(W - 1) /\ tail \in 0..(W - 1) /\ x \in 0..(N - 1)
    BY CounterTypes, SlotType DEF PlacesInv
  <2>2. tail' \in 0..(W - 1)
    BY DEF TypeOK
  <2>3. pc[t] = "put" /\ table[x] = Null /\ ptr[t] # Null
    BY DEF Put, At, PlacesInv, OwnersInv, HandsInv, WithObject
  <2>4. Usable
    BY <2>3, BusyIsUsable
  <2> QED BY <2>1, <2>2, <2>3, <2>4 DEF Put, PlacesInv, TypeOK
<1>2. /\ {s \in DOMAIN table : table[s] # Null} = {Slot(c) : c \in Counters}
      /\ SlotsInv
  BY <1>1 DEF RingInv, RingIntact
<1>3. Counters = Between(head, tail) /\ Counters' = Between(head, tail')
      /\ Cached = Distance(head, tail) /\ Cached' = Distance(head, tail')
      /\ Cached \in 0..(W - 1) /\ Counters \subseteq Nat
  BY <1>1, Window, WindowNext
<1>4. \A c \in Counters : Slot(c) # x /\ Slot(c) \in 0..(N - 1)
  BY <1>1, <1>2, <1>3, SlotType DEF SlotsInv
<1>5. Cached < N
  BY <1>2, <1>4, Pigeons DEF PlacesInv, SlotsInv
<1>6. tail \notin Counters /\ Counters' = Counters \cup {tail} /\ Cached' = Cached + 1
  <2>1. Distance(head, tail) < W - 1
    BY <1>3, <1>5, RingAssumption
  <2> QED BY <1>1, <1>3, <2>1, Grows
<1> HIDE DEF x
<1>7. \A s \in DOMAIN table : table'[s] = IF s = x THEN ptr[t] ELSE table[s]
  BY <1>1
<1>8. \A s \in DOMAIN table : table[s] # ptr[t]
  <2> TAKE s \in DOMAIN table
  <2>1. table[s] # Null => table[s] \in Kept
    BY <1>2 DEF Kept
  <2> QED BY <2>1, <1>1
<1>9. /\ DOMAIN table' = DOMAIN table /\ DOMAIN table = 0..(N - 1)
      /\ Slot(tail) = x
  BY <1>1 DEF x
<1>10. \A c, d \in Counters' : Slot(c) = Slot(d) => c = d
  BY <1>2, <1>4, <1>6, <1>9 DEF SlotsInv
<1>11. \A c \in Counters' : table'[Slot(c)] # Null
  BY <1>1, <1>2, <1>4, <1>6, <1>7, <1>9 DEF SlotsInv
<1>12. \A r, s \in DOMAIN table' : table'[r] = table'[s] /\ table'[r] # Null => r = s
  BY <1>2, <1>7, <1>8, <1>9 DEF SlotsInv
<1>13. SlotsInv'
  BY <1>10, <1>11, <1>12 DEF SlotsInv, Slot
<1>14. {s \in DOMAIN table' : table'[s] # Null} = {Slot(c) : c \in Counters'}
  <2>1. {s \in DOMAIN table : table'[s] # Null} =
          {s \in DOMAIN table : table[s] # Null} \cup {x}
    BY <1>1, <1>7, <1>9
  <2>2. {Slot(c) : c \in Counters'} = {Slot(c) : c \in Counters} \cup {x}
    BY <1>6, <1>9
  <2> QED BY <1>2, <1>9, <2>1, <2>2
<1>15. RingIntact'
  <2>1. Cached' <= N
    BY <1>3, <1>5, <1>6, RingAssumption
  <2> QED BY <1>10, <1>12, <1>14, <2>1 DEF RingIntact, Slot
<1>16. Kept' = {table'[Slot(c)] : c \in Counters'}
  BY DEF Kept, Slot
<1>17. /\ \A c \in Counters : table'[Slot(c)] = table[Slot(c)]
       /\ table'[Slot(tail)] = ptr[t]
  BY <1>1, <1>4, <1>7, <1>9
<1>18. Kept' = Kept \cup {ptr[t]}
  BY <1>6, <1>16, <1>17 DEF Kept
<1> QED BY <1>13, <1>15, <1>18 DEF RingInv

LEMMA CacheInit == Init => RingInv /\ HolderInv
<1> SUFFICES ASSUME Init PROVE RingInv /\ HolderInv
  OBVIOUS
<1>1. head = 0 /\ tail = 0 /\ 0 \in 0..(W - 1)
  BY RingAssumption DEF Init
<1>2. Counters = {} /\ Cached = 0
  BY <1>1, Window, RingAssumption DEF Between, Distance
<1>3. table = [s \in 0..(N - 1) |-> Null] /\ ptr = [t \in Threads |-> Null]
      /\ live = {} /\ held = {} /\ pc = [t \in Threads |-> "idle"]
  BY DEF Init
<1>4. RingInv
  BY <1>2, <1>3, RingAssumption DEF RingInv, SlotsInv, RingIntact
<1>5. Kept = {} /\ Passed = {} /\ PassedOnce
  BY <1>2, <1>3 DEF Kept, Passed, PassedOnce
<1> QED BY <1>3, <1>4, <1>5 DEF HolderInv

\* cache_destroy frees the pointer at head.
LEMMA DestroyStep ==
  ASSUME CacheInv, TypeOK', NEW t \in Threads, DestroyObject(t)
  PROVE  RingInv' /\ HolderInv'
<1>1. /\ pc[t] = "destroy" /\ \A u \in Threads \ {t} : pc[u] = "idle"
      /\ ptr' = ptr /\ held' = held /\ table' = table /\ tail' = tail
  BY DEF DestroyObject, CacheInv, PlacesInv, AloneInv, At
<1>2. Passed = {} /\ Passed' = {} /\ PassedOnce'
  BY <1>1 DEF CacheInv, PlacesInv, HandsInv, WithObject, Passed, PassedOnce
<1>3. head \in 0..(W - 1) /\ tail \in 0..(W - 1) /\ head' \in 0..(W - 1)
  BY CounterTypes DEF CacheInv, PlacesInv, TypeOK
<1>4. Counters = Between(head, tail) /\ Counters' = Between(head', tail)
      /\ Counters \subseteq Nat
  BY <1>1, <1>3, Window, WindowNext
<1>5. ~Usable'
  <2>1. pc'[t] \in {"destroy", "destroyed"}
    BY <1>1 DEF DestroyObject, Goto, CacheInv, PlacesInv, TypeOK
  <2> QED BY <2>1 DEF Usable
<1>6. CASE head # tail
  <2>1. head' = (head + 1) % W /\ pc' = pc /\ live' = live \ {table[Slot(head)]}
    BY <1>6 DEF DestroyObject
  <2>2. head \in Counters /\ Counters' = Counters \ {head}
    BY <1>3, <1>4, <1>6, <2>1, Shrinks
  <2>3. SlotsInv'
    BY <1>1, <2>2 DEF CacheInv, RingInv, SlotsInv, Slot
  <2>4. \A c \in Counters' : table[Slot(c)] # table[Slot(head)]
    <3> TAKE c \in Counters'
    <3>1. /\ c \in Counters /\ c # head /\ Slot(c) # Slot(head)
          /\ Slot(c) \in 0..(N - 1) /\ Slot(head) \in 0..(N - 1)
          /\ table[Slot(c)] # Null
      BY <1>4, <2>2, SlotType DEF CacheInv, RingInv, SlotsInv
    <3>2. DOMAIN table = 0..(N - 1)
      BY DEF CacheInv, PlacesInv, TypeOK
    <3> QED BY <3>1, <3>2 DEF CacheInv, RingInv, SlotsInv
  <2>5. Kept' = {table[Slot(c)] : c \in Counters'}
    BY <1>1 DEF Kept, Slot
  <2>6. Kept' = Kept \ {table[Slot(head)]} /\ table[Slot(head)] \in Kept
    BY <2>2, <2>4, <2>5 DEF Kept
  <2>7. ~\E u \in Threads : At(u, "destroyed")'
    BY <1>1, <2>1 DEF At
  <2>8. HolderInv'
    BY <1>1, <1>2, <2>1, <2>6, <2>7 DEF CacheInv, HolderInv
  <2> QED BY <1>5, <2>3, <2>8 DEF RingInv, RingIntact
<1>7. CASE head = tail
  <2>1. head' = head /\ live' = live
    BY <1>7 DEF DestroyObject
  <2>2. Counters = {} /\ Counters' = {}
    BY <1>3, <1>4, <1>7, <2>1 DEF Between
  <2>3. Kept = {} /\ Kept' = {}
    BY <2>2 DEF Kept
  <2>4. SlotsInv'
    BY <1>1, <2>2 DEF CacheInv, RingInv, SlotsInv
  <2>5. HolderInv'
    BY <1>1, <1>2, <2>1, <2>3 DEF CacheInv, HolderInv
  <2> QED BY <1>5, <2>4, <2>5 DEF RingInv, RingIntact
<1> QED BY <1>6, <1>7

LEMMA CacheStep == CacheInv /\ [Next]_vars => CacheInv'
<1> SUFFICES ASSUME CacheInv, [Next]_vars PROVE RingInv' /\ HolderInv'
  BY PlacesStep DEF CacheInv
<1>1. PlacesInv /\ RingInv /\ HolderInv /\ TypeOK /\ TypeOK'
  BY TypeStep DEF CacheInv, PlacesInv
<1>2. ASSUME NEW t \in Threads, NEW l, l \notin {"destroyed"},
             pc' = [pc EXCEPT ![t] = l], Usable, UNCHANGED <<ring, ptr, live, held>>
      PROVE  RingInv' /\ HolderInv'
  <2>1. RingInv' /\ Kept' = Kept
    BY <1>1, <1>2, SameRing
  <2>2. ~\E u \in Threads : At(u, "destroyed")'
    BY <1>1, <1>2, NobodyDone
  <2> QED BY <1>1, <1>2, <2>1, <2>2, SameHolders
<1>3. ASSUME NEW t \in Threads,
             \/ CallAlloc(t) \/ CallDestroy(t) \/ LockHead(t) \/ LookHead(t)
             \/ LockTail(t) \/ LookTail(t) \/ UnlockTail(t)
      PROVE RingInv' /\ HolderInv'
  <2>1. Usable
    BY <1>1, <1>3, BusyIsUsable
    DEF CallAlloc, CallDestroy, LockHead, LookHead, LockTail, LookTail, UnlockTail,
        At, Usable
  <2>2. /\ UNCHANGED <<ring, ptr, live, held>>
        /\ \E l \in {"lock_head", "destroy", "look_head", "unlock_miss", "take",
                     "look_tail", "put", "unlock_full", "idle", "release"} :
             pc' = [pc EXCEPT ![t] = l]
    BY <1>3
    DEF CallAlloc, CallDestroy, LockHead, LookHead, LockTail, LookTail, UnlockTail, Goto
  <2> QED BY <1>2, <2>1, <2>2
<1>4. ASSUME NEW t \in Threads, CallFree(t) PROVE RingInv' /\ HolderInv'
  <2>1. PICK p \in held : ptr' = [ptr EXCEPT ![t] = p] /\ held' = held \ {p}
    BY <1>4 DEF CallFree
  <2>2. /\ Usable /\ pc[t] = "idle" /\ ring' = ring /\ live' = live
        /\ pc' = [pc EXCEPT ![t] = "lock_tail"]
    BY <1>4 DEF CallFree, At, Goto
  <2>3. RingInv' /\ Kept' = Kept /\ ~\E u \in Threads : At(u, "destroyed")'
    BY <1>1, <2>2, SameRing, NobodyDone
  <2>4. p # Null /\ p \notin Passed /\ p \notin Kept /\ ptr[t] = Null
    BY <1>1, <2>1, <2>2, ObjectsAssumption
    DEF TypeOK, HolderInv, PlacesInv, HandsInv, WithObject
  <2>5. Passed' = Passed \cup {p} /\ PassedOnce'
    BY <1>1, <2>1, <2>4, PassedGains DEF HolderInv
  <2> QED BY <1>1, <2>1, <2>2, <2>3, <2>4, <2>5 DEF HolderInv
<1>5. ASSUME NEW t \in Threads, Take(t) PROVE RingInv' /\ HolderInv'
  <2> DEFINE p == table[Slot(head)]
  <2>1. RingInv' /\ p \in Kept /\ Kept' = Kept \ {p}
    BY <1>1, <1>5, TakeRing
  <2>2. /\ pc[t] = "take" /\ p # Null /\ ptr[t] = Null
        /\ ptr' = [ptr EXCEPT ![t] = p] /\ live' = live /\ held' = held
        /\ pc' = [pc EXCEPT ![t] = "unlock_hit"]
    BY <1>1, <1>5 DEF Take, At, Goto, PlacesInv, OwnersInv, HandsInv, WithObject
  <2> HIDE DEF p
  <2>3. ~\E u \in Threads : At(u, "destroyed")'
    BY <1>1, <2>2, BusyIsUsable, NobodyDone
  <2>4. Passed' = Passed \cup {p} /\ PassedOnce'
    BY <1>1, <2>1, <2>2, PassedGains DEF HolderInv
  <2> QED BY <1>1, <2>1, <2>2, <2>3, <2>4 DEF HolderInv
<1>6. ASSUME NEW t \in Threads, UnlockHead(t) \/ Alloc(t) PROVE RingInv' /\ HolderInv'
  <2>1. /\ pc[t] \in {"unlock_hit", "unlock_miss", "alloc"} /\ ring' = ring
        /\ \E l \in {"idle", "alloc"} : pc' = [pc EXCEPT ![t] = l]
    BY <1>6 DEF UnlockHead, Alloc, ReturnObject, At, Goto
  <2>2. Usable
    BY <1>1, <2>1, BusyIsUsable
  <2>3. RingInv' /\ Kept' = Kept /\ ~\E u \in Threads : At(u, "destroyed")'
    BY <1>1, <2>1, <2>2, SameRing, NobodyDone
  <2>4. CASE pc[t] = "unlock_hit"
    <3>1. ptr' = [ptr EXCEPT ![t] = Null] /\ ptr[t] # Null
          /\ held' = held \cup {ptr[t]} /\ live' = live
      BY <1>1, <1>6, <2>4
      DEF UnlockHead, Alloc, ReturnObject, At, PlacesInv, HandsInv, WithObject
    <3>2. Passed' = Passed \ {ptr[t]} /\ PassedOnce' /\ ptr[t] \in Passed
      BY <1>1, <3>1, PassedLoses DEF HolderInv, Passed
    <3> QED BY <1>1, <2>3, <3>1, <3>2 DEF HolderInv
  <2>5. CASE pc[t] = "unlock_miss"
    <3>1. ptr' = ptr /\ held' = held /\ live' = live
      BY <1>6, <2>5 DEF UnlockHead, Alloc, At
    <3> QED BY <1>1, <2>3, <3>1, SameHolders
  <2>6. CASE pc[t] = "alloc"
    <3>1. PICK p \in (Objects \ live) \cup {Null} :
            live' = live \cup ({p} \ {Null}) /\ ReturnObject(t, p)
      BY <1>6, <2>6 DEF UnlockHead, Alloc, At
    <3>2. ptr[t] = Null /\ ptr' = ptr /\ held' = held \cup ({p} \ {Null})
      BY <1>1, <2>6, <3>1 DEF ReturnObject, PlacesInv, HandsInv, WithObject, TypeOK
    <3>3. Passed' = Passed /\ PassedOnce'
      BY <1>1, <3>2 DEF Passed, PassedOnce, HolderInv
    <3> QED BY <1>1, <2>3, <3>1, <3>2, <3>3 DEF HolderInv
  <2> QED BY <2>1, <2>4, <2>5, <2>6
<1>7. ASSUME NEW t \in Threads, Put(t) PROVE RingInv' /\ HolderInv'
  <2>1. /\ pc[t] = "put" /\ ptr[t] # Null /\ ptr' = [ptr EXCEPT ![t] = Null]
        /\ live' = live /\ held' = held /\ pc' = [pc EXCEPT ![t] = "unlock_put"]
    BY <1>1, <1>7 DEF Put, At, Goto, PlacesInv, HandsInv, WithObject
  <2>2. ptr[t] \in Passed /\ ptr[t] \notin Kept
    BY <1>1, <2>1 DEF Passed, HolderInv
  <2>3. RingInv' /\ Kept' = Kept \cup {ptr[t]}
    BY <1>1, <1>7, <2>2, PutRing
  <2>4. Passed' = Passed \ {ptr[t]} /\ PassedOnce'
    BY <1>1, <2>1, PassedLoses DEF HolderInv
  <2>5. ~\E u \in Threads : At(u, "destroyed")'
    BY <1>1, <2>1, BusyIsUsable, NobodyDone
  <2> QED BY <1>1, <2>1, <2>2, <2>3, <2>4, <2>5 DEF HolderInv
<1>8. ASSUME NEW t \in Threads, FreeObject(t) PROVE RingInv' /\ HolderInv'
  <2>1. /\ pc[t] = "release" /\ ptr[t] # Null /\ ptr' = [ptr EXCEPT ![t] = Null]
        /\ live' = live \ {ptr[t]} /\ held' = held /\ ring' = ring
        /\ pc' = [pc EXCEPT ![t] = "idle"]
    BY <1>1, <1>8 DEF FreeObject, At, Goto, PlacesInv, HandsInv, WithObject
  <2>2. Usable
    BY <1>1, <2>1, BusyIsUsable
  <2>3. RingInv' /\ Kept' = Kept /\ ~\E u \in Threads : At(u, "destroyed")'
    BY <1>1, <2>1, <2>2, SameRing, NobodyDone
  <2>4. Passed' = Passed \ {ptr[t]} /\ PassedOnce' /\ ptr[t] \in Passed
    BY <1>1, <2>1, PassedLoses DEF HolderInv, Passed
  <2> QED BY <1>1, <2>1, <2>3, <2>4 DEF HolderInv
<1>9. ASSUME NEW t \in Threads, DestroyObject(t) PROVE RingInv' /\ HolderInv'
  BY <1>1, <1>9, DestroyStep
<1>10. CASE UNCHANGED vars
  <2>1. Usable' => Usable
    BY <1>10 DEF vars, Usable
  <2>2. RingInv' /\ Kept' = Kept
    BY <1>1, <1>10, <2>1, SameRing DEF vars
  <2>3. Passed' = Passed /\ PassedOnce'
    BY <1>1, <1>10 DEF vars, Passed, PassedOnce, HolderInv
  <2> QED BY <1>1, <1>10, <2>2, <2>3 DEF vars, HolderInv, At
<1> QED BY <1>3, <1>4, <1>5, <1>6, <1>7, <1>8, <1>9, <1>10 DEF Next, Step

LEMMA CacheAlways == Spec => []CacheInv
<1>1. Init => CacheInv
  BY PlacesInit, CacheInit DEF CacheInv
<1> QED BY <1>1, CacheStep, PTL DEF Spec

\* The NULLs alone tell cache_alloc and cache_free what the counters would, for
\* every size of the ring and across every wrap (cache.c:101, :124).
THEOREM RingIntactCorrect == Spec => []RingIntact
<1>1. CacheInv => RingIntact
  BY DEF CacheInv, RingInv
<1> QED BY <1>1, CacheAlways, PTL

\* No object is handed out twice, none is dropped, and a destroyed cache has
\* freed what it kept (cache.h:64, :72).
THEOREM OneHolderCorrect == Spec => []OneHolder
<1>1. CacheInv => OneHolder
  BY HolderIsOneHolder DEF CacheInv
<1> QED BY <1>1, CacheAlways, PTL

-----------------------------------------------------------------------------
(* Counters that share a slot are a multiple of N apart. *)

LEMMA Parts ==
  ASSUME NEW a \in Nat
  PROVE  /\ a = N * (a \div N) + (a % N)
         /\ a \div N \in Int /\ a % N \in 0..(N - 1)
BY RingAssumption

LEMMA Apart ==
  ASSUME NEW a \in Nat, NEW b \in Nat, a < b, a % N = b % N
  PROVE  N <= b - a
<1> DEFINE q == a \div N
           r == b \div N
           m == a % N
<1>1. q \in Int /\ r \in Int /\ m \in Int /\ a = N * q + m /\ b = N * r + m
  BY Parts
<1> HIDE DEF q, r, m
<1>2. b - a = N * (r - q)
  BY <1>1, RingAssumption
<1>3. 1 <= r - q
  BY <1>1, <1>2, RingAssumption
<1> QED BY <1>1, <1>2, <1>3, RingAssumption

LEMMA AfterWrap ==
  ASSUME NEW a \in Nat, W % N = 0
  PROVE  (a + W) % N = a % N
<1> DEFINE q == a \div N
           k == W \div N
           m == a % N
<1>1. q \in Int /\ k \in Int /\ m \in 0..(N - 1) /\ a = N * q + m /\ W = N * k
  BY Parts, RingAssumption
<1> HIDE DEF q, k, m
<1>2. a + W \in Nat /\ a + W = N * (q + k) + m
  BY <1>1, RingAssumption
<1>3. (a + W) % N = m
  BY <1>1, <1>2, RingAssumption
<1> QED BY <1>3 DEF m

\* What cache_free finds at tail was put there N counters ago, unless a wrap has
\* moved the slots.
LEMMA FullAtTail ==
  ASSUME CacheInv, Usable, table[Slot(tail)] # Null
  PROVE  Cached = N \/ (tail < head /\ W % N # 0)
<1>1. /\ head \in 0..(W - 1) /\ tail \in 0..(W - 1) /\ Slot(tail) \in 0..(N - 1)
      /\ DOMAIN table = 0..(N - 1)
  BY CounterTypes, SlotType DEF CacheInv, PlacesInv, TypeOK
<1>2. Cached <= N /\ {s \in DOMAIN table : table[s] # Null} = {Slot(c) : c \in Counters}
  BY DEF CacheInv, RingInv, RingIntact
<1>3. PICK c \in Counters : Slot(c) = Slot(tail)
  BY <1>1, <1>2
<1>4. Cached = Distance(head, tail) /\ c \in Between(head, tail) /\ c \in Nat
  BY <1>1, <1>3, Window
<1>5. c % N = tail % N
  BY <1>3 DEF Slot
<1>6. CASE c < tail
  <2>1. N <= tail - c
    BY <1>1, <1>4, <1>5, <1>6, Apart
  <2> QED BY <1>1, <1>2, <1>4, <2>1, RingAssumption DEF Distance, Between
<1>7. CASE ~(c < tail)
  <2>1. tail < head /\ head <= c /\ c < W
    BY <1>1, <1>4, <1>7, RingAssumption DEF Between
  <2>2. SUFFICES ASSUME W % N = 0 PROVE Cached = N
    BY <2>1
  <2>3. (tail + W) % N = tail % N
    BY <1>1, <2>2, AfterWrap
  <2> DEFINE b == tail + W
  <2>4. b \in Nat /\ c < b /\ c % N = b % N
    BY <1>1, <1>4, <1>5, <2>1, <2>3, RingAssumption
  <2>5. N <= b - c
    <3> HIDE DEF b
    <3> QED BY <1>4, <2>4, Apart
  <2> QED BY <1>1, <1>2, <1>4, <2>1, <2>5, RingAssumption DEF Distance
<1> QED BY <1>6, <1>7

\* cache_free gives an object up only when nmemb are cached (cache.h:71), apart
\* from the wrap of a range that nmemb does not divide.
THEOREM GivenUpOnlyWhenFullCorrect == Spec => GivenUpOnlyWhenFull
<1>1. CacheInv /\ [Next]_vars =>
        \A t \in Threads :
          At(t, "look_tail") /\ pc'[t] = "unlock_full" =>
            Cached = N \/ (tail < head /\ W % N # 0)
  <2> SUFFICES ASSUME CacheInv, [Next]_vars, NEW t \in Threads,
                      pc[t] = "look_tail", pc'[t] = "unlock_full"
               PROVE  Cached = N \/ (tail < head /\ W % N # 0)
    BY DEF At
  <2>1. Usable
    BY BusyIsUsable DEF CacheInv
  <2>2. table[Slot(tail)] # Null
    <3> DEFINE others == {"lock_head", "lock_tail", "destroy", "look_head", "unlock_miss",
                          "take", "unlock_hit", "alloc", "idle", "look_tail",
                          "unlock_put", "release", "destroyed"}
    <3>1. pc' # pc /\ DOMAIN pc = Threads
      BY DEF CacheInv, PlacesInv, TypeOK
    <3>2. ASSUME NEW u \in Threads, LookTail(u) PROVE table[Slot(tail)] # Null
      BY <3>1, <3>2 DEF LookTail, At, Goto
    <3>3. ASSUME NEW u \in Threads,
                 \/ CallAlloc(u) \/ CallFree(u) \/ CallDestroy(u) \/ LockHead(u)
                 \/ LookHead(u) \/ Take(u) \/ UnlockHead(u) \/ Alloc(u)
          PROVE  \E l \in others : pc' = [pc EXCEPT ![u] = l]
      BY <3>3 DEF CallAlloc, CallFree, CallDestroy, LockHead, LookHead, Take, UnlockHead,
                  Alloc, ReturnObject, Goto
    <3>4. ASSUME NEW u \in Threads,
                 LockTail(u) \/ Put(u) \/ FreeObject(u) \/ DestroyObject(u)
          PROVE  \E l \in others : pc' = [pc EXCEPT ![u] = l]
      BY <3>1, <3>4 DEF LockTail, Put, FreeObject, DestroyObject, Goto
    <3>5. ASSUME NEW u \in Threads, UnlockTail(u)
          PROVE  \E l \in others : pc' = [pc EXCEPT ![u] = l]
      BY <3>5 DEF UnlockTail, Goto
    <3>6. \/ \E u \in Threads : LookTail(u)
          \/ \E u \in Threads, l \in others : pc' = [pc EXCEPT ![u] = l]
      BY <3>1, <3>3, <3>4, <3>5 DEF Next, Step, vars
    <3> QED BY <3>1, <3>2, <3>6
  <2> QED BY <2>1, <2>2, FullAtTail
<1> QED BY <1>1, CacheAlways, PTL DEF Spec, GivenUpOnlyWhenFull
=============================================================================
