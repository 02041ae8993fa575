------------------------------- MODULE Cache -------------------------------
(***************************************************************************)
(* src/src/cache.c: a ring of pointers to objects that are kept for reuse. *)
(* cache_free puts at tail under one lock, cache_alloc takes at head under *)
(* the other, and what the two tell each other by is whether a slot is     *)
(* NULL: there is no count.  head and tail only ever grow; they are size_t *)
(* and wrap.                                                               *)
(***************************************************************************)
EXTENDS Naturals, FiniteSets

CONSTANTS
  Threads,   \* threads that use one cache
  Objects,   \* what the allocator given to cache_init may return
  Null,      \* NULL
  N,         \* cache->nmemb
  W          \* SIZE_MAX + 1, the number of values of a size_t

ASSUME ThreadsAssumption == IsFiniteSet(Threads) /\ Null \notin Threads
ASSUME ObjectsAssumption == IsFiniteSet(Objects) /\ Null \notin Objects
ASSUME RingAssumption == N \in Nat \ {0} /\ W \in Nat /\ N < W

INSTANCE Lock

VARIABLES
  head, tail,          \* cache->head, cache->tail
  table,               \* cache->table
  headLock, tailLock,  \* the owner of each lock, or Null
  pc,                  \* where each thread stands
  ptr,                 \* the local or argument ptr
  live,                \* objects the allocator gave out and did not get back
  held                 \* those that are in the users' hands

ring == <<head, tail, table>>
locks == <<headLock, tailLock>>
vars == <<ring, locks, pc, ptr, live, held>>

Slot(counter) == counter % N

TypeOK ==
  /\ {head, tail} \subseteq 0..(W - 1)
  /\ table \in [0..(N - 1) -> Objects \cup {Null}]
  /\ {headLock, tailLock} \subseteq Threads \cup {Null}
  /\ pc \in [Threads ->
       {"idle", "lock_head", "look_head", "take", "unlock_miss", "unlock_hit",
        "alloc", "lock_tail", "look_tail", "put", "unlock_full", "unlock_put",
        "release", "destroy", "destroyed"}]
  /\ ptr \in [Threads -> Objects \cup {Null}]
  /\ \A t \in Threads :
       pc[t] \in {"unlock_hit", "look_tail", "put", "unlock_full", "release"}
       => ptr[t] # Null
  /\ held \in SUBSET Objects
  /\ live \in SUBSET Objects

Init ==
  /\ head = 0 /\ tail = 0
  /\ table = [s \in 0..(N - 1) |-> Null]
  /\ Created(headLock) /\ Created(tailLock)
  /\ pc = [t \in Threads |-> "idle"]
  /\ ptr = [t \in Threads |-> Null]
  /\ live = {} /\ held = {}

At(t, label) == pc[t] = label
Goto(t, label) == pc' = [pc EXCEPT ![t] = label]

-----------------------------------------------------------------------------
(* Calls: any thread may free what any thread has allocated, once; one     *)
(* thread destroys the cache when no call is under way.                    *)

Usable == \A u \in Threads : pc[u] \notin {"destroy", "destroyed"}

CallAlloc(t) ==
  /\ Usable /\ At(t, "idle")
  /\ Goto(t, "lock_head")
  /\ UNCHANGED <<ring, locks, ptr, live, held>>

CallFree(t) ==
  /\ Usable /\ At(t, "idle")
  /\ \E p \in held : ptr' = [ptr EXCEPT ![t] = p] /\ held' = held \ {p}
  /\ Goto(t, "lock_tail")
  /\ UNCHANGED <<ring, locks, live>>

CallDestroy(t) ==
  /\ \A u \in Threads : At(u, "idle")
  /\ Destroy(tailLock) /\ Destroy(headLock)
  /\ Goto(t, "destroy")
  /\ UNCHANGED <<ring, ptr, live, held>>

\* cache_alloc returns p to the user.
ReturnObject(t, p) ==
  /\ held' = held \cup ({p} \ {Null})
  /\ ptr' = [ptr EXCEPT ![t] = Null]
  /\ Goto(t, "idle")

-----------------------------------------------------------------------------
(* cache_alloc *)

LockHead(t) ==
  /\ At(t, "lock_head")
  /\ Acquire(headLock, t)
  /\ Goto(t, "look_head")
  /\ UNCHANGED <<ring, tailLock, ptr, live, held>>

LookHead(t) ==
  /\ At(t, "look_head")
  /\ Goto(t, IF table[Slot(head)] = Null THEN "unlock_miss" ELSE "take")
  /\ UNCHANGED <<ring, locks, ptr, live, held>>

Take(t) ==
  /\ At(t, "take")
  /\ ptr' = [ptr EXCEPT ![t] = table[Slot(head)]]
  /\ table' = [table EXCEPT ![Slot(head)] = Null]
  /\ head' = (head + 1) % W
  /\ Goto(t, "unlock_hit")
  /\ UNCHANGED <<tail, locks, live, held>>

UnlockHead(t) ==
  /\ Release(headLock)
  /\ \/ At(t, "unlock_hit") /\ ReturnObject(t, ptr[t])
     \/ At(t, "unlock_miss") /\ Goto(t, "alloc") /\ UNCHANGED <<ptr, held>>
  /\ UNCHANGED <<ring, tailLock, live>>

\* The user's allocator, which may find no memory.
Alloc(t) ==
  /\ At(t, "alloc")
  /\ \E p \in (Objects \ live) \cup {Null} :
       /\ live' = live \cup ({p} \ {Null})
       /\ ReturnObject(t, p)
  /\ UNCHANGED <<ring, locks>>

-----------------------------------------------------------------------------
(* cache_free *)

LockTail(t) ==
  /\ At(t, "lock_tail")
  /\ Acquire(tailLock, t)
  /\ Goto(t, "look_tail")
  /\ UNCHANGED <<ring, headLock, ptr, live, held>>

\* As if the cache were full one slot early, as rings that tell full from empty
\* by their counters are.
LookTailOneLess(t) ==
  /\ At(t, "look_tail")
  /\ Goto(t, IF table[Slot(tail + 1)] = Null THEN "put" ELSE "unlock_full")
  /\ UNCHANGED <<ring, locks, ptr, live, held>>

LookTail(t) ==
  /\ At(t, "look_tail")
  /\ Goto(t, IF table[Slot(tail)] = Null THEN "put" ELSE "unlock_full")
  /\ UNCHANGED <<ring, locks, ptr, live, held>>

\* Of the two stores, cache_alloc sees only the one to the slot.
Put(t) ==
  /\ At(t, "put")
  /\ table' = [table EXCEPT ![Slot(tail)] = ptr[t]]
  /\ tail' = (tail + 1) % W
  /\ ptr' = [ptr EXCEPT ![t] = Null]
  /\ Goto(t, "unlock_put")
  /\ UNCHANGED <<head, locks, live, held>>

UnlockTail(t) ==
  /\ Release(tailLock)
  /\ \/ At(t, "unlock_put") /\ Goto(t, "idle")
     \/ At(t, "unlock_full") /\ Goto(t, "release")
  /\ UNCHANGED <<ring, headLock, ptr, live, held>>

\* The user's free routine.
FreeObject(t) ==
  /\ At(t, "release")
  /\ live' = live \ {ptr[t]}
  /\ ptr' = [ptr EXCEPT ![t] = Null]
  /\ Goto(t, "idle")
  /\ UNCHANGED <<ring, locks, held>>

-----------------------------------------------------------------------------
(* cache_destroy *)

\* As if the loop ran while head were below tail.
DestroyObjectBelow(t) ==
  /\ At(t, "destroy")
  /\ IF head < tail
     THEN /\ live' = live \ {table[Slot(head)]}
          /\ head' = head + 1
          /\ UNCHANGED pc
     ELSE Goto(t, "destroyed") /\ UNCHANGED <<head, live>>
  /\ UNCHANGED <<tail, table, locks, ptr, held>>

DestroyObject(t) ==
  /\ At(t, "destroy")
  /\ IF head # tail
     THEN /\ live' = live \ {table[Slot(head)]}
          /\ head' = (head + 1) % W
          /\ UNCHANGED pc
     ELSE Goto(t, "destroyed") /\ UNCHANGED <<head, live>>
  /\ UNCHANGED <<tail, table, locks, ptr, held>>

-----------------------------------------------------------------------------
Step(t) ==
  \/ LockHead(t) \/ LookHead(t) \/ Take(t) \/ UnlockHead(t) \/ Alloc(t)
  \/ LockTail(t) \/ LookTail(t) \/ Put(t) \/ UnlockTail(t) \/ FreeObject(t)
  \/ DestroyObject(t)

Next ==
  \E t \in Threads : CallAlloc(t) \/ CallFree(t) \/ CallDestroy(t) \/ Step(t)

Spec == Init /\ [][Next]_vars

-----------------------------------------------------------------------------
Cached == (tail + W - head) % W

\* The counters from head up to tail, modulo their width.
Counters == {(head + i) % W : i \in 0..(Cached - 1)}

\* The slots that hold a pointer are those of the counters from head to tail, no
\* two counters share one, and no pointer is in two: the NULLs alone tell
\* cache_alloc and cache_free, under their different locks, what the counters
\* would (cache.c:101, :124), across a wrap of the counters too.
RingIntact ==
  Usable =>
    /\ Cached <= N
    /\ \A c, d \in Counters : Slot(c) = Slot(d) => c = d
    /\ {s \in DOMAIN table : table[s] # Null} = {Slot(c) : c \in Counters}
    /\ \A r, s \in DOMAIN table : table[r] = table[s] /\ table[r] # Null => r = s

\* Every object the allocator gave out is in exactly one place: in the cache, in
\* one call under way, or with the user; none is handed out twice and none is
\* dropped (cache.h:64, :72).  A destroyed cache has freed what it kept.
OneHolder ==
  LET kept == {table[Slot(c)] : c \in Counters}
      passed == {ptr[t] : t \in Threads} \ {Null}
  IN /\ live = kept \cup passed \cup held
     /\ kept \cap passed = {} /\ kept \cap held = {} /\ passed \cap held = {}
     /\ \A t, u \in Threads : ptr[t] = ptr[u] /\ ptr[t] # Null => t = u
     /\ (\E t \in Threads : At(t, "destroyed")) => live = held

\* "If CACHE is full then the object will be freed [...]. Otherwise PTR will be
\* saved" (cache.h:71): cache_free gives an object up only when nmemb are cached.
\* Once tail has wrapped and head has not, and nmemb does not divide 2^w, two
\* counters may mean one slot, and an object may be given up earlier.
GivenUpOnlyWhenFull ==
  [][\A t \in Threads :
       At(t, "look_tail") /\ pc'[t] = "unlock_full" =>
         Cached = N \/ (tail < head /\ W % N # 0)]_vars
=============================================================================
