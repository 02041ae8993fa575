----------------------------- MODULE NodeQueue -----------------------------
(***************************************************************************)
(* What src/src/alpha_queue.c, beta_queue.c and gamma_queue.c share: a     *)
(* singly linked list entered through a dummy node.  Pushes write at tail, *)
(* pops read at head, and the two meet when the dummy is the only node.    *)
(* Nodes are addresses: a freed one may be handed out again by calloc.     *)
(*                                                                         *)
(* An operator here is one access, or one run of accesses nobody can cut   *)
(* into; the label it leads to is a parameter, since the three queues put  *)
(* different locks around the same accesses.                               *)
(***************************************************************************)
EXTENDS Naturals, Sequences, FiniteSets

CONSTANTS
  Threads,   \* threads that use one queue
  Items,     \* what they push; NULL is allowed (alpha_queue.h:57)
  Nodes,     \* the memory: addresses calloc may return
  Null,      \* NULL
  Ordered    \* stores become visible in program order

ASSUME NodesAssumption == IsFiniteSet(Nodes) /\ Nodes # {} /\ Null \notin Nodes
ASSUME OrderedAssumption == Ordered \in BOOLEAN
ASSUME ResultsAssumption == Null \notin {0, 1}

VARIABLES
  next, item,  \* the fields of the nodes
  heap,        \* the nodes that are allocated
  head, tail,  \* the fields of the queue
  pc, op, arg, \* where each thread stands, in which call, with which item
  node,        \* the local new of a push, temp of a pop
  rv,          \* the value to be returned (true is 1, false is 0)
  todo,        \* the stores a push has still to make, in order
  freed,       \* the queue itself has been freed
  list,        \* history: the linked nodes from the dummy on
  queued       \* history: the items pushed and not yet popped

memory == <<next, item, heap>>
history == <<list, queued>>
call == <<op, arg>>
vars == <<next, item, heap, head, tail, pc, op, arg, node, rv, todo, freed,
          list, queued>>

Elements(s) == {s[i] : i \in DOMAIN s}

DataTypeOK ==
  /\ next \in [Nodes -> Nodes \cup {Null}]
  /\ item \in [Nodes -> Items \cup {Null}]
  /\ heap \in SUBSET Nodes
  /\ head \in Nodes \cup {Null}
  /\ tail \in Nodes
  /\ op \in [Threads -> {"none", "push", "pop", "try_pop", "free"}]
  /\ arg \in [Threads -> Items \cup {Null}]
  /\ node \in [Threads -> Nodes \cup {Null}]
  /\ rv \in [Threads -> Items \cup {Null, 0, 1}]
  /\ todo \in [Threads -> Seq({"item", "link", "tail"})]
  /\ freed \in BOOLEAN
  /\ list \in Seq(Nodes)
  /\ queued \in Seq(Items)

\* The queue with its dummy, as *_queue_new leaves it.
Init ==
  /\ next = [n \in Nodes |-> Null]
  /\ item = [n \in Nodes |-> Null]
  /\ \E n \in Nodes : head = n /\ tail = n /\ heap = {n} /\ list = <<n>>
  /\ pc = [t \in Threads |-> "idle"]
  /\ op = [t \in Threads |-> "none"]
  /\ arg = [t \in Threads |-> Null]
  /\ node = [t \in Threads |-> Null]
  /\ rv = [t \in Threads |-> Null]
  /\ todo = [t \in Threads |-> <<>>]
  /\ freed = FALSE
  /\ queued = <<>>

\* free.  What freed memory holds is of no account until calloc clears it; NULL
\* stands for whatever it is (NoUseAfterFree: nobody reads it).
Free(n) ==
  /\ heap' = heap \ {n}
  /\ next' = [next EXCEPT ![n] = Null]
  /\ item' = [item EXCEPT ![n] = Null]

At(t, label) == pc[t] = label
Goto(t, label) == pc' = [pc EXCEPT ![t] = label]

-----------------------------------------------------------------------------
(* Calls.  Nothing may be called once a free has begun, nor a free before  *)
(* every other call is over.                                               *)

Call(t, o, x, label) ==
  /\ At(t, "idle")
  /\ ~freed
  /\ \A u \in Threads : op[u] # "free"
  /\ o = "free" => \A u \in Threads : At(u, "idle")
  /\ op' = [op EXCEPT ![t] = o]
  /\ arg' = [arg EXCEPT ![t] = x]
  /\ Goto(t, label)
  /\ UNCHANGED <<memory, head, tail, node, rv, todo, freed, history>>

\* The frame of the call is gone, its locals with it.
LeaveCall(t) ==
  /\ Goto(t, "idle")
  /\ op' = [op EXCEPT ![t] = "none"]
  /\ arg' = [arg EXCEPT ![t] = Null]
  /\ rv' = [rv EXCEPT ![t] = Null]

Return(t) ==
  /\ At(t, "return")
  /\ LeaveCall(t)
  /\ UNCHANGED <<memory, head, tail, node, todo, freed, history>>

-----------------------------------------------------------------------------
(***************************************************************************)
(* Push.  calloc returns a zeroed node or NULL.  The code stores the item, *)
(* the link and the tail in that order, with nothing that would keep a     *)
(* compiler or a machine from making the link visible before the item.     *)
(***************************************************************************)
StoreOrders ==
  {<<"item", "link", "tail">>} \cup
  (IF Ordered THEN {} ELSE {<<"link", "item", "tail">>})

Alloc(t, ok, failed) ==
  /\ At(t, "alloc")
  /\ \/ \E n \in Nodes \ heap :
          /\ heap' = heap \cup {n}
          /\ next' = [next EXCEPT ![n] = Null]
          /\ item' = [item EXCEPT ![n] = Null]
          /\ node' = [node EXCEPT ![t] = n]
          /\ \E order \in StoreOrders : todo' = [todo EXCEPT ![t] = order]
          /\ Goto(t, ok)
          /\ UNCHANGED rv
     \/ /\ rv' = [rv EXCEPT ![t] = 0]
        /\ Goto(t, failed)
        /\ UNCHANGED <<memory, node, todo>>
  /\ UNCHANGED <<head, tail, call, freed, history>>

\* t makes the next of its stores.  Where a lock guards the tail, the item is
\* stored before the lock is taken.
Store(t, field) ==
  /\ At(t, "write") \/ (At(t, "lock_tail") /\ field = "item")
  /\ todo[t] # <<>>
  /\ Head(todo[t]) = field
  /\ todo' = [todo EXCEPT ![t] = Tail(@)]

StoreItem(t) ==
  /\ Store(t, "item")
  /\ item' = [item EXCEPT ![node[t]] = arg[t]]
  /\ UNCHANGED <<next, heap, head, tail, pc, call, node, rv, freed, history>>

\* tail->next = new: from here on pops can see the item.
StoreLink(t) ==
  /\ Store(t, "link")
  /\ next' = [next EXCEPT ![tail] = node[t]]
  /\ rv' = [rv EXCEPT ![t] = 1]
  /\ list' = Append(list, node[t])
  /\ queued' = Append(queued, arg[t])
  /\ UNCHANGED <<item, heap, head, tail, pc, call, node, freed>>

\* As if tail went to the node that was the last one before.
StoreTailStale(t, label) ==
  /\ Store(t, "tail")
  /\ node' = [node EXCEPT ![t] = Null]
  /\ Goto(t, label)
  /\ UNCHANGED <<memory, head, tail, call, rv, freed, history>>

\* As if tail were moved along the link of the node it points to.
StoreTailAlong(t, label) ==
  /\ Store(t, "tail")
  /\ tail' = next[tail]
  /\ node' = [node EXCEPT ![t] = Null]
  /\ Goto(t, label)
  /\ UNCHANGED <<memory, head, call, rv, freed, history>>

\* tail = new.  The node tail pointed to may be gone by now: a pop that saw the
\* link has made new the dummy and freed the old one.
StoreTail(t, label) ==
  /\ Store(t, "tail")
  /\ tail' = node[t]
  /\ node' = [node EXCEPT ![t] = Null]
  /\ Goto(t, label)
  /\ UNCHANGED <<memory, head, call, rv, freed, history>>

-----------------------------------------------------------------------------
(* Pop. *)

\* head->next is NULL: without a wait the call returns NULL.
LookEmpty(t, label) ==
  /\ At(t, "look")
  /\ next[head] = Null
  /\ Goto(t, label)
  /\ UNCHANGED <<memory, head, tail, call, node, rv, todo, freed, history>>

LookFull(t) ==
  /\ At(t, "look")
  /\ next[head] # Null
  /\ Goto(t, "take")
  /\ UNCHANGED <<memory, head, tail, call, node, rv, todo, freed, history>>

\* As if the item were read from the dummy node.
TakeFromDummy(t, label) ==
  /\ At(t, "take")
  /\ rv' = [rv EXCEPT ![t] = item[head]]
  /\ node' = [node EXCEPT ![t] = head]
  /\ head' = next[head]
  /\ Goto(t, label)
  /\ list' = Tail(list)
  /\ queued' = Tail(queued)
  /\ UNCHANGED <<memory, tail, call, todo, freed>>

\* As if the old dummy were forgotten.
TakeForget(t, label) ==
  /\ At(t, "take")
  /\ rv' = [rv EXCEPT ![t] = item[next[head]]]
  /\ node' = [node EXCEPT ![t] = next[head]]
  /\ head' = next[head]
  /\ Goto(t, label)
  /\ list' = Tail(list)
  /\ queued' = Tail(queued)
  /\ UNCHANGED <<memory, tail, call, todo, freed>>

\* The first node's item is read and it becomes the dummy.
Take(t, label) ==
  /\ At(t, "take")
  /\ rv' = [rv EXCEPT ![t] = item[next[head]]]
  /\ node' = [node EXCEPT ![t] = head]
  /\ head' = next[head]
  /\ Goto(t, label)
  /\ list' = Tail(list)
  /\ queued' = Tail(queued)
  /\ UNCHANGED <<memory, tail, call, todo, freed>>

\* As if the old dummy were kept.
FreeTempNot(t) ==
  /\ At(t, "free_temp")
  /\ node' = [node EXCEPT ![t] = Null]
  /\ LeaveCall(t)
  /\ UNCHANGED <<memory, head, tail, todo, freed, history>>

\* free (temp), and the call returns.
FreeTemp(t) ==
  /\ At(t, "free_temp")
  /\ Free(node[t])
  /\ node' = [node EXCEPT ![t] = Null]
  /\ LeaveCall(t)
  /\ UNCHANGED <<head, tail, todo, freed, history>>

-----------------------------------------------------------------------------
(* Free: the loop over the list, then the queue. *)

FreeNode(t) ==
  /\ At(t, "free_list")
  /\ head # Null
  /\ Free(head)
  /\ head' = next[head]
  /\ list' = Tail(list)
  /\ UNCHANGED <<tail, pc, call, node, rv, todo, freed, queued>>

FreeQueue(t) ==
  /\ At(t, "free_list")
  /\ head = Null
  /\ freed' = TRUE
  /\ LeaveCall(t)
  /\ UNCHANGED <<memory, head, tail, node, todo, history>>

-----------------------------------------------------------------------------
Freeing == freed \/ \E t \in Threads : op[t] = "free"

\* A push that has linked its node and has yet to move tail.
Moving(t) == op[t] = "push" /\ todo[t] # <<>> /\ node[t] \in Elements(list)

\* The nodes threads hold outside the list.
Held ==
  {node[t] : t \in {u \in Threads : node[u] # Null /\ ~Moving(u)}}

\* Pointers and items are those of the pushes and pops made so far
\* (alpha_queue.c:87 and :107): head leads through the nodes in the order they
\* were linked, each with its item, to a last one; tail is the last one, or the
\* one before while the push that linked the last has not moved tail.
ListIntact ==
  /\ \A i, j \in DOMAIN list : list[i] = list[j] => i = j
  /\ \A i \in DOMAIN list :
       next[list[i]] = IF i = Len(list) THEN Null ELSE list[i + 1]
  /\ ~Freeing =>
       /\ Len(list) = Len(queued) + 1
       /\ head = list[1]
       /\ \A i \in DOMAIN queued : item[list[i + 1]] = queued[i]
       /\ (\A t \in Threads : ~Moving(t)) => tail = list[Len(list)]

\* No thread follows a pointer to freed memory, though nodes are freed by pops
\* while a push may be at the other end of the same node (alpha_queue.c:87
\* against :109), and nothing is freed twice.
NoUseAfterFree ==
  \A t \in Threads :
    /\ At(t, "write") /\ todo[t] # <<>> =>
         CASE Head(todo[t]) = "item" -> node[t] \in heap
           [] Head(todo[t]) = "link" -> tail \in heap
           [] Head(todo[t]) = "tail" -> TRUE
    /\ At(t, "lock_tail") => node[t] \in heap
    /\ At(t, "look") => head \in heap
    /\ At(t, "take") => {head, next[head]} \subseteq heap
    /\ At(t, "free_temp") => node[t] \in heap
    /\ At(t, "free_list") /\ head # Null => head \in heap

\* Every allocated node is in the list or in the hands of exactly one thread
\* that will link or free it; a freed queue leaves no node behind
\* (gamma_queue.h:50: "All internal memory will be unallocated").
NothingLeaked ==
  /\ heap = Elements(list) \cup Held
  /\ Elements(list) \cap Held = {}
  /\ freed => heap = {}

-----------------------------------------------------------------------------
\* A push takes effect when its node is linked, or when there is no memory; a
\* pop when it moves head or has found the list empty.
Done(t) ==
  \/ op[t] = "push" /\ rv[t] # Null
  \/ op[t] \in {"pop", "try_pop"} /\
     pc[t] \in {"return", "unlock_empty", "unlock_taken", "free_temp"}

Fifo == INSTANCE BlockingFifo WITH
  items <- queued,
  op <- [t \in Threads |-> IF op[t] = "free" THEN "none" ELSE op[t]],
  done <- [t \in Threads |-> Done(t)],
  ret <- rv,
  closed <- FALSE

\* The list is a FIFO whose pushes and pops take effect in one step each,
\* though they run at the same time under different locks or under none
\* (alpha_queue.h:28, gamma_queue.h:28).
ImplementsFifo == Fifo!Spec
=============================================================================
