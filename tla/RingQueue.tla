----------------------------- MODULE RingQueue -----------------------------
(***************************************************************************)
(* src/src/queue.c: the ring that holds the items of an async_queue.  Each *)
(* node points through prev to the next newer one and the newest to the    *)
(* oldest; the queue is the pointer to the newest.  async_queue calls it   *)
(* under its lock, so each call is one step here.                          *)
(***************************************************************************)
EXTENDS Naturals, Sequences, FiniteSets

CONSTANTS
  Items,   \* the pointers that are pushed, never NULL (queue.c:28)
  Nodes,   \* the memory: addresses malloc may return
  Null     \* NULL

ASSUME NodesAssumption == IsFiniteSet(Nodes) /\ Null \notin Nodes
ASSUME ItemsAssumption == Null \notin Items

VARIABLES
  queue,   \* *queue: the newest node, or Null
  prev,    \* the fields of the nodes
  item,
  heap,    \* the nodes that are allocated
  last     \* history: the last call with its argument and result

vars == <<queue, prev, item, heap, last>>

Report(o, x, value) == last' = [op |-> o, arg |-> x, rv |-> value]

\* An empty queue is a NULL pointer; it has nothing to tell of a last call.
Init ==
  /\ queue = Null
  /\ prev = [n \in Nodes |-> Null]
  /\ item = [n \in Nodes |-> Null]
  /\ heap = {}
  /\ last = [op |-> "count", arg |-> Null, rv |-> 0]

-----------------------------------------------------------------------------
\* As if the new node were put behind the newest, without the ring's closure.
LinkBehind(new, x) ==
  /\ prev' = [prev EXCEPT ![new] = IF queue = Null THEN new ELSE queue]
  /\ item' = [item EXCEPT ![new] = x]
  /\ queue' = new

\* A ring of one node, or the new node between the newest and the oldest.
Link(new, x) ==
  /\ prev' = IF queue = Null THEN [prev EXCEPT ![new] = new]
             ELSE [prev EXCEPT ![new] = prev[queue], ![queue] = new]
  /\ item' = [item EXCEPT ![new] = x]
  /\ queue' = new

\* queue_push; malloc may fail, whatever memory there is.
Push(x) ==
  \/ /\ Report("push", x, 0)
     /\ UNCHANGED <<queue, prev, item, heap>>
  \/ \E new \in Nodes \ heap :
       /\ heap' = heap \cup {new}
       /\ Link(new, x)
       /\ Report("push", x, 1)

\* What a freed node holds is of no account; NULL stands for it.
Free(n) ==
  /\ heap' = heap \ {n}
  /\ item' = [item EXCEPT ![n] = Null]

PopEmpty ==
  /\ queue = Null
  /\ Report("pop", Null, Null)
  /\ UNCHANGED <<queue, prev, item, heap>>

PopOnly ==
  /\ queue # Null
  /\ prev[queue] = queue
  /\ Report("pop", Null, item[queue])
  /\ Free(queue)
  /\ prev' = [prev EXCEPT ![queue] = Null]
  /\ queue' = Null

\* As if the node freed were not taken out of the ring.
UnlinkNot ==
  /\ queue # Null
  /\ prev[queue] # queue
  /\ LET oldest == prev[queue]
     IN /\ Report("pop", Null, item[oldest])
        /\ Free(oldest)
        /\ UNCHANGED <<queue, prev>>

\* The oldest node is copied, freed, and the newest linked to its successor.
PopOldest ==
  /\ queue # Null
  /\ prev[queue] # queue
  /\ LET oldest == prev[queue]
     IN /\ Report("pop", Null, item[oldest])
        /\ Free(oldest)
        /\ prev' = [prev EXCEPT ![queue] = prev[oldest], ![oldest] = Null]
        /\ UNCHANGED queue

\* The k-th node from the newest along prev.
Along[k \in 0..Cardinality(Nodes)] ==
  IF k = 0 THEN queue ELSE prev[Along[k - 1]]

\* The nodes the loop of queue_count passes before one whose prev is the newest.
QueueCount ==
  IF queue = Null THEN 0
  ELSE CHOOSE i \in 0..(Cardinality(Nodes) - 1) :
         /\ prev[Along[i]] = queue
         /\ \A j \in 0..(i - 1) : prev[Along[j]] # queue

Count ==
  /\ Report("count", Null, QueueCount)
  /\ UNCHANGED <<queue, prev, item, heap>>

Next ==
  \/ \E x \in Items : Push(x)
  \/ PopEmpty \/ PopOnly \/ PopOldest
  \/ Count

Spec == Init /\ [][Next]_vars

-----------------------------------------------------------------------------
\* The ring is made of all the nodes there are: from the newest every allocated
\* node is met once before the newest comes again, none of them freed, none
\* lost (queue.c:40, :69).
RingIntact ==
  LET n == Cardinality(heap)
  IN IF queue = Null THEN heap = {}
     ELSE /\ {Along[k] : k \in 1..n} = heap
          /\ Along[n] = queue
          /\ \A k \in 1..n : item[Along[k]] # Null

\* The items, oldest first.
Contents == [k \in 1..Cardinality(heap) |-> item[Along[k]]]

\* The ring is the sequence that AsyncQueue takes it for: a push appends or
\* changes nothing, a pop returns the oldest item and leaves the others in
\* order, or NULL.  queue_count leaves one item out, the loop ending before the
\* last node is counted (queue.c:86).
ActsAsSequence ==
  [][LET c == last'
     IN CASE c.op = "push" ->
               Contents' = IF c.rv = 1 THEN Append(Contents, c.arg) ELSE Contents
          [] c.op = "pop" ->
               IF Contents = <<>> THEN c.rv = Null /\ Contents' = <<>>
               ELSE c.rv = Head(Contents) /\ Contents' = Tail(Contents)
          [] c.op = "count" ->
               /\ c.rv = IF Contents = <<>> THEN 0 ELSE Len(Contents) - 1
               /\ Contents' = Contents]_vars
=============================================================================
