-------------------------- MODULE NodeQueueProofs --------------------------
(***************************************************************************)
(* Proofs about the list of NodeQueue under the two locks of GammaQueue    *)
(* and BetaQueue, for every set of threads, items and nodes, and under no  *)
(* lock for the two threads of AlphaQueue.                                 *)
(*                                                                         *)
(* The memory is a graph of pointers; the history variable list says which *)
(* path in it is the queue, so that nothing here follows a pointer more    *)
(* than once.  NodeInv is what each access keeps, given that one thread at *)
(* most is at each end (Exclusive); the queues differ only in why that     *)
(* is so.                                                                  *)
(*                                                                         *)
(* The theorems assume Ordered: with the stores of a push reordered they   *)
(* do not hold (run alpha_weak).                                           *)
(***************************************************************************)
EXTENDS GammaQueue, TLAPS

CONSTANTS
  Pusher, Popper   \* the two threads of AlphaQueue

Alpha == INSTANCE AlphaQueue

-----------------------------------------------------------------------------
(* Sequences. *)

LEMMA AppendFacts ==
  ASSUME NEW S, NEW s \in Seq(S), NEW x \in S
  PROVE  /\ Append(s, x) \in Seq(S)
         /\ Len(s) \in Nat /\ DOMAIN s = 1..Len(s)
         /\ Len(Append(s, x)) = Len(s) + 1
         /\ DOMAIN Append(s, x) = 1..(Len(s) + 1)
         /\ \A i \in 1..Len(s) : Append(s, x)[i] = s[i]
         /\ Append(s, x)[Len(s) + 1] = x
OBVIOUS

LEMMA TailFacts ==
  ASSUME NEW S, NEW s \in Seq(S), s # <<>>
  PROVE  /\ Tail(s) \in Seq(S)
         /\ Len(s) \in Nat \ {0} /\ DOMAIN s = 1..Len(s)
         /\ Len(Tail(s)) = Len(s) - 1
         /\ DOMAIN Tail(s) = 1..(Len(s) - 1)
         /\ \A i \in 1..(Len(s) - 1) : Tail(s)[i] = s[i + 1]
         /\ Head(s) = s[1]
OBVIOUS

\* The index after i, in a sequence and in its tail.
LEMMA NextIndex ==
  ASSUME NEW n \in Nat, NEW i \in 1..(n - 1)
  PROVE  /\ i + 1 \in 1..n /\ i + 1 # 1
         /\ i + 1 = n <=> i = n - 1
         /\ i # n - 1 => i + 1 \in 1..(n - 1)
OBVIOUS

LEMMA AppendElements ==
  ASSUME NEW S, NEW s \in Seq(S), NEW x \in S
  PROVE  Elements(Append(s, x)) = Elements(s) \cup {x}
BY AppendFacts DEF Elements

LEMMA TailElements ==
  ASSUME NEW S, NEW s \in Seq(S), s # <<>>,
         \A i, j \in DOMAIN s : s[i] = s[j] => i = j
  PROVE  Elements(Tail(s)) = Elements(s) \ {s[1]}
<1>1. \A i \in 2..Len(s) : s[i] # s[1]
  BY TailFacts
<1>2. \A i \in 2..Len(s) : s[i] = Tail(s)[i - 1]
  BY TailFacts
<1>3. \A i \in 1..(Len(s) - 1) : Tail(s)[i] \in Elements(s) \ {s[1]}
  BY <1>1, TailFacts DEF Elements
<1>4. \A i \in 1..Len(s) : s[i] # s[1] => \E j \in 1..(Len(s) - 1) : s[i] = Tail(s)[j]
  BY <1>2, TailFacts
<1>5. Elements(Tail(s)) = {Tail(s)[i] : i \in 1..(Len(s) - 1)}
  BY TailFacts DEF Elements
<1>6. Elements(s) = {s[i] : i \in 1..Len(s)}
  BY TailFacts DEF Elements
<1>7. Elements(Tail(s)) \subseteq Elements(s) \ {s[1]}
  BY <1>3, <1>5
<1>8. Elements(s) \ {s[1]} \subseteq Elements(Tail(s))
  BY <1>4, <1>5, <1>6
<1> QED BY <1>7, <1>8

-----------------------------------------------------------------------------
(* The inductive invariant *)

\* What a push has still to store.
AllStores == <<"item", "link", "tail">>
LinkAndTail == <<"link", "tail">>
OnlyTail == <<"tail">>

PushLabels == {"alloc", "lock_tail", "write", "unlock_tail", "broadcast"}
PopLabels == {"lock_head", "look", "wait", "parked", "take", "unlock_empty",
              "unlock_taken", "free_temp"}
TakenLabels == {"unlock_taken", "free_temp"}
DoneLabels == {"return", "unlock_empty", "unlock_taken", "free_temp"}

\* Labels, locals and calls of t go together.
CallOK(t) ==
  /\ pc[t] = "idle" <=> op[t] = "none"
  /\ pc[t] = "free_list" <=> op[t] = "free"
  /\ pc[t] \in PushLabels => op[t] = "push"
  /\ pc[t] \in PopLabels => op[t] \in {"pop", "try_pop"}
  /\ IF op[t] = "push" THEN arg[t] \in Items ELSE arg[t] = Null
  /\ \/ todo[t] \in {AllStores, LinkAndTail} /\ pc[t] \in {"lock_tail", "write"}
     \/ todo[t] = OnlyTail /\ pc[t] = "write"
     \/ todo[t] = <<>> /\ pc[t] \notin {"lock_tail", "write"}
  /\ node[t] # Null <=> todo[t] # <<>> \/ pc[t] \in TakenLabels
  /\ op[t] = "push" =>
       (rv[t] = Null <=> pc[t] = "alloc" \/ todo[t] \in {AllStores, LinkAndTail})
  /\ op[t] # "push" /\ pc[t] \notin DoneLabels => rv[t] = Null

CallsInv == \A t \in Threads : CallOK(t)

\* A free has the queue to itself, and nobody comes back after it.
FreeInv ==
  /\ freed => \A t \in Threads : op[t] = "none"
  /\ \A t, u \in Threads : op[t] = "free" /\ u # t => op[u] = "none"

\* ListIntact, and where head, tail and a pop's next step stand in the list.
ShapeInv ==
  /\ \A i, j \in DOMAIN list : list[i] = list[j] => i = j
  /\ \A i \in DOMAIN list :
       next[list[i]] = IF i = Len(list) THEN Null ELSE list[i + 1]
  /\ head = IF list = <<>> THEN Null ELSE list[1]
  /\ ~Freeing =>
       /\ Len(list) = Len(queued) + 1
       /\ \A i \in DOMAIN queued : item[list[i + 1]] = queued[i]
       /\ (\A t \in Threads : todo[t] # OnlyTail) => tail = list[Len(list)]
  /\ \A t \in Threads : todo[t] = OnlyTail => node[t] = list[Len(list)]
  /\ \A t \in Threads : pc[t] = "take" => queued # <<>>
  /\ freed => list = <<>>

HeldNodes == {node[t] : t \in Threads} \ {Null}

\* NothingLeaked, and what is in the nodes that are to be linked.
HoldInv ==
  /\ \A t, u \in Threads : node[t] = node[u] /\ node[t] # Null => t = u
  /\ \A t \in Threads :
       node[t] # Null => (node[t] \in Elements(list) <=> todo[t] = OnlyTail)
  /\ heap = Elements(list) \cup HeldNodes
  /\ \A t \in Threads :
       /\ todo[t] \in {AllStores, LinkAndTail} => next[node[t]] = Null
       /\ todo[t] = LinkAndTail => item[node[t]] = arg[t]

Typed == DataTypeOK /\ pc \in [Threads -> PCs]

NodeInv == Typed /\ CallsInv /\ FreeInv /\ ShapeInv /\ HoldInv

\* One thread at most writes at tail, and one at most reads at head.
Exclusive ==
  /\ \A t, u \in Threads : pc[t] = "write" /\ pc[u] = "write" => t = u
  /\ \A t, u \in Threads :
       pc[t] \in {"look", "take"} /\ pc[u] \in {"look", "take"} => t = u

-----------------------------------------------------------------------------
\* Which store comes next.
LEMMA Stores ==
  /\ Head(AllStores) = "item" /\ Tail(AllStores) = LinkAndTail
  /\ Head(LinkAndTail) = "link" /\ Tail(LinkAndTail) = OnlyTail
  /\ Head(OnlyTail) = "tail" /\ Tail(OnlyTail) = <<>>
  /\ AllStores # LinkAndTail /\ AllStores # OnlyTail /\ LinkAndTail # OnlyTail
  /\ <<>> \notin {AllStores, LinkAndTail, OnlyTail}
  /\ {<<>>, AllStores, LinkAndTail, OnlyTail} \subseteq Seq({"item", "link", "tail"})
BY DEF AllStores, LinkAndTail, OnlyTail

-----------------------------------------------------------------------------
\* Only t moves.
Others(t) ==
  \A u \in Threads \ {t} :
    /\ pc'[u] = pc[u] /\ op'[u] = op[u] /\ arg'[u] = arg[u]
    /\ node'[u] = node[u] /\ rv'[u] = rv[u] /\ todo'[u] = todo[u]

LEMMA OneMoves ==
  ASSUME NEW t \in Threads, CallsInv, Others(t), CallOK(t)'
  PROVE  CallsInv'
<1> SUFFICES ASSUME NEW u \in Threads PROVE CallOK(u)'
  BY DEF CallsInv
<1>1. CASE u = t
  BY <1>1
<1>2. CASE u # t
  <2>1. CallOK(u)
    BY DEF CallsInv
  <2> QED BY <1>2, <2>1 DEF CallOK, Others
<1> QED BY <1>1, <1>2

LEMMA SameCalls ==
  ASSUME FreeInv, op' = op, freed' = freed
  PROVE  FreeInv'
BY DEF FreeInv

\* Steps that leave the list alone.
LEMMA SameList ==
  ASSUME ShapeInv, HoldInv,
         memory' = memory, head' = head, tail' = tail, node' = node, todo' = todo,
         list' = list, queued' = queued, freed' = freed,
         Freeing => Freeing',
         \A t \in Threads : pc'[t] = "take" => queued # <<>>,
         \A t \in Threads : todo[t] = LinkAndTail => arg'[t] = arg[t]
  PROVE  ShapeInv' /\ HoldInv'
<1>1. next' = next /\ item' = item /\ heap' = heap
  BY DEF memory
<1>2. ShapeInv'
  BY <1>1 DEF ShapeInv
<1>3. HoldInv'
  BY <1>1 DEF HoldInv, HeldNodes, Elements
<1> QED BY <1>2, <1>3

\* What each call brings along.
Brought(o, x, label) ==
  \/ o = "push" /\ x \in Items /\ label = "alloc"
  \/ o \in {"pop", "try_pop"} /\ x = Null /\ label \in {"lock_head", "look"}
  \/ o = "free" /\ x = Null /\ label = "free_list"

\* Each access keeps NodeInv.  A call finds the locals cleared.
LEMMA CallStep ==
  ASSUME NodeInv, NEW t \in Threads, NEW o, NEW x, NEW label, Brought(o, x, label),
         Call(t, o, x, label)
  PROVE  NodeInv'
<1> USE DEF Call, Goto, At
<1>0. Typed /\ CallsInv /\ FreeInv /\ ShapeInv /\ HoldInv /\ CallOK(t)
  BY DEF NodeInv, CallsInv
<1>1. /\ pc[t] = "idle" /\ op[t] = "none"
      /\ todo[t] = <<>> /\ rv[t] = Null /\ node[t] = Null
      /\ pc'[t] = label /\ op'[t] = o /\ arg'[t] = x
      /\ todo' = todo /\ node' = node /\ rv' = rv
  BY <1>0, Stores
  DEF CallOK, Typed, DataTypeOK, PushLabels, PopLabels, TakenLabels, DoneLabels
<1>2. Others(t)
  BY <1>0 DEF Typed, DataTypeOK, Others
<1>3. Typed'
  <2>1. pc' \in [Threads -> PCs]
    BY <1>0 DEF Typed, PCs, Brought
  <2>2. op' \in [Threads -> {"none", "push", "pop", "try_pop", "free"}]
    BY <1>0 DEF Typed, DataTypeOK, Brought
  <2>3. arg' \in [Threads -> Items \cup {Null}]
    BY <1>0 DEF Typed, DataTypeOK, Brought
  <2> QED BY <1>0, <2>1, <2>2, <2>3 DEF Typed, DataTypeOK, memory, history
<1>4. CallOK(t)'
  BY <1>1, Stores DEF CallOK, Brought, PushLabels, PopLabels, TakenLabels, DoneLabels
<1>5. FreeInv'
  <2>1. ~freed /\ ~freed'
    OBVIOUS
  <2>2. \A u \in Threads : op[u] # "free" /\ (o = "free" => op[u] = "none")
    BY <1>0 DEF CallsInv, CallOK
  <2> QED BY <1>1, <1>2, <2>1, <2>2 DEF FreeInv, Others
<1>6. \A u \in Threads : pc'[u] = "take" => queued # <<>>
  BY <1>0, <1>1, <1>2 DEF ShapeInv, Others, Brought
<1>7. \A u \in Threads : todo[u] = LinkAndTail => arg'[u] = arg[u]
  BY <1>1, <1>2, Stores DEF Others
<1>8. ShapeInv' /\ HoldInv'
  <2>1. ~Freeing
    BY DEF Freeing
  <2> QED BY <1>0, <1>6, <1>7, <2>1, SameList DEF memory, history
<1> QED BY <1>0, <1>2, <1>3, <1>4, <1>5, <1>8, OneMoves DEF NodeInv

LEMMA ReturnStep ==
  ASSUME NodeInv, NEW t \in Threads, Return(t)
  PROVE  NodeInv'
<1> USE DEF Return, LeaveCall, Goto, At
<1>0. Typed /\ CallsInv /\ FreeInv /\ ShapeInv /\ HoldInv /\ CallOK(t)
  BY DEF NodeInv, CallsInv
<1>1. /\ pc[t] = "return" /\ op[t] \notin {"none", "free"}
      /\ todo[t] = <<>> /\ node[t] = Null
      /\ pc'[t] = "idle" /\ op'[t] = "none" /\ arg'[t] = Null /\ rv'[t] = Null
      /\ todo' = todo /\ node' = node
  BY <1>0, Stores
  DEF CallOK, Typed, DataTypeOK, PushLabels, PopLabels, TakenLabels, DoneLabels
<1>2. Others(t)
  BY <1>0 DEF Typed, DataTypeOK, Others
<1>3. Typed'
  BY <1>0 DEF Typed, DataTypeOK, memory, history, PCs
<1>4. CallOK(t)'
  BY <1>1, Stores DEF CallOK, PushLabels, PopLabels, TakenLabels, DoneLabels
<1>5. FreeInv'
  BY <1>0, <1>1, <1>2 DEF FreeInv, Others
<1>6. \A u \in Threads : pc'[u] = "take" => queued # <<>>
  BY <1>0, <1>1, <1>2 DEF ShapeInv, Others
<1>7. \A u \in Threads : todo[u] = LinkAndTail => arg'[u] = arg[u]
  BY <1>1, <1>2, Stores DEF Others
<1>8. ShapeInv' /\ HoldInv'
  <2>1. Freeing => Freeing'
    BY <1>1, <1>2 DEF Freeing, Others
  <2> QED BY <1>0, <1>6, <1>7, <2>1, SameList DEF memory, history
<1> QED BY <1>0, <1>2, <1>3, <1>4, <1>5, <1>8, OneMoves DEF NodeInv

\* Where a thread may go without touching the list.
Moves == {<<"lock_tail", "write">>,
          <<"unlock_tail", "broadcast">>, <<"unlock_tail", "return">>,
          <<"lock_head", "look">>, <<"wait", "parked">>, <<"parked", "lock_head">>,
          <<"look", "wait">>, <<"look", "return">>, <<"look", "unlock_empty">>,
          <<"look", "take">>,
          <<"unlock_empty", "return">>, <<"unlock_taken", "free_temp">>}

LEMMA MoveStep ==
  ASSUME NodeInv, NEW t \in Threads, NEW from, NEW to, <<from, to>> \in Moves,
         Move(t, from, to), to = "take" => queued # <<>>
  PROVE  NodeInv'
<1> USE DEF Move, Goto, At
<1>0. Typed /\ CallsInv /\ FreeInv /\ ShapeInv /\ HoldInv /\ CallOK(t)
  BY DEF NodeInv, CallsInv
<1>1. /\ pc[t] = from /\ pc'[t] = to
      /\ todo' = todo /\ node' = node /\ op' = op /\ arg' = arg /\ rv' = rv
  BY <1>0 DEF Typed, call
<1>2. Others(t)
  BY <1>0, <1>1 DEF Typed, Others
<1>3. Typed'
  <2>1. pc' \in [Threads -> PCs]
    BY <1>0 DEF Typed, PCs, Moves
  <2> QED BY <1>0, <1>1, <2>1 DEF Typed, DataTypeOK, memory, history
<1>4. CallOK(t)'
  BY <1>0, <1>1, Stores DEF CallOK, Moves, PushLabels, PopLabels, TakenLabels, DoneLabels
<1>5. FreeInv'
  BY <1>0, <1>1, SameCalls
<1>6. \A u \in Threads : pc'[u] = "take" => queued # <<>>
  BY <1>0, <1>1, <1>2 DEF ShapeInv, Others
<1>8. ShapeInv' /\ HoldInv'
  <2>1. Freeing => Freeing'
    BY <1>1 DEF Freeing
  <2> QED BY <1>0, <1>1, <1>6, <2>1, SameList DEF memory, history
<1> QED BY <1>0, <1>2, <1>3, <1>4, <1>5, <1>8, OneMoves DEF NodeInv

LEMMA BroadcastStep ==
  ASSUME NodeInv, NEW t \in Threads, Broadcast(t)
  PROVE  NodeInv'
<1> USE DEF Broadcast, Woken, At
<1>0. Typed /\ CallsInv /\ FreeInv /\ ShapeInv /\ HoldInv /\ CallOK(t)
  BY DEF NodeInv, CallsInv
<1>1. /\ todo' = todo /\ node' = node /\ op' = op /\ arg' = arg /\ rv' = rv
      /\ pc[t] = "broadcast" /\ pc'[t] = "return"
      /\ \A u \in Threads \ {t} : pc'[u] = IF pc[u] = "parked" THEN "lock_head" ELSE pc[u]
  BY <1>0 DEF Typed, call
<1>2. Typed'
  <2>1. pc' \in [Threads -> PCs]
    BY <1>0 DEF Typed, PCs
  <2> QED BY <1>0, <1>1, <2>1 DEF Typed, DataTypeOK, memory, history
<1>3. CallsInv'
  <2> SUFFICES ASSUME NEW u \in Threads PROVE CallOK(u)'
    BY DEF CallsInv
  <2>1. CallOK(u) /\ todo'[u] = todo[u] /\ node'[u] = node[u] /\ op'[u] = op[u]
        /\ arg'[u] = arg[u] /\ rv'[u] = rv[u]
    BY <1>0, <1>1 DEF CallsInv
  <2>2. \/ pc'[u] = pc[u]
        \/ pc[u] = "broadcast" /\ pc'[u] = "return"
        \/ pc[u] = "parked" /\ pc'[u] = "lock_head"
    BY <1>1
  <2>3. CASE pc'[u] = pc[u]
    BY <2>1, <2>3 DEF CallOK
  <2>4. CASE pc[u] = "broadcast" /\ pc'[u] = "return"
    BY <2>1, <2>4 DEF CallOK, PushLabels, PopLabels, TakenLabels, DoneLabels
  <2>5. CASE pc[u] = "parked" /\ pc'[u] = "lock_head"
    BY <2>1, <2>5 DEF CallOK, PushLabels, PopLabels, TakenLabels, DoneLabels
  <2> QED BY <2>2, <2>3, <2>4, <2>5
<1>4. FreeInv'
  BY <1>0, <1>1, SameCalls
<1>5. \A u \in Threads : pc'[u] = "take" => queued # <<>>
  BY <1>0, <1>1 DEF ShapeInv
<1>6. ShapeInv' /\ HoldInv'
  <2>1. Freeing => Freeing'
    BY <1>1 DEF Freeing
  <2> QED BY <1>0, <1>1, <1>5, <2>1, SameList DEF memory, history
<1> QED BY <1>2, <1>3, <1>4, <1>6 DEF NodeInv

\* A thread in a push or a pop: nobody is freeing, and the dummy is there.
LEMMA InUse ==
  ASSUME NodeInv, NEW t \in Threads, op[t] \in {"push", "pop", "try_pop"}
  PROVE  /\ ~Freeing
         /\ Len(list) = Len(queued) + 1 /\ list # <<>> /\ head = list[1]
         /\ Len(list) \in Nat /\ Len(queued) \in Nat
         /\ DOMAIN list = 1..Len(list) /\ DOMAIN queued = 1..Len(queued)
<1>0. Typed /\ FreeInv /\ ShapeInv
  BY DEF NodeInv
<1>1. ~Freeing
  BY <1>0 DEF FreeInv, Freeing
<1>2. Len(list) = Len(queued) + 1
  BY <1>0, <1>1 DEF ShapeInv
<1>3. /\ Len(list) \in Nat /\ Len(queued) \in Nat
      /\ DOMAIN list = 1..Len(list) /\ DOMAIN queued = 1..Len(queued)
  BY <1>0 DEF Typed, DataTypeOK
<1>4. list # <<>>
  BY <1>2, <1>3
<1> QED BY <1>0, <1>1, <1>2, <1>3, <1>4 DEF ShapeInv

\* The node behind the dummy is there when its link is.
LEMMA SeenFull ==
  ASSUME NodeInv, NEW t \in Threads, op[t] \in {"pop", "try_pop"}
  PROVE  next[head] = Null <=> queued = <<>>
<1>0. Typed /\ ShapeInv
  BY DEF NodeInv
<1>1. /\ Len(list) = Len(queued) + 1 /\ head = list[1] /\ 1 \in DOMAIN list
      /\ Len(list) \in Nat /\ Len(queued) \in Nat
      /\ Len(list) > 1 => 2 \in DOMAIN list
  BY InUse
<1>2. next[list[1]] = IF 1 = Len(list) THEN Null ELSE list[1 + 1]
  BY <1>0, <1>1 DEF ShapeInv
<1>3. Len(list) > 1 => list[2] \in Nodes
  BY <1>0, <1>1 DEF Typed, DataTypeOK
<1>4. Len(list) = 1 <=> queued = <<>>
  BY <1>0, <1>1 DEF Typed, DataTypeOK
<1> QED BY <1>1, <1>2, <1>3, <1>4, NodesAssumption

LEMMA LookEmptyStep ==
  ASSUME NodeInv, NEW t \in Threads,
         NEW label, label \in {"wait", "return", "unlock_empty"},
         LookEmpty(t, label)
  PROVE  NodeInv'
BY MoveStep DEF LookEmpty, Move, Moves

LEMMA LookFullStep ==
  ASSUME NodeInv, NEW t \in Threads, LookFull(t)
  PROVE  NodeInv'
<1>1. op[t] \in {"pop", "try_pop"}
  BY DEF NodeInv, CallsInv, CallOK, LookFull, At, PopLabels
<1>2. queued # <<>>
  BY <1>1, SeenFull DEF LookFull
<1> QED BY <1>2, MoveStep DEF LookFull, Move, Moves

\* calloc may return the node that a pop has freed; it is in nobody's hands.
LEMMA AllocStep ==
  ASSUME NodeInv, Ordered, NEW t \in Threads, NEW ok, ok \in {"lock_tail", "write"},
         Alloc(t, ok, "return")
  PROVE  NodeInv'
<1> USE DEF Goto, At
<1>0. Typed /\ CallsInv /\ FreeInv /\ ShapeInv /\ HoldInv /\ CallOK(t)
  BY DEF NodeInv, CallsInv
<1>1. /\ pc[t] = "alloc" /\ op[t] = "push"
      /\ todo[t] = <<>> /\ node[t] = Null /\ rv[t] = Null
      /\ op' = op /\ arg' = arg /\ head' = head /\ tail' = tail /\ list' = list
      /\ queued' = queued /\ freed' = freed
  BY <1>0, Stores
  DEF Alloc, CallOK, PushLabels, PopLabels, TakenLabels, DoneLabels, call, history
<1>2. FreeInv'
  BY <1>0, <1>1, SameCalls
<1>3. ASSUME rv' = [rv EXCEPT ![t] = 0], pc' = [pc EXCEPT ![t] = "return"],
             UNCHANGED <<memory, node, todo>>
      PROVE  NodeInv'
  <2>1. pc'[t] = "return" /\ rv'[t] = 0 /\ node' = node /\ todo' = todo
    BY <1>0, <1>3 DEF Typed, DataTypeOK
  <2>2. Others(t)
    BY <1>0, <1>1, <1>3 DEF Typed, DataTypeOK, Others
  <2>3. Typed'
    <3>1. pc' \in [Threads -> PCs]
      BY <1>0, <1>3 DEF Typed, PCs
    <3> QED BY <1>0, <1>1, <1>3, <3>1 DEF Typed, DataTypeOK, memory
  <2>4. CallOK(t)'
    BY <1>0, <1>1, <2>1, Stores, ResultsAssumption
    DEF CallOK, PushLabels, PopLabels, TakenLabels, DoneLabels
  <2>5. \A u \in Threads : pc'[u] = "take" => queued # <<>>
    BY <1>0, <2>1, <2>2 DEF ShapeInv, Others
  <2>6. ShapeInv' /\ HoldInv'
    <3>1. Freeing => Freeing'
      BY <1>1 DEF Freeing
    <3> QED BY <1>0, <1>1, <1>3, <2>5, <3>1, SameList
  <2> QED BY <1>0, <1>2, <2>2, <2>3, <2>4, <2>6, OneMoves DEF NodeInv
<1>4. ASSUME NEW n \in Nodes \ heap,
             heap' = heap \cup {n},
             next' = [next EXCEPT ![n] = Null],
             item' = [item EXCEPT ![n] = Null],
             node' = [node EXCEPT ![t] = n],
             todo' = [todo EXCEPT ![t] = AllStores],
             pc' = [pc EXCEPT ![t] = ok],
             rv' = rv
      PROVE  NodeInv'
  <2>1. /\ pc'[t] = ok /\ node'[t] = n /\ todo'[t] = AllStores /\ n # Null
    BY <1>0, <1>4, NodesAssumption DEF Typed, DataTypeOK
  <2>2. Others(t)
    BY <1>0, <1>1, <1>4 DEF Typed, DataTypeOK, Others
  <2>3. Typed'
    <3>1. pc' \in [Threads -> PCs]
      BY <1>0, <1>4 DEF Typed, PCs
    <3>2. todo' \in [Threads -> Seq({"item", "link", "tail"})]
      BY <1>0, <1>4, Stores DEF Typed, DataTypeOK
    <3> QED BY <1>0, <1>1, <1>4, <3>1, <3>2 DEF Typed, DataTypeOK
  <2>4. CallOK(t)'
    BY <1>0, <1>1, <1>4, <2>1, Stores
    DEF CallOK, PushLabels, PopLabels, TakenLabels, DoneLabels
  <2>5. n \notin Elements(list) /\ \A u \in Threads : node[u] # n
    BY <1>0, <1>4, <2>1 DEF HoldInv, HeldNodes
  <2>6. \A i \in DOMAIN list :
            list[i] # n /\ next'[list[i]] = next[list[i]] /\ item'[list[i]] = item[list[i]]
    BY <1>0, <1>4, <2>5 DEF Elements, Typed, DataTypeOK
  <2>7. ShapeInv'
    <3>1. Freeing' <=> Freeing
      BY <1>1 DEF Freeing
    <3>2. \A u \in Threads : todo'[u] = OnlyTail <=> todo[u] = OnlyTail
      BY <1>1, <2>1, <2>2, Stores DEF Others
    <3>3. \A u \in Threads : todo[u] = OnlyTail => node'[u] = node[u]
      BY <1>1, <2>2, Stores DEF Others
    <3>4. \A u \in Threads : pc'[u] = "take" => pc[u] = "take"
      BY <2>1, <2>2 DEF Others
    <3>5. \A i \in DOMAIN list :
              next'[list[i]] = IF i = Len(list) THEN Null ELSE list[i + 1]
      BY <1>0, <2>6 DEF ShapeInv
    <3>6. ~Freeing => \A i \in DOMAIN queued : item'[list[i + 1]] = queued[i]
      <4> SUFFICES ASSUME ~Freeing, NEW i \in DOMAIN queued
                  PROVE  item'[list[i + 1]] = queued[i]
        OBVIOUS
      <4>1. i + 1 \in DOMAIN list
        BY <1>0, <1>1, InUse
      <4> QED BY <1>0, <2>6, <4>1 DEF ShapeInv
    <3> QED BY <1>0, <1>1, <3>1, <3>2, <3>3, <3>4, <3>5, <3>6 DEF ShapeInv
  <2>8. HoldInv'
    <3>1. \A u, v \in Threads : node'[u] = node'[v] /\ node'[u] # Null => u = v
      BY <1>0, <2>1, <2>2, <2>5 DEF HoldInv, Others
    <3>2. \A u \in Threads :
              node'[u] # Null => (node'[u] \in Elements(list) <=> todo'[u] = OnlyTail)
      BY <1>0, <2>1, <2>2, <2>5, Stores DEF HoldInv, Others
    <3>3. HeldNodes' = HeldNodes \cup {n}
      BY <1>0, <1>1, <2>1, <2>2 DEF HeldNodes, Others
    <3>4. heap' = Elements(list) \cup HeldNodes'
      BY <1>0, <1>4, <3>3 DEF HoldInv
    <3>5. next'[n] = Null
      BY <1>0, <1>4 DEF Typed, DataTypeOK
    <3>6. \A u \in Threads \ {t} :
              node[u] \in Nodes =>
                next'[node[u]] = next[node[u]] /\ item'[node[u]] = item[node[u]]
      BY <1>0, <1>4, <2>5 DEF Typed, DataTypeOK
    <3>7. \A u \in Threads \ {t} : todo[u] # <<>> => node[u] \in Nodes
      BY <1>0 DEF Typed, DataTypeOK, CallsInv, CallOK
    <3>8. \A u \in Threads :
            /\ todo'[u] \in {AllStores, LinkAndTail} => next'[node'[u]] = Null
            /\ todo'[u] = LinkAndTail => item'[node'[u]] = arg'[u]
      BY <1>0, <1>1, <2>1, <2>2, <3>5, <3>6, <3>7, Stores DEF HoldInv, Others
    <3> QED BY <1>1, <3>1, <3>2, <3>4, <3>8 DEF HoldInv, Elements
  <2> QED BY <1>0, <1>2, <2>2, <2>3, <2>4, <2>7, <2>8, OneMoves DEF NodeInv
<1> QED BY <1>3, <1>4 DEF Alloc, StoreOrders, AllStores

LEMMA StoreItemStep ==
  ASSUME NodeInv, NEW t \in Threads, StoreItem(t)
  PROVE  NodeInv'
<1> USE DEF At
<1>0. Typed /\ CallsInv /\ FreeInv /\ ShapeInv /\ HoldInv /\ CallOK(t)
  BY DEF NodeInv, CallsInv
<1>1. /\ pc[t] \in {"lock_tail", "write"} /\ todo[t] = AllStores /\ op[t] = "push"
      /\ item' = [item EXCEPT ![node[t]] = arg[t]]
      /\ todo' = [todo EXCEPT ![t] = LinkAndTail]
      /\ UNCHANGED <<next, heap, head, tail, pc, op, arg, node, rv, freed, list, queued>>
  BY <1>0, Stores DEF StoreItem, Store, CallOK, PushLabels, call, history
<1>2. Others(t) /\ todo'[t] = LinkAndTail /\ node[t] \in Nodes
  BY <1>0, <1>1, Stores DEF Typed, DataTypeOK, Others, CallOK
<1>3. Typed'
  BY <1>0, <1>1, Stores DEF Typed, DataTypeOK
<1>4. CallOK(t)'
  BY <1>0, <1>1, <1>2, Stores DEF CallOK
<1>5. FreeInv'
  BY <1>0, <1>1, SameCalls
<1>6. node[t] \notin Elements(list)
  BY <1>0, <1>1, <1>2, Stores, NodesAssumption DEF HoldInv
<1>7. \A i \in DOMAIN list : item'[list[i]] = item[list[i]]
  BY <1>0, <1>1, <1>6 DEF Elements, Typed, DataTypeOK
<1>8. ShapeInv'
  <2>1. Freeing' <=> Freeing
    BY <1>1 DEF Freeing
  <2>2. \A u \in Threads : todo'[u] = OnlyTail <=> todo[u] = OnlyTail
    BY <1>1, <1>2, Stores DEF Others
  <2>3. ~Freeing => \A i \in DOMAIN queued : item'[list[i + 1]] = queued[i]
    <3> SUFFICES ASSUME ~Freeing, NEW i \in DOMAIN queued
                PROVE  item'[list[i + 1]] = queued[i]
      OBVIOUS
    <3>1. i + 1 \in DOMAIN list
      BY <1>0, <1>1, InUse
    <3> QED BY <1>0, <1>7, <3>1 DEF ShapeInv
  <2> QED BY <1>0, <1>1, <2>1, <2>2, <2>3 DEF ShapeInv
<1>9. HoldInv'
  <2>1. item'[node[t]] = arg[t]
    BY <1>0, <1>1, <1>2 DEF Typed, DataTypeOK
  <2>2. \A u \in Threads \ {t} : todo[u] # <<>> => node[u] \in Nodes /\ node[u] # node[t]
    BY <1>0, <1>2, NodesAssumption DEF Typed, DataTypeOK, CallsInv, CallOK, HoldInv
  <2>3. \A u \in Threads \ {t} : todo[u] # <<>> => item'[node[u]] = item[node[u]]
    BY <1>0, <1>1, <2>2 DEF Typed, DataTypeOK
  <2>4. \A u \in Threads :
          /\ todo'[u] \in {AllStores, LinkAndTail} => next[node[u]] = Null
          /\ todo'[u] = LinkAndTail => item'[node[u]] = arg[u]
    BY <1>0, <1>1, <1>2, <2>1, <2>3, Stores DEF HoldInv, Others
  <2>5. \A u \in Threads :
            node[u] # Null => (node[u] \in Elements(list) <=> todo'[u] = OnlyTail)
    BY <1>0, <1>1, <1>2, Stores DEF HoldInv, Others
  <2> QED BY <1>0, <1>1, <2>4, <2>5 DEF HoldInv, HeldNodes, Elements
<1> QED BY <1>0, <1>2, <1>3, <1>4, <1>5, <1>8, <1>9, OneMoves DEF NodeInv

\* The new node becomes the last of the list.  That tail is the last one so far
\* needs that no other push has linked its node and not yet moved tail.
LEMMA StoreLinkStep ==
  ASSUME NodeInv, Exclusive, NEW t \in Threads, StoreLink(t)
  PROVE  NodeInv'
<1> USE DEF At
<1>0. Typed /\ CallsInv /\ FreeInv /\ ShapeInv /\ HoldInv /\ CallOK(t)
  BY DEF NodeInv, CallsInv
<1>1. /\ pc[t] = "write" /\ todo[t] = LinkAndTail /\ op[t] = "push"
      /\ next' = [next EXCEPT ![tail] = node[t]] /\ rv' = [rv EXCEPT ![t] = 1]
      /\ todo' = [todo EXCEPT ![t] = OnlyTail]
      /\ list' = Append(list, node[t]) /\ queued' = Append(queued, arg[t])
      /\ UNCHANGED <<item, heap, head, tail, pc, op, arg, node, freed>>
  BY <1>0, Stores DEF StoreLink, Store, CallOK, PushLabels, call
<1>2. /\ Others(t) /\ todo'[t] = OnlyTail /\ rv'[t] = 1
      /\ node[t] \in Nodes /\ arg[t] \in Items
  BY <1>0, <1>1, Stores DEF Typed, DataTypeOK, Others, CallOK
<1>3. Typed'
  BY <1>0, <1>1, <1>2, Stores, AppendFacts DEF Typed, DataTypeOK
<1>4. CallOK(t)'
  BY <1>0, <1>1, <1>2, Stores, ResultsAssumption DEF CallOK, PushLabels, PopLabels
<1>5. FreeInv'
  BY <1>0, <1>1, SameCalls
<1>6. \A u \in Threads : todo[u] # OnlyTail
  BY <1>0, <1>1, Stores DEF Exclusive, CallsInv, CallOK
<1>7. /\ ~Freeing /\ ~Freeing'
      /\ Len(list) = Len(queued) + 1 /\ Len(list) \in Nat \ {0} /\ Len(queued) \in Nat
      /\ DOMAIN list = 1..Len(list) /\ DOMAIN queued = 1..Len(queued)
  BY <1>1, InUse DEF Freeing
<1>8. tail = list[Len(list)] /\ tail \in Elements(list)
  BY <1>0, <1>6, <1>7 DEF ShapeInv, Elements
<1>9. node[t] \notin Elements(list) /\ next[node[t]] = Null /\ item[node[t]] = arg[t]
  BY <1>0, <1>1, <1>2, Stores, NodesAssumption DEF HoldInv
<1>10. /\ Len(list') = Len(list) + 1 /\ DOMAIN list' = 1..(Len(list) + 1)
       /\ list'[Len(list) + 1] = node[t]
       /\ \A i \in 1..Len(list) : list'[i] = list[i]
       /\ Elements(list') = Elements(list) \cup {node[t]}
  BY <1>0, <1>1, <1>2, AppendFacts, AppendElements DEF Typed, DataTypeOK
<1>11. /\ Len(queued') = Len(queued) + 1 /\ DOMAIN queued' = 1..(Len(queued) + 1)
       /\ queued'[Len(queued) + 1] = arg[t]
       /\ \A i \in 1..Len(queued) : queued'[i] = queued[i]
  BY <1>0, <1>1, <1>2, AppendFacts DEF Typed, DataTypeOK
<1>12. ShapeInv'
  <2>1. \A i \in 1..Len(list) : list[i] # node[t]
    BY <1>7, <1>9 DEF Elements
  <2>2. \A i, j \in DOMAIN list' : list'[i] = list'[j] => i = j
    BY <1>0, <1>7, <1>10, <2>1 DEF ShapeInv
  <2>3. \A i \in 1..(Len(list) - 1) : list[i] # tail
    BY <1>0, <1>7, <1>8 DEF ShapeInv
  <2>4. \A i \in 1..Len(list) : list[i] \in Nodes
    BY <1>0, <1>7 DEF Typed, DataTypeOK
  <2>5. next'[tail] = node[t] /\ \A n \in Nodes \ {tail} : next'[n] = next[n]
    BY <1>0, <1>1 DEF Typed, DataTypeOK
  <2>6. next'[node[t]] = Null
    BY <1>2, <1>8, <1>9, <2>5
  <2>7. \A i \in 1..(Len(list) - 1) : next'[list[i]] = list[i + 1]
    <3> SUFFICES ASSUME NEW i \in 1..(Len(list) - 1) PROVE next'[list[i]] = list[i + 1]
      OBVIOUS
    <3>1. i \in DOMAIN list /\ i # Len(list)
      BY <1>7
    <3>2. next[list[i]] = list[i + 1]
      BY <1>0, <3>1 DEF ShapeInv
    <3> QED BY <1>7, <2>3, <2>4, <2>5, <3>2
  <2>8. \A i \in DOMAIN list' :
            next'[list'[i]] = IF i = Len(list') THEN Null ELSE list'[i + 1]
    <3> SUFFICES ASSUME NEW i \in 1..(Len(list) + 1)
                 PROVE  next'[list'[i]] = IF i = Len(list) + 1 THEN Null ELSE list'[i + 1]
      BY <1>10
    <3>1. CASE i = Len(list) + 1
      BY <1>10, <2>6, <3>1
    <3>2. CASE i = Len(list)
      BY <1>7, <1>8, <1>10, <2>5, <3>2
    <3>3. CASE i \in 1..(Len(list) - 1)
      <4>1. list'[i] = list[i] /\ list'[i + 1] = list[i + 1] /\ i # Len(list) + 1
        BY <1>7, <1>10, <3>3
      <4> QED BY <2>7, <3>3, <4>1
    <3> QED BY <1>7, <3>1, <3>2, <3>3
  <2>9. \A i \in DOMAIN queued' : item[list'[i + 1]] = queued'[i]
    <3> SUFFICES ASSUME NEW i \in 1..(Len(queued) + 1) PROVE item[list'[i + 1]] = queued'[i]
      BY <1>11
    <3>1. CASE i = Len(queued) + 1
      BY <1>7, <1>9, <1>10, <1>11, <3>1
    <3>2. CASE i \in 1..Len(queued)
      <4>1. item[list[i + 1]] = queued[i]
        BY <1>0, <1>7, <3>2 DEF ShapeInv
      <4>2. list'[i + 1] = list[i + 1]
        BY <1>7, <1>10, <3>2
      <4> QED BY <1>11, <3>2, <4>1, <4>2
    <3> QED BY <1>7, <3>1, <3>2
  <2>10. list' # <<>> /\ list # <<>> /\ queued' # <<>> /\ list'[1] = list[1]
    BY <1>7, <1>10, <1>11
  <2>11. head' = list'[1]
    BY <1>0, <1>1, <2>10 DEF ShapeInv
  <2>12. \A u \in Threads : todo'[u] = OnlyTail => node[u] = list'[Len(list')]
    BY <1>2, <1>6, <1>10 DEF Others
  <2>13. ~(freed')
    BY <1>7 DEF Freeing
  <2>14. Len(list') = Len(queued') + 1
    BY <1>7, <1>10, <1>11
  <2>15. ~(\A u \in Threads : todo'[u] # OnlyTail)
    BY <1>2
  <2> QED BY <1>1, <2>2, <2>8, <2>9, <2>10, <2>11, <2>12, <2>13, <2>14, <2>15 DEF ShapeInv
<1>13. HoldInv'
  <2>1. \A u \in Threads :
            node[u] # Null => (node[u] \in Elements(list') <=> todo'[u] = OnlyTail)
    BY <1>0, <1>2, <1>6, <1>10 DEF HoldInv, Others
  <2>2. heap' = Elements(list') \cup HeldNodes'
    <3>1. node[t] \in HeldNodes /\ HeldNodes' = HeldNodes
      BY <1>1, <1>2, NodesAssumption DEF HeldNodes
    <3> QED BY <1>0, <1>1, <1>10, <3>1 DEF HoldInv
  <2>3. \A u \in Threads : todo'[u] \in {AllStores, LinkAndTail} =>
          next'[node[u]] = Null /\ u # t /\ todo[u] = todo'[u]
    <3> SUFFICES ASSUME NEW u \in Threads, todo'[u] \in {AllStores, LinkAndTail}
                 PROVE  next'[node[u]] = Null /\ u # t /\ todo[u] = todo'[u]
      OBVIOUS
    <3>1. u # t /\ todo[u] = todo'[u]
      BY <1>2, Stores DEF Others
    <3>2. next[node[u]] = Null /\ node[u] # Null /\ node[u] \in Nodes
      BY <1>0, <3>1, Stores DEF HoldInv, CallsInv, CallOK, Typed, DataTypeOK
    <3>3. node[u] # tail
      BY <1>0, <1>6, <1>8, <3>2 DEF HoldInv
    <3> QED BY <1>0, <1>1, <3>1, <3>2, <3>3 DEF Typed, DataTypeOK
  <2>4. \A u \in Threads : todo'[u] = LinkAndTail => item[node[u]] = arg[u]
    BY <1>0, <2>3 DEF HoldInv
  <2> QED BY <1>0, <1>1, <2>1, <2>2, <2>3, <2>4 DEF HoldInv
<1> QED BY <1>0, <1>2, <1>3, <1>4, <1>5, <1>12, <1>13, OneMoves DEF NodeInv

\* tail catches up with the list.
LEMMA StoreTailStep ==
  ASSUME NodeInv, Exclusive, NEW t \in Threads,
         NEW label, label \in {"unlock_tail", "return"}, StoreTail(t, label)
  PROVE  NodeInv'
<1> USE DEF At, Goto
<1>0. Typed /\ CallsInv /\ FreeInv /\ ShapeInv /\ HoldInv /\ CallOK(t)
  BY DEF NodeInv, CallsInv
<1>1. /\ pc[t] = "write" /\ todo[t] = OnlyTail /\ op[t] = "push" /\ rv[t] # Null
      /\ tail' = node[t] /\ node' = [node EXCEPT ![t] = Null]
      /\ todo' = [todo EXCEPT ![t] = <<>>] /\ pc' = [pc EXCEPT ![t] = label]
      /\ UNCHANGED <<next, item, heap, head, op, arg, rv, freed, list, queued>>
  BY <1>0, Stores DEF StoreTail, Store, CallOK, PushLabels, PopLabels, call, memory, history
<1>2. /\ Others(t) /\ todo'[t] = <<>> /\ node'[t] = Null /\ pc'[t] = label
      /\ node[t] \in Nodes
  BY <1>0, <1>1, Stores DEF Typed, DataTypeOK, Others, CallOK
<1>3. Typed'
  <2>1. pc' \in [Threads -> PCs]
    BY <1>0, <1>1 DEF Typed, PCs
  <2>2. todo' \in [Threads -> Seq({"item", "link", "tail"})]
    BY <1>0, <1>1, Stores DEF Typed, DataTypeOK
  <2> QED BY <1>0, <1>1, <1>2, <2>1, <2>2 DEF Typed, DataTypeOK
<1>4. CallOK(t)'
  BY <1>0, <1>1, <1>2, Stores DEF CallOK, PushLabels, PopLabels, TakenLabels, DoneLabels
<1>5. FreeInv'
  BY <1>0, <1>1, SameCalls
<1>6. \A u \in Threads \ {t} : todo[u] # OnlyTail
  BY <1>0, <1>1, Stores DEF Exclusive, CallsInv, CallOK
<1>7. ShapeInv'
  <2>1. \A u \in Threads : todo'[u] # OnlyTail
    BY <1>2, <1>6, Stores DEF Others
  <2>2. tail' = list[Len(list)]
    BY <1>0, <1>1 DEF ShapeInv
  <2>3. Freeing' <=> Freeing
    BY <1>1 DEF Freeing
  <2>4. \A u \in Threads : pc'[u] = "take" => pc[u] = "take"
    BY <1>2 DEF Others
  <2> QED BY <1>0, <1>1, <2>1, <2>2, <2>3, <2>4 DEF ShapeInv
<1>8. HoldInv'
  <2>1. node[t] \in Elements(list)
    BY <1>0, <1>1, <1>2, NodesAssumption DEF HoldInv
  <2>2. HeldNodes' = HeldNodes \ {node[t]}
    BY <1>0, <1>1, <1>2 DEF HeldNodes, HoldInv, Others
  <2>3. heap = Elements(list) \cup HeldNodes'
    BY <1>0, <2>1, <2>2 DEF HoldInv
  <2>4. \A u, v \in Threads : node'[u] = node'[v] /\ node'[u] # Null => u = v
    BY <1>0, <1>2 DEF HoldInv, Others
  <2>5. \A u \in Threads :
            node'[u] # Null => (node'[u] \in Elements(list) <=> todo'[u] = OnlyTail)
    BY <1>0, <1>2 DEF HoldInv, Others
  <2>6. \A u \in Threads :
          /\ todo'[u] \in {AllStores, LinkAndTail} => next[node'[u]] = Null
          /\ todo'[u] = LinkAndTail => item[node'[u]] = arg[u]
    BY <1>0, <1>2, Stores DEF HoldInv, Others
  <2> QED BY <1>1, <2>3, <2>4, <2>5, <2>6 DEF HoldInv, Elements
<1> QED BY <1>0, <1>2, <1>3, <1>4, <1>5, <1>7, <1>8, OneMoves DEF NodeInv

\* What a pop finds when it takes an item.
LEMMA TakeFacts ==
  ASSUME NodeInv, NEW t \in Threads, At(t, "take")
  PROVE  /\ ~Freeing /\ op[t] \in {"pop", "try_pop"}
         /\ node[t] = Null /\ todo[t] = <<>> /\ rv[t] = Null
         /\ Len(list) = Len(queued) + 1 /\ Len(queued) \in Nat \ {0} /\ Len(list) \in Nat
         /\ DOMAIN list = 1..Len(list) /\ DOMAIN queued = 1..Len(queued)
         /\ head = list[1] /\ next[head] = list[2]
         /\ {head, next[head]} \subseteq Nodes
         /\ item[next[head]] = Head(queued)
<1>0. Typed /\ ShapeInv /\ CallOK(t)
  BY DEF NodeInv, CallsInv
<1>1. op[t] \in {"pop", "try_pop"} /\ node[t] = Null /\ todo[t] = <<>> /\ rv[t] = Null
  BY <1>0, Stores DEF CallOK, At, PopLabels, TakenLabels, DoneLabels
<1>2. /\ ~Freeing /\ Len(list) = Len(queued) + 1 /\ head = list[1]
      /\ Len(list) \in Nat /\ Len(queued) \in Nat
      /\ DOMAIN list = 1..Len(list) /\ DOMAIN queued = 1..Len(queued)
  BY <1>1, InUse
<1>3. queued # <<>>
  BY <1>0 DEF ShapeInv, At
<1>4. Len(queued) # 0 /\ Head(queued) = queued[1]
  BY <1>0, <1>3 DEF Typed, DataTypeOK
<1>5. 1 \in DOMAIN list /\ 2 \in DOMAIN list /\ 1 \in DOMAIN queued /\ 1 # Len(list)
  BY <1>2, <1>4
<1>6. next[list[1]] = list[2]
  BY <1>0, <1>5 DEF ShapeInv
<1>7. item[list[2]] = queued[1]
  BY <1>0, <1>2, <1>5 DEF ShapeInv
<1>8. list[1] \in Nodes /\ list[2] \in Nodes
  BY <1>0, <1>5 DEF Typed, DataTypeOK
<1> QED BY <1>1, <1>2, <1>4, <1>6, <1>7, <1>8

\* The dummy leaves the list for the hands of the pop.  The node a push has just
\* linked is never the dummy: there is another one before it.
LEMMA TakeStep ==
  ASSUME NodeInv, Exclusive, NEW t \in Threads,
         NEW label, label \in {"unlock_taken", "free_temp"}, Take(t, label)
  PROVE  NodeInv'
<1> USE DEF At, Goto
<1>0. Typed /\ CallsInv /\ FreeInv /\ ShapeInv /\ HoldInv /\ CallOK(t)
  BY DEF NodeInv, CallsInv
<1>1. /\ pc[t] = "take"
      /\ rv' = [rv EXCEPT ![t] = item[next[head]]] /\ node' = [node EXCEPT ![t] = head]
      /\ head' = next[head] /\ pc' = [pc EXCEPT ![t] = label]
      /\ list' = Tail(list) /\ queued' = Tail(queued)
      /\ UNCHANGED <<next, item, heap, tail, op, arg, todo, freed>>
  BY DEF Take, memory, call
<1>2. /\ ~Freeing /\ op[t] \in {"pop", "try_pop"}
      /\ node[t] = Null /\ todo[t] = <<>> /\ rv[t] = Null
      /\ Len(list) = Len(queued) + 1 /\ Len(queued) \in Nat \ {0} /\ Len(list) \in Nat
      /\ DOMAIN list = 1..Len(list) /\ DOMAIN queued = 1..Len(queued)
      /\ head = list[1] /\ next[head] = list[2] /\ head \in Nodes /\ next[head] \in Nodes
  BY <1>1, TakeFacts
<1>3. Others(t) /\ node'[t] = head /\ pc'[t] = label /\ head # Null
  BY <1>0, <1>1, <1>2, NodesAssumption DEF Typed, DataTypeOK, Others
<1>4. /\ list' \in Seq(Nodes)
      /\ Len(list') = Len(list) - 1 /\ DOMAIN list' = 1..(Len(list) - 1)
      /\ \A i \in 1..(Len(list) - 1) : list'[i] = list[i + 1]
      /\ queued' \in Seq(Items) /\ Len(queued') = Len(queued) - 1
      /\ DOMAIN queued' = 1..(Len(queued) - 1)
      /\ \A i \in 1..(Len(queued) - 1) : queued'[i] = queued[i + 1]
  <2>1. list # <<>> /\ queued # <<>>
    BY <1>2
  <2> QED BY <1>0, <1>1, <2>1, TailFacts DEF Typed, DataTypeOK
<1>5. Elements(list') = Elements(list) \ {head} /\ head \in Elements(list)
  <2>1. list # <<>>
    BY <1>2
  <2>2. list \in Seq(Nodes)
    BY <1>0 DEF Typed, DataTypeOK
  <2>3. \A i, j \in DOMAIN list : list[i] = list[j] => i = j
    BY <1>0 DEF ShapeInv
  <2>4. Elements(Tail(list)) = Elements(list) \ {list[1]}
    BY <2>1, <2>2, <2>3, TailElements
  <2>5. 1 \in DOMAIN list
    BY <1>2
  <2> QED BY <1>1, <1>2, <2>4, <2>5 DEF Elements
<1>6. Typed'
  <2>1. pc' \in [Threads -> PCs]
    BY <1>0, <1>1 DEF Typed, PCs
  <2>2. rv' \in [Threads -> Items \cup {Null, 0, 1}]
    BY <1>0, <1>1, <1>2 DEF Typed, DataTypeOK
  <2> QED BY <1>0, <1>1, <1>2, <1>4, <2>1, <2>2 DEF Typed, DataTypeOK
<1>7. CallOK(t)'
  BY <1>0, <1>1, <1>2, <1>3, Stores
  DEF CallOK, PushLabels, PopLabels, TakenLabels, DoneLabels
<1>8. FreeInv'
  BY <1>0, <1>1, SameCalls
<1>9. ShapeInv'
  <2>1. ~(Freeing') /\ ~(freed')
    BY <1>1, <1>2 DEF Freeing
  <2>2. \A i, j \in DOMAIN list' : list'[i] = list'[j] => i = j
    <3> SUFFICES ASSUME NEW i \in 1..(Len(list) - 1), NEW j \in 1..(Len(list) - 1),
                        list[i + 1] = list[j + 1]
                 PROVE  i = j
      BY <1>4
    <3>1. i + 1 = j + 1
      BY <1>0, <1>2 DEF ShapeInv
    <3> QED BY <3>1
  <2>3. \A i \in DOMAIN list' :
            next[list'[i]] = IF i = Len(list') THEN Null ELSE list'[i + 1]
    <3> SUFFICES ASSUME NEW i \in 1..(Len(list) - 1)
                 PROVE  next[list[i + 1]] = IF i = Len(list) - 1 THEN Null ELSE list'[i + 1]
      BY <1>4
    <3>1. i + 1 \in DOMAIN list
      BY <1>2
    <3>2. next[list[i + 1]] = IF i + 1 = Len(list) THEN Null ELSE list[(i + 1) + 1]
      BY <1>0, <3>1 DEF ShapeInv
    <3>3. /\ i + 1 = Len(list) <=> i = Len(list) - 1
          /\ i # Len(list) - 1 => list'[i + 1] = list[(i + 1) + 1]
      BY <1>2, <1>4, NextIndex
    <3> QED BY <3>2, <3>3
  <2>4. list' # <<>> /\ head' = list'[1]
    BY <1>1, <1>2, <1>4
  <2>5. Len(list') = Len(queued') + 1
    BY <1>2, <1>4
  <2>6. \A i \in DOMAIN queued' : item[list'[i + 1]] = queued'[i]
    <3> SUFFICES ASSUME NEW i \in 1..(Len(queued) - 1)
                 PROVE  item[list[(i + 1) + 1]] = queued[i + 1]
      BY <1>2, <1>4
    <3>1. i + 1 \in DOMAIN queued
      BY <1>2
    <3> QED BY <1>0, <1>2, <3>1 DEF ShapeInv
  <2>7. list'[Len(list')] = list[Len(list)]
    BY <1>2, <1>4
  <2>8. \A u \in Threads : todo[u] = OnlyTail => node'[u] = list'[Len(list')]
    BY <1>0, <1>2, <1>3, <2>7, Stores DEF ShapeInv, Others
  <2>9. (\A u \in Threads : todo[u] # OnlyTail) => tail = list'[Len(list')]
    BY <1>0, <1>2, <2>7 DEF ShapeInv
  <2>10. \A u \in Threads : pc'[u] # "take"
    BY <1>1, <1>3 DEF Exclusive, Others
  <2> QED BY <1>1, <2>1, <2>2, <2>3, <2>4, <2>5, <2>6, <2>8, <2>9, <2>10 DEF ShapeInv
<1>10. \A u \in Threads : node[u] # head
  <2> SUFFICES ASSUME NEW u \in Threads, node[u] = head PROVE FALSE
    OBVIOUS
  <2>1. todo[u] = OnlyTail
    BY <1>0, <1>3, <1>5 DEF HoldInv
  <2>2. list[1] = list[Len(list)]
    BY <1>0, <1>2, <2>1 DEF ShapeInv
  <2>3. 1 \in DOMAIN list /\ Len(list) \in DOMAIN list /\ Len(list) # 1
    BY <1>2
  <2> QED BY <1>0, <2>2, <2>3 DEF ShapeInv
<1>11. HoldInv'
  <2>1. \A u, v \in Threads : node'[u] = node'[v] /\ node'[u] # Null => u = v
    BY <1>0, <1>3, <1>10 DEF HoldInv, Others
  <2>2. \A u \in Threads :
            node'[u] # Null => (node'[u] \in Elements(list') <=> todo[u] = OnlyTail)
    BY <1>0, <1>2, <1>3, <1>5, <1>10, Stores DEF HoldInv, Others
  <2>3. HeldNodes' = HeldNodes \cup {head}
    BY <1>2, <1>3 DEF HeldNodes, Others
  <2>4. heap = Elements(list') \cup HeldNodes'
    BY <1>0, <1>5, <2>3 DEF HoldInv
  <2>5. \A u \in Threads :
          /\ todo[u] \in {AllStores, LinkAndTail} => next[node'[u]] = Null
          /\ todo[u] = LinkAndTail => item[node'[u]] = arg[u]
    BY <1>0, <1>2, <1>3, Stores DEF HoldInv, Others
  <2> QED BY <1>1, <2>1, <2>2, <2>4, <2>5 DEF HoldInv
<1> QED BY <1>0, <1>3, <1>6, <1>7, <1>8, <1>9, <1>11, OneMoves DEF NodeInv

\* The old dummy is freed; it is no longer in the list, so no push is at it.
LEMMA FreeTempStep ==
  ASSUME NodeInv, NEW t \in Threads, FreeTemp(t)
  PROVE  NodeInv'
<1> USE DEF At, Goto
<1>0. Typed /\ CallsInv /\ FreeInv /\ ShapeInv /\ HoldInv /\ CallOK(t)
  BY DEF NodeInv, CallsInv
<1>1. /\ pc[t] = "free_temp" /\ op[t] \in {"pop", "try_pop"} /\ todo[t] = <<>>
      /\ heap' = heap \ {node[t]}
      /\ next' = [next EXCEPT ![node[t]] = Null] /\ item' = [item EXCEPT ![node[t]] = Null]
      /\ node' = [node EXCEPT ![t] = Null] /\ pc' = [pc EXCEPT ![t] = "idle"]
      /\ op' = [op EXCEPT ![t] = "none"] /\ arg' = [arg EXCEPT ![t] = Null]
      /\ rv' = [rv EXCEPT ![t] = Null]
      /\ UNCHANGED <<head, tail, todo, freed, list, queued>>
  BY <1>0, Stores DEF FreeTemp, LeaveCall, Free, CallOK, PopLabels, history
<1>2. /\ Others(t) /\ node'[t] = Null /\ pc'[t] = "idle" /\ op'[t] = "none"
      /\ arg'[t] = Null /\ rv'[t] = Null
  BY <1>0, <1>1 DEF Typed, DataTypeOK, Others
<1>3. node[t] # Null /\ node[t] \in Nodes
  BY <1>0, <1>1 DEF Typed, DataTypeOK, CallOK, TakenLabels
<1>4. Typed'
  <2>1. pc' \in [Threads -> PCs]
    BY <1>0, <1>1 DEF Typed, PCs
  <2> QED BY <1>0, <1>1, <2>1 DEF Typed, DataTypeOK
<1>5. CallOK(t)'
  BY <1>1, <1>2, Stores DEF CallOK, PushLabels, PopLabels, TakenLabels, DoneLabels
<1>6. FreeInv'
  BY <1>0, <1>1, <1>2 DEF FreeInv, Others
<1>7. node[t] \notin Elements(list)
  BY <1>0, <1>1, <1>3, Stores DEF HoldInv
<1>8. \A i \in DOMAIN list :
          next'[list[i]] = next[list[i]] /\ item'[list[i]] = item[list[i]]
  BY <1>0, <1>1, <1>7 DEF Elements, Typed, DataTypeOK
<1>9. ShapeInv'
  <2>1. ~Freeing
    BY <1>1, InUse
  <2>2. \A u \in Threads : todo[u] = OnlyTail => node'[u] = node[u]
    BY <1>1, <1>2, Stores DEF Others
  <2>3. \A i \in DOMAIN list : next'[list[i]] = IF i = Len(list) THEN Null ELSE list[i + 1]
    BY <1>0, <1>8 DEF ShapeInv
  <2>4. \A i \in DOMAIN queued : item'[list[i + 1]] = queued[i]
    <3> SUFFICES ASSUME NEW i \in DOMAIN queued PROVE item'[list[i + 1]] = queued[i]
      OBVIOUS
    <3>1. i + 1 \in DOMAIN list
      BY <1>1, InUse
    <3> QED BY <1>0, <1>8, <2>1, <3>1 DEF ShapeInv
  <2>5. \A u \in Threads : pc'[u] = "take" => pc[u] = "take"
    BY <1>2 DEF Others
  <2> QED BY <1>0, <1>1, <2>1, <2>2, <2>3, <2>4, <2>5 DEF ShapeInv
<1>10. HoldInv'
  <2>1. \A u, v \in Threads : node'[u] = node'[v] /\ node'[u] # Null => u = v
    BY <1>0, <1>2 DEF HoldInv, Others
  <2>2. \A u \in Threads :
            node'[u] # Null => (node'[u] \in Elements(list) <=> todo[u] = OnlyTail)
    BY <1>0, <1>2 DEF HoldInv, Others
  <2>3. HeldNodes' = HeldNodes \ {node[t]}
    BY <1>0, <1>1, <1>2, <1>3 DEF HeldNodes, HoldInv, Others
  <2>4. heap' = Elements(list) \cup HeldNodes'
    BY <1>0, <1>1, <1>7, <2>3 DEF HoldInv
  <2>5. \A u \in Threads : todo[u] # <<>> =>
          /\ next'[node[u]] = next[node[u]] /\ item'[node[u]] = item[node[u]]
          /\ node'[u] = node[u] /\ arg'[u] = arg[u]
    <3> SUFFICES ASSUME NEW u \in Threads, todo[u] # <<>>
                 PROVE  /\ next'[node[u]] = next[node[u]] /\ item'[node[u]] = item[node[u]]
                        /\ node'[u] = node[u] /\ arg'[u] = arg[u]
      OBVIOUS
    <3>1. u # t /\ node[u] # Null /\ node[u] \in Nodes
      BY <1>0, <1>1 DEF CallsInv, CallOK, Typed, DataTypeOK
    <3>2. node[u] # node[t]
      BY <1>0, <3>1 DEF HoldInv
    <3> QED BY <1>0, <1>1, <1>2, <3>1, <3>2 DEF Typed, DataTypeOK, Others
  <2>6. \A u \in Threads :
          /\ todo[u] \in {AllStores, LinkAndTail} => next'[node'[u]] = Null
          /\ todo[u] = LinkAndTail => item'[node'[u]] = arg'[u]
    BY <1>0, <2>5, Stores DEF HoldInv
  <2>7. list' = list /\ todo' = todo
    BY <1>1
  <2> QED BY <2>1, <2>2, <2>4, <2>6, <2>7 DEF HoldInv
<1> QED BY <1>0, <1>2, <1>4, <1>5, <1>6, <1>9, <1>10, OneMoves DEF NodeInv

\* Nobody else is in a call while a free goes on, nor holds a node.
LEMMA FreeAlone ==
  ASSUME NodeInv, NEW t \in Threads, At(t, "free_list")
  PROVE  /\ op[t] = "free"
         /\ \A u \in Threads : node[u] = Null /\ todo[u] = <<>>
         /\ \A u \in Threads : pc[u] \in {"idle", "free_list"}
         /\ \A u \in Threads \ {t} : op[u] = "none"
<1>1. op[t] = "free"
  BY DEF NodeInv, CallsInv, CallOK, At
<1>2. \A u \in Threads \ {t} : op[u] = "none"
  BY <1>1 DEF NodeInv, FreeInv
<1> QED BY <1>1, <1>2, Stores
  DEF NodeInv, CallsInv, CallOK, PushLabels, PopLabels, TakenLabels, At

LEMMA FreeNodeStep ==
  ASSUME NodeInv, NEW t \in Threads, FreeNode(t)
  PROVE  NodeInv'
<1> USE DEF At
<1>0. Typed /\ CallsInv /\ FreeInv /\ ShapeInv /\ HoldInv
  BY DEF NodeInv
<1>1. /\ pc[t] = "free_list" /\ head # Null /\ heap' = heap \ {head}
      /\ next' = [next EXCEPT ![head] = Null] /\ item' = [item EXCEPT ![head] = Null]
      /\ head' = next[head] /\ list' = Tail(list)
      /\ UNCHANGED <<tail, pc, op, arg, node, rv, todo, freed, queued>>
  BY DEF FreeNode, Free, call
<1>2. /\ op[t] = "free" /\ \A u \in Threads : node[u] = Null /\ todo[u] = <<>>
      /\ \A u \in Threads : pc[u] \in {"idle", "free_list"}
  BY <1>1, FreeAlone
<1>3. list # <<>> /\ head = list[1] /\ list \in Seq(Nodes)
  BY <1>0, <1>1 DEF ShapeInv, Typed, DataTypeOK
<1>4. /\ list' \in Seq(Nodes) /\ Len(list) \in Nat \ {0} /\ DOMAIN list = 1..Len(list)
      /\ Len(list') = Len(list) - 1 /\ DOMAIN list' = 1..(Len(list) - 1)
      /\ \A i \in 1..(Len(list) - 1) : list'[i] = list[i + 1]
  BY <1>1, <1>3, TailFacts
<1>5. \A i, j \in DOMAIN list : list[i] = list[j] => i = j
  BY <1>0 DEF ShapeInv
<1>6. Elements(list') = Elements(list) \ {head}
  BY <1>1, <1>3, <1>5, TailElements
<1>7. 1 \in DOMAIN list /\ head \in Nodes
  BY <1>3, <1>4
<1>8. next[head] = IF 1 = Len(list) THEN Null ELSE list[1 + 1]
  BY <1>0, <1>3, <1>7 DEF ShapeInv
<1>9. Typed'
  <2>1. next[head] \in Nodes \cup {Null}
    BY <1>0, <1>7 DEF Typed, DataTypeOK
  <2> QED BY <1>0, <1>1, <1>4, <1>7, <2>1 DEF Typed, DataTypeOK
<1>10. CallsInv' /\ FreeInv'
  BY <1>0, <1>1 DEF CallsInv, CallOK, FreeInv
<1>11. ShapeInv'
  <2>1. \A i, j \in DOMAIN list' : list'[i] = list'[j] => i = j
    <3> SUFFICES ASSUME NEW i \in 1..(Len(list) - 1), NEW j \in 1..(Len(list) - 1),
                        list[i + 1] = list[j + 1]
                 PROVE  i = j
      BY <1>4
    <3>1. i + 1 = j + 1
      BY <1>4, <1>5
    <3> QED BY <3>1
  <2>2. \A i \in DOMAIN list' :
            next'[list'[i]] = IF i = Len(list') THEN Null ELSE list'[i + 1]
    <3> SUFFICES ASSUME NEW i \in 1..(Len(list) - 1)
                 PROVE  next'[list[i + 1]] = IF i = Len(list) - 1 THEN Null ELSE list'[i + 1]
      BY <1>4
    <3>1. i + 1 \in DOMAIN list /\ i + 1 # 1
      BY <1>4
    <3>2. next[list[i + 1]] = IF i + 1 = Len(list) THEN Null ELSE list[(i + 1) + 1]
      BY <1>0, <3>1 DEF ShapeInv
    <3>3. list[i + 1] # head /\ list[i + 1] \in Nodes
      BY <1>3, <1>5, <1>7, <3>1
    <3>4. next'[list[i + 1]] = next[list[i + 1]]
      BY <1>0, <1>1, <3>3 DEF Typed, DataTypeOK
    <3>5. /\ i + 1 = Len(list) <=> i = Len(list) - 1
          /\ i # Len(list) - 1 => list'[i + 1] = list[(i + 1) + 1]
      BY <1>4, NextIndex
    <3> QED BY <3>2, <3>4, <3>5
  <2>3. head' = IF list' = <<>> THEN Null ELSE list'[1]
    <3>1. CASE Len(list) = 1
      BY <1>1, <1>4, <1>8, <3>1
    <3>2. CASE Len(list) # 1
      <4>1. 1 \in 1..(Len(list) - 1) /\ list' # <<>>
        BY <1>4, <3>2
      <4> QED BY <1>1, <1>4, <1>8, <3>2, <4>1
    <3> QED BY <3>1, <3>2
  <2>4. Freeing'
    BY <1>1, <1>2 DEF Freeing
  <2>5. ~freed
    BY <1>0, <1>2 DEF FreeInv
  <2> QED BY <1>1, <1>2, <2>1, <2>2, <2>3, <2>4, <2>5, Stores DEF ShapeInv
<1>12. HoldInv'
  <2>1. HeldNodes = {} /\ HeldNodes' = {}
    BY <1>1, <1>2 DEF HeldNodes
  <2> QED BY <1>0, <1>1, <1>2, <1>6, <2>1, Stores DEF HoldInv
<1> QED BY <1>9, <1>10, <1>11, <1>12 DEF NodeInv

LEMMA FreeQueueStep ==
  ASSUME NodeInv, NEW t \in Threads, FreeQueue(t)
  PROVE  NodeInv'
<1> USE DEF At, Goto
<1>0. Typed /\ CallsInv /\ FreeInv /\ ShapeInv /\ HoldInv
  BY DEF NodeInv
<1>1. /\ pc[t] = "free_list" /\ head = Null /\ freed' = TRUE
      /\ pc' = [pc EXCEPT ![t] = "idle"]
      /\ op' = [op EXCEPT ![t] = "none"] /\ arg' = [arg EXCEPT ![t] = Null]
      /\ rv' = [rv EXCEPT ![t] = Null]
      /\ UNCHANGED <<next, item, heap, head, tail, node, todo, list, queued>>
  BY DEF FreeQueue, LeaveCall, memory, history
<1>2. /\ op[t] = "free" /\ \A u \in Threads : node[u] = Null /\ todo[u] = <<>>
      /\ \A u \in Threads : pc[u] \in {"idle", "free_list"}
      /\ \A u \in Threads \ {t} : op[u] = "none"
  BY <1>1, FreeAlone
<1>3. /\ Others(t) /\ pc'[t] = "idle" /\ op'[t] = "none" /\ arg'[t] = Null /\ rv'[t] = Null
  BY <1>0, <1>1 DEF Typed, DataTypeOK, Others
<1>4. Typed'
  <2>1. pc' \in [Threads -> PCs]
    BY <1>0, <1>1 DEF Typed, PCs
  <2> QED BY <1>0, <1>1, <2>1 DEF Typed, DataTypeOK
<1>5. CallOK(t)'
  BY <1>1, <1>2, <1>3, Stores DEF CallOK, PushLabels, PopLabels, TakenLabels, DoneLabels
<1>6. FreeInv'
  BY <1>2, <1>3 DEF FreeInv, Others
<1>7. list = <<>>
  <2>1. list # <<>> => list[1] \in Nodes
    BY <1>0 DEF Typed, DataTypeOK
  <2> QED BY <1>0, <1>1, <2>1, NodesAssumption DEF ShapeInv
<1>8. ShapeInv'
  <2>1. Freeing'
    BY <1>1 DEF Freeing
  <2>2. \A u \in Threads : pc'[u] # "take"
    BY <1>2, <1>3 DEF Others
  <2> QED BY <1>0, <1>1, <1>2, <1>7, <2>1, <2>2, Stores DEF ShapeInv
<1>9. HoldInv'
  BY <1>0, <1>1, <1>2, Stores DEF HoldInv, HeldNodes, Elements
<1> QED BY <1>0, <1>3, <1>4, <1>5, <1>6, <1>8, <1>9, OneMoves DEF NodeInv

-----------------------------------------------------------------------------
LEMMA NodeInvInit == Init => NodeInv
<1> SUFFICES ASSUME Init PROVE NodeInv
  OBVIOUS
<1> PICK n \in Nodes : head = n /\ tail = n /\ heap = {n} /\ list = <<n>>
  BY DEF Init
<1>1. /\ list \in Seq(Nodes) /\ Len(list) = 1 /\ DOMAIN list = {1} /\ list[1] = n
      /\ list # <<>> /\ Elements(list) = {n}
  BY DEF Elements
<1>2. \A t \in Threads : /\ pc[t] = "idle" /\ op[t] = "none" /\ arg[t] = Null
                          /\ node[t] = Null /\ rv[t] = Null /\ todo[t] = <<>>
  BY DEF Init
<1>3. /\ queued = <<>> /\ queued \in Seq(Items)
      /\ Len(queued) = 0 /\ DOMAIN queued = {} /\ ~freed
  BY DEF Init
<1>4. Typed
  <2>1. pc \in [Threads -> PCs]
    BY DEF Init, PCs
  <2>2. todo \in [Threads -> Seq({"item", "link", "tail"})]
    BY Stores DEF Init
  <2> QED BY <1>1, <1>3, <2>1, <2>2 DEF Init, Typed, DataTypeOK
<1>5. CallsInv
  BY <1>2, Stores DEF CallsInv, CallOK, PushLabels, PopLabels, TakenLabels, DoneLabels
<1>6. FreeInv
  BY <1>2, <1>3 DEF FreeInv
<1>7. ShapeInv
  <2>1. next[n] = Null
    BY DEF Init
  <2> QED BY <1>1, <1>2, <1>3, <2>1, Stores DEF ShapeInv
<1>8. HoldInv
  BY <1>1, <1>2, Stores DEF HoldInv, HeldNodes
<1> QED BY <1>4, <1>5, <1>6, <1>7, <1>8 DEF NodeInv

-----------------------------------------------------------------------------
\* The invariants that the runs check, from NodeInv.
LEMMA ListIntactFollows == NodeInv => ListIntact
<1> SUFFICES ASSUME NodeInv PROVE ListIntact
  OBVIOUS
<1>0. Typed /\ CallsInv /\ ShapeInv /\ HoldInv
  BY DEF NodeInv
<1>1. \A t \in Threads : ~Moving(t) => todo[t] # OnlyTail
  BY <1>0, Stores DEF Moving, CallsInv, CallOK, HoldInv, PushLabels
<1>2. Len(list) = Len(queued) + 1 => list # <<>>
  BY <1>0 DEF Typed, DataTypeOK
<1> QED BY <1>0, <1>1, <1>2 DEF ShapeInv, ListIntact

LEMMA NoUseAfterFreeFollows == NodeInv /\ Exclusive => NoUseAfterFree
<1> SUFFICES ASSUME NodeInv, Exclusive, NEW t \in Threads
             PROVE  /\ At(t, "write") /\ todo[t] # <<>> =>
                         CASE Head(todo[t]) = "item" -> node[t] \in heap
                           [] Head(todo[t]) = "link" -> tail \in heap
                           [] Head(todo[t]) = "tail" -> TRUE
                    /\ At(t, "lock_tail") => node[t] \in heap
                    /\ At(t, "look") => head \in heap
                    /\ At(t, "take") => {head, next[head]} \subseteq heap
                    /\ At(t, "free_temp") => node[t] \in heap
                    /\ At(t, "free_list") /\ head # Null => head \in heap
  BY DEF NoUseAfterFree
<1> USE DEF At
<1>0. Typed /\ CallsInv /\ FreeInv /\ ShapeInv /\ HoldInv /\ CallOK(t)
  BY DEF NodeInv, CallsInv
<1>1. \A i \in DOMAIN list : list[i] \in heap
  BY <1>0 DEF HoldInv, Elements
<1>2. node[t] # Null => node[t] \in heap
  BY <1>0 DEF HoldInv, HeldNodes
<1>3. ASSUME pc[t] = "write", todo[t] # <<>>
      PROVE  CASE Head(todo[t]) = "item" -> node[t] \in heap
               [] Head(todo[t]) = "link" -> tail \in heap
               [] Head(todo[t]) = "tail" -> TRUE
  <2>1. node[t] \in heap
    BY <1>0, <1>2, <1>3 DEF CallOK
  <2>2. ASSUME todo[t] = LinkAndTail PROVE tail \in heap
    <3>1. \A u \in Threads : todo[u] # OnlyTail
      BY <1>0, <1>3, <2>2, Stores DEF Exclusive, CallsInv, CallOK
    <3>2. op[t] = "push"
      BY <1>0, <1>3 DEF CallOK, PushLabels
    <3>3. tail = list[Len(list)] /\ Len(list) \in DOMAIN list
      BY <1>0, <3>1, <3>2, InUse DEF ShapeInv
    <3> QED BY <1>1, <3>3
  <2>3. todo[t] \in {AllStores, LinkAndTail, OnlyTail}
    BY <1>0, <1>3 DEF CallOK
  <2> QED BY <2>1, <2>2, <2>3, Stores
<1>4. ASSUME pc[t] \in {"look", "take"} PROVE head \in heap
  <2>1. op[t] \in {"pop", "try_pop"}
    BY <1>0, <1>4 DEF CallOK, PopLabels
  <2>2. head = list[1] /\ 1 \in DOMAIN list
    BY <2>1, InUse
  <2> QED BY <1>1, <2>2
<1>5. ASSUME pc[t] = "take" PROVE next[head] \in heap
  <2>1. next[head] = list[2] /\ 2 \in DOMAIN list
    BY <1>5, TakeFacts
  <2> QED BY <1>1, <2>1
<1>6. ASSUME pc[t] = "free_temp" PROVE node[t] \in heap
  BY <1>0, <1>2, <1>6 DEF CallOK, TakenLabels
<1>7. ASSUME head # Null PROVE head \in heap
  <2>1. list # <<>> /\ head = list[1]
    BY <1>0, <1>7 DEF ShapeInv
  <2>2. 1 \in DOMAIN list
    BY <1>0, <2>1 DEF Typed, DataTypeOK
  <2> QED BY <1>1, <2>1, <2>2
<1>8. ASSUME pc[t] = "lock_tail" PROVE node[t] \in heap
  BY <1>0, <1>2, <1>8, Stores DEF CallOK
<1> QED BY <1>3, <1>4, <1>5, <1>6, <1>7, <1>8

LEMMA NothingLeakedFollows == NodeInv => NothingLeaked
<1> SUFFICES ASSUME NodeInv PROVE NothingLeaked
  OBVIOUS
<1>0. Typed /\ CallsInv /\ FreeInv /\ ShapeInv /\ HoldInv
  BY DEF NodeInv
<1>1. \A t \in Threads : node[t] # Null => (Moving(t) <=> node[t] \in Elements(list))
  BY <1>0, Stores DEF Moving, CallsInv, CallOK, HoldInv, PushLabels
<1>2. Held = HeldNodes \ Elements(list)
  BY <1>1 DEF Held, HeldNodes
<1>3. ASSUME freed PROVE heap = {}
  <2>1. list = <<>> /\ \A t \in Threads : op[t] = "none"
    BY <1>0, <1>3 DEF ShapeInv, FreeInv
  <2>2. \A t \in Threads : node[t] = Null
    BY <1>0, <2>1, Stores DEF CallsInv, CallOK, TakenLabels
  <2> QED BY <1>0, <2>1, <2>2 DEF HoldInv, HeldNodes, Elements
<1> QED BY <1>0, <1>2, <1>3 DEF HoldInv, NothingLeaked

-----------------------------------------------------------------------------
(* What the steps are in the FIFO. *)

\* Steps in which no call begins, takes effect or ends.
LEMMA FifoSame ==
  ASSUME queued' = queued, arg' = arg, rv' = rv,
         \A t \in Threads : Done(t)' <=> Done(t),
         \A t \in Threads : op'[t] = op[t] \/ {op[t], op'[t]} = {"none", "free"}
  PROVE  UNCHANGED Fifo!vars
<1> DEFINE O == [t \in Threads |-> IF op[t] = "free" THEN "none" ELSE op[t]]
           D == [t \in Threads |-> Done(t)]
<1>1. O' = O
  <2>1. \A t \in Threads :
            (IF op[t] = "free" THEN "none" ELSE op[t])' =
              IF op[t] = "free" THEN "none" ELSE op[t]
    OBVIOUS
  <2> QED BY <2>1
<1>2. D' = D
  <2>1. \A t \in Threads : Done(t)' = Done(t)
    BY DEF Done
  <2> QED BY <2>1
<1> QED BY <1>1, <1>2 DEF Fifo!vars

\* The step in which the call of t takes effect.
LEMMA FifoCommit ==
  ASSUME NEW t \in Threads, NEW s, NEW v,
         ~Done(t), Done(t)', \A u \in Threads \ {t} : Done(u)' <=> Done(u),
         queued' = s, rv' = [rv EXCEPT ![t] = v], op' = op, arg' = arg
  PROVE  Fifo!Commit(t, s, v)
<1> DEFINE O == [u \in Threads |-> IF op[u] = "free" THEN "none" ELSE op[u]]
           D == [u \in Threads |-> Done(u)]
<1>1. O' = O
  OBVIOUS
<1>2. ~D[t] /\ D' = [D EXCEPT ![t] = TRUE]
  <2>1. Done(t)' = TRUE
    BY DEF Done
  <2>2. \A u \in Threads \ {t} : Done(u)' = Done(u)
    BY DEF Done
  <2> QED BY <2>1, <2>2
<1> QED BY <1>1, <1>2 DEF Fifo!Commit

LEMMA FifoReturn ==
  ASSUME NEW t \in Threads, op \in [Threads -> {"none", "push", "pop", "try_pop", "free"}],
         Done(t), ~Done(t)', \A u \in Threads \ {t} : Done(u)' <=> Done(u),
         queued' = queued, rv' = [rv EXCEPT ![t] = Null], op' = [op EXCEPT ![t] = "none"],
         arg' = [arg EXCEPT ![t] = Null]
  PROVE  Fifo!Next
<1> DEFINE O == [u \in Threads |-> IF op[u] = "free" THEN "none" ELSE op[u]]
           D == [u \in Threads |-> Done(u)]
<1>1. O' = [O EXCEPT ![t] = "none"]
  OBVIOUS
<1>2. D[t] /\ D' = [D EXCEPT ![t] = FALSE]
  <2>1. Done(t)' = FALSE
    BY DEF Done
  <2>2. \A u \in Threads \ {t} : Done(u)' = Done(u)
    BY DEF Done
  <2> QED BY <2>1, <2>2
<1>3. Fifo!Return(t)
  BY <1>1, <1>2 DEF Fifo!Return
<1> QED BY <1>3 DEF Fifo!Next

\* The others are where they were.
LEMMA DoneSame ==
  ASSUME NEW t \in Threads, Others(t)
  PROVE  \A u \in Threads \ {t} : Done(u)' <=> Done(u)
BY DEF Others, Done

\* A free is no call of the FIFO; any other is its invocation.
LEMMA CallInFifo ==
  ASSUME NodeInv, NEW t \in Threads, NEW o, NEW x, NEW label, Brought(o, x, label),
         Call(t, o, x, label)
  PROVE  [Fifo!Next]_Fifo!vars
<1> USE DEF Call, Goto, At
<1>0. Typed /\ CallsInv /\ CallOK(t)
  BY DEF NodeInv, CallsInv
<1>1. /\ pc[t] = "idle" /\ op[t] = "none" /\ arg[t] = Null /\ rv[t] = Null
      /\ op' = [op EXCEPT ![t] = o] /\ arg' = [arg EXCEPT ![t] = x]
      /\ pc'[t] = label /\ op'[t] = o /\ rv' = rv /\ queued' = queued
  BY <1>0, Stores DEF CallOK, Typed, DataTypeOK, DoneLabels, TakenLabels, history
<1>2. Others(t)
  BY <1>0 DEF Typed, DataTypeOK, Others
<1>3. ~Done(t) /\ ~Done(t)'
  BY <1>1 DEF Done, Brought
<1>4. \A u \in Threads : Done(u)' <=> Done(u)
  BY <1>2, <1>3, DoneSame
<1>5. CASE o = "free"
  <2>1. arg' = arg
    BY <1>0, <1>1, <1>5 DEF Brought, Typed, DataTypeOK
  <2> QED BY <1>1, <1>2, <1>4, <1>5, <2>1, FifoSame DEF Others
<1>6. CASE o # "free"
  <2> DEFINE O == [u \in Threads |-> IF op[u] = "free" THEN "none" ELSE op[u]]
             D == [u \in Threads |-> Done(u)]
  <2>1. D' = D
    <3>1. \A u \in Threads : Done(u)' = Done(u)
      BY <1>4 DEF Done
    <3> QED BY <3>1
  <2>2. O[t] = "none" /\ O' = [O EXCEPT ![t] = o]
    BY <1>0, <1>1, <1>6 DEF Typed, DataTypeOK
  <2>3. Fifo!Invoke(t, o, x)
    BY <1>1, <2>1, <2>2 DEF Fifo!Invoke
  <2> QED BY <1>6, <2>3 DEF Brought, Fifo!Next
<1> QED BY <1>5, <1>6

\* A pop that took an item returns as it frees the old dummy.
LEMMA ReturnInFifo ==
  ASSUME NodeInv, NEW t \in Threads, Return(t) \/ FreeTemp(t)
  PROVE  [Fifo!Next]_Fifo!vars
<1> USE DEF Return, FreeTemp, LeaveCall, Goto, At
<1>0. Typed /\ CallOK(t)
  BY DEF NodeInv, CallsInv
<1>1. /\ pc[t] \in {"return", "free_temp"}
      /\ todo' = todo /\ op[t] \in {"push", "pop", "try_pop"}
      /\ op' = [op EXCEPT ![t] = "none"] /\ arg' = [arg EXCEPT ![t] = Null]
      /\ rv' = [rv EXCEPT ![t] = Null] /\ queued' = queued
  BY <1>0 DEF CallOK, Typed, DataTypeOK, PopLabels, history
<1>2. Others(t) /\ op'[t] = "none"
  BY <1>0 DEF Typed, DataTypeOK, Others
<1>3. Done(t)
  <2>1. op[t] = "push" => rv[t] # Null
    BY <1>0, <1>1, Stores DEF CallOK
  <2> QED BY <1>1, <2>1 DEF Done
<1>4. ~Done(t)'
  BY <1>2 DEF Done
<1> QED BY <1>0, <1>1, <1>2, <1>3, <1>4, DoneSame, FifoReturn DEF Typed, DataTypeOK

\* A push without memory takes effect here.
LEMMA AllocInFifo ==
  ASSUME NodeInv, NEW t \in Threads, NEW ok, Alloc(t, ok, "return")
  PROVE  [Fifo!Next]_Fifo!vars
<1> USE DEF Alloc, Goto, At
<1>0. Typed /\ CallOK(t)
  BY DEF NodeInv, CallsInv
<1>1. /\ op[t] = "push" /\ rv[t] = Null /\ op' = op /\ arg' = arg /\ queued' = queued
  BY <1>0, Stores DEF CallOK, PushLabels, call, history
<1>2. Others(t)
  BY <1>0 DEF Typed, DataTypeOK, Others, call
<1>3. CASE rv' = rv
  <2>1. ~Done(t) /\ ~Done(t)'
    BY <1>1, <1>3 DEF Done
  <2> QED BY <1>1, <1>2, <1>3, <2>1, DoneSame, FifoSame
<1>4. CASE rv' = [rv EXCEPT ![t] = 0]
  <2>1. ~Done(t) /\ Done(t)'
    BY <1>0, <1>1, <1>4, ResultsAssumption DEF Done, Typed, DataTypeOK
  <2>2. Fifo!Commit(t, queued, 0)
    BY <1>1, <1>2, <1>4, <2>1, DoneSame, FifoCommit
  <2>3. Fifo!Push(t)
    BY <1>1, <2>2 DEF Fifo!Push
  <2> QED BY <2>3 DEF Fifo!Next
<1> QED BY <1>3, <1>4

\* A push that links its node takes effect: pops can see the item.
LEMMA StoreLinkInFifo ==
  ASSUME NodeInv, NEW t \in Threads, StoreLink(t)
  PROVE  [Fifo!Next]_Fifo!vars
<1> USE DEF StoreLink, Store, At
<1>0. Typed /\ CallOK(t)
  BY DEF NodeInv, CallsInv
<1>1. /\ op[t] = "push" /\ rv[t] = Null /\ op' = op /\ arg' = arg
      /\ queued' = Append(queued, arg[t]) /\ rv' = [rv EXCEPT ![t] = 1]
  BY <1>0, Stores DEF CallOK, PushLabels, call
<1>2. Others(t)
  BY <1>0 DEF Typed, DataTypeOK, Others, call
<1>3. ~Done(t) /\ Done(t)'
  BY <1>0, <1>1, ResultsAssumption DEF Done, Typed, DataTypeOK
<1>4. Fifo!Commit(t, Append(queued, arg[t]), 1)
  BY <1>1, <1>2, <1>3, DoneSame, FifoCommit
<1>5. Fifo!Push(t)
  BY <1>1, <1>4 DEF Fifo!Push
<1> QED BY <1>5 DEF Fifo!Next

LEMMA StoreInFifo ==
  ASSUME NodeInv, NEW t \in Threads, NEW label, StoreItem(t) \/ StoreTail(t, label)
  PROVE  [Fifo!Next]_Fifo!vars
<1> USE DEF StoreItem, StoreTail, Store, Goto, At
<1>0. Typed /\ CallOK(t)
  BY DEF NodeInv, CallsInv
<1>1. op[t] = "push" /\ op' = op /\ arg' = arg /\ queued' = queued /\ rv' = rv
  BY <1>0 DEF CallOK, PushLabels, call, history
<1>2. Others(t)
  BY <1>0 DEF Typed, DataTypeOK, Others, call
<1>3. Done(t)' <=> Done(t)
  BY <1>1 DEF Done
<1> QED BY <1>1, <1>2, <1>3, DoneSame, FifoSame

\* A pop that will not wait has found the list empty.
LEMMA LookEmptyInFifo ==
  ASSUME NodeInv, NEW t \in Threads, op[t] = "try_pop",
         NEW label, label \in {"return", "unlock_empty"}, LookEmpty(t, label)
  PROVE  [Fifo!Next]_Fifo!vars
<1> USE DEF LookEmpty, Goto, At
<1>0. Typed /\ CallOK(t)
  BY DEF NodeInv, CallsInv
<1>1. /\ op' = op /\ arg' = arg /\ queued' = queued /\ rv' = rv /\ rv[t] = Null
      /\ pc'[t] = label
  BY <1>0 DEF CallOK, DoneLabels, call, history, Typed
<1>2. Others(t)
  BY <1>0 DEF Typed, DataTypeOK, Others, call
<1>3. ~Done(t) /\ Done(t)'
  BY <1>1 DEF Done
<1>4. rv' = [rv EXCEPT ![t] = Null]
  BY <1>0, <1>1 DEF Typed, DataTypeOK
<1>5. Fifo!Commit(t, queued, Null)
  BY <1>1, <1>2, <1>3, <1>4, DoneSame, FifoCommit
<1>6. Fifo!PopNothing(t)
  BY <1>5, SeenFull DEF Fifo!PopNothing
<1> QED BY <1>6 DEF Fifo!Next

\* A pop takes effect when it moves head, and the item is the oldest.
LEMMA TakeInFifo ==
  ASSUME NodeInv, NEW t \in Threads,
         NEW label, label \in {"unlock_taken", "free_temp"}, Take(t, label)
  PROVE  [Fifo!Next]_Fifo!vars
<1> USE DEF Take, Goto, At
<1>0. Typed /\ CallOK(t)
  BY DEF NodeInv, CallsInv
<1>1. /\ op' = op /\ arg' = arg /\ queued' = Tail(queued) /\ pc'[t] = label
      /\ rv' = [rv EXCEPT ![t] = Head(queued)]
      /\ op[t] \in {"pop", "try_pop"} /\ queued # <<>>
  BY <1>0, TakeFacts DEF call, Typed
<1>2. Others(t)
  BY <1>0 DEF Typed, DataTypeOK, Others, call
<1>3. ~Done(t) /\ Done(t)'
  BY <1>1 DEF Done
<1>4. Fifo!Commit(t, Tail(queued), Head(queued))
  BY <1>1, <1>2, <1>3, DoneSame, FifoCommit
<1>5. Fifo!PopItem(t)
  BY <1>1, <1>4 DEF Fifo!PopItem
<1> QED BY <1>5 DEF Fifo!Next

\* Moves in which no call takes effect.
LEMMA MoveInFifo ==
  ASSUME NodeInv, NEW t \in Threads, NEW from, NEW to, <<from, to>> \in Moves,
         <<from, to>> \notin {<<"look", "return">>, <<"look", "unlock_empty">>},
         Move(t, from, to)
  PROVE  [Fifo!Next]_Fifo!vars
<1> USE DEF Move, Goto, At
<1>0. Typed /\ CallOK(t)
  BY DEF NodeInv, CallsInv
<1>1. /\ op' = op /\ arg' = arg /\ queued' = queued /\ rv' = rv
      /\ pc[t] = from /\ pc'[t] = to
  BY <1>0 DEF call, history, Typed
<1>2. Others(t)
  BY <1>0 DEF Typed, DataTypeOK, Others, call
<1>3. Done(t)' <=> Done(t)
  <2>1. from = "unlock_tail" => op[t] = "push"
    BY <1>0, <1>1 DEF CallOK, PushLabels
  <2> QED BY <1>1, <2>1 DEF Done, Moves
<1> QED BY <1>1, <1>2, <1>3, DoneSame, FifoSame

LEMMA BroadcastInFifo ==
  ASSUME NodeInv, NEW t \in Threads, Broadcast(t)
  PROVE  [Fifo!Next]_Fifo!vars
<1>0. Typed /\ CallOK(t)
  BY DEF NodeInv, CallsInv
<1>1. /\ op' = op /\ arg' = arg /\ queued' = queued /\ rv' = rv
      /\ pc[t] = "broadcast" /\ op[t] = "push"
      /\ \A u \in Threads \ {t} : pc'[u] = IF pc[u] = "parked" THEN "lock_head" ELSE pc[u]
  BY <1>0 DEF Broadcast, Woken, At, call, history, Typed, CallOK, PushLabels
<1>2. \A u \in Threads : Done(u)' <=> Done(u)
  BY <1>1 DEF Done
<1> QED BY <1>1, <1>2, FifoSame

LEMMA FreeInFifo ==
  ASSUME NodeInv, NEW t \in Threads, FreeNode(t) \/ FreeQueue(t)
  PROVE  [Fifo!Next]_Fifo!vars
<1>0. Typed /\ CallOK(t)
  BY DEF NodeInv, CallsInv
<1>1. op[t] = "free" /\ arg[t] = Null /\ rv[t] = Null /\ pc[t] = "free_list"
  BY <1>0 DEF FreeNode, FreeQueue, At, CallOK, DoneLabels
<1>2. CASE FreeNode(t)
  BY <1>2, FifoSame DEF FreeNode, call, Done
<1>3. CASE FreeQueue(t)
  <2>1. Others(t) /\ op'[t] = "none"
    BY <1>0, <1>3 DEF FreeQueue, LeaveCall, Goto, Typed, DataTypeOK, Others
  <2>2. arg' = arg /\ rv' = rv /\ queued' = queued
    BY <1>0, <1>1, <1>3 DEF FreeQueue, LeaveCall, history, Typed, DataTypeOK
  <2>3. ~Done(t) /\ ~Done(t)'
    BY <1>1, <2>1 DEF Done
  <2> QED BY <1>1, <2>1, <2>2, <2>3, DoneSame, FifoSame DEF Others
<1> QED BY <1>2, <1>3

LEMMA IdleInFifo ==
  ASSUME UNCHANGED vars
  PROVE  [Fifo!Next]_Fifo!vars
BY FifoSame DEF vars, Done

LEMMA InitInFifo == Init => Fifo!Init
BY DEF Init, Fifo!Init, Done

LEMMA IdleStep ==
  ASSUME NodeInv, UNCHANGED vars
  PROVE  NodeInv'
<1>0. Typed /\ CallsInv /\ FreeInv /\ ShapeInv /\ HoldInv
  BY DEF NodeInv
<1>1. Typed' /\ CallsInv' /\ FreeInv'
  BY <1>0 DEF vars, Typed, DataTypeOK, CallsInv, CallOK, FreeInv
<1>2. ShapeInv' /\ HoldInv'
  BY <1>0 DEF vars, ShapeInv, HoldInv, HeldNodes, Elements, Freeing
<1> QED BY <1>1, <1>2 DEF NodeInv

-----------------------------------------------------------------------------
(* GammaQueue: what each lock excludes. *)

TailSection == {"write", "unlock_tail"}
HeadSection == {"look", "wait", "take", "unlock_empty", "unlock_taken"}

LocksInv == \A t \in Threads :
  /\ tailLock = t <=> pc[t] \in TailSection
  /\ headLock = t <=> pc[t] \in HeadSection

GammaInv == NodeInv /\ LockTypeOK /\ LocksInv

LEMMA LocksExclude == LocksInv => Exclusive
BY DEF LocksInv, Exclusive, TailSection, HeadSection

\* A thread that stays on its side of the locks.
LEMMA LocksKept ==
  ASSUME LocksInv, LockTypeOK, NEW t \in Threads, Others(t), UNCHANGED locks,
         pc'[t] \in TailSection <=> pc[t] \in TailSection,
         pc'[t] \in HeadSection <=> pc[t] \in HeadSection
  PROVE  LocksInv' /\ LockTypeOK'
BY DEF LocksInv, LockTypeOK, Others, locks

LEMMA MoveOthers ==
  ASSUME NodeInv, NEW t \in Threads, NEW from, NEW to, Move(t, from, to)
  PROVE  Others(t) /\ pc[t] = from /\ pc'[t] = to
BY DEF NodeInv, Typed, Move, At, Goto, call, Others

LEMMA GammaPush ==
  ASSUME GammaInv, Ordered, NEW t \in Threads,
         CallPush(t) \/ Pushing(t) \/ PushStep(t, "return")
  PROVE  GammaInv' /\ [Fifo!Next]_Fifo!vars
<1>0. /\ NodeInv /\ LockTypeOK /\ LocksInv /\ Exclusive
      /\ Typed /\ pc \in [Threads -> PCs]
      /\ op \in [Threads -> {"none", "push", "pop", "try_pop", "free"}]
  BY LocksExclude DEF GammaInv, NodeInv, Typed, DataTypeOK
<1> USE DEF At, Goto, Inside
<1>1. CASE CallPush(t)
  <2> PICK x \in Items : Inside(Call(t, "push", x, "alloc"))
    BY <1>1 DEF CallPush
  <2>1. Brought("push", x, "alloc")
    BY DEF Brought
  <2>2. Others(t) /\ pc[t] = "idle" /\ pc'[t] = "alloc"
    BY <1>0 DEF Call, Others, Typed, DataTypeOK
  <2>3. LocksInv' /\ LockTypeOK'
    BY <1>0, <2>2, LocksKept DEF TailSection, HeadSection
  <2> QED BY <1>0, <2>1, <2>3, CallStep, CallInFifo DEF GammaInv
<1>2. CASE Inside(Alloc(t, "lock_tail", "return"))
  <2>1. Others(t) /\ pc[t] = "alloc" /\ pc'[t] \in {"lock_tail", "return"}
    BY <1>0, <1>2 DEF Alloc, Others, Typed, DataTypeOK, call
  <2>2. LocksInv' /\ LockTypeOK'
    BY <1>0, <1>2, <2>1, LocksKept DEF TailSection, HeadSection
  <2> QED BY <1>0, <1>2, <2>2, AllocStep, AllocInFifo DEF GammaInv
<1>3. CASE LockTail(t)
  <2>1. Others(t) /\ pc[t] = "lock_tail" /\ pc'[t] = "write"
    BY <1>0, <1>3, MoveOthers DEF LockTail
  <2>2. tailLock = Null /\ tailLock' = t /\ headLock' = headLock
    BY <1>3 DEF LockTail, Acquire
  <2>3. LocksInv' /\ LockTypeOK'
    BY <1>0, <2>1, <2>2, NullIsNoThread
    DEF LocksInv, LockTypeOK, Others, TailSection, HeadSection
  <2> QED BY <1>0, <1>3, <2>3, MoveStep, MoveInFifo DEF GammaInv, LockTail, Moves
<1>4. CASE Inside(StoreItem(t)) \/ Inside(StoreLink(t))
  <2>1. Others(t) /\ pc'[t] = pc[t]
    BY <1>0, <1>4 DEF StoreItem, StoreLink, Store, Others, Typed, DataTypeOK, call
  <2>2. LocksInv' /\ LockTypeOK'
    BY <1>0, <1>4, <2>1, LocksKept
  <2> QED BY <1>0, <1>4, <2>2, StoreItemStep, StoreLinkStep, StoreInFifo, StoreLinkInFifo
    DEF GammaInv
<1>5. CASE Inside(StoreTail(t, "unlock_tail"))
  <2>1. Others(t) /\ pc[t] = "write" /\ pc'[t] = "unlock_tail"
    BY <1>0, <1>5 DEF StoreTail, Store, Others, Typed, DataTypeOK, call
  <2>2. LocksInv' /\ LockTypeOK'
    BY <1>0, <1>5, <2>1, LocksKept DEF TailSection, HeadSection
  <2> QED BY <1>0, <1>5, <2>2, StoreTailStep, StoreInFifo DEF GammaInv
<1>6. CASE UnlockTail(t, "broadcast") \/ UnlockTail(t, "return")
  <2>1. Others(t) /\ pc[t] = "unlock_tail" /\ pc'[t] \in {"broadcast", "return"}
    BY <1>0, <1>6, MoveOthers DEF UnlockTail
  <2>2. tailLock = t /\ tailLock' = Null /\ headLock' = headLock
    BY <1>0, <1>6, <2>1 DEF UnlockTail, Release, LocksInv, TailSection
  <2>3. LocksInv' /\ LockTypeOK'
    BY <1>0, <2>1, <2>2, NullIsNoThread
    DEF LocksInv, LockTypeOK, Others, TailSection, HeadSection
  <2> QED BY <1>0, <1>6, <2>3, MoveStep, MoveInFifo DEF GammaInv, UnlockTail, Moves
<1>7. CASE op[t] = "push" /\ Inside(Return(t))
  <2>1. Others(t) /\ pc[t] = "return" /\ pc'[t] = "idle"
    BY <1>0, <1>7 DEF Return, LeaveCall, Others, Typed, DataTypeOK
  <2>2. LocksInv' /\ LockTypeOK'
    BY <1>0, <1>7, <2>1, LocksKept DEF TailSection, HeadSection
  <2> QED BY <1>0, <1>7, <2>2, ReturnStep, ReturnInFifo DEF GammaInv
<1>8. CASE Broadcast(t)
  <2>1. /\ pc[t] = "broadcast" /\ pc'[t] = "return" /\ UNCHANGED locks
        /\ \A u \in Threads \ {t} : pc'[u] = IF pc[u] = "parked" THEN "lock_head" ELSE pc[u]
    BY <1>0, <1>8 DEF Broadcast, Woken
  <2>2. LocksInv' /\ LockTypeOK'
    BY <1>0, <2>1 DEF LocksInv, LockTypeOK, TailSection, HeadSection, locks
  <2> QED BY <1>0, <1>8, <2>2, BroadcastStep, BroadcastInFifo DEF GammaInv
<1> QED BY <1>1, <1>2, <1>3, <1>4, <1>5, <1>6, <1>7, <1>8 DEF Pushing, PushStep

LEMMA GammaPop ==
  ASSUME GammaInv, NEW t \in Threads,
         CallPop(t) \/ PopStep(t, "wait") \/ Wait(t) \/ SpuriousWake(t)
  PROVE  GammaInv' /\ [Fifo!Next]_Fifo!vars
<1>0. /\ NodeInv /\ LockTypeOK /\ LocksInv /\ Exclusive /\ CallOK(t)
      /\ Typed /\ pc \in [Threads -> PCs]
      /\ op \in [Threads -> {"none", "push", "pop", "try_pop", "free"}]
  BY LocksExclude DEF GammaInv, NodeInv, Typed, DataTypeOK, CallsInv
<1> USE DEF At, Goto, Inside
<1>1. CASE CallPop(t)
  <2> PICK o \in {"pop", "try_pop"} : Inside(Call(t, o, Null, "lock_head"))
    BY <1>1 DEF CallPop
  <2>1. Brought(o, Null, "lock_head")
    BY DEF Brought
  <2>2. Others(t) /\ pc[t] = "idle" /\ pc'[t] = "lock_head"
    BY <1>0 DEF Call, Others, Typed, DataTypeOK
  <2>3. LocksInv' /\ LockTypeOK'
    BY <1>0, <2>2, LocksKept DEF TailSection, HeadSection
  <2> QED BY <1>0, <2>1, <2>3, CallStep, CallInFifo DEF GammaInv
<1>2. CASE LockHead(t)
  <2>1. Others(t) /\ pc[t] = "lock_head" /\ pc'[t] = "look"
    BY <1>0, <1>2, MoveOthers DEF LockHead
  <2>2. headLock = Null /\ headLock' = t /\ tailLock' = tailLock
    BY <1>2 DEF LockHead, Acquire
  <2>3. LocksInv' /\ LockTypeOK'
    BY <1>0, <2>1, <2>2, NullIsNoThread
    DEF LocksInv, LockTypeOK, Others, TailSection, HeadSection
  <2> QED BY <1>0, <1>2, <2>3, MoveStep, MoveInFifo DEF GammaInv, LockHead, Moves
<1>3. CASE Inside(LookEmpty(t, "wait")) \/ Inside(LookFull(t))
  <2>1. Others(t) /\ pc[t] = "look" /\ pc'[t] \in {"wait", "take"}
    BY <1>0, <1>3 DEF LookEmpty, LookFull, Others, Typed, DataTypeOK, call
  <2>2. LocksInv' /\ LockTypeOK'
    BY <1>0, <1>3, <2>1, LocksKept DEF TailSection, HeadSection
  <2>3. Move(t, "look", "wait") \/ Move(t, "look", "take")
    BY <1>3 DEF LookEmpty, LookFull, Move
  <2> QED BY <1>0, <1>3, <2>2, <2>3, LookEmptyStep, LookFullStep, MoveInFifo
    DEF GammaInv, Moves
<1>4. CASE op[t] # "pop" /\ Inside(LookEmpty(t, "unlock_empty"))
  <2>1. Others(t) /\ pc[t] = "look" /\ pc'[t] = "unlock_empty"
    BY <1>0, <1>4 DEF LookEmpty, Others, Typed, DataTypeOK, call
  <2>2. LocksInv' /\ LockTypeOK'
    BY <1>0, <1>4, <2>1, LocksKept DEF TailSection, HeadSection
  <2>3. op[t] = "try_pop"
    BY <1>0, <1>4, <2>1 DEF CallOK, PopLabels
  <2> QED BY <1>0, <1>4, <2>2, <2>3, LookEmptyStep, LookEmptyInFifo DEF GammaInv
<1>5. CASE Inside(Take(t, "unlock_taken"))
  <2>1. Others(t) /\ pc[t] = "take" /\ pc'[t] = "unlock_taken"
    BY <1>0, <1>5 DEF Take, Others, Typed, DataTypeOK, call
  <2>2. LocksInv' /\ LockTypeOK'
    BY <1>0, <1>5, <2>1, LocksKept DEF TailSection, HeadSection
  <2> QED BY <1>0, <1>5, <2>2, TakeStep, TakeInFifo DEF GammaInv
<1>6. CASE UnlockHead(t) \/ Wait(t)
  <2>1. PICK from, to : /\ <<from, to>> \in {<<"unlock_empty", "return">>,
                              <<"unlock_taken", "free_temp">>, <<"wait", "parked">>}
                       /\ Move(t, from, to)
    BY <1>6 DEF UnlockHead, Wait, Move, Park
  <2>2. Others(t) /\ pc[t] = from /\ pc'[t] = to
    BY <1>0, <2>1, MoveOthers
  <2>3. headLock = t /\ headLock' = Null /\ tailLock' = tailLock
    BY <1>0, <1>6, <2>1, <2>2 DEF UnlockHead, Wait, Park, Release, LocksInv, HeadSection
  <2>4. LocksInv' /\ LockTypeOK'
    BY <1>0, <2>1, <2>2, <2>3, NullIsNoThread
    DEF LocksInv, LockTypeOK, Others, TailSection, HeadSection
  <2> QED BY <1>0, <2>1, <2>4, MoveStep, MoveInFifo DEF GammaInv, Moves
<1>7. CASE SpuriousWake(t)
  <2>1. Others(t) /\ pc[t] = "parked" /\ pc'[t] = "lock_head"
    BY <1>0, <1>7, MoveOthers DEF SpuriousWake
  <2>2. LocksInv' /\ LockTypeOK'
    BY <1>0, <1>7, <2>1, LocksKept DEF SpuriousWake, TailSection, HeadSection
  <2> QED BY <1>0, <1>7, <2>2, MoveStep, MoveInFifo DEF GammaInv, SpuriousWake, Moves
<1>8. CASE Inside(FreeTemp(t)) \/ Inside(Return(t))
  <2>1. Others(t) /\ pc[t] \in {"free_temp", "return"} /\ pc'[t] = "idle"
    BY <1>0, <1>8 DEF FreeTemp, Return, LeaveCall, Others, Typed, DataTypeOK
  <2>2. LocksInv' /\ LockTypeOK'
    BY <1>0, <1>8, <2>1, LocksKept DEF TailSection, HeadSection
  <2> QED BY <1>0, <1>8, <2>2, FreeTempStep, ReturnStep, ReturnInFifo DEF GammaInv
<1> QED
  <2>1. CASE Inside(LookEmpty(t, IF op[t] = "pop" THEN "wait" ELSE "unlock_empty"))
    <3>1. CASE op[t] = "pop"
      BY <1>3, <2>1, <3>1
    <3>2. CASE op[t] # "pop"
      BY <1>4, <2>1, <3>2
    <3> QED BY <3>1, <3>2
  <2> QED BY <1>1, <1>2, <1>3, <1>5, <1>6, <1>7, <1>8, <2>1 DEF PopStep

LEMMA GammaFree ==
  ASSUME GammaInv, NEW t \in Threads, CallFree(t) \/ FreeStep(t)
  PROVE  GammaInv' /\ [Fifo!Next]_Fifo!vars
<1>0. /\ NodeInv /\ LockTypeOK /\ LocksInv
      /\ Typed /\ pc \in [Threads -> PCs]
      /\ op \in [Threads -> {"none", "push", "pop", "try_pop", "free"}]
  BY DEF GammaInv, NodeInv, Typed, DataTypeOK
<1> USE DEF At, Goto, Inside
<1>1. CASE CallFree(t)
  <2>1. Brought("free", Null, "free_list")
    BY DEF Brought
  <2>2. Others(t) /\ pc[t] = "idle" /\ pc'[t] = "free_list"
    BY <1>0, <1>1 DEF CallFree, Call, Others, Typed, DataTypeOK
  <2>3. LocksInv' /\ LockTypeOK'
    BY <1>0, <1>1, <2>2, LocksKept DEF CallFree, TailSection, HeadSection
  <2> QED BY <1>0, <1>1, <2>1, <2>3, CallStep, CallInFifo DEF GammaInv, CallFree
<1>2. CASE Inside(FreeNode(t))
  <2>1. Others(t) /\ pc'[t] = pc[t]
    BY <1>2 DEF FreeNode, Others, call
  <2>2. LocksInv' /\ LockTypeOK'
    BY <1>0, <1>2, <2>1, LocksKept
  <2> QED BY <1>0, <1>2, <2>2, FreeNodeStep, FreeInFifo DEF GammaInv
<1>3. CASE FreeQueue(t) /\ Destroy(headLock) /\ Destroy(tailLock)
  <2>1. Others(t) /\ pc[t] = "free_list" /\ pc'[t] = "idle" /\ UNCHANGED locks
    BY <1>0, <1>3 DEF FreeQueue, LeaveCall, Others, Typed, DataTypeOK, Destroy, locks
  <2>2. LocksInv' /\ LockTypeOK'
    BY <1>0, <2>1, LocksKept DEF TailSection, HeadSection
  <2> QED BY <1>0, <1>3, <2>2, FreeQueueStep, FreeInFifo DEF GammaInv
<1> QED BY <1>1, <1>2, <1>3 DEF FreeStep

LEMMA GammaStep ==
  ASSUME Ordered
  PROVE  GammaInv /\ [Next]_lockVars => GammaInv' /\ [Fifo!Next]_Fifo!vars
<1>1. ASSUME GammaInv, UNCHANGED lockVars PROVE GammaInv' /\ [Fifo!Next]_Fifo!vars
  <2>1. UNCHANGED vars /\ pc' = pc /\ UNCHANGED locks
    BY <1>1 DEF lockVars, vars
  <2>2. LocksInv' /\ LockTypeOK'
    BY <1>1, <2>1 DEF GammaInv, LocksInv, LockTypeOK, locks
  <2> QED BY <1>1, <2>1, <2>2, IdleStep, IdleInFifo DEF GammaInv
<1>2. ASSUME GammaInv, Next PROVE GammaInv' /\ [Fifo!Next]_Fifo!vars
  BY <1>2, GammaPush, GammaPop, GammaFree DEF Next
<1> QED BY <1>1, <1>2

LEMMA GammaInvInit == GammaInit => GammaInv
<1> SUFFICES ASSUME GammaInit PROVE GammaInv
  OBVIOUS
<1>1. NodeInv
  BY NodeInvInit DEF GammaInit
<1>2. LockTypeOK /\ LocksInv
  BY NullIsNoThread
  DEF GammaInit, Init, LockInit, Created, LockTypeOK, LocksInv, TailSection, HeadSection
<1> QED BY <1>1, <1>2 DEF GammaInv

LEMMA GammaInvCorrect ==
  ASSUME Ordered
  PROVE  Spec => []GammaInv
BY GammaInvInit, GammaStep, PTL DEF Spec

\* TypeOK: the variables of gamma_queue.c, locks included, keep their types.
THEOREM GammaTypeCorrect ==
  ASSUME Ordered
  PROVE  Spec => []TypeOK
<1>1. GammaInv => TypeOK
  BY DEF GammaInv, NodeInv, Typed, TypeOK
<1> QED BY <1>1, GammaInvCorrect, PTL

\* ListIntact: under the two locks of gamma_queue.c, and so of beta_queue.c, the
\* links lead from head through the pushed items in order to the last node, with any
\* number of threads pushing and popping at the same time.
THEOREM GammaListIntactCorrect ==
  ASSUME Ordered
  PROVE  Spec => []ListIntact
<1>1. GammaInv => ListIntact
  BY ListIntactFollows DEF GammaInv
<1> QED BY <1>1, GammaInvCorrect, PTL

\* NoUseAfterFree: the pops of gamma_queue.c free the dummy with head_lock only,
\* and no push, with tail_lock only, is at it then.
THEOREM GammaNoUseAfterFreeCorrect ==
  ASSUME Ordered
  PROVE  Spec => []NoUseAfterFree
<1>1. GammaInv => NoUseAfterFree
  BY NoUseAfterFreeFollows, LocksExclude DEF GammaInv
<1> QED BY <1>1, GammaInvCorrect, PTL

\* NothingLeaked: in gamma_queue.c every node is in the list or in one thread's
\* hands, and a freed queue leaves none.
THEOREM GammaNothingLeakedCorrect ==
  ASSUME Ordered
  PROVE  Spec => []NothingLeaked
<1>1. GammaInv => NothingLeaked
  BY NothingLeakedFollows DEF GammaInv
<1> QED BY <1>1, GammaInvCorrect, PTL

\* ImplementsFifo: every behaviour of gamma_queue.c is one of BlockingFifo; no item
\* is lost, doubled or reordered although the two ends have different locks.
THEOREM GammaRefinement ==
  ASSUME Ordered
  PROVE  Spec => ImplementsFifo
<1>1. GammaInit => Fifo!Init
  BY InitInFifo DEF GammaInit
<1> QED BY <1>1, GammaInvCorrect, GammaStep, PTL DEF Spec, ImplementsFifo, Fifo!Spec

-----------------------------------------------------------------------------
(* BetaQueue: the locks of GammaQueue without its waits.  A push returns   *)
(* from its unlock, and as no pop waits nobody is there to be signalled.   *)

NobodyWaits == \A t \in Threads : op[t] # "pop"

BetaInv == GammaInv /\ NobodyWaits

LEMMA BetaPop ==
  ASSUME NobodyWaits, NEW t \in Threads, PopStep(t, "unlock_empty")
  PROVE  PopStep(t, "wait")
<1>1. op[t] # "pop"
  BY DEF NobodyWaits
<1> QED BY <1>1 DEF PopStep

\* What each step does to the calls: one may begin, which does not wait, or end.
LEMMA BetaCalls ==
  ASSUME BetaInv, NEW t \in Threads,
         BetaCall(t) \/ PushStep(t, "return") \/ PopStep(t, "unlock_empty") \/ FreeStep(t)
  PROVE  NobodyWaits'
<1>0. op \in [Threads -> {"none", "push", "pop", "try_pop", "free"}] /\ NobodyWaits
  BY DEF BetaInv, GammaInv, NodeInv, Typed, DataTypeOK
<1> USE DEF Inside
<1>1. CASE BetaCall(t)
  <2>1. \E o \in {"push", "try_pop", "free"} : op' = [op EXCEPT ![t] = o]
    BY <1>1 DEF BetaCall, Call
  <2> QED BY <1>0, <2>1 DEF NobodyWaits
<1>2. CASE PushStep(t, "return")
  <2>1. op' = op \/ op' = [op EXCEPT ![t] = "none"]
    BY <1>2 DEF PushStep, Alloc, StoreItem, StoreLink, StoreTail, Store, LockTail,
                UnlockTail, Move, Return, LeaveCall, call
  <2> QED BY <1>0, <2>1 DEF NobodyWaits
<1>3. CASE PopStep(t, "unlock_empty")
  <2>1. op' = op \/ op' = [op EXCEPT ![t] = "none"]
    BY <1>3 DEF PopStep, LookEmpty, LookFull, Take, FreeTemp, LockHead, UnlockHead,
                Move, Return, LeaveCall, call
  <2> QED BY <1>0, <2>1 DEF NobodyWaits
<1>4. CASE FreeStep(t)
  <2>1. op' = op \/ op' = [op EXCEPT ![t] = "none"]
    BY <1>4 DEF FreeStep, FreeNode, FreeQueue, LeaveCall, call
  <2> QED BY <1>0, <2>1 DEF NobodyWaits
<1> QED BY <1>1, <1>2, <1>3, <1>4

LEMMA BetaStep ==
  ASSUME Ordered
  PROVE  BetaInv /\ [BetaNext]_lockVars => BetaInv' /\ [Fifo!Next]_Fifo!vars
<1>1. ASSUME BetaInv, NEW t \in Threads,
             BetaCall(t) \/ PushStep(t, "return") \/ PopStep(t, "unlock_empty")
               \/ FreeStep(t)
      PROVE  GammaInv' /\ [Fifo!Next]_Fifo!vars
  <2>1. GammaInv /\ NobodyWaits
    BY <1>1 DEF BetaInv
  <2>2. CASE BetaCall(t)
    <3>1. CallPush(t) \/ CallPop(t) \/ CallFree(t)
      BY <2>2 DEF BetaCall, CallPush, CallPop, CallFree
    <3> QED BY <2>1, <3>1, GammaPush, GammaPop, GammaFree
  <2>3. CASE PopStep(t, "unlock_empty")
    BY <2>1, <2>3, BetaPop, GammaPop
  <2> QED BY <1>1, <2>1, <2>2, <2>3, GammaPush, GammaFree
<1>2. ASSUME BetaInv, BetaNext PROVE BetaInv' /\ [Fifo!Next]_Fifo!vars
  BY <1>1, <1>2, BetaCalls DEF BetaNext, BetaInv
<1>3. ASSUME BetaInv, UNCHANGED lockVars PROVE BetaInv' /\ [Fifo!Next]_Fifo!vars
  <2>1. op' = op
    BY <1>3 DEF lockVars, vars, call
  <2> QED BY <1>3, <2>1, GammaStep DEF BetaInv, NobodyWaits
<1> QED BY <1>2, <1>3

LEMMA BetaInvCorrect ==
  ASSUME Ordered
  PROVE  BetaSpec => []BetaInv
<1>1. Init /\ LockInit => BetaInv
  <2>1. Init => NobodyWaits
    BY DEF Init, NobodyWaits
  <2> QED BY <2>1, GammaInvInit DEF GammaInit, BetaInv
<1> QED BY <1>1, BetaStep, PTL DEF BetaSpec

\* ListIntact, NoUseAfterFree, NothingLeaked: for every number of threads that
\* push and pop a beta_queue at once, its list leads through the items in order, no
\* node is used after the pop that frees it, and none is lost.
THEOREM BetaListSound ==
  ASSUME Ordered
  PROVE  BetaSpec => [](ListIntact /\ NoUseAfterFree /\ NothingLeaked)
<1>1. BetaInv => ListIntact /\ NoUseAfterFree /\ NothingLeaked
  BY ListIntactFollows, NoUseAfterFreeFollows, NothingLeakedFollows, LocksExclude
  DEF BetaInv, GammaInv
<1> QED BY <1>1, BetaInvCorrect, PTL

\* ImplementsFifo: every behaviour of beta_queue.c is one of BlockingFifo.
THEOREM BetaRefinement ==
  ASSUME Ordered
  PROVE  BetaSpec => ImplementsFifo
<1>1. Init /\ LockInit => Fifo!Init
  BY InitInFifo
<1> QED BY <1>1, BetaInvCorrect, BetaStep, PTL DEF BetaSpec, ImplementsFifo, Fifo!Spec

-----------------------------------------------------------------------------
(* AlphaQueue: what each of the two threads may call. *)

Roles == \A t \in Threads :
  /\ op[t] = "push" => t = Pusher
  /\ op[t] \in {"pop", "try_pop"} => t = Popper /\ op[t] = "try_pop"

AlphaInv == NodeInv /\ Roles

\* PairAssumption of AlphaQueue.
Pair == Threads = {Pusher, Popper} /\ Pusher # Popper

LEMMA RolesExclude == AlphaInv => Exclusive
BY DEF AlphaInv, NodeInv, CallsInv, CallOK, Roles, Exclusive, PushLabels, PopLabels

\* A thread whose call stays the same, or that leaves it.
LEMMA RolesKept ==
  ASSUME Roles, \A t \in Threads : op'[t] = op[t] \/ op'[t] \in {"none", "free"}
  PROVE  Roles'
BY DEF Roles

LEMMA AlphaPush ==
  ASSUME AlphaInv, Ordered, Pair, Alpha!CallPush \/ Alpha!PushStep
  PROVE  AlphaInv' /\ [Fifo!Next]_Fifo!vars
<1>0. /\ NodeInv /\ Roles /\ Exclusive /\ Pusher \in Threads
      /\ op \in [Threads -> {"none", "push", "pop", "try_pop", "free"}]
  BY RolesExclude DEF AlphaInv, Pair, NodeInv, Typed, DataTypeOK
<1> USE DEF Alpha!At, At, Alpha!Goto, Goto, Alpha!memory, memory, Alpha!call, call,
            Alpha!history, history, Alpha!LeaveCall, LeaveCall, Alpha!Free, Free,
            Alpha!Store, Store, Alpha!StoreOrders, StoreOrders
<1>1. CASE Alpha!CallPush
  <2> PICK x \in Items : Call(Pusher, "push", x, "alloc")
    BY <1>1 DEF Alpha!CallPush, Alpha!Call, Call
  <2>1. Brought("push", x, "alloc")
    BY DEF Brought
  <2>2. Roles'
    BY <1>0 DEF Roles, Call
  <2> QED BY <1>0, <2>1, <2>2, CallStep, CallInFifo DEF AlphaInv
<1>2. CASE Alpha!Alloc(Pusher, "write", "return")
  <2>1. Alloc(Pusher, "write", "return")
    BY <1>2 DEF Alpha!Alloc, Alloc
  <2>2. Roles'
    BY <1>0, <2>1 DEF Roles, Alloc, call
  <2> QED BY <1>0, <2>1, <2>2, AllocStep, AllocInFifo DEF AlphaInv
<1>3. CASE Alpha!StoreItem(Pusher) \/ Alpha!StoreLink(Pusher)
  <2>1. StoreItem(Pusher) \/ StoreLink(Pusher)
    BY <1>3 DEF Alpha!StoreItem, StoreItem, Alpha!StoreLink, StoreLink
  <2>2. Roles'
    BY <1>0, <2>1 DEF Roles, StoreItem, StoreLink, call
  <2> QED BY <1>0, <2>1, <2>2, StoreItemStep, StoreLinkStep, StoreInFifo, StoreLinkInFifo
    DEF AlphaInv
<1>4. CASE Alpha!StoreTail(Pusher, "return")
  <2>1. StoreTail(Pusher, "return")
    BY <1>4 DEF Alpha!StoreTail, StoreTail
  <2>2. Roles'
    BY <1>0, <2>1 DEF Roles, StoreTail, call
  <2> QED BY <1>0, <2>1, <2>2, StoreTailStep, StoreInFifo DEF AlphaInv
<1> QED BY <1>1, <1>2, <1>3, <1>4 DEF Alpha!PushStep

LEMMA AlphaPop ==
  ASSUME AlphaInv, Pair, Alpha!CallPop \/ Alpha!PopStep
  PROVE  AlphaInv' /\ [Fifo!Next]_Fifo!vars
<1>0. /\ NodeInv /\ Roles /\ Exclusive /\ Popper \in Threads /\ CallOK(Popper)
      /\ op \in [Threads -> {"none", "push", "pop", "try_pop", "free"}]
  BY RolesExclude DEF AlphaInv, Pair, NodeInv, Typed, DataTypeOK, CallsInv
<1> USE DEF Alpha!At, At, Alpha!Goto, Goto, Alpha!memory, memory, Alpha!call, call,
            Alpha!history, history, Alpha!LeaveCall, LeaveCall, Alpha!Free, Free
<1>1. CASE Alpha!CallPop
  <2>1. Call(Popper, "try_pop", Null, "look")
    BY <1>1 DEF Alpha!CallPop, Alpha!Call, Call
  <2>2. Brought("try_pop", Null, "look")
    BY DEF Brought
  <2>3. Roles'
    BY <1>0, <2>1 DEF Roles, Call
  <2> QED BY <1>0, <2>1, <2>2, <2>3, CallStep, CallInFifo DEF AlphaInv
<1>2. CASE Alpha!LookEmpty(Popper, "return")
  <2>1. LookEmpty(Popper, "return")
    BY <1>2 DEF Alpha!LookEmpty, LookEmpty
  <2>2. op[Popper] = "try_pop"
    BY <1>0, <2>1 DEF LookEmpty, At, CallOK, PopLabels, Roles
  <2>3. Roles'
    BY <1>0, <2>1 DEF Roles, LookEmpty, call
  <2> QED BY <1>0, <2>1, <2>2, <2>3, LookEmptyStep, LookEmptyInFifo DEF AlphaInv
<1>3. CASE Alpha!LookFull(Popper)
  <2>1. LookFull(Popper)
    BY <1>3 DEF Alpha!LookFull, LookFull
  <2>2. Move(Popper, "look", "take")
    BY <2>1 DEF LookFull, Move
  <2>3. Roles'
    BY <1>0, <2>1 DEF Roles, LookFull, call
  <2> QED BY <1>0, <2>1, <2>2, <2>3, LookFullStep, MoveInFifo DEF AlphaInv, Moves
<1>4. CASE Alpha!Take(Popper, "free_temp")
  <2>1. Take(Popper, "free_temp")
    BY <1>4 DEF Alpha!Take, Take
  <2>2. Roles'
    BY <1>0, <2>1 DEF Roles, Take, call
  <2> QED BY <1>0, <2>1, <2>2, TakeStep, TakeInFifo DEF AlphaInv
<1>5. CASE Alpha!FreeTemp(Popper)
  <2>1. FreeTemp(Popper)
    BY <1>5 DEF Alpha!FreeTemp, FreeTemp
  <2>2. Roles'
    BY <1>0, <2>1, RolesKept DEF FreeTemp, LeaveCall
  <2> QED BY <1>0, <2>1, <2>2, FreeTempStep, ReturnInFifo DEF AlphaInv
<1> QED BY <1>1, <1>2, <1>3, <1>4, <1>5 DEF Alpha!PopStep

LEMMA AlphaOther ==
  ASSUME AlphaInv, NEW t \in Threads,
         Alpha!CallFree(t) \/ Alpha!FreeNode(t) \/ Alpha!FreeQueue(t) \/ Alpha!Return(t)
  PROVE  AlphaInv' /\ [Fifo!Next]_Fifo!vars
<1>0. NodeInv /\ Roles /\ op \in [Threads -> {"none", "push", "pop", "try_pop", "free"}]
  BY DEF AlphaInv, NodeInv, Typed, DataTypeOK
<1> USE DEF Alpha!At, At, Alpha!Goto, Goto, Alpha!memory, memory, Alpha!call, call,
            Alpha!history, history, Alpha!LeaveCall, LeaveCall, Alpha!Free, Free
<1>1. CASE Alpha!CallFree(t)
  <2>1. Call(t, "free", Null, "free_list")
    BY <1>1 DEF Alpha!CallFree, Alpha!Call, Call
  <2>2. Brought("free", Null, "free_list")
    BY DEF Brought
  <2>3. Roles'
    BY <1>0, <2>1, RolesKept DEF Call
  <2> QED BY <1>0, <2>1, <2>2, <2>3, CallStep, CallInFifo DEF AlphaInv
<1>2. CASE Alpha!FreeNode(t)
  <2>1. FreeNode(t)
    BY <1>2 DEF Alpha!FreeNode, FreeNode
  <2>2. Roles'
    BY <1>0, <2>1 DEF Roles, FreeNode, call
  <2> QED BY <1>0, <2>1, <2>2, FreeNodeStep, FreeInFifo DEF AlphaInv
<1>3. CASE Alpha!FreeQueue(t)
  <2>1. FreeQueue(t)
    BY <1>3 DEF Alpha!FreeQueue, FreeQueue
  <2>2. Roles'
    BY <1>0, <2>1, RolesKept DEF FreeQueue, LeaveCall
  <2> QED BY <1>0, <2>1, <2>2, FreeQueueStep, FreeInFifo DEF AlphaInv
<1>4. CASE Alpha!Return(t)
  <2>1. Return(t)
    BY <1>4 DEF Alpha!Return, Return
  <2>2. Roles'
    BY <1>0, <2>1, RolesKept DEF Return, LeaveCall
  <2> QED BY <1>0, <2>1, <2>2, ReturnStep, ReturnInFifo DEF AlphaInv
<1> QED BY <1>1, <1>2, <1>3, <1>4

LEMMA AlphaStep ==
  ASSUME Ordered, Pair
  PROVE  AlphaInv /\ [Alpha!Next]_Alpha!vars => AlphaInv' /\ [Fifo!Next]_Fifo!vars
<1>1. ASSUME AlphaInv, UNCHANGED Alpha!vars PROVE AlphaInv' /\ [Fifo!Next]_Fifo!vars
  <2>1. UNCHANGED vars
    BY <1>1 DEF Alpha!vars, vars
  <2>2. Roles'
    BY <1>1, <2>1 DEF AlphaInv, Roles, vars
  <2> QED BY <1>1, <2>1, <2>2, IdleStep, IdleInFifo DEF AlphaInv
<1>2. ASSUME AlphaInv, Alpha!Next PROVE AlphaInv' /\ [Fifo!Next]_Fifo!vars
  BY <1>2, AlphaPush, AlphaPop, AlphaOther DEF Alpha!Next
<1> QED BY <1>1, <1>2

LEMMA AlphaInit == Alpha!Init => Init /\ AlphaInv
<1> SUFFICES ASSUME Alpha!Init PROVE Init /\ AlphaInv
  OBVIOUS
<1>1. Init
  BY DEF Alpha!Init, Init
<1>2. Roles
  BY <1>1 DEF Init, Roles
<1> QED BY <1>1, <1>2, NodeInvInit DEF AlphaInv

LEMMA AlphaInvCorrect ==
  ASSUME Ordered, Pair
  PROVE  Alpha!Spec => []AlphaInv
BY AlphaInit, AlphaStep, PTL DEF Alpha!Spec

\* ListIntact: without any lock, for one thread that pushes and one that pops
\* (alpha_queue.h:28).
THEOREM AlphaListIntactCorrect ==
  ASSUME Ordered, Pair
  PROVE  Alpha!Spec => []ListIntact
<1>1. AlphaInv => ListIntact
  BY ListIntactFollows DEF AlphaInv
<1> QED BY <1>1, AlphaInvCorrect, PTL

\* NoUseAfterFree: the pop of alpha_queue.c frees a node that the push no longer
\* uses.
THEOREM AlphaNoUseAfterFreeCorrect ==
  ASSUME Ordered, Pair
  PROVE  Alpha!Spec => []NoUseAfterFree
<1>1. AlphaInv => NoUseAfterFree
  BY NoUseAfterFreeFollows, RolesExclude DEF AlphaInv
<1> QED BY <1>1, AlphaInvCorrect, PTL

\* NothingLeaked: every node of an alpha_queue is in the list or in the hands of
\* one of the two threads, and a freed queue leaves none.
THEOREM AlphaNothingLeakedCorrect ==
  ASSUME Ordered, Pair
  PROVE  Alpha!Spec => []NothingLeaked
<1>1. AlphaInv => NothingLeaked
  BY NothingLeakedFollows DEF AlphaInv
<1> QED BY <1>1, AlphaInvCorrect, PTL

\* ImplementsFifo: every behaviour of alpha_queue.c is one of BlockingFifo, though
\* its push and its pop run at the same time without a lock.
THEOREM AlphaRefinement ==
  ASSUME Ordered, Pair
  PROVE  Alpha!Spec => ImplementsFifo
BY InitInFifo, AlphaInit, AlphaInvCorrect, AlphaStep, PTL
DEF Alpha!Spec, ImplementsFifo, Fifo!Spec

=============================================================================
