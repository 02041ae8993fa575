-------------------------- MODULE RingQueueProofs --------------------------
(***************************************************************************)
(* Proofs about RingQueue, for every set of items and nodes.  The ring is  *)
(* described by the sequence s of its nodes, oldest first (IsRing); a      *)
(* first part shows that following prev from the newest node, as Along     *)
(* does, runs through s and starts again, and a second one that each call  *)
(* leaves a ring, and which.                                               *)
(***************************************************************************)
EXTENDS RingQueue, Integers, FiniteSetTheorems, WellFoundedInduction, TLAPS

Typed ==
  /\ queue \in Nodes \cup {Null}
  /\ prev \in [Nodes -> Nodes \cup {Null}]
  /\ item \in [Nodes -> Items \cup {Null}]
  /\ heap \in SUBSET Nodes

\* s is the ring from the oldest node to the newest.
IsRing(s) ==
  /\ \A i, j \in 1..Len(s) : s[i] = s[j] => i = j
  /\ heap = {s[i] : i \in 1..Len(s)}
  /\ queue = IF s = <<>> THEN Null ELSE s[Len(s)]
  /\ \A i \in 1..Len(s) : prev[s[i]] = IF i = Len(s) THEN s[1] ELSE s[i + 1]
  /\ \A i \in 1..Len(s) : item[s[i]] # Null

\* The inductive invariant: there is such a ring.
RingInv == Typed /\ \E s \in Seq(Nodes) : IsRing(s)

-----------------------------------------------------------------------------
(* Following prev.  Along is defined by recursion over its argument: that  *)
(* it is what a closed form says is shown by the least argument at which   *)
(* the two would differ.                                                   *)

\* A set of numbers that is not empty has a least one.
LEMMA Least ==
  ASSUME NEW T, T \subseteq Nat, T # {}
  PROVE  \E x \in T : \A y \in T : x <= y
<1>1. PICK x \in T : \A y \in T : ~(<<y, x>> \in OpToRel(<, Nat))
  BY WFMin, NatLessThanWellFounded
<1>2. \A y \in T : ~(y < x)
  BY <1>1 DEF OpToRel
<1> QED BY <1>2

\* f takes N steps along p, from q.
IsWalk(f, N, q, p) == f = [k \in 0..N |-> IF k = 0 THEN q ELSE p[f[k - 1]]]

\* Two walks along the same p from the same q are the same.
LEMMA WalksAgree ==
  ASSUME NEW N \in Nat, NEW q, NEW p, NEW f, NEW g,
         IsWalk(f, N, q, p), IsWalk(g, N, q, p)
  PROVE  \A k \in 0..N : f[k] = g[k]
<1> DEFINE Apart == {k \in 0..N : f[k] # g[k]}
<1> SUFFICES ASSUME Apart # {} PROVE FALSE
  OBVIOUS
<1>1. Apart \subseteq Nat
  OBVIOUS
<1>2. PICK k \in Apart : \A j \in Apart : k <= j
  BY <1>1, Least
<1>3. /\ k \in 0..N /\ f[k] # g[k]
      /\ f[k] = IF k = 0 THEN q ELSE p[f[k - 1]]
      /\ g[k] = IF k = 0 THEN q ELSE p[g[k - 1]]
  BY DEF IsWalk
<1>4. k - 1 \in 0..N /\ ~(k <= k - 1)
  BY <1>3
<1>5. f[k - 1] = g[k - 1]
  BY <1>2, <1>4
<1> QED BY <1>3, <1>5

\* The remainder is what the division leaves.
LEMMA ModUnique ==
  ASSUME NEW n \in Nat \ {0}, NEW q \in Int, NEW r \in 0..(n - 1),
         NEW m \in Int, m = n * q + r
  PROVE  m % n = r
OBVIOUS

\* Counting on by one, round a ring of n.
LEMMA ModNext ==
  ASSUME NEW n \in Nat \ {0}, NEW m \in Nat
  PROVE  /\ m % n \in 0..(n - 1)
         /\ (m + 1) % n = IF m % n = n - 1 THEN 0 ELSE (m % n) + 1
         /\ m < n => m % n = m
<1>1. PICK q \in Nat, r \in 0..(n - 1) : m = n * q + r /\ m % n = r
  <2>1. m % n \in 0..(n - 1) /\ m \div n \in Nat
    OBVIOUS
  <2>2. m = n * (m \div n) + (m % n)
    OBVIOUS
  <2> QED BY <2>1, <2>2
<1>2. m < n => m % n = m
  <2>1. ASSUME m < n PROVE m % n = m
    <3>1. m \in 0..(n - 1) /\ m = n * 0 + m
      BY <2>1
    <3> QED BY <3>1, ModUnique
  <2> QED BY <2>1
<1>3. (m + 1) % n = IF r = n - 1 THEN 0 ELSE r + 1
  <2>1. \E c \in Int, d \in 0..(n - 1) :
          m + 1 = n * c + d /\ d = IF r = n - 1 THEN 0 ELSE r + 1
    <3>1. CASE r = n - 1
      <4>1. m + 1 = n * (q + 1) + 0 /\ q + 1 \in Int /\ 0 \in 0..(n - 1)
        BY <1>1, <3>1
      <4> QED BY <3>1, <4>1
    <3>2. CASE r # n - 1
      <4>1. m + 1 = n * q + (r + 1) /\ r + 1 \in 0..(n - 1) /\ q \in Int
        BY <1>1, <3>2
      <4> QED BY <3>2, <4>1
    <3> QED BY <3>1, <3>2
  <2>2. PICK c \in Int, d \in 0..(n - 1) :
          m + 1 = n * c + d /\ d = IF r = n - 1 THEN 0 ELSE r + 1
    BY <2>1
  <2>3. m + 1 \in Int /\ m + 1 = n * c + d
    BY <2>2
  <2>4. (m + 1) % n = d
    BY <2>3, ModUnique
  <2> QED BY <2>2, <2>4
<1> QED BY <1>1, <1>2, <1>3

\* If p closes s to a ring, the walk from the last of s runs through s in order,
\* from step 1 on, however many steps it takes.
LEMMA WalkExists ==
  ASSUME NEW S, NEW s \in Seq(S), s # <<>>, NEW N \in Nat, NEW p,
         \A i \in 1..Len(s) : p[s[i]] = IF i = Len(s) THEN s[1] ELSE s[i + 1]
  PROVE  \E f : /\ IsWalk(f, N, s[Len(s)], p)
                /\ \A k \in 1..N : k <= Len(s) => f[k] = s[k]
<1> DEFINE n == Len(s)
           f == [k \in 0..N |-> IF k = 0 THEN s[n] ELSE s[((k - 1) % n) + 1]]
<1>1. n \in Nat \ {0}
  OBVIOUS
<1> HIDE DEF n
<1>2. ASSUME NEW k \in 0..N
      PROVE  f[k] = IF k = 0 THEN s[n] ELSE p[f[k - 1]]
  <2>1. CASE k = 0
    BY <2>1
  <2>2. CASE k = 1
    <3>1. 0 % n = 0
      BY <1>1, ModNext
    <3>2. p[s[n]] = s[1]
      BY <1>1 DEF n
    <3> QED BY <1>1, <2>2, <3>1, <3>2
  <2>3. CASE k > 1
    <3> DEFINE m == (k - 2) % n
    <3>1. /\ m \in 0..(n - 1)
          /\ (k - 1) % n = IF m = n - 1 THEN 0 ELSE m + 1
      <4>1. k - 2 \in Nat /\ (k - 2) + 1 = k - 1
        BY <2>3
      <4> QED BY <1>1, <4>1, ModNext
    <3>2. f[k] = s[((k - 1) % n) + 1] /\ f[k - 1] = s[m + 1]
      BY <2>3
    <3> HIDE DEF m, f
    <3>3. m + 1 \in 1..n
      BY <1>1, <3>1
    <3>4. p[s[m + 1]] = IF m + 1 = n THEN s[1] ELSE s[(m + 1) + 1]
      BY <3>3 DEF n
    <3> QED BY <1>1, <2>3, <3>1, <3>2, <3>4
  <2> QED BY <2>1, <2>2, <2>3
<1>3. \A k \in 1..N : k <= n => f[k] = s[k]
  <2> SUFFICES ASSUME NEW k \in 1..N, k <= n PROVE f[k] = s[k]
    OBVIOUS
  <2>1. k - 1 \in Nat /\ k - 1 < n
    BY <1>1
  <2>2. (k - 1) % n = k - 1
    BY <1>1, <2>1, ModNext
  <2> QED BY <2>2
<1>4. IsWalk(f, N, s[n], p)
  BY <1>2 DEF IsWalk
<1> HIDE DEF f
<1> QED BY <1>3, <1>4 DEF n
-----------------------------------------------------------------------------
\* What following prev from the newest node finds.
RingFacts(s) ==
  /\ Cardinality(heap) = Len(s)
  /\ s # <<>> => Along[0] = queue /\ \A k \in 1..Len(s) : Along[k] = s[k]
  /\ Contents = [k \in 1..Len(s) |-> item[s[k]]]

\* Stated for all rings at once, so that it holds of the next state as well.
WalkCorrect == \A s \in Seq(Nodes) : IsRing(s) => RingFacts(s)

\* Along is the walk from the queue, given that there is one.
LEMMA AlongUnfolds ==
  ASSUME NEW f, IsWalk(f, Cardinality(Nodes), queue, prev)
  PROVE  IsWalk(Along, Cardinality(Nodes), queue, prev)
BY DEF Along, IsWalk

\* The nodes of the ring are counted by its sequence.
LEMMA RingSize ==
  ASSUME NEW s \in Seq(Nodes), IsRing(s)
  PROVE  Cardinality(heap) = Len(s) /\ Len(s) <= Cardinality(Nodes)
<1>1. s \in Bijection(1..Len(s), heap)
  <2>1. s \in [1..Len(s) -> heap]
    BY DEF IsRing
  <2>2. \A n \in heap : \E i \in 1..Len(s) : s[i] = n
    BY DEF IsRing
  <2>3. \A i, j \in 1..Len(s) : s[i] = s[j] => i = j
    BY DEF IsRing
  <2>4. s \in Injection(1..Len(s), heap) /\ s \in Surjection(1..Len(s), heap)
    BY <2>1, <2>2, <2>3 DEF Injection, Surjection, IsInjective
  <2> QED BY <2>4 DEF Bijection
<1>2. IsFiniteSet(1..Len(s)) /\ Cardinality(1..Len(s)) = Len(s)
  <2>1. Len(s) \in Nat /\ 1 \in Int /\ Len(s) \in Int
    OBVIOUS
  <2> HIDE DEF IsRing
  <2>2. /\ IsFiniteSet(1..Len(s))
        /\ Cardinality(1..Len(s)) = IF 1 > Len(s) THEN 0 ELSE Len(s) - 1 + 1
    BY <2>1, FS_Interval
  <2> QED BY <2>1, <2>2
<1>3. Cardinality(heap) = Len(s)
  BY <1>1, <1>2, FS_Bijection DEF ExistsBijection
<1>4. heap \subseteq Nodes
  BY DEF IsRing
<1> QED BY <1>3, <1>4, NodesAssumption, FS_Subset

LEMMA WalkNow == WalkCorrect
<1> SUFFICES ASSUME NEW s \in Seq(Nodes), IsRing(s) PROVE RingFacts(s)
  BY DEF WalkCorrect
<1>1. Cardinality(heap) = Len(s) /\ Len(s) <= Cardinality(Nodes)
  BY RingSize
<1>2. ASSUME s # <<>>
      PROVE  Along[0] = queue /\ \A k \in 1..Len(s) : Along[k] = s[k]
  <2> DEFINE N == Cardinality(Nodes)
  <2>1. N \in Nat
    BY NodesAssumption, FS_CardinalityType
  <2>2. queue = s[Len(s)]
    BY <1>2 DEF IsRing
  <2>3. \A i \in 1..Len(s) : prev[s[i]] = IF i = Len(s) THEN s[1] ELSE s[i + 1]
    BY DEF IsRing
  <2> HIDE DEF N
  <2>4. PICK f : /\ IsWalk(f, N, s[Len(s)], prev)
                 /\ \A k \in 1..N : k <= Len(s) => f[k] = s[k]
    BY <1>2, <2>1, <2>3, WalkExists
  <2>5. IsWalk(f, N, queue, prev)
    BY <2>2, <2>4
  <2>6. IsWalk(Along, N, queue, prev)
    BY <2>5, AlongUnfolds DEF N
  <2>7. \A k \in 0..N : Along[k] = f[k]
    BY <2>1, <2>5, <2>6, WalksAgree
  <2>8. \A k \in 1..Len(s) : k \in 1..N /\ k <= Len(s)
    BY <1>1, <2>1 DEF N
  <2>9. \A k \in 1..Len(s) : Along[k] = s[k]
    BY <2>4, <2>7, <2>8
  <2>10. Along[0] = queue
    BY <2>1, <2>6 DEF IsWalk
  <2> QED BY <2>9, <2>10
<1>3. Contents = [k \in 1..Len(s) |-> item[s[k]]]
  <2>1. \A k \in 1..Len(s) : item[Along[k]] = item[s[k]]
    BY <1>2
  <2> QED BY <1>1, <2>1 DEF Contents
<1> QED BY <1>1, <1>2, <1>3 DEF RingFacts

LEMMA WalkNext == WalkCorrect'
BY WalkNow, PTL

\* A ring of all the nodes is what the invariant of the run asks for.
LEMMA RingIntactFollows == RingInv => RingIntact
<1> SUFFICES ASSUME RingInv PROVE RingIntact
  OBVIOUS
<1> PICK s \in Seq(Nodes) : IsRing(s)
  BY DEF RingInv
<1>1. RingFacts(s)
  BY WalkNow DEF WalkCorrect
<1>2. CASE s = <<>>
  BY <1>2 DEF IsRing, RingIntact
<1>3. CASE s # <<>>
  <2>1. Len(s) \in 1..Len(s) /\ s[Len(s)] \in Nodes /\ queue = s[Len(s)]
    BY <1>3 DEF IsRing
  <2>2. queue # Null
    BY <2>1, NodesAssumption
  <2>3. \A k \in 1..Len(s) : Along[k] = s[k]
    BY <1>1, <1>3 DEF RingFacts
  <2>4. {Along[k] : k \in 1..Len(s)} = heap
    BY <2>3 DEF IsRing
  <2>5. \A k \in 1..Len(s) : item[Along[k]] # Null
    BY <2>3 DEF IsRing
  <2> QED BY <1>1, <2>1, <2>2, <2>3, <2>4, <2>5 DEF RingFacts, RingIntact
<1> QED BY <1>2, <1>3

\* The loop of queue_count leaves one node of the ring out.
LEMMA CountOfRing ==
  ASSUME NEW s \in Seq(Nodes), IsRing(s)
  PROVE  QueueCount = IF Contents = <<>> THEN 0 ELSE Len(Contents) - 1
<1>1. RingFacts(s)
  BY WalkNow DEF WalkCorrect
<1>2. /\ Contents \in Seq(Items \cup {item[n] : n \in Nodes})
      /\ Len(Contents) = Len(s)
  BY <1>1 DEF RingFacts
<1>3. CASE s = <<>>
  BY <1>1, <1>2, <1>3 DEF IsRing, QueueCount, RingFacts
<1>4. CASE s # <<>>
  <2> DEFINE n == Len(s)
             N == Cardinality(Nodes)
             Last(i) == /\ prev[Along[i]] = queue
                        /\ \A j \in 0..(i - 1) : prev[Along[j]] # queue
  <2>1. n \in Nat \ {0} /\ N \in Nat /\ n <= N
    BY <1>4, RingSize, NodesAssumption, FS_CardinalityType
  <2>2. /\ Along[0] = s[n] /\ queue = s[n] /\ s[n] \in Nodes
        /\ \A k \in 1..n : Along[k] = s[k]
    <3>1. queue = s[n] /\ s[n] \in Nodes
      BY <1>4 DEF IsRing
    <3> QED BY <1>1, <1>4, <3>1 DEF RingFacts
  <2>3. \A i \in 1..n : prev[s[i]] = IF i = n THEN s[1] ELSE s[i + 1]
    BY DEF IsRing
  <2>4. \A i, j \in 1..n : s[i] = s[j] => i = j
    BY DEF IsRing
  <2> HIDE DEF n, N
  <2>5. \A i \in 0..(n - 1) : prev[Along[i]] = s[i + 1]
    <3> SUFFICES ASSUME NEW i \in 0..(n - 1) PROVE prev[Along[i]] = s[i + 1]
      OBVIOUS
    <3>1. CASE i = 0
      BY <2>1, <2>2, <2>3, <3>1
    <3>2. CASE i # 0
      BY <2>1, <2>2, <2>3, <3>2
    <3> QED BY <3>1, <3>2
  <2>6. \A i \in 0..(n - 1) : prev[Along[i]] = queue <=> i = n - 1
    BY <2>1, <2>2, <2>4, <2>5
  <2>7. n - 1 \in 0..(N - 1) /\ Last(n - 1)
    BY <2>1, <2>6
  <2>8. ASSUME NEW i \in 0..(N - 1), Last(i) PROVE i = n - 1
    BY <2>1, <2>6, <2>8
  <2>9. (CHOOSE i \in 0..(N - 1) : Last(i)) = n - 1
    BY <2>7, <2>8
  <2>10. queue # Null
    BY <2>2, NodesAssumption
  <2>11. QueueCount = n - 1
    BY <2>9, <2>10 DEF QueueCount, N
  <2> QED BY <1>2, <2>1, <2>11 DEF n
<1> QED BY <1>3, <1>4

-----------------------------------------------------------------------------
(* The steps: what each does to the ring and to the sequence it stands for. *)

\* Sequences as functions on 1..n: what one is, Append and Tail.
LEMMA SeqOfFunction ==
  ASSUME NEW S, NEW n \in Nat, NEW c \in [1..n -> S]
  PROVE  c \in Seq(S) /\ Len(c) = n
OBVIOUS

LEMMA AppendIs ==
  ASSUME NEW S, NEW c \in Seq(S), NEW x \in S
  PROVE  Append(c, x) =
           [k \in 1..(Len(c) + 1) |-> IF k = Len(c) + 1 THEN x ELSE c[k]]
<1> DEFINE n == Len(c)
           d == [k \in 1..(n + 1) |-> IF k = n + 1 THEN x ELSE c[k]]
<1>1. n \in Nat /\ n + 1 \in Nat
  OBVIOUS
<1>2. d \in [1..(n + 1) -> S]
  OBVIOUS
<1> HIDE DEF d
<1>3. d \in Seq(S) /\ Len(d) = n + 1
  BY <1>1, <1>2, SeqOfFunction
<1>4. Append(c, x) \in Seq(S) /\ Len(Append(c, x)) = n + 1
  OBVIOUS
<1>5. \A k \in 1..(n + 1) : Append(c, x)[k] = IF k = n + 1 THEN x ELSE c[k]
  OBVIOUS
<1>6. \A k \in 1..(n + 1) : d[k] = IF k = n + 1 THEN x ELSE c[k]
  BY DEF d
<1>7. \A k \in 1..(n + 1) : Append(c, x)[k] = d[k]
  BY <1>5, <1>6
<1>8. Append(c, x) = d
  BY <1>3, <1>4, <1>7
<1> QED BY <1>8 DEF d

LEMMA TailIs ==
  ASSUME NEW S, NEW c \in Seq(S), c # <<>>
  PROVE  Tail(c) = [k \in 1..(Len(c) - 1) |-> c[k + 1]]
<1> DEFINE n == Len(c)
           d == [k \in 1..(n - 1) |-> c[k + 1]]
<1>1. n - 1 \in Nat
  OBVIOUS
<1>2. d \in [1..(n - 1) -> S]
  OBVIOUS
<1> HIDE DEF d
<1>3. d \in Seq(S) /\ Len(d) = n - 1
  BY <1>1, <1>2, SeqOfFunction
<1>4. Tail(c) \in Seq(S) /\ Len(Tail(c)) = n - 1
  OBVIOUS
<1>5. \A k \in 1..(n - 1) : Tail(c)[k] = c[k + 1]
  OBVIOUS
<1>6. \A k \in 1..(n - 1) : d[k] = c[k + 1]
  BY DEF d
<1>7. Tail(c) = d
  BY <1>3, <1>4, <1>5, <1>6
<1> QED BY <1>7 DEF d

\* A step that leaves the nodes alone leaves the ring and its contents.
LEMMA SameRing ==
  ASSUME RingInv, UNCHANGED <<queue, prev, item, heap>>
  PROVE  RingInv' /\ Contents' = Contents
<1>1. PICK s \in Seq(Nodes) : IsRing(s)
  BY DEF RingInv
<1>2. Typed' /\ IsRing(s)'
  BY <1>1 DEF RingInv, Typed, IsRing
<1>3. RingFacts(s) /\ RingFacts(s)'
  BY <1>1, <1>2, WalkNow, WalkNext DEF WalkCorrect
<1>4. Contents' = Contents
  BY <1>3 DEF RingFacts
<1> QED BY <1>2, <1>4 DEF RingInv

\* The push that finds memory.
LEMMA LinkStep ==
  ASSUME RingInv, NEW x \in Items, NEW new \in Nodes \ heap,
         heap' = heap \cup {new}, Link(new, x)
  PROVE  RingInv' /\ Contents' = Append(Contents, x)
<1>1. PICK s \in Seq(Nodes) : IsRing(s)
  BY DEF RingInv
<1> DEFINE n == Len(s)
           t == Append(s, new)
<1>2. /\ n \in Nat /\ t \in Seq(Nodes) /\ t # <<>>
      /\ Len(t) = n + 1 /\ t[n + 1] = new
      /\ \A i \in 1..n : t[i] = s[i]
  OBVIOUS
<1>3. /\ \A i \in 1..n : s[i] \in heap /\ s[i] \in Nodes /\ s[i] # new
      /\ \A i, j \in 1..n : s[i] = s[j] => i = j
      /\ heap = {s[i] : i \in 1..n}
      /\ n = 0 => queue = Null
      /\ n # 0 => queue = s[n] /\ queue # Null
      /\ \A i \in 1..n : prev[s[i]] = IF i = n THEN s[1] ELSE s[i + 1]
      /\ \A i \in 1..n : item[s[i]] # Null
  <2>1. \A i \in 1..n : s[i] \in heap /\ s[i] \in Nodes /\ s[i] # new
    BY <1>1 DEF IsRing
  <2>2. n # 0 => n \in 1..n
    BY <1>2
  <2>3. n # 0 => queue = s[n] /\ queue # Null
    BY <1>1, <2>1, <2>2, NodesAssumption DEF IsRing
  <2> QED BY <1>1, <2>1, <2>3 DEF IsRing
<1>4. /\ Typed
      /\ prev' = IF queue = Null THEN [prev EXCEPT ![new] = new]
                 ELSE [prev EXCEPT ![new] = prev[queue], ![queue] = new]
      /\ item' = [item EXCEPT ![new] = x]
      /\ queue' = new /\ x # Null
  BY ItemsAssumption DEF RingInv, Link
<1> HIDE DEF n, t
<1>5. Typed'
  BY <1>4 DEF Typed
<1>6. /\ item'[new] = x
      /\ \A i \in 1..n : item'[s[i]] = item[s[i]]
  BY <1>3, <1>4 DEF Typed
<1>7. IsRing(t)'
  <2>1. \A i, j \in 1..(n + 1) : t[i] = t[j] => i = j
    <3> SUFFICES ASSUME NEW i \in 1..(n + 1), NEW j \in 1..(n + 1), t[i] = t[j]
                 PROVE  i = j
      OBVIOUS
    <3>1. i \in 1..n \/ i = n + 1
      BY <1>2
    <3>2. j \in 1..n \/ j = n + 1
      BY <1>2
    <3> QED BY <1>2, <1>3, <3>1, <3>2
  <2>2. heap' = {t[i] : i \in 1..(n + 1)}
    <3>1. \A m \in heap' : \E i \in 1..(n + 1) : t[i] = m
      <4> SUFFICES ASSUME NEW m \in heap' PROVE \E i \in 1..(n + 1) : t[i] = m
        OBVIOUS
      <4>1. CASE m = new
        BY <1>2, <4>1
      <4>2. CASE m \in heap
        <5>1. PICK i \in 1..n : s[i] = m
          BY <1>3, <4>2
        <5>2. i \in 1..(n + 1) /\ t[i] = m
          BY <1>2, <5>1
        <5> QED BY <5>2
      <4> QED BY <4>1, <4>2
    <3>2. ASSUME NEW i \in 1..(n + 1) PROVE t[i] \in heap'
      <4>1. i \in 1..n \/ i = n + 1
        BY <1>2
      <4> QED BY <1>2, <1>3, <4>1
    <3> QED BY <3>1, <3>2
  <2>3. \A i \in 1..(n + 1) : prev'[t[i]] = IF i = n + 1 THEN t[1] ELSE t[i + 1]
    <3>1. CASE n = 0
      <4>1. prev'[new] = new
        BY <1>3, <1>4, <3>1 DEF Typed
      <4>2. \A i \in 1..(n + 1) : i = n + 1
        BY <3>1
      <4> QED BY <1>2, <3>1, <4>1, <4>2
    <3>2. CASE n # 0
      <4>1. /\ prev'[new] = prev[s[n]]
            /\ prev'[s[n]] = new
            /\ \A i \in 1..n : i # n => prev'[s[i]] = prev[s[i]]
        <5>1. n \in 1..n
          BY <1>2, <3>2
        <5>2. prev' = [prev EXCEPT ![new] = prev[s[n]], ![s[n]] = new]
          BY <1>3, <1>4, <3>2
        <5>3. \A i \in 1..n : i # n => s[i] # s[n]
          BY <1>3, <5>1
        <5> QED BY <1>3, <1>4, <5>1, <5>2, <5>3 DEF Typed
      <4>2. prev[s[n]] = t[1] /\ 1 \in 1..n /\ n \in 1..n
        BY <1>2, <1>3, <3>2
      <4>3. prev'[t[n + 1]] = t[1]
        BY <1>2, <4>1, <4>2
      <4>4. ASSUME NEW i \in 1..n PROVE prev'[t[i]] = t[i + 1]
        <5>1. CASE i = n
          BY <1>2, <4>1, <5>1
        <5>2. CASE i # n
          <6>1. i + 1 \in 1..n
            BY <1>2, <5>2
          <6> QED BY <1>2, <1>3, <4>1, <5>2, <6>1
        <5> QED BY <5>1, <5>2
      <4>5. \A i \in 1..(n + 1) : i = n + 1 \/ (i \in 1..n /\ i # n + 1)
        BY <1>2
      <4> QED BY <4>3, <4>4, <4>5
    <3> QED BY <3>1, <3>2
  <2>4. \A i \in 1..(n + 1) : item'[t[i]] # Null
    <3> SUFFICES ASSUME NEW i \in 1..(n + 1) PROVE item'[t[i]] # Null
      OBVIOUS
    <3>1. i \in 1..n \/ i = n + 1
      BY <1>2
    <3> QED BY <1>2, <1>3, <1>4, <1>6, <3>1
  <2> QED BY <1>2, <1>4, <2>1, <2>2, <2>3, <2>4 DEF IsRing
<1>8. RingFacts(s) /\ RingFacts(t)'
  BY <1>1, <1>2, <1>7, WalkNow, WalkNext DEF WalkCorrect
<1>9. Contents' = Append(Contents, x)
  <2>1. Contents = [k \in 1..n |-> item[s[k]]]
    BY <1>8 DEF RingFacts, n
  <2>2. Contents' = [k \in 1..(n + 1) |-> item'[t[k]]]
    BY <1>2, <1>8 DEF RingFacts
  <2>3. Contents \in Seq(Items \cup {Null}) /\ Len(Contents) = n
    <3>1. \A k \in 1..n : item[s[k]] \in Items \cup {Null}
      BY <1>3, <1>4 DEF Typed
    <3>2. Contents \in [1..n -> Items \cup {Null}]
      BY <2>1, <3>1
    <3> QED BY <1>2, <3>2, SeqOfFunction
  <2>4. Append(Contents, x) =
          [k \in 1..(n + 1) |-> IF k = n + 1 THEN x ELSE item[s[k]]]
    <3>1. Append(Contents, x) =
            [k \in 1..(n + 1) |-> IF k = n + 1 THEN x ELSE Contents[k]]
      <4>1. x \in Items \cup {Null}
        OBVIOUS
      <4> QED BY <2>3, <4>1, AppendIs
    <3>2. \A k \in 1..(n + 1) : k # n + 1 => Contents[k] = item[s[k]]
      BY <1>2, <2>1
    <3> QED BY <3>1, <3>2
  <2>5. \A k \in 1..(n + 1) : item'[t[k]] = IF k = n + 1 THEN x ELSE item[s[k]]
    <3> SUFFICES ASSUME NEW k \in 1..(n + 1)
                 PROVE  item'[t[k]] = IF k = n + 1 THEN x ELSE item[s[k]]
      OBVIOUS
    <3>1. (k \in 1..n /\ k # n + 1) \/ k = n + 1
      BY <1>2
    <3> QED BY <1>2, <1>6, <3>1
  <2> QED BY <2>2, <2>4, <2>5
<1> QED BY <1>2, <1>5, <1>7, <1>9 DEF RingInv

\* The pop of the only node.
LEMMA OnlyStep ==
  ASSUME RingInv, PopOnly
  PROVE  /\ RingInv'
         /\ Contents # <<>>
         /\ last'.rv = Head(Contents) /\ Contents' = Tail(Contents)
<1>1. PICK s \in Seq(Nodes) : IsRing(s)
  BY DEF RingInv
<1>2. /\ Typed /\ queue # Null /\ prev[queue] = queue
      /\ last'.rv = item[queue]
      /\ heap' = heap \ {queue}
      /\ item' = [item EXCEPT ![queue] = Null]
      /\ prev' = [prev EXCEPT ![queue] = Null]
      /\ queue' = Null
  BY DEF RingInv, PopOnly, Report, Free
<1>3. Len(s) = 1 /\ s[1] = queue
  <2>1. s # <<>> /\ Len(s) \in 1..Len(s) /\ 1 \in 1..Len(s)
    BY <1>1, <1>2 DEF IsRing
  <2>2. queue = s[Len(s)] /\ prev[s[Len(s)]] = s[1]
    BY <1>1, <2>1 DEF IsRing
  <2>3. Len(s) = 1
    BY <1>1, <1>2, <2>1, <2>2 DEF IsRing
  <2> QED BY <2>2, <2>3
<1>4. heap = {queue}
  <2>1. heap = {s[i] : i \in 1..Len(s)} /\ 1..Len(s) = {1}
    BY <1>1, <1>3 DEF IsRing
  <2> QED BY <1>3, <2>1
<1>5. Typed'
  BY <1>2 DEF Typed
<1>6. IsRing(<<>>)'
  BY <1>2, <1>4 DEF IsRing
<1>7. <<>> \in Seq(Nodes)
  OBVIOUS
<1>8. RingFacts(s) /\ RingFacts(<<>>)'
  BY <1>1, <1>6, <1>7, WalkNow, WalkNext DEF WalkCorrect
<1>9. Contents = <<item[queue]>>
  BY <1>3, <1>8 DEF RingFacts
<1>10. Contents' = <<>>
  BY <1>8 DEF RingFacts
<1>11. RingInv'
  BY <1>5, <1>6, <1>7 DEF RingInv
<1> QED BY <1>2, <1>9, <1>10, <1>11

\* The pop of the oldest of several nodes.
LEMMA OldestStep ==
  ASSUME RingInv, PopOldest
  PROVE  /\ RingInv'
         /\ Contents # <<>>
         /\ last'.rv = Head(Contents) /\ Contents' = Tail(Contents)
<1>1. PICK s \in Seq(Nodes) : IsRing(s)
  BY DEF RingInv
<1> DEFINE n == Len(s)
           t == Tail(s)
<1>2. Typed /\ queue # Null /\ prev[queue] # queue
  BY DEF RingInv, PopOldest
<1>3. /\ n \in Nat /\ n >= 2
      /\ \A i \in 1..n : s[i] \in Nodes
      /\ \A i, j \in 1..n : s[i] = s[j] => i = j
      /\ heap = {s[i] : i \in 1..n}
      /\ queue = s[n]
      /\ \A i \in 1..n : prev[s[i]] = IF i = n THEN s[1] ELSE s[i + 1]
      /\ \A i \in 1..n : item[s[i]] # Null
  <2>1. s # <<>> /\ n \in 1..n
    BY <1>1, <1>2 DEF IsRing
  <2>2. queue = s[n] /\ prev[s[n]] = s[1]
    BY <1>1, <2>1 DEF IsRing
  <2>3. n # 1
    BY <1>2, <2>2
  <2>4. n \in Nat /\ n >= 2 /\ \A i \in 1..n : s[i] \in Nodes
    <3>1. n \in Nat /\ \A i \in 1..n : s[i] \in Nodes
      OBVIOUS
    <3> HIDE DEF n
    <3> QED BY <2>1, <2>3, <3>1
  <2>5. queue = s[n]
    BY <2>2
  <2> HIDE DEF n
  <2> QED BY <1>1, <2>4, <2>5 DEF IsRing, n
<1>4. /\ t \in Seq(Nodes) /\ Len(t) = n - 1 /\ t # <<>>
      /\ \A i \in 1..(n - 1) : t[i] = s[i + 1]
  <2>1. s # <<>>
    BY <1>3
  <2>2. t \in Seq(Nodes) /\ Len(t) = n - 1
    BY <2>1
  <2>3. \A i \in 1..(n - 1) : t[i] = s[i + 1]
    BY <2>1
  <2>4. t # <<>>
    <3>1. Len(t) # 0
      <4> HIDE DEF n, t
      <4> QED BY <1>3, <2>2
    <3> HIDE DEF t
    <3> QED BY <3>1
  <2> QED BY <2>2, <2>3, <2>4
<1>5. 1 \in 1..n /\ 2 \in 1..n /\ n \in 1..n /\ s[1] # s[n]
  BY <1>3
<1>6. /\ last'.rv = item[s[1]]
      /\ heap' = heap \ {s[1]}
      /\ item' = [item EXCEPT ![s[1]] = Null]
      /\ prev' = [prev EXCEPT ![s[n]] = s[2], ![s[1]] = Null]
      /\ queue' = queue
  <2>1. prev[queue] = s[1] /\ prev[s[1]] = s[2]
    BY <1>3, <1>5
  <2> QED BY <1>3, <2>1 DEF PopOldest, Report, Free
<1> HIDE DEF n, t
<1>7. Typed'
  BY <1>2, <1>3, <1>5, <1>6 DEF Typed
<1>8. \A i \in 1..(n - 1) : i + 1 \in 1..n /\ s[i + 1] # s[1]
  <2> SUFFICES ASSUME NEW i \in 1..(n - 1) PROVE i + 1 \in 1..n /\ s[i + 1] # s[1]
    OBVIOUS
  <2>1. i + 1 \in 1..n /\ i + 1 # 1
    BY <1>3
  <2> QED BY <1>3, <1>5, <2>1
<1>9. \A i \in 1..(n - 1) : item'[t[i]] = item[s[i + 1]]
  <2> SUFFICES ASSUME NEW i \in 1..(n - 1) PROVE item'[t[i]] = item[s[i + 1]]
    OBVIOUS
  <2>1. t[i] = s[i + 1] /\ s[i + 1] \in Nodes /\ s[i + 1] # s[1]
    BY <1>3, <1>4, <1>8
  <2> QED BY <1>2, <1>6, <2>1 DEF Typed
<1>10. IsRing(t)'
  <2>1. \A i, j \in 1..(n - 1) : t[i] = t[j] => i = j
    <3> SUFFICES ASSUME NEW i \in 1..(n - 1), NEW j \in 1..(n - 1), t[i] = t[j]
                 PROVE  i = j
      OBVIOUS
    <3>1. i + 1 \in 1..n /\ j + 1 \in 1..n /\ s[i + 1] = s[j + 1]
      BY <1>4, <1>8
    <3>2. i + 1 = j + 1
      BY <1>3, <3>1
    <3> QED BY <1>3, <3>2
  <2>2. heap' = {t[i] : i \in 1..(n - 1)}
    <3>1. ASSUME NEW m \in heap' PROVE \E i \in 1..(n - 1) : t[i] = m
      <4>1. PICK i \in 1..n : s[i] = m /\ i # 1
        BY <1>3, <1>6
      <4>2. i - 1 \in 1..(n - 1) /\ (i - 1) + 1 = i
        BY <1>3, <4>1
      <4>3. t[i - 1] = m
        BY <1>4, <4>1, <4>2
      <4> QED BY <4>2, <4>3
    <3>2. ASSUME NEW i \in 1..(n - 1) PROVE t[i] \in heap'
      <4>1. s[i + 1] \in heap /\ s[i + 1] # s[1]
        BY <1>3, <1>8
      <4> QED BY <1>4, <1>6, <4>1
    <3> QED BY <3>1, <3>2
  <2>3. queue' = t[n - 1]
    <3>1. n - 1 \in 1..(n - 1) /\ (n - 1) + 1 = n
      BY <1>3
    <3> QED BY <1>3, <1>4, <1>6, <3>1
  <2>4. ASSUME NEW i \in 1..(n - 1)
        PROVE  prev'[t[i]] = IF i = n - 1 THEN t[1] ELSE t[i + 1]
    <3>1. /\ t[i] = s[i + 1] /\ i + 1 \in 1..n
          /\ s[i + 1] # s[1] /\ s[i + 1] \in Nodes
      BY <1>3, <1>4, <1>8
    <3>2. CASE i = n - 1
      <4>1. i + 1 = n
        BY <1>3, <3>2
      <4>2. prev'[s[n]] = s[2]
        BY <1>2, <1>3, <1>5, <1>6 DEF Typed
      <4>3. 1 \in 1..(n - 1) /\ t[1] = s[2]
        <5>1. 1 \in 1..(n - 1) /\ 1 + 1 = 2
          BY <1>3
        <5> QED BY <1>4, <5>1
      <4> QED BY <3>1, <3>2, <4>1, <4>2, <4>3
    <3>3. CASE i # n - 1
      <4>1. i + 1 # n /\ i + 1 \in 1..(n - 1)
        BY <1>3, <3>3
      <4>2. s[i + 1] # s[n]
        BY <1>3, <1>5, <3>1, <4>1
      <4>3. prev'[s[i + 1]] = prev[s[i + 1]]
        BY <1>2, <1>6, <3>1, <4>2 DEF Typed
      <4>4. prev[s[i + 1]] = s[(i + 1) + 1]
        BY <1>3, <3>1, <4>1
      <4>5. t[i + 1] = s[(i + 1) + 1]
        BY <1>4, <4>1
      <4> QED BY <3>1, <3>3, <4>3, <4>4, <4>5
    <3> QED BY <3>2, <3>3
  <2>5. ASSUME NEW i \in 1..(n - 1) PROVE item'[t[i]] # Null
    BY <1>3, <1>8, <1>9
  <2> QED BY <1>4, <2>1, <2>2, <2>3, <2>4, <2>5 DEF IsRing
<1>11. RingFacts(s) /\ RingFacts(t)'
  BY <1>1, <1>4, <1>10, WalkNow, WalkNext DEF WalkCorrect
<1>12. Contents = [k \in 1..n |-> item[s[k]]]
  BY <1>11 DEF RingFacts, n
<1>13. Contents' = [k \in 1..(n - 1) |-> item'[t[k]]]
  BY <1>4, <1>11 DEF RingFacts
<1>14. Contents \in Seq(Items \cup {Null}) /\ Len(Contents) = n
  <2>1. \A k \in 1..n : item[s[k]] \in Items \cup {Null}
    BY <1>2, <1>3 DEF Typed
  <2>2. Contents \in [1..n -> Items \cup {Null}]
    BY <1>12, <2>1
  <2> QED BY <1>3, <2>2, SeqOfFunction
<1>15. Contents # <<>>
  BY <1>3, <1>14
<1>16. Head(Contents) = item[s[1]]
  BY <1>5, <1>12, <1>14, <1>15
<1>17. Contents' = Tail(Contents)
  <2>1. Tail(Contents) = [k \in 1..(n - 1) |-> Contents[k + 1]]
    BY <1>14, <1>15, TailIs
  <2>2. \A k \in 1..(n - 1) : Contents[k + 1] = item[s[k + 1]]
    BY <1>8, <1>12
  <2> QED BY <1>9, <1>13, <2>1, <2>2
<1> QED BY <1>4, <1>6, <1>7, <1>10, <1>15, <1>16, <1>17 DEF RingInv

\* A queue that is NULL is one without contents.
LEMMA EmptyRing ==
  ASSUME RingInv, queue = Null
  PROVE  Contents = <<>>
<1>1. PICK s \in Seq(Nodes) : IsRing(s)
  BY DEF RingInv
<1>2. s = <<>>
  <2>1. SUFFICES ASSUME s # <<>> PROVE FALSE
    OBVIOUS
  <2>2. Len(s) \in 1..Len(s) /\ s[Len(s)] \in Nodes /\ queue = s[Len(s)]
    BY <1>1, <2>1 DEF IsRing
  <2> QED BY <2>2, NodesAssumption
<1>3. RingFacts(s)
  BY <1>1, WalkNow DEF WalkCorrect
<1> QED BY <1>2, <1>3 DEF RingFacts
-----------------------------------------------------------------------------
\* What a call promises of its result and of the contents it leaves.
Acts ==
  LET c == last'
  IN CASE c.op = "push" ->
            Contents' = IF c.rv = 1 THEN Append(Contents, c.arg) ELSE Contents
       [] c.op = "pop" ->
            IF Contents = <<>> THEN c.rv = Null /\ Contents' = <<>>
            ELSE c.rv = Head(Contents) /\ Contents' = Tail(Contents)
       [] c.op = "count" ->
            /\ c.rv = IF Contents = <<>> THEN 0 ELSE Len(Contents) - 1
            /\ Contents' = Contents

LEMMA RingInvInit == Init => RingInv
<1> SUFFICES ASSUME Init PROVE RingInv
  OBVIOUS
<1>1. Typed
  BY DEF Init, Typed
<1>2. IsRing(<<>>)
  BY DEF Init, IsRing
<1>3. <<>> \in Seq(Nodes)
  OBVIOUS
<1> QED BY <1>1, <1>2, <1>3 DEF RingInv

LEMMA RingInvStep == RingInv /\ Next => RingInv' /\ Acts
<1> SUFFICES ASSUME RingInv, Next PROVE RingInv' /\ Acts
  OBVIOUS
<1>1. ASSUME NEW x \in Items, Push(x) PROVE RingInv' /\ Acts
  <2>1. CASE Report("push", x, 0) /\ UNCHANGED <<queue, prev, item, heap>>
    <3>1. RingInv' /\ Contents' = Contents
      BY <2>1, SameRing
    <3>2. last'.op = "push" /\ last'.rv = 0
      BY <2>1 DEF Report
    <3> QED BY <3>1, <3>2 DEF Acts
  <2>2. CASE \E new \in Nodes \ heap :
               /\ heap' = heap \cup {new}
               /\ Link(new, x)
               /\ Report("push", x, 1)
    <3>1. RingInv' /\ Contents' = Append(Contents, x)
      BY <2>2, LinkStep
    <3>2. last'.op = "push" /\ last'.rv = 1 /\ last'.arg = x
      BY <2>2 DEF Report
    <3> QED BY <3>1, <3>2 DEF Acts
  <2> QED BY <1>1, <2>1, <2>2 DEF Push
<1>2. CASE PopEmpty
  <2>1. RingInv' /\ Contents' = Contents
    BY <1>2, SameRing DEF PopEmpty
  <2>2. Contents = <<>>
    BY <1>2, EmptyRing DEF PopEmpty
  <2>3. last'.op = "pop" /\ last'.rv = Null
    BY <1>2 DEF PopEmpty, Report
  <2> QED BY <2>1, <2>2, <2>3 DEF Acts
<1>3. CASE PopOnly
  <2>1. last'.op = "pop"
    BY <1>3 DEF PopOnly, Report
  <2> QED BY <1>3, <2>1, OnlyStep DEF Acts
<1>4. CASE PopOldest
  <2>1. last'.op = "pop"
    BY <1>4 DEF PopOldest, Report
  <2> QED BY <1>4, <2>1, OldestStep DEF Acts
<1>5. CASE Count
  <2>1. RingInv' /\ Contents' = Contents
    BY <1>5, SameRing DEF Count
  <2>2. QueueCount = IF Contents = <<>> THEN 0 ELSE Len(Contents) - 1
    BY CountOfRing DEF RingInv
  <2>3. last'.op = "count" /\ last'.rv = QueueCount
    BY <1>5 DEF Count, Report
  <2> QED BY <2>1, <2>2, <2>3 DEF Acts
<1> QED BY <1>1, <1>2, <1>3, <1>4, <1>5 DEF Next

LEMMA RingInvCorrect == Spec => []RingInv
<1>1. RingInv /\ UNCHANGED vars => RingInv'
  BY SameRing DEF vars
<1> QED BY RingInvInit, RingInvStep, <1>1, PTL DEF Spec

\* Whatever sequence of pushes and pops came before, and wherever malloc failed,
\* the ring is closed and made of all the nodes there are (queue.c:40, :69).
THEOREM RingIntactCorrect == Spec => []RingIntact
BY RingInvCorrect, RingIntactFollows, PTL

\* Every call does to the items what it does to a sequence of them: a push
\* appends, a pop takes the oldest, a count counts all but one (queue.c:86).
THEOREM ActsAsSequenceCorrect == Spec => ActsAsSequence
<1>1. RingInv /\ [Next]_vars => [Acts]_vars
  BY RingInvStep
<1>2. Spec => [][Acts]_vars
  BY <1>1, RingInvCorrect, PTL DEF Spec
<1>3. [Acts]_vars <=>
      [LET c == last'
       IN CASE c.op = "push" ->
                 Contents' = IF c.rv = 1 THEN Append(Contents, c.arg) ELSE Contents
            [] c.op = "pop" ->
                 IF Contents = <<>> THEN c.rv = Null /\ Contents' = <<>>
                 ELSE c.rv = Head(Contents) /\ Contents' = Tail(Contents)
            [] c.op = "count" ->
                 /\ c.rv = IF Contents = <<>> THEN 0 ELSE Len(Contents) - 1
                 /\ Contents' = Contents]_vars
  BY DEF Acts
<1> QED BY <1>2, <1>3, PTL DEF ActsAsSequence
=============================================================================
