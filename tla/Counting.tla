------------------------------ MODULE Counting ------------------------------
(***************************************************************************)
(* How the number of entries of a queue that lie in a set, and the number  *)
(* of threads that do, change when one entry or one thread does.  The      *)
(* proofs about ThreadPool, Pipeline and Tree cite these facts.            *)
(***************************************************************************)
EXTENDS Integers, Sequences, FiniteSets, FiniteSetTheorems, TLAPS

Places(s, T) == {i \in DOMAIN s : s[i] \in T}
Count(s, T) == Cardinality(Places(s, T))
One(p) == IF p THEN 1 ELSE 0

\* A queue has finitely many entries.
LEMMA CountType ==
  ASSUME NEW S, NEW s \in Seq(S), NEW T
  PROVE  IsFiniteSet(Places(s, T)) /\ Count(s, T) \in Nat
<1>1. IsFiniteSet(1..Len(s)) /\ Places(s, T) \subseteq 1..Len(s)
  BY FS_Interval DEF Places
<1> QED BY <1>1, FS_Subset, FS_CardinalityType DEF Count

\* An empty queue has none.
LEMMA CountEmpty == ASSUME NEW T PROVE Count(<<>>, T) = 0
<1>1. Places(<<>>, T) = {}
  BY DEF Places
<1> QED BY <1>1, FS_EmptySet DEF Count

\* A push adds one if the new entry is in the set.
LEMMA CountAppend ==
  ASSUME NEW S, NEW s \in Seq(S), NEW e \in S, NEW T
  PROVE  Count(Append(s, e), T) = Count(s, T) + One(e \in T)
<1> DEFINE n == Len(s) + 1
<1>1. n \notin Places(s, T)
  BY DEF Places
<1>2. CASE e \in T
  <2>1. Places(Append(s, e), T) = Places(s, T) \cup {n}
    BY <1>2 DEF Places
  <2> QED BY <1>1, <1>2, <2>1, CountType, FS_AddElement DEF Count, One
<1>3. CASE e \notin T
  <2>1. Places(Append(s, e), T) = Places(s, T)
    BY <1>3 DEF Places
  <2> QED BY <1>3, <2>1, CountType DEF Count, One
<1> QED BY <1>2, <1>3

\* A pop takes one away if the first entry was in the set.
LEMMA CountTail ==
  ASSUME NEW S, NEW s \in Seq(S), s # <<>>, NEW T
  PROVE  Count(s, T) = Count(Tail(s), T) + One(Head(s) \in T)
<1> DEFINE A == Places(Tail(s), T)
           B == Places(s, T) \ {1}
           f == [i \in A |-> i + 1]
<1>1. Tail(s) \in Seq(S) /\ 1 \in DOMAIN s /\ s[1] = Head(s)
  OBVIOUS
<1>2. f \in Bijection(A, B)
  <2>1. \A i \in A : i + 1 \in B
    BY DEF Places
  <2>2. \A k \in B : k - 1 \in A /\ (k - 1) + 1 = k
    BY DEF Places
  <2>3. \A i, k \in A : i + 1 = k + 1 => i = k
    BY DEF Places
  <2>4. f \in [A -> B]
    BY <2>1
  <2>5. \A i, k \in A : f[i] = f[k] => i = k
    BY <2>3
  <2>6. \A k \in B : \E i \in A : f[i] = k
    BY <2>2
  <2> QED BY <2>4, <2>5, <2>6
         DEF Bijection, Injection, Surjection, IsInjective
<1>3. IsFiniteSet(A) /\ Count(Tail(s), T) \in Nat
  BY <1>1, CountType
<1>4. Cardinality(B) = Count(Tail(s), T)
  BY <1>2, <1>3, FS_Bijection DEF ExistsBijection, Count
<1>5. IsFiniteSet(Places(s, T)) /\ Count(s, T) \in Nat
  BY CountType
<1>6. Cardinality(B) = IF 1 \in Places(s, T) THEN Count(s, T) - 1 ELSE Count(s, T)
  BY <1>5, FS_RemoveElement DEF Count
<1>7. 1 \in Places(s, T) <=> Head(s) \in T
  BY <1>1 DEF Places
<1> QED BY <1>3, <1>4, <1>5, <1>6, <1>7 DEF One

\* One thread enters or leaves a set; the others stay where they are.
LEMMA OneMoves ==
  ASSUME NEW W, IsFiniteSet(W), NEW A \in SUBSET W, NEW B \in SUBSET W, NEW w \in W,
         \A v \in W \ {w} : v \in A <=> v \in B
  PROVE  /\ Cardinality(A) \in Nat /\ Cardinality(B) \in Nat
         /\ Cardinality(B) = Cardinality(A) + One(w \in B) - One(w \in A)
<1>1. IsFiniteSet(A) /\ IsFiniteSet(B)
  BY FS_Subset
<1>2. Cardinality(A) \in Nat /\ Cardinality(B) \in Nat
  BY <1>1, FS_CardinalityType
<1>3. CASE w \in A <=> w \in B
  <2>1. A = B
    BY <1>3
  <2> QED BY <1>2, <2>1 DEF One
<1>4. CASE w \in A /\ w \notin B
  <2>1. B = A \ {w}
    BY <1>4
  <2> QED BY <1>1, <1>2, <1>4, <2>1, FS_RemoveElement DEF One
<1>5. CASE w \notin A /\ w \in B
  <2>1. B = A \cup {w}
    BY <1>5
  <2> QED BY <1>1, <1>2, <1>5, <2>1, FS_AddElement DEF One
<1> QED BY <1>3, <1>4, <1>5
=============================================================================
