----------------------------- MODULE TreeProofs -----------------------------
(***************************************************************************)
(* Proofs about Tree, for every number of threads, vertices and lines, and *)
(* every width of size_t.                                                  *)
(***************************************************************************)
EXTENDS Tree, Counting

\* The pool's theorems, for the tree's pool.
TP == INSTANCE ThreadPoolProofs WITH
  Clients <- {Main}, Owner <- Main, Jobs <- {Line}, MaxWork <- Null

Running(w) == wpc[w] = "run"

Typed ==
  /\ active \in 0..(SizeValues - 1)
  /\ jpc \in [Workers -> JobPCs]
  /\ loaded \in [Workers -> 0..(SizeValues - 1)]
  /\ adding \in [Users -> Vertices \cup {Null}]
  /\ root \in Vertices \cup {Null}
  /\ lines \in 0..MaxLines

\* A worker is in tree_loop only while it runs a unit.
AtWork(w) == jpc[w] # "start" => Running(w)

Shape == TP!CountInv /\ Typed /\ \A w \in Workers : AtWork(w)

\* Workers that have yet to push the root again or to end their line.
Busy == {w \in Workers : Running(w) /\ jpc[w] # "return"}
LineUnits == {u \in TP!Units : u.job = Line}
QueuedLines == Count(work, LineUnits)
LineTokens == QueuedLines + Cardinality(Busy)

\* Each tree_execute puts one unit on its way, which ends with the pool.
TokenInv ==
  /\ LineTokens <= lines
  /\ root = Null => lines = 0
  /\ lines = 0 => terms = 0
  /\ lines <= 1 => terms <= 1 /\ (terms = 1 => LineTokens = 0)

\* tree->lock belongs to the worker between Enter and CountIn, or between
\* LoadLines and CountOut, and what it has loaded is what active_lines is.
Inside == {"count", "store"}
Counted == {w \in Workers :
  Running(w) /\ jpc[w] \in {"routine", "done", "store"}}

ExclusionInv ==
  /\ cpc[Main] \in {"new", "use"} => lockWorks
  /\ lockWorks =>
       \A w \in Workers :
         /\ treeLock = w <=> jpc[w] \in Inside
         /\ jpc[w] \in {"count", "store"} => loaded[w] = active
         /\ jpc[w] = "count" => active <= Cardinality(Workers)

\* While children can be added, whoever is adding one finds the list.
ChildrenInv ==
  /\ children \in [Vertices -> Lists \cup {Null}]
  /\ ListsSound
  /\ \A u \in Users : adding[u] # Null => children[adding[u]] # Null
  /\ cpc[Main] \notin {"new", "use"} => \A u \in Users : adding[u] = Null

-----------------------------------------------------------------------------
(* The pool's assumptions follow from the tree's, and its steps are steps of *)
(* the pool.                                                                 *)

LEMMA Sizes == IsFiniteSet(Workers) /\ Cardinality(Workers) \in Nat
BY ThreadsAssumption, FS_CardinalityType

LEMMA PoolAssumptions ==
  /\ TP!OwnerAssumption /\ TP!WorkersAssumption /\ TP!NamesAssumption
  /\ TP!FailAssumption /\ TP!BoundAssumption
<1>1. TP!OwnerAssumption
  OBVIOUS
<1>2. TP!WorkersAssumption
  BY ThreadsAssumption DEF TP!IsFiniteSet, IsFiniteSet
<1>3. TP!NamesAssumption
  BY ThreadsAssumption, MainAssumption, SentinelAssumption
<1>4. TP!FailAssumption
  BY FailAssumption
<1>5. TP!BoundAssumption
  OBVIOUS
<1> QED BY <1>1, <1>2, <1>3, <1>4, <1>5

\* What tree_loop does to the pool is what a unit may do.
LEMMA LoopPoolStep ==
  ASSUME Shape, NEW w \in Workers,
         Enter(w) \/ CountIn(w) \/ PushRoot(w) \/ Routine(w)
         \/ Walk(w) \/ LoadLines(w) \/ CountOut(w) \/ LoopReturns(w)
  PROVE  [TP!Next]_(TP!vars)
<1>1. CASE Enter(w) \/ CountIn(w) \/ Routine(w) \/ Walk(w)
           \/ LoadLines(w)
  BY <1>1 DEF Enter, CountIn, Routine, Walk, LoadLines,
              poolVars, TP!vars
<1>2. CASE PushRoot(w)
  <2>1. TP!JobPush(w, Line)
    BY <1>2 DEF PushRoot, At, PoolUnchangedButWork, Pool!Push, Pool!Refuse, Pool!Unit,
                TP!JobPush, TP!Push, TP!Refuse, TP!Unit, TP!Room,
                TP!workerVars, TP!clientVars, Pool!Exists, TP!Exists
  <2> QED BY <2>1 DEF TP!Next
<1>3. CASE CountOut(w)
  <2>1. CASE active' = 0
    <3>1. TP!JobTerminate(w)
      BY <1>3, <2>1
      DEF CountOut, At, PoolUnchangedButWork, Pool!Terminate, Pool!Refuse, Pool!Unit,
          TP!JobTerminate, TP!Terminate, TP!Refuse, TP!Unit, TP!Room,
          TP!workerVars, TP!clientVars, Pool!Exists, TP!Exists
    <3> QED BY <3>1 DEF TP!Next
  <2>2. CASE active' # 0
    BY <1>3, <2>2 DEF CountOut, PoolUnchangedButWork, TP!vars
  <2> QED BY <2>1, <2>2
<1>4. CASE LoopReturns(w)
  <2>1. TP!JobReturn(w)
    BY <1>4 DEF LoopReturns, Pool!JobReturn, Pool!Finish, Pool!GotoW, Pool!clientVars,
                TP!JobReturn, TP!Finish, TP!GotoW, TP!clientVars
  <2>2. TP!Exists
    BY <1>4 DEF LoopReturns, At, Pool!Exists, TP!Exists
  <2> QED BY <2>1, <2>2 DEF TP!Next, TP!WorkerStep
<1> QED BY <1>1, <1>2, <1>3, <1>4

LEMMA PoolStep == Shape /\ [Next]_vars => [TP!Next]_(TP!vars)
<1> SUFFICES ASSUME Shape, [Next]_vars PROVE [TP!Next]_(TP!vars)
  OBVIOUS
<1>1. ASSUME NEW w \in Workers, ThreadLoop(w) PROVE TP!Next
  <2>0. TP!Exists
    BY <1>1 DEF ThreadLoop, Pool!Exists, TP!Exists
  <2>1. CASE Pool!Pop(w)
    <3>1. TP!Pop(w)
      BY <2>1 DEF Pool!Pop, Pool!GotoW, Pool!clientVars, TP!Pop, TP!GotoW, TP!clientVars
    <3> QED BY <2>0, <3>1 DEF TP!Next, TP!WorkerStep
  <2>2. CASE Pool!TermLock(w)
    <3>1. TP!TermLock(w)
      BY <2>2 DEF Pool!TermLock, Pool!GotoW, Pool!clientVars,
                  TP!TermLock, TP!GotoW, TP!clientVars
    <3> QED BY <2>0, <3>1 DEF TP!Next, TP!WorkerStep
  <2>3. CASE Pool!Relay(w)
    <3>1. TP!Relay(w)
      BY <2>3 DEF Pool!Relay, Pool!Push, Pool!Unit, Pool!Refuse, Pool!GotoW,
                  Pool!clientVars, TP!Relay, TP!Push, TP!Unit, TP!Refuse,
                  TP!GotoW, TP!clientVars
    <3> QED BY <2>0, <3>1 DEF TP!Next, TP!WorkerStep
  <2>4. CASE Pool!Leave(w)
    <3>1. TP!Leave(w)
      BY <2>4 DEF Pool!Leave, Pool!GotoW, Pool!clientVars,
                  TP!Leave, TP!GotoW, TP!clientVars
    <3> QED BY <2>0, <3>1 DEF TP!Next, TP!WorkerStep
  <2> QED BY <1>1, <2>1, <2>2, <2>3, <2>4 DEF ThreadLoop
<1>2. ASSUME NEW u \in Users, UserStep(u) PROVE [TP!Next]_(TP!vars)
  <2>1. CASE Execute(u)
    <3>1. TP!ClientPush(Main, Line)
      BY <2>1 DEF Execute, MayCall, Pool!Push, Pool!Refuse, Pool!Unit,
             TP!ClientPush, TP!Push, TP!Refuse, TP!Unit, TP!Room,
             TP!workerVars, TP!clientVars
    <3> QED BY <3>1 DEF TP!Next
  <2>2. CASE ~Execute(u)
    BY <1>2, <2>2
    DEF UserStep, AddRoot, AddChildLock, AddChild, TreeTerminate, poolVars, TP!vars
  <2> QED BY <2>1, <2>2
<1>3. CASE OwnerStep
  <2>1. TP!OwnerStep
    BY <1>3 DEF OwnerStep, Pool!OwnerStep, Pool!Create, Pool!NewReturns, Pool!Join,
                Pool!FreeAssert, Pool!FreeReturns, Pool!GotoW, Pool!GotoC, Pool!workerVars,
                TP!OwnerStep, TP!Create, TP!NewReturns, TP!Join,
                TP!FreeAssert, TP!FreeReturns, TP!GotoW, TP!GotoC, TP!workerVars
  <2> QED BY <2>1 DEF TP!Next
<1>4. CASE FreeCalled
  <2>1. TP!FreeCalled
    BY <1>4 DEF FreeCalled, Pool!FreeCalled, Pool!GotoC, Pool!workerVars,
                TP!FreeCalled, TP!GotoC, TP!workerVars
  <2> QED BY <2>1 DEF TP!Next
<1>5. CASE (\E v \in Vertices : FreeVertice(v)) \/ UNCHANGED vars
  BY <1>5 DEF FreeVertice, vars, poolVars, TP!vars
<1> QED BY <1>1, <1>2, <1>3, <1>4, <1>5, LoopPoolStep DEF Next, WorkerStep

LEMMA PoolInit == Init => TP!Init
<1>1. \A S : TP!Cardinality(S) = Pool!Cardinality(S)
  BY DEF TP!Cardinality, Pool!Cardinality, TP!IsFiniteSet, Pool!IsFiniteSet
<1> QED BY <1>1 DEF Init, Pool!Init, TP!Init

-----------------------------------------------------------------------------
(* Shape is inductive. *)

\* Arithmetic of a size_t.
LEMMA Wrapped ==
  ASSUME NEW x \in Int
  PROVE  /\ x % SizeValues \in 0..(SizeValues - 1)
         /\ x \in 0..(SizeValues - 1) => x % SizeValues = x
BY Sizes, SizeAssumption

LEMMA ShapeInit == Init => Shape
<1> SUFFICES ASSUME Init PROVE Shape
  OBVIOUS
<1>1. TP!CountInv
  BY PoolInit, PoolAssumptions, TP!CountInit
<1>2. Typed
  BY Sizes, SizeAssumption, TreeBoundsAssumption DEF Init, Typed, JobPCs
<1>3. \A w \in Workers : AtWork(w)
  BY DEF Init, AtWork
<1> QED BY <1>1, <1>2, <1>3 DEF Shape

LEMMA CountStays == Shape /\ [Next]_vars => TP!CountInv'
BY PoolStep, PoolAssumptions, TP!CountStep DEF Shape

\* Where the step of tree_loop takes its worker, and that it takes no other.
LEMMA LoopMoves ==
  ASSUME Shape, NEW w \in Workers,
         Enter(w) \/ CountIn(w) \/ PushRoot(w) \/ Routine(w)
         \/ Walk(w) \/ LoadLines(w) \/ CountOut(w)
  PROVE  /\ Running(w) /\ wpc' = wpc /\ cpc' = cpc /\ UNCHANGED <<root, lines>>
         /\ UNCHANGED <<terminated, lockWorks, vertexVars>>
         /\ jpc' \in [Workers -> JobPCs]
         /\ \A v \in Workers \ {w} : jpc'[v] = jpc[v] /\ loaded'[v] = loaded[v]
<1>1. /\ Running(w) /\ wpc' = wpc /\ cpc' = cpc /\ UNCHANGED <<root, lines>>
      /\ UNCHANGED <<terminated, lockWorks, vertexVars>>
  BY DEF Enter, CountIn, PushRoot, Routine, Walk, LoadLines,
         CountOut, At, Running, poolVars, lockVars, PoolUnchangedButWork
<1>2. /\ jpc' = jpc \/ \E l \in JobPCs : jpc' = [jpc EXCEPT ![w] = l]
      /\ loaded' = loaded \/ \E n \in {0, active} : loaded' = [loaded EXCEPT ![w] = n]
  BY DEF Enter, CountIn, PushRoot, Routine, Walk, LoadLines,
         CountOut, GotoJ, JobPCs
<1> QED BY <1>1, <1>2 DEF Shape, Typed

LEMMA ShapeStep == Shape /\ [Next]_vars => Shape'
<1> SUFFICES ASSUME Shape, [Next]_vars PROVE Typed' /\ \A w \in Workers : AtWork(w)'
  BY CountStays DEF Shape
<1> USE DEF Shape
<1>1. ASSUME NEW w \in Workers, ThreadLoop(w)
      PROVE  Typed' /\ \A v \in Workers : AtWork(v)'
  <2>1. Typed' /\ jpc' = jpc
    BY <1>1 DEF ThreadLoop, vertexVars, lineVars, Typed
  <2>2. wpc[w] # "run" /\ \A v \in Workers \ {w} : wpc'[v] = wpc[v]
    BY <1>1 DEF ThreadLoop, Pool!Pop, Pool!TermLock, Pool!Relay, Pool!Leave, Pool!GotoW,
                TP!CountInv, TP!TypeOK
  <2> QED BY <2>1, <2>2 DEF AtWork, Running
<1>2. ASSUME NEW w \in Workers,
             Enter(w) \/ CountIn(w) \/ PushRoot(w) \/ Routine(w)
             \/ Walk(w) \/ LoadLines(w) \/ CountOut(w)
      PROVE  Typed' /\ \A v \in Workers : AtWork(v)'
  <2>1. /\ Running(w) /\ wpc' = wpc /\ UNCHANGED <<root, lines, vertexVars>>
        /\ jpc' \in [Workers -> JobPCs]
        /\ \A v \in Workers \ {w} : jpc'[v] = jpc[v]
    BY <1>2, LoopMoves
  <2>2. active' \in 0..(SizeValues - 1)
    <3>1. \/ active' = active
          \/ active' = (loaded[w] + 1) % SizeValues
          \/ active' = (loaded[w] - 1) % SizeValues
      BY <1>2 DEF Enter, CountIn, PushRoot, Routine, Walk,
                  LoadLines, CountOut, lineVars
    <3> QED BY <3>1, Wrapped DEF Typed
  <2>3. loaded' \in [Workers -> 0..(SizeValues - 1)]
    BY <1>2, Sizes, SizeAssumption DEF Enter, CountIn, PushRoot, Routine, Walk, LoadLines,
                CountOut, Typed
  <2> QED BY <2>1, <2>2, <2>3 DEF Typed, AtWork, Running, vertexVars
<1>3. ASSUME NEW w \in Workers, LoopReturns(w)
      PROVE  Typed' /\ \A v \in Workers : AtWork(v)'
  <2>1. Typed' /\ jpc'[w] = "start"
    BY <1>3, Sizes, SizeAssumption DEF LoopReturns, GotoJ, Typed, JobPCs, vertexVars
  <2>2. \A v \in Workers \ {w} : wpc'[v] = wpc[v] /\ jpc'[v] = jpc[v]
    BY <1>3 DEF LoopReturns, GotoJ, Pool!JobReturn, Pool!Finish, Pool!GotoW, Typed,
                TP!CountInv, TP!TypeOK
  <2> QED BY <2>1, <2>2 DEF AtWork, Running
<1>4. ASSUME NEW u \in Users, UserStep(u)
      PROVE  Typed' /\ \A w \in Workers : AtWork(w)'
  <2>1. wpc' = wpc /\ jpc' = jpc /\ loaded' = loaded /\ active' = active
    BY <1>4 DEF UserStep, AddRoot, AddChildLock, AddChild, Execute, TreeTerminate,
                poolVars, lineVars
  <2>2. /\ adding' \in [Users -> Vertices \cup {Null}]
        /\ root' \in Vertices \cup {Null}
    BY <1>4 DEF UserStep, AddRoot, AddChildLock, AddChild, Execute, TreeTerminate,
                vertexVars, Typed
  <2>3. lines' \in 0..MaxLines
    BY <1>4, TreeBoundsAssumption
    DEF UserStep, AddRoot, AddChildLock, AddChild, Execute, TreeTerminate, Typed
  <2> QED BY <2>1, <2>2, <2>3 DEF Typed, AtWork, Running
<1>5. CASE OwnerStep \/ FreeCalled \/ (\E v \in Vertices : FreeVertice(v)) \/ UNCHANGED vars
  <2>1. Typed' /\ jpc' = jpc
    BY <1>5 DEF OwnerStep, FreeCalled, FreeVertice, vars, vertexVars, lineVars, Typed
  <2>2. \A w \in Workers : wpc[w] = "run" => wpc'[w] = "run"
    BY <1>5 DEF OwnerStep, FreeCalled, FreeVertice, vars, poolVars, Pool!OwnerStep,
                Pool!Create, Pool!NewReturns, Pool!Join, Pool!FreeAssert, Pool!FreeReturns,
                Pool!FreeCalled, Pool!GotoW, Pool!workerVars, TP!CountInv, TP!TypeOK
  <2> QED BY <2>1, <2>2 DEF AtWork, Running
<1> QED
  BY <1>1, <1>2, <1>3, <1>4, <1>5 DEF Next, WorkerStep

\* The tree is one of the programs ThreadPool allows.
THEOREM RunsOnPool == Spec => TP!Spec
BY PoolInit, ShapeInit, ShapeStep, PoolStep, PTL DEF Spec, TP!Spec

-----------------------------------------------------------------------------
(***************************************************************************)
(* One line.  Whatever the destroyed lock lets happen to active_lines, a   *)
(* tree executed once has one unit under way, so nobody is there to race   *)
(* with it; and after the sentinel it sends there is no unit any more.     *)
(***************************************************************************)

LEMMA TokenTypes ==
  Shape => QueuedLines \in Nat /\ Cardinality(Busy) \in Nat /\ terms \in 0..2
<1> SUFFICES ASSUME Shape
             PROVE  QueuedLines \in Nat /\ Cardinality(Busy) \in Nat /\ terms \in 0..2
  OBVIOUS
<1>1. work \in Seq(TP!Units) /\ terms \in 0..2
  BY DEF Shape, TP!CountInv, TP!TypeOK
<1>2. Busy \in SUBSET Workers
  BY DEF Busy
<1> QED BY <1>1, <1>2, CountType, Sizes, FS_Subset, FS_CardinalityType DEF QueuedLines

\* A unit enqueued, or refused for lack of memory.
LEMMA LineEnqueued ==
  ASSUME Shape, NEW j \in {Line, Term}, Pool!Push(j) \/ (j = Term /\ Pool!Terminate)
  PROVE  QueuedLines' = QueuedLines \/ QueuedLines' = QueuedLines + One(j = Line)
<1>1. CASE Pool!Refuse(j)
  BY <1>1 DEF Pool!Refuse, QueuedLines
<1>2. CASE work' = Append(work, Pool!Unit(j))
  <2>1. work \in Seq(TP!Units) /\ terms \in 0..2
    BY DEF Shape, TP!CountInv, TP!TypeOK
  <2>2. (terms > 0) \in BOOLEAN
    BY <2>1
  <2>3. Pool!Unit(j) \in TP!Units /\ Pool!Unit(j).job = j
    BY <2>2, Zenon DEF Pool!Unit, TP!Units
  <2>4. QueuedLines' = QueuedLines + One(Pool!Unit(j) \in LineUnits)
    BY <1>2, <2>1, <2>3, CountAppend DEF QueuedLines
  <2> QED BY <2>3, <2>4 DEF LineUnits, One
<1> QED BY <1>1, <1>2 DEF Pool!Push, Pool!Terminate

LEMMA LineDequeued ==
  ASSUME Shape, work # <<>>, work' = Tail(work)
  PROVE  /\ QueuedLines = QueuedLines' + One(Head(work).job = Line)
         /\ QueuedLines' \in Nat /\ Head(work) \in TP!Units
<1>1. /\ work \in Seq(TP!Units) /\ Head(work) \in TP!Units
      /\ Tail(work) \in Seq(TP!Units)
  BY DEF Shape, TP!CountInv, TP!TypeOK
<1>2. QueuedLines = QueuedLines' + One(Head(work) \in LineUnits)
  BY <1>1, CountTail DEF QueuedLines
<1> QED BY <1>1, <1>2, CountType DEF LineUnits, One, QueuedLines

LEMMA BusyMoves ==
  ASSUME NEW w \in Workers,
         \A v \in Workers \ {w} : wpc'[v] = wpc[v] /\ jpc'[v] = jpc[v]
  PROVE  /\ Cardinality(Busy) \in Nat /\ Cardinality(Busy)' \in Nat
         /\ Cardinality(Busy)' = Cardinality(Busy) + One(w \in Busy') - One(w \in Busy)
<1>1. /\ Busy \in SUBSET Workers /\ Busy' \in SUBSET Workers
      /\ \A v \in Workers \ {w} : v \in Busy <=> v \in Busy'
  BY DEF Busy, Running
<1> QED BY <1>1, Sizes, OneMoves

\* A step that executes nothing and sends no sentinel.
LEMMA FewerTokens ==
  ASSUME Shape, TokenInv, LineTokens' \in Nat, LineTokens' <= LineTokens,
         lines' = lines, terms' = terms, root # Null => root' # Null
  PROVE  TokenInv'
<1>1. LineTokens \in Nat /\ lines \in Int
  BY TokenTypes, TreeBoundsAssumption DEF LineTokens, Shape, Typed
<1> QED BY <1>1 DEF TokenInv

LEMMA TokenInit == Init => TokenInv
<1> SUFFICES ASSUME Init PROVE TokenInv
  OBVIOUS
<1>1. QueuedLines = 0
  BY CountEmpty DEF Init, Pool!Init, QueuedLines
<1>2. Busy = {}
  BY DEF Init, Pool!Init, Busy, Running
<1> QED BY <1>1, <1>2, FS_EmptySet DEF Init, Pool!Init, TokenInv, LineTokens

LEMMA TokenStep == Shape /\ TokenInv /\ [Next]_vars => TokenInv'
<1> SUFFICES ASSUME Shape, TokenInv, [Next]_vars PROVE TokenInv'
  OBVIOUS
<1>0. /\ QueuedLines \in Nat /\ Cardinality(Busy) \in Nat /\ terms \in 0..2
      /\ lines \in Nat
  BY TokenTypes, TreeBoundsAssumption DEF Shape, Typed
<1> USE DEF LineTokens
<1>1. ASSUME NEW w \in Workers, ThreadLoop(w) PROVE TokenInv'
  <2>1. jpc' = jpc /\ lines' = lines /\ root' = root
    BY <1>1 DEF ThreadLoop, lineVars
  <2>2. CASE Pool!Pop(w)
    <3>1. /\ work # <<>> /\ work' = Tail(work) /\ terms' = terms /\ wpc[w] = "pop"
          /\ wpc'[w] = (IF Head(work).job = Term THEN "term" ELSE "run")
          /\ \A v \in Workers \ {w} : wpc'[v] = wpc[v]
      BY <2>2 DEF Pool!Pop, Pool!GotoW, Shape, TP!CountInv, TP!TypeOK
    <3>2. Head(work).job \in {Line, Term}
      BY <3>1, LineDequeued DEF TP!Units
    <3>3. w \notin Busy /\ (w \in Busy' => Head(work).job = Line)
      BY <3>1, <3>2 DEF Busy, Running
    <3>4. /\ QueuedLines' \in Nat
          /\ QueuedLines' = QueuedLines - One(Head(work).job = Line)
      <4>1. /\ QueuedLines = QueuedLines' + One(Head(work).job = Line)
            /\ QueuedLines' \in Nat
        BY <3>1, LineDequeued
      <4>2. One(Head(work).job = Line) \in Nat
        BY DEF One
      <4> DEFINE q == QueuedLines
                 r == QueuedLines'
                 o == One(Head(work).job = Line)
      <4>3. q \in Nat /\ r \in Nat /\ o \in Nat /\ q = r + o
        BY <1>0, <4>1, <4>2
      <4> HIDE DEF q, r, o
      <4>4. r = q - o
        BY <4>3
      <4> QED BY <4>3, <4>4 DEF q, r, o
    <3>5. /\ Cardinality(Busy)' \in Nat
          /\ Cardinality(Busy)' <= Cardinality(Busy) + One(Head(work).job = Line)
      <4>1. /\ Cardinality(Busy)' \in Nat
            /\ Cardinality(Busy)' = Cardinality(Busy) + One(w \in Busy') - One(w \in Busy)
        BY <2>1, <3>1, BusyMoves
      <4> QED BY <1>0, <3>3, <4>1 DEF One
    <3>6. LineTokens' \in Nat /\ LineTokens' <= LineTokens
      BY <1>0, <2>1, <3>1, <3>4, <3>5 DEF One
    <3> QED BY <2>1, <3>1, <3>6, FewerTokens
  <2>3. CASE Pool!TermLock(w) \/ Pool!Relay(w) \/ Pool!Leave(w)
    <3>1. /\ wpc[w] # "run" /\ wpc'[w] # "run" /\ terms' = terms
          /\ \A v \in Workers \ {w} : wpc'[v] = wpc[v]
          /\ work' = work \/ Pool!Push(Term)
      BY <2>3 DEF Pool!TermLock, Pool!Relay, Pool!Leave, Pool!GotoW, Shape,
                  TP!CountInv, TP!TypeOK
    <3>2. QueuedLines' = QueuedLines
      <4>1. CASE work' = work
        BY <4>1 DEF QueuedLines
      <4>2. CASE Pool!Push(Term)
        BY <1>0, <4>2, LineEnqueued, SentinelAssumption DEF One
      <4> QED BY <3>1, <4>1, <4>2
    <3>3. w \notin Busy /\ w \notin Busy'
      BY <3>1 DEF Busy, Running
    <3>4. LineTokens' \in Nat /\ LineTokens' <= LineTokens
      BY <1>0, <2>1, <3>1, <3>2, <3>3, BusyMoves DEF One
    <3> QED BY <2>1, <3>1, <3>4, FewerTokens
  <2> QED BY <1>1, <2>2, <2>3 DEF ThreadLoop
<1>2. ASSUME NEW w \in Workers,
             Enter(w) \/ CountIn(w) \/ Routine(w) \/ Walk(w)
             \/ LoadLines(w)
      PROVE  TokenInv'
  <2>1. /\ Running(w) /\ wpc' = wpc /\ UNCHANGED <<root, lines>>
        /\ \A v \in Workers \ {w} : jpc'[v] = jpc[v]
    BY <1>2, LoopMoves
  <2>2. jpc[w] # "return" /\ QueuedLines' = QueuedLines /\ terms' = terms
    BY <1>2 DEF Enter, CountIn, Routine, Walk, LoadLines, At,
                poolVars, QueuedLines
  <2>3. w \in Busy
    BY <2>1, <2>2 DEF Busy
  <2>4. LineTokens' \in Nat /\ LineTokens' <= LineTokens
    BY <1>0, <2>1, <2>2, <2>3, BusyMoves DEF One
  <2> QED BY <2>1, <2>2, <2>4, FewerTokens
<1>3. ASSUME NEW w \in Workers, PushRoot(w) \/ CountOut(w) PROVE TokenInv'
  <2>1. /\ Running(w) /\ wpc' = wpc /\ UNCHANGED <<root, lines>>
        /\ \A v \in Workers \ {w} : jpc'[v] = jpc[v]
    BY <1>3, LoopMoves
  <2>2. jpc[w] # "return" /\ jpc'[w] = "return"
    BY <1>3 DEF PushRoot, CountOut, At, GotoJ, Shape, Typed
  <2>3. w \in Busy /\ w \notin Busy'
    BY <2>1, <2>2 DEF Busy
  <2>4. /\ Cardinality(Busy)' \in Nat
        /\ Cardinality(Busy)' = Cardinality(Busy) - 1
    BY <2>1, <2>3, BusyMoves DEF One
  <2>5. CASE PushRoot(w)
    <3>1. QueuedLines' \in {QueuedLines, QueuedLines + 1} /\ terms' = terms
      BY <1>0, <2>5, LineEnqueued DEF PushRoot, One
    <3>2. LineTokens' \in Nat /\ LineTokens' <= LineTokens
      BY <1>0, <2>4, <3>1
    <3> QED BY <2>1, <3>1, <3>2, FewerTokens
  <2>6. CASE CountOut(w)
    <3>1. QueuedLines' = QueuedLines
      <4>1. CASE Pool!Terminate
        BY <1>0, <4>1, LineEnqueued, SentinelAssumption DEF One
      <4>2. CASE work' = work
        BY <4>2 DEF QueuedLines
      <4> QED BY <2>6, <4>1, <4>2 DEF CountOut
    <3>2. terms' \in {terms, terms + 1} /\ terms' <= 2
      BY <1>0, <2>6 DEF CountOut, Pool!Terminate, Pool!Refuse
    <3>3. lines <= 1 => LineTokens = 1 /\ terms = 0
      BY <1>0, <2>4, <3>1 DEF TokenInv
    <3>4. LineTokens' = LineTokens - 1
      BY <1>0, <2>4, <3>1
    <3> QED BY <1>0, <2>1, <3>2, <3>3, <3>4 DEF TokenInv
  <2> QED BY <1>3, <2>5, <2>6
<1>4. ASSUME NEW w \in Workers, LoopReturns(w) PROVE TokenInv'
  <2>1. /\ jpc[w] = "return" /\ wpc'[w] = "pop" /\ work' = work /\ terms' = terms
        /\ lines' = lines /\ root' = root
        /\ \A v \in Workers \ {w} : wpc'[v] = wpc[v] /\ jpc'[v] = jpc[v]
    BY <1>4 DEF LoopReturns, At, GotoJ, Pool!JobReturn, Pool!Finish, Pool!GotoW, Shape,
                Typed, TP!CountInv, TP!TypeOK
  <2>2. w \notin Busy /\ w \notin Busy' /\ QueuedLines' = QueuedLines
    BY <2>1 DEF Busy, Running, QueuedLines
  <2>3. LineTokens' \in Nat /\ LineTokens' <= LineTokens
    BY <1>0, <2>1, <2>2, BusyMoves DEF One
  <2> QED BY <2>1, <2>3, FewerTokens
<1>5. ASSUME NEW u \in Users, Execute(u) PROVE TokenInv'
  <2>1. /\ lines' = lines + 1 /\ terms' = terms /\ root' = root /\ root # Null
        /\ Pool!Push(Line) /\ wpc' = wpc /\ jpc' = jpc
    BY <1>5 DEF Execute, lineVars
  <2>2. QueuedLines' \in {QueuedLines, QueuedLines + 1}
    BY <1>0, <2>1, LineEnqueued DEF One
  <2>3. Busy' = Busy
    BY <2>1 DEF Busy, Running
  <2>4. Cardinality(Busy)' = Cardinality(Busy)
    BY <2>3
  <2>5. lines' <= 1 => terms = 0
    BY <1>0, <2>1 DEF TokenInv
  <2> QED BY <1>0, <2>1, <2>2, <2>4, <2>5 DEF TokenInv
<1>6. ASSUME NEW u \in Users, UserStep(u), ~Execute(u) PROVE TokenInv'
  <2>1. /\ work' = work /\ wpc' = wpc /\ jpc' = jpc /\ terms' = terms /\ lines' = lines
        /\ root' = root \/ root' \in Vertices
    BY <1>6 DEF UserStep, AddRoot, AddChildLock, AddChild, TreeTerminate, poolVars, lineVars
  <2>2. QueuedLines' = QueuedLines /\ Busy' = Busy
    BY <2>1 DEF QueuedLines, Busy, Running
  <2>3. root # Null => root' # Null
    BY <2>1, VerticesAssumption
  <2> QED BY <1>0, <2>1, <2>2, <2>3, FewerTokens
<1>7. CASE OwnerStep \/ FreeCalled \/ (\E v \in Vertices : FreeVertice(v)) \/ UNCHANGED vars
  <2>1. /\ work' = work /\ jpc' = jpc /\ terms' = terms /\ lines' = lines /\ root' = root
    BY <1>7 DEF OwnerStep, FreeCalled, FreeVertice, vars, poolVars, lineVars,
                Pool!OwnerStep, Pool!Create, Pool!NewReturns, Pool!Join,
                Pool!FreeAssert, Pool!FreeReturns, Pool!FreeCalled, Pool!workerVars
  <2>2. \A w \in Workers : Running(w)' <=> Running(w)
    BY <1>7 DEF OwnerStep, FreeCalled, FreeVertice, vars, poolVars, Pool!OwnerStep,
                Pool!Create, Pool!NewReturns, Pool!Join, Pool!FreeAssert, Pool!FreeReturns,
                Pool!FreeCalled, Pool!GotoW, Pool!workerVars, Shape, TP!CountInv,
                TP!TypeOK, Running
  <2>3. QueuedLines' = QueuedLines /\ Busy' = Busy
    BY <2>1, <2>2 DEF QueuedLines, Busy
  <2> QED BY <1>0, <2>1, <2>3, FewerTokens
<1> QED
  BY <1>1, <1>2, <1>3, <1>4, <1>5, <1>6, <1>7 DEF Next, WorkerStep

LEMMA TokenAlways == Spec => [](Shape /\ TokenInv)
BY ShapeInit, ShapeStep, TokenInit, TokenStep, PTL DEF Spec

\* A tree executed once sends one sentinel at most, and tree_free finds the
\* work queue empty unless a thread it could not join is still there: the pool's
\* AbortOnlyByLateUse leaves no other reason.
THEOREM OneLineFreesCleanlyCorrect == Spec => []OneLineFreesCleanly
<1>1. TP!OwnerAssumption /\ TP!WorkersAssumption /\ TP!NamesAssumption
      /\ TP!FailAssumption /\ TP!BoundAssumption
  BY PoolAssumptions
<1>2. Shape /\ TokenInv /\ TP!AbortOnlyByLateUse /\ TP!EarlyInv /\ TP!QuietInv
        => OneLineFreesCleanly
  <2> SUFFICES ASSUME Shape, TokenInv, TP!AbortOnlyByLateUse, TP!EarlyInv, TP!QuietInv,
                      lines <= 1, cpc[Main] = "aborted",
                      \A w \in unjoined : wpc[w] = "exited"
               PROVE  FALSE
    BY DEF TokenInv, OneLineFreesCleanly
  <2>1. terms <= 1 /\ \E i \in DOMAIN work : work[i].job # Term
    BY TokenTypes DEF TokenInv, TP!AbortOnlyByLateUse
  <2>2. threadQueue = <<>> /\ \A w \in Workers : wpc[w] = "exited"
    BY DEF TP!QuietInv, TP!DrainInv, TP!JoinInv
  <2>3. terms = 1
    <3>1. TP!Met # {}
      BY <2>2, ThreadsAssumption DEF TP!Met
    <3> QED BY <2>1, <3>1, TokenTypes DEF TP!EarlyInv, TP!SentinelSent
  <2>4. QueuedLines = 0
    BY <2>3, TokenTypes DEF TokenInv, LineTokens
  <2>5. work \in Seq(TP!Units)
    BY DEF Shape, TP!CountInv, TP!TypeOK
  <2>6. Places(work, LineUnits) = {}
    BY <2>4, <2>5, CountType, FS_EmptySet DEF QueuedLines, Count
  <2>7. \A i \in DOMAIN work : work[i].job = Term
    <3> SUFFICES ASSUME NEW i \in DOMAIN work PROVE work[i].job = Term
      OBVIOUS
    <3>1. work[i] \in TP!Units
      BY <2>5
    <3>2. work[i].job # Line
      BY <2>6, <3>1 DEF Places, LineUnits
    <3> QED BY <3>1, <3>2 DEF TP!Units
  <2> QED BY <2>1, <2>7
<1> QED
  BY <1>1, <1>2, TokenAlways, RunsOnPool, TP!SentinelAlways, TP!AbortOnlyByLateUseCorrect, PTL

-----------------------------------------------------------------------------
(***************************************************************************)
(* Lists of children.  A user adds to a list under the parent's lock, in a *)
(* step of its own after it has made sure that there is a list.            *)
(***************************************************************************)

\* async_list_new and async_list_add keep the array as long as the count.
LEMMA NewListSound == NewList \in Lists /\ Sound(NewList) /\ NewList # Null
BY VerticesAssumption DEF NewList, Lists, Sound

LEMMA AddedSound ==
  ASSUME NEW l \in Lists, Sound(l)
  PROVE  Added(l) \in Lists /\ Sound(Added(l)) /\ Added(l) # Null
<1>1. Grown(l) \in Nat
  BY DEF Lists, Grown, Full
<1>2. Added(l) \in Lists /\ Added(l).count = l.count + 1 /\ Added(l).size = Grown(l)
  BY <1>1 DEF Added, Lists
<1>3. Sound(Added(l))
  BY <1>2 DEF Sound, Grown, Full, Lists
<1> QED BY <1>2, <1>3, VerticesAssumption

LEMMA ChildrenInit == Init => ChildrenInv
BY DEF Init, NewVertices, ChildrenInv, ListsSound

LEMMA ChildrenStep == Shape /\ ChildrenInv /\ [Next]_vars => ChildrenInv'
<1> SUFFICES ASSUME Shape, ChildrenInv, [Next]_vars PROVE ChildrenInv'
  OBVIOUS
<1>1. ASSUME NEW u \in Users, NEW p \in Vertices, AddChildLock(u, p) PROVE ChildrenInv'
  <2>1. /\ cpc[Main] = "use" /\ cpc' = cpc
        /\ adding' = adding \/ (adding' = [adding EXCEPT ![u] = p])
        /\ adding' # adding => children'[p] # Null
        /\ \A v \in Vertices :
             children'[v] = children[v] \/ (v = p /\ children'[v] = NewList)
        /\ children' \in [Vertices -> Lists \cup {Null}]
    BY <1>1, NewListSound DEF AddChildLock, MayCall, poolVars, ChildrenInv
  <2>2. ListsSound'
    BY <2>1, NewListSound DEF ChildrenInv, ListsSound
  <2>3. \A v \in Users : adding'[v] # Null => children'[adding'[v]] # Null
    BY <2>1, NewListSound DEF ChildrenInv, Shape, Typed
  <2> QED BY <2>1, <2>2, <2>3 DEF ChildrenInv
<1>2. ASSUME NEW u \in Users, AddChild(u) PROVE ChildrenInv'
  <2> DEFINE p == adding[u]
  <2>1. /\ p \in Vertices /\ children[p] \in Lists /\ Sound(children[p])
        /\ cpc' = cpc /\ adding' = [adding EXCEPT ![u] = Null]
        /\ \/ children' = children
           \/ children' = [children EXCEPT ![p] = Added(children[p])]
    BY <1>2 DEF AddChild, poolVars, ChildrenInv, ListsSound, Shape, Typed
  <2>2. /\ Added(children[p]) \in Lists /\ Sound(Added(children[p]))
        /\ Added(children[p]) # Null
    BY <2>1, AddedSound
  <2> HIDE DEF p
  <2>3. ListsSound' /\ children' \in [Vertices -> Lists \cup {Null}]
    BY <2>1, <2>2 DEF ChildrenInv, ListsSound
  <2>4. \A v \in Users : adding'[v] # Null => children'[adding'[v]] # Null
    BY <2>1, <2>2 DEF ChildrenInv, Shape, Typed
  <2>5. cpc'[Main] \notin {"new", "use"} => \A v \in Users : adding'[v] = Null
    BY <2>1 DEF ChildrenInv, Shape, Typed
  <2> QED BY <2>3, <2>4, <2>5 DEF ChildrenInv
<1>3. ASSUME NEW v \in Vertices, FreeVertice(v) PROVE ChildrenInv'
  <2>1. /\ cpc[Main] = "freed" /\ cpc' = cpc /\ adding' = adding
        /\ children' = [children EXCEPT ![v] = Null]
    BY <1>3 DEF FreeVertice, poolVars
  <2>2. \A u \in Users : adding[u] = Null
    BY <2>1 DEF ChildrenInv
  <2> QED BY <2>1, <2>2 DEF ChildrenInv, ListsSound
<1>4. CASE FreeCalled
  BY <1>4 DEF FreeCalled, vertexVars, ChildrenInv, ListsSound
<1>5. CASE OwnerStep
  <2>1. /\ children' = children /\ adding' = adding
        /\ cpc'[Main] \notin {"new", "use"} => cpc[Main] \notin {"new", "use"}
    BY <1>5 DEF OwnerStep, vertexVars, Pool!OwnerStep, Pool!Create, Pool!NewReturns,
                Pool!Join, Pool!FreeAssert, Pool!FreeReturns
  <2> QED BY <2>1 DEF ChildrenInv, ListsSound
<1>6. ASSUME NEW u \in Users,
             (\E v \in Vertices : AddRoot(u, v)) \/ Execute(u) \/ TreeTerminate(u)
      PROVE  ChildrenInv'
  BY <1>6 DEF AddRoot, Execute, TreeTerminate, vertexVars, poolVars, ChildrenInv, ListsSound
<1>7. ASSUME NEW w \in Workers, WorkerStep(w) PROVE ChildrenInv'
  <2>1. children' = children /\ adding' = adding
    BY <1>7 DEF WorkerStep, ThreadLoop, Enter, CountIn, PushRoot, Routine,
                Walk, LoadLines, CountOut, LoopReturns, vertexVars
  <2>2. cpc' = cpc
    BY <1>7 DEF WorkerStep, ThreadLoop, Enter, CountIn, PushRoot, Routine,
                Walk, LoadLines, CountOut, LoopReturns, poolVars,
                PoolUnchangedButWork, Pool!Pop, Pool!TermLock, Pool!Relay, Pool!Leave,
                Pool!JobReturn, Pool!clientVars
  <2> QED BY <2>1, <2>2 DEF ChildrenInv, ListsSound
<1>8. CASE UNCHANGED vars
  BY <1>8 DEF vars, poolVars, vertexVars, ChildrenInv, ListsSound
<1> QED
  BY <1>1, <1>2, <1>3, <1>4, <1>5, <1>6, <1>7, <1>8 DEF Next, UserStep

LEMMA ChildrenAlways == Spec => [](Shape /\ ChildrenInv)
BY ShapeInit, ShapeStep, ChildrenInit, ChildrenStep, PTL DEF Spec

\* The array of a list of children is never overrun, nor more than twice as
\* long as needed (async_list.c:54-59).
THEOREM ListsSoundCorrect == Spec => []ListsSound
<1>1. ChildrenInv => ListsSound
  BY DEF ChildrenInv
<1> QED BY <1>1, ChildrenAlways, PTL

-----------------------------------------------------------------------------
(***************************************************************************)
(* While tree->lock works, active_lines is what the lines are.  The        *)
(* increment and the decrement are a load and a store; nobody comes in     *)
(* between because the lock is held over both.                             *)
(***************************************************************************)
LinesInv ==
  lockWorks /\ cpc[Main] # "freed" =>
    /\ Childless => active = Cardinality(Counted)
    /\ Cardinality(Counted) <= active
    /\ active <= Cardinality(Workers) + 1

LockInv == ExclusionInv /\ LinesInv

LEMMA CountedType == Cardinality(Counted) \in Nat
<1>1. Counted \in SUBSET Workers
  BY DEF Counted
<1> QED BY <1>1, Sizes, FS_Subset, FS_CardinalityType

LEMMA CountedMoves ==
  ASSUME NEW w \in Workers,
         \A v \in Workers \ {w} : wpc'[v] = wpc[v] /\ jpc'[v] = jpc[v]
  PROVE  /\ Cardinality(Counted)' \in Nat
         /\ Cardinality(Counted)'
              = Cardinality(Counted) + One(w \in Counted') - One(w \in Counted)
<1>1. /\ Counted \in SUBSET Workers /\ Counted' \in SUBSET Workers
      /\ \A v \in Workers \ {w} : v \in Counted <=> v \in Counted'
  BY DEF Counted, Running
<1> QED BY <1>1, Sizes, OneMoves

\* A step that leaves the lock, the line count and tree_loop alone.
LEMMA KeepLockInv ==
  ASSUME Shape, LockInv, treeLock' = treeLock, jpc' = jpc, loaded' = loaded,
         active' = active, lockWorks' => lockWorks,
         cpc'[Main] \in {"new", "use"} => cpc[Main] \in {"new", "use"} /\ lockWorks' = lockWorks,
         cpc[Main] = "freed" => cpc'[Main] = "freed",
         cpc'[Main] # "freed" /\ Childless' => Childless,
         \A w \in Workers : w \in Counted' <=> w \in Counted
  PROVE  LockInv'
<1>1. Counted' = Counted
  BY DEF Counted
<1>2. Cardinality(Counted)' = Cardinality(Counted)
  BY <1>1
<1>3. ExclusionInv'
  BY DEF LockInv, ExclusionInv
<1>4. LinesInv'
  BY <1>2 DEF LockInv, LinesInv
<1> QED BY <1>3, <1>4 DEF LockInv

LEMMA LockInit == Init => LockInv
<1> SUFFICES ASSUME Init PROVE LockInv
  OBVIOUS
<1>1. Counted = {}
  BY DEF Init, Pool!Init, Counted, Running
<1>2. Cardinality(Counted) = 0
  BY <1>1, FS_EmptySet
<1>3. ExclusionInv
  BY ThreadsAssumption DEF Init, ExclusionInv, Inside
<1>4. LinesInv
  BY <1>2, Sizes DEF Init, LinesInv
<1> QED BY <1>3, <1>4 DEF LockInv

\* A worker in tree_loop has a root to look at.
LEMMA BusyHasRoot ==
  ASSUME Shape, TokenInv, NEW w \in Busy
  PROVE  root # Null
<1>1. Cardinality(Busy) # 0
  <2>1. Busy \in SUBSET Workers /\ Busy # {}
    BY DEF Busy
  <2>2. IsFiniteSet(Busy)
    BY <2>1, Sizes, FS_Subset
  <2> QED BY <2>1, <2>2, FS_EmptySet
<1> QED BY <1>1, TokenTypes DEF TokenInv, LineTokens

\* The steps of tree_loop, while the lock works.
LEMMA LoopLockInv ==
  ASSUME Shape, TokenInv, LockInv, NEW w \in Workers,
         Enter(w) \/ CountIn(w) \/ PushRoot(w) \/ Routine(w)
         \/ Walk(w) \/ LoadLines(w) \/ CountOut(w)
  PROVE  LockInv'
<1>1. /\ Running(w) /\ wpc' = wpc /\ cpc' = cpc /\ UNCHANGED <<root, lines>>
      /\ lockWorks' = lockWorks /\ children' = children
      /\ jpc' \in [Workers -> JobPCs]
      /\ \A v \in Workers \ {w} : jpc'[v] = jpc[v] /\ loaded'[v] = loaded[v]
  BY LoopMoves DEF vertexVars
<1>2. CASE ~lockWorks
  BY <1>1, <1>2 DEF LockInv, ExclusionInv, LinesInv
<1>3. CASE lockWorks
  <2>1. /\ \A v \in Workers :
             /\ treeLock = v <=> jpc[v] \in Inside
             /\ jpc[v] \in {"count", "store"} => loaded[v] = active
             /\ jpc[v] = "count" => active <= Cardinality(Workers)
        /\ cpc[Main] # "freed" =>
             /\ Childless => active = Cardinality(Counted)
             /\ Cardinality(Counted) <= active
             /\ active <= Cardinality(Workers) + 1
    BY <1>3 DEF LockInv, ExclusionInv, LinesInv
  <2>2. /\ active \in 0..(SizeValues - 1) /\ Cardinality(Workers) \in Nat
        /\ Cardinality(Counted) \in Nat
        /\ loaded[w] \in 0..(SizeValues - 1)
        /\ SizeValues \in Nat /\ Cardinality(Workers) + 1 < SizeValues
    BY Sizes, SizeAssumption, CountedType DEF Shape, Typed
  <2>3. /\ Cardinality(Counted)' \in Nat
        /\ Cardinality(Counted)'
             = Cardinality(Counted) + One(w \in Counted') - One(w \in Counted)
    BY <1>1, CountedMoves
  <2>4. Childless' <=> Childless
    BY <1>1 DEF Childless
  <2>5. CASE Enter(w)
    <3>1. /\ jpc[w] = "start" /\ active' = active /\ treeLock = Null
          /\ \/ treeLock' = Null /\ jpc'[w] \in {"return", "requeue"}
             \/ /\ treeLock' = w /\ jpc'[w] = "count"
                /\ active <= Cardinality(Workers) /\ loaded'[w] = active
      BY <1>3, <2>5 DEF Enter, Lock, LockAndUnlock, At, GotoJ, Shape, Typed
    <3>2. w \notin Counted' /\ w \notin Counted
      BY <3>1 DEF Counted
    <3>3. ExclusionInv'
      BY <1>1, <1>3, <2>1, <3>1, ThreadsAssumption DEF LockInv, ExclusionInv, Inside
    <3>4. LinesInv'
      BY <1>1, <2>1, <2>2, <2>3, <2>4, <3>1, <3>2 DEF LinesInv, One
    <3> QED BY <3>3, <3>4 DEF LockInv
  <2>7. CASE CountIn(w)
    <3>1. /\ jpc[w] = "count" /\ jpc'[w] = "routine" /\ treeLock' = Null
          /\ active' = (loaded[w] + 1) % SizeValues
      BY <1>3, <2>7 DEF CountIn, Unlock, At, GotoJ, Shape, Typed
    <3>2. active' = active + 1 /\ active <= Cardinality(Workers)
      <4>1. loaded[w] = active /\ active <= Cardinality(Workers)
        BY <2>1, <3>1
      <4>2. active + 1 \in 0..(SizeValues - 1)
        BY <2>2, <4>1
      <4> QED BY <3>1, <4>1, <4>2, Wrapped
    <3>3. w \in Counted' /\ w \notin Counted
      BY <1>1, <3>1 DEF Counted, Running
    <3>4. ExclusionInv'
      BY <1>1, <1>3, <2>1, <3>1, ThreadsAssumption DEF LockInv, ExclusionInv, Inside
    <3>5. LinesInv'
      BY <1>1, <2>1, <2>2, <2>3, <2>4, <3>2, <3>3 DEF LinesInv, One
    <3> QED BY <3>4, <3>5 DEF LockInv
  <2>8. CASE PushRoot(w) \/ Walk(w)
    <3>1. /\ jpc[w] \in {"requeue", "restart", "children"}
          /\ jpc'[w] \in {"return", "restart", "children"}
          /\ treeLock' = treeLock /\ active' = active /\ loaded' = loaded
      BY <2>8 DEF PushRoot, Walk, lockVars, At, GotoJ, Shape, Typed
    <3>2. w \notin Counted' /\ w \notin Counted
      BY <3>1 DEF Counted
    <3>3. ExclusionInv'
      BY <1>1, <1>3, <2>1, <3>1 DEF LockInv, ExclusionInv, Inside
    <3>4. LinesInv'
      BY <1>1, <2>1, <2>2, <2>3, <2>4, <3>1, <3>2 DEF LinesInv, One
    <3> QED BY <3>3, <3>4 DEF LockInv
  <2>9. CASE Routine(w)
    <3>1. /\ jpc[w] = "routine" /\ treeLock' = treeLock
          /\ active' = active /\ loaded' = loaded
          /\ jpc'[w] = (IF children[root] = Null THEN "done" ELSE "children")
      BY <2>9 DEF Routine, lockVars, At, GotoJ, Shape, Typed
    <3>2. w \in Counted /\ (w \in Counted' <=> children[root] = Null)
      BY <1>1, <3>1 DEF Counted, Running
    <3>3. root # Null
      BY <1>1, <3>1, BusyHasRoot DEF Busy
    <3>4. w \in Counted' \/ ~Childless
      BY <3>2, <3>3 DEF Childless
    <3>5. ExclusionInv'
      BY <1>1, <1>3, <2>1, <3>1 DEF LockInv, ExclusionInv, Inside
    <3>6. LinesInv'
      BY <1>1, <2>1, <2>2, <2>3, <2>4, <3>1, <3>2, <3>4 DEF LinesInv, One
    <3> QED BY <3>5, <3>6 DEF LockInv
  <2>10. CASE LoadLines(w)
    <3>1. /\ jpc[w] = "done" /\ jpc'[w] = "store"
          /\ treeLock = Null /\ treeLock' = w
          /\ active' = active /\ loaded'[w] = active
      BY <1>3, <2>10 DEF LoadLines, Lock, At, GotoJ, Shape, Typed
    <3>2. w \in Counted' /\ w \in Counted
      BY <1>1, <3>1 DEF Counted, Running
    <3>3. ExclusionInv'
      BY <1>1, <1>3, <2>1, <3>1, ThreadsAssumption DEF LockInv, ExclusionInv, Inside
    <3>4. LinesInv'
      BY <1>1, <2>1, <2>2, <2>3, <2>4, <3>1, <3>2 DEF LinesInv, One
    <3> QED BY <3>3, <3>4 DEF LockInv
  <2>11. CASE CountOut(w)
    <3>1. /\ jpc[w] = "store" /\ jpc'[w] = "return" /\ treeLock' = Null
          /\ active' = (loaded[w] - 1) % SizeValues
      BY <1>3, <2>11 DEF CountOut, Unlock, At, GotoJ, Shape, Typed
    <3>2. w \notin Counted' /\ w \in Counted
      BY <1>1, <3>1 DEF Counted, Running
    <3>3. Cardinality(Counted)' = Cardinality(Counted) - 1
      BY <2>2, <2>3, <3>2 DEF One
    <3>4. cpc[Main] # "freed" => active' = active - 1
      <4> SUFFICES ASSUME cpc[Main] # "freed" PROVE active' = active - 1
        OBVIOUS
      <4>1. loaded[w] = active /\ 1 <= active
        BY <2>1, <2>2, <2>3, <3>1, <3>3
      <4>2. active - 1 \in 0..(SizeValues - 1)
        BY <2>2, <4>1
      <4> QED BY <3>1, <4>1, <4>2, Wrapped
    <3>5. ExclusionInv'
      BY <1>1, <1>3, <2>1, <3>1, ThreadsAssumption DEF LockInv, ExclusionInv, Inside
    <3>6. LinesInv'
      BY <1>1, <2>1, <2>2, <2>3, <2>4, <3>3, <3>4 DEF LinesInv
    <3> QED BY <3>5, <3>6 DEF LockInv
  <2> QED BY <2>5, <2>7, <2>8, <2>9, <2>10, <2>11
<1> QED BY <1>2, <1>3

LEMMA LockStep ==
  Shape /\ TokenInv /\ ChildrenInv /\ LockInv /\ [Next]_vars => LockInv'
<1> SUFFICES ASSUME Shape, TokenInv, ChildrenInv, LockInv, [Next]_vars PROVE LockInv'
  OBVIOUS
<1>1. ASSUME NEW w \in Workers, ThreadLoop(w) PROVE LockInv'
  <2>1. /\ treeLock' = treeLock /\ lockWorks' = lockWorks /\ jpc' = jpc
        /\ loaded' = loaded /\ active' = active /\ root' = root /\ children' = children
        /\ cpc' = cpc
    BY <1>1 DEF ThreadLoop, lockVars, lineVars, vertexVars, Pool!Pop, Pool!TermLock,
                Pool!Relay, Pool!Leave, Pool!clientVars
  <2>2. wpc[w] # "run" /\ \A v \in Workers \ {w} : wpc'[v] = wpc[v]
    BY <1>1 DEF ThreadLoop, Pool!Pop, Pool!TermLock, Pool!Relay, Pool!Leave, Pool!GotoW,
                Shape, TP!CountInv, TP!TypeOK
  <2>3. jpc[w] = "start"
    BY <2>2 DEF Shape, AtWork, Running
  <2>4. \A v \in Workers : v \in Counted' <=> v \in Counted
    BY <2>1, <2>2, <2>3 DEF Counted, Running
  <2> QED BY <2>1, <2>4, KeepLockInv DEF Childless
<1>2. ASSUME NEW w \in Workers,
             Enter(w) \/ CountIn(w) \/ PushRoot(w) \/ Routine(w)
             \/ Walk(w) \/ LoadLines(w) \/ CountOut(w)
      PROVE  LockInv'
  BY <1>2, LoopLockInv
<1>3. ASSUME NEW w \in Workers, LoopReturns(w) PROVE LockInv'
  <2>1. /\ treeLock' = treeLock /\ lockWorks' = lockWorks /\ active' = active
        /\ root' = root /\ children' = children /\ cpc' = cpc
        /\ jpc[w] = "return" /\ jpc'[w] = "start" /\ wpc'[w] = "pop"
        /\ \A v \in Workers \ {w} :
             wpc'[v] = wpc[v] /\ jpc'[v] = jpc[v] /\ loaded'[v] = loaded[v]
    BY <1>3 DEF LoopReturns, At, GotoJ, lockVars, vertexVars, Pool!JobReturn,
                Pool!Finish, Pool!GotoW, Pool!clientVars, Shape, Typed,
                TP!CountInv, TP!TypeOK
  <2>2. w \notin Counted /\ w \notin Counted'
    BY <2>1 DEF Counted, Running
  <2>3. Cardinality(Counted)' = Cardinality(Counted)
    <3>1. Counted' = Counted
      BY <2>1, <2>2 DEF Counted, Running
    <3> QED BY <3>1
  <2>4. ExclusionInv'
    BY <2>1 DEF LockInv, ExclusionInv, Inside
  <2>5. LinesInv'
    BY <2>1, <2>3 DEF LockInv, LinesInv, Childless
  <2> QED BY <2>4, <2>5 DEF LockInv
<1>4. ASSUME NEW u \in Users, UserStep(u) PROVE LockInv'
  <2>1. /\ wpc' = wpc /\ jpc' = jpc /\ loaded' = loaded /\ active' = active
        /\ lockWorks' = lockWorks /\ cpc' = cpc
    BY <1>4 DEF UserStep, AddRoot, AddChildLock, AddChild, Execute, TreeTerminate,
                poolVars, lineVars, lockVars
  <2>2. Counted' = Counted
    BY <2>1 DEF Counted, Running
  <2>3. cpc'[Main] # "freed" /\ Childless' => Childless
    <3>1. CASE \E v \in Vertices : AddRoot(u, v)
      BY <3>1 DEF AddRoot, vertexVars, Childless
    <3>2. CASE \E v \in Vertices : AddChildLock(u, v)
      <4> PICK p \in Vertices : AddChildLock(u, p)
        BY <3>2
      <4>1. root' = root /\ \A v \in Vertices : children'[v] = Null => children[v] = Null
        BY NewListSound DEF AddChildLock, ChildrenInv
      <4> QED BY <4>1 DEF Childless, Shape, Typed
    <3>3. CASE AddChild(u)
      <4>1. /\ adding[u] \in Vertices /\ children[adding[u]] # Null
            /\ root' = root
            /\ \A v \in Vertices : v # adding[u] => children'[v] = children[v]
        BY <3>3 DEF AddChild, ChildrenInv, Shape, Typed
      <4>2. children[adding[u]] \in Lists /\ Sound(children[adding[u]])
        BY <4>1 DEF ChildrenInv, ListsSound
      <4>3. Added(children[adding[u]]) # Null
        BY <4>2, AddedSound
      <4>4. \/ children' = children
            \/ children' = [children EXCEPT ![adding[u]] = Added(children[adding[u]])]
        BY <3>3 DEF AddChild
      <4>5. children'[adding[u]] # Null
        BY <4>1, <4>3, <4>4 DEF ChildrenInv
      <4> QED BY <4>1, <4>5 DEF Childless, Shape, Typed
    <3>4. CASE Execute(u) \/ TreeTerminate(u)
      BY <3>4 DEF Execute, TreeTerminate, vertexVars, Childless
    <3> QED BY <1>4, <3>1, <3>2, <3>3, <3>4 DEF UserStep
  <2>4. CASE treeLock' = treeLock
    BY <2>1, <2>2, <2>3, <2>4, KeepLockInv
  <2>5. CASE treeLock = Null /\ treeLock' = u
    <3>1. ExclusionInv'
      BY <2>1, <2>5, ThreadsAssumption DEF LockInv, ExclusionInv
    <3>2. LinesInv'
      BY <2>1, <2>2, <2>3 DEF LockInv, LinesInv
    <3> QED BY <3>1, <3>2 DEF LockInv
  <2> QED
    BY <1>4, <2>4, <2>5
    DEF UserStep, AddRoot, AddChildLock, AddChild, Execute, TreeTerminate, lockVars
<1>5. CASE OwnerStep
  <2>1. /\ treeLock' = treeLock /\ lockWorks' = lockWorks /\ jpc' = jpc
        /\ loaded' = loaded /\ active' = active /\ root' = root /\ children' = children
    BY <1>5 DEF OwnerStep, lockVars, lineVars, vertexVars
  <2>2. /\ cpc'[Main] \in {"new", "use"} => cpc[Main] \in {"new", "use"}
        /\ cpc[Main] = "freed" => cpc'[Main] = "freed"
    BY <1>5 DEF OwnerStep, Pool!OwnerStep, Pool!Create, Pool!NewReturns, Pool!Join,
                Pool!FreeAssert, Pool!FreeReturns, Pool!GotoC, Shape, TP!CountInv, TP!TypeOK
  <2>3. \A w \in Workers : Running(w)' <=> Running(w)
    BY <1>5 DEF OwnerStep, Pool!OwnerStep, Pool!Create, Pool!NewReturns, Pool!Join,
                Pool!FreeAssert, Pool!FreeReturns, Pool!GotoW, Pool!workerVars, Shape, TP!CountInv,
                TP!TypeOK, Running
  <2>4. \A w \in Workers : w \in Counted' <=> w \in Counted
    BY <2>1, <2>3 DEF Counted
  <2> QED BY <2>1, <2>2, <2>4, KeepLockInv DEF Childless
<1>6. CASE FreeCalled
  <2>1. /\ treeLock' = treeLock /\ jpc' = jpc /\ loaded' = loaded /\ active' = active
        /\ root' = root /\ children' = children /\ wpc' = wpc
        /\ cpc[Main] = "use" /\ cpc'[Main] = "free"
    BY <1>6 DEF FreeCalled, lineVars, vertexVars, Pool!FreeCalled, Pool!GotoC,
                Pool!workerVars, Shape, TP!CountInv, TP!TypeOK
  <2>2. lockWorks
    BY <2>1 DEF LockInv, ExclusionInv
  <2> QED BY <2>1, <2>2, KeepLockInv DEF Childless, Counted, Running
<1>7. ASSUME NEW v \in Vertices, FreeVertice(v) PROVE LockInv'
  <2>1. /\ treeLock' = treeLock /\ lockWorks' = lockWorks /\ jpc' = jpc /\ wpc' = wpc
        /\ loaded' = loaded /\ active' = active /\ cpc' = cpc /\ cpc[Main] = "freed"
    BY <1>7 DEF FreeVertice, lockVars, lineVars, poolVars
  <2> QED BY <2>1, KeepLockInv DEF Counted, Running
<1>8. CASE UNCHANGED vars
  BY <1>8, KeepLockInv
  DEF vars, poolVars, lockVars, vertexVars, lineVars, Childless, Counted, Running
<1> QED
  BY <1>1, <1>2, <1>3, <1>4, <1>5, <1>6, <1>7, <1>8 DEF Next, WorkerStep

\* While tree->lock works, active_lines is the number of lines under way, and
\* never two more than there are threads (tree.c:183, :214).
THEOREM ActiveLinesCorrect == Spec => []ActiveLinesAccurate
<1>1. LockInv => ActiveLinesAccurate
  BY DEF LockInv, LinesInv, ActiveLinesAccurate, Lines, Counted, Running
<1> QED
  BY <1>1, TokenAlways, ChildrenAlways, LockInit, LockStep, PTL DEF Spec

-----------------------------------------------------------------------------
\* The rest of the type invariant.
Recorded ==
  /\ terminated \in BOOLEAN /\ lockWorks \in BOOLEAN /\ aborted \in BOOLEAN
  /\ treeLock \in Users \cup Workers \cup {Null}
  /\ allocated \in SUBSET Vertices
  /\ vlock \in [Vertices -> Users \cup {Null}]

LEMMA RecordedInit == Init => Recorded
<1> SUFFICES ASSUME Init PROVE Recorded
  OBVIOUS
<1>1. terminated \in BOOLEAN /\ lockWorks \in BOOLEAN /\ aborted \in BOOLEAN
  BY DEF Init
<1>2. treeLock \in Users \cup Workers \cup {Null}
  BY DEF Init
<1>3. allocated \in SUBSET Vertices /\ vlock \in [Vertices -> Users \cup {Null}]
  BY DEF Init, NewVertices
<1> QED BY <1>1, <1>2, <1>3 DEF Recorded

LEMMA RecordedStep == Recorded /\ [Next]_vars => Recorded'
<1> SUFFICES ASSUME Recorded, [Next]_vars PROVE Recorded'
  OBVIOUS
<1>1. ASSUME NEW w \in Workers, WorkerStep(w) PROVE Recorded'
  BY <1>1 DEF WorkerStep, ThreadLoop, Enter, CountIn, PushRoot, Routine,
              Walk, LoadLines, CountOut, LoopReturns, Lock, Unlock, LockAndUnlock,
              lockVars, vertexVars, Recorded
<1>2. ASSUME NEW u \in Users, UserStep(u) PROVE Recorded'
  BY <1>2 DEF UserStep, AddRoot, AddChildLock, AddChild, Execute, TreeTerminate,
              lockVars, vertexVars, Recorded
<1>3. CASE OwnerStep \/ FreeCalled \/ (\E v \in Vertices : FreeVertice(v)) \/ UNCHANGED vars
  BY <1>3 DEF OwnerStep, FreeCalled, FreeVertice, vars, lockVars, vertexVars, Recorded
<1> QED BY <1>1, <1>2, <1>3 DEF Next

\* Every variable of the tree keeps its type, those of its pool included
\* (num_threads does not go below zero, thread_pool.c:67).  For active_lines, which
\* is reduced to a size_t, it says little: ActiveLinesCorrect says that it counts.
THEOREM TypeCorrect == Spec => []TypeOK
<1>1. \A S : TP!Cardinality(S) = Pool!Cardinality(S)
  BY DEF TP!Cardinality, Pool!Cardinality, TP!IsFiniteSet, Pool!IsFiniteSet
<1>2. TP!TypeOK => Pool!TypeOK
  BY <1>1 DEF TP!TypeOK, Pool!TypeOK, TP!Units, Pool!Units
<1>3. Shape /\ ChildrenInv /\ Recorded => TypeOK
  BY <1>2 DEF Shape, TP!CountInv, Typed, ChildrenInv, Recorded, TypeOK
<1> QED BY <1>3, ChildrenAlways, RecordedInit, RecordedStep, PTL DEF Spec
=============================================================================
