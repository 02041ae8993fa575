--------------------------- MODULE PipelineProofs ---------------------------
(***************************************************************************)
(* Proofs about Pipeline, for every number of threads, pumps and products. *)
(* The first shows that the pipeline uses its thread pool as ThreadPool    *)
(* allows, so that what ThreadPoolProofs proves of any pool holds of this  *)
(* one.  The next ones count: lines, and inlet stages.  The last is about  *)
(* the order of the stages of a product.                                   *)
(***************************************************************************)
EXTENDS Pipeline, Counting

\* The pool's theorems, for the pipeline's pool.
PP == INSTANCE ThreadPoolProofs WITH
  Clients <- {Main}, Owner <- Main, Jobs <- States, MaxWork <- Null

\* What each worker's place in pipeline_loop says of the unit it runs.
AtWork(w) ==
  /\ jpc[w] # "start" => Running(w)
  /\ Running(w) => unit[w] \in PP!Units /\ unit[w].job \in States
  /\ jpc[w] \in {"inlet", "restart", "requeue"} => Stage(w) = -1
  /\ jpc[w] = "forward" => Stage(w) < numPumps

Typed ==
  /\ numPumps \in 0..MaxPumps
  /\ active \in Int
  /\ jpc \in [Workers -> JobPCs]
  /\ product \in [Workers -> 0..MaxProducts]
  /\ produced \in 0..MaxProducts

Shape == PP!CountInv /\ Typed /\ \A w \in Workers : AtWork(w)

-----------------------------------------------------------------------------
(* The pool's assumptions follow from the pipeline's. *)

LEMMA Sizes == IsFiniteSet(Workers) /\ Cardinality(Workers) \in Nat
BY ThreadsAssumption, FS_CardinalityType

LEMMA PoolAssumptions ==
  /\ PP!OwnerAssumption /\ PP!WorkersAssumption /\ PP!NamesAssumption
  /\ PP!FailAssumption /\ PP!BoundAssumption
<1>1. PP!OwnerAssumption
  OBVIOUS
<1>2. PP!WorkersAssumption
  BY ThreadsAssumption DEF PP!IsFiniteSet, IsFiniteSet
<1>3. PP!NamesAssumption
  BY ThreadsAssumption, SentinelAssumption
<1>4. PP!FailAssumption
  BY FailAssumption
<1>5. PP!BoundAssumption
  OBVIOUS
<1> QED BY <1>1, <1>2, <1>3, <1>4, <1>5

LEMMA InletIsState == InletState \in States
BY PumpsAssumption, ProductsAssumption DEF InletState, States

LEMMA StateIsRecord ==
  ASSUME NEW s \in States
  PROVE  s.stage \in -1..MaxPumps /\ s.product \in 0..MaxProducts
BY DEF States

-----------------------------------------------------------------------------
(* The pipeline's pushes are those of a unit or of a client of the pool. *)

LEMMA JobPushes ==
  ASSUME NEW w \in Workers, Pool!Exists, Running(w), NEW j \in States, Pool!Push(j),
         PoolUnchangedButWork, UNCHANGED terms
  PROVE  PP!Next
<1>1. PP!JobPush(w, j)
  BY DEF Pool!Push, Pool!Refuse, Pool!Unit, PP!JobPush, PP!Push, PP!Refuse,
         PP!Unit, PP!Room, PP!workerVars, PP!clientVars, PoolUnchangedButWork, Running,
         Pool!Exists, PP!Exists
<1> QED BY <1>1 DEF PP!Next

LEMMA JobTerminates ==
  ASSUME NEW w \in Workers, Pool!Exists, Running(w), Pool!Terminate,
         PoolUnchangedButWork
  PROVE  PP!Next
<1>1. PP!JobTerminate(w)
  BY DEF Pool!Terminate, Pool!Refuse, Pool!Unit, PP!JobTerminate, PP!Terminate,
         PP!Refuse, PP!Unit, PP!Room, PP!workerVars, PP!clientVars,
         PoolUnchangedButWork, Running, Pool!Exists, PP!Exists
<1> QED BY <1>1 DEF PP!Next

LEMMA PoolStep == Shape /\ [Next]_vars => [PP!Next]_(PP!vars)
<1> SUFFICES ASSUME Shape, [Next]_vars PROVE [PP!Next]_(PP!vars)
  OBVIOUS
<1>1. ASSUME NEW w \in Workers, ThreadLoop(w) PROVE PP!Next
  <2>0. PP!Exists
    BY <1>1 DEF ThreadLoop, Pool!Exists, PP!Exists
  <2>1. CASE Pool!Pop(w)
    <3>1. PP!Pop(w)
      BY <2>1 DEF Pool!Pop, Pool!GotoW, Pool!clientVars, PP!Pop, PP!GotoW, PP!clientVars
    <3> QED BY <2>0, <3>1 DEF PP!Next, PP!WorkerStep
  <2>2. CASE Pool!TermLock(w)
    <3>1. PP!TermLock(w)
      BY <2>2 DEF Pool!TermLock, Pool!GotoW, Pool!clientVars,
                  PP!TermLock, PP!GotoW, PP!clientVars
    <3> QED BY <2>0, <3>1 DEF PP!Next, PP!WorkerStep
  <2>3. CASE Pool!Relay(w)
    <3>1. PP!Relay(w)
      BY <2>3 DEF Pool!Relay, Pool!Push, Pool!Unit, Pool!Refuse, Pool!GotoW,
                  Pool!clientVars, PP!Relay, PP!Push, PP!Unit, PP!Refuse,
                  PP!GotoW, PP!clientVars
    <3> QED BY <2>0, <3>1 DEF PP!Next, PP!WorkerStep
  <2>4. CASE Pool!Leave(w)
    <3>1. PP!Leave(w)
      BY <2>4 DEF Pool!Leave, Pool!GotoW, Pool!clientVars,
                  PP!Leave, PP!GotoW, PP!clientVars
    <3> QED BY <2>0, <3>1 DEF PP!Next, PP!WorkerStep
  <2> QED BY <1>1, <2>1, <2>2, <2>3, <2>4 DEF ThreadLoop
<1>2. ASSUME NEW w \in Workers, InletEnter(w) \/ Inlet(w) \/ Pump(w) \/ Outlet(w)
      PROVE  UNCHANGED PP!vars
  BY <1>2 DEF InletEnter, Inlet, Pump, Outlet, poolVars, PP!vars
<1>3. ASSUME NEW w \in Workers, Requeue(w) PROVE PP!Next
  <2>1. Pool!Exists /\ Running(w) /\ unit[w].job \in States
    BY <1>3 DEF Requeue, At, Running, Shape, AtWork
  <2> QED BY <1>3, <2>1, JobPushes DEF Requeue
<1>4. ASSUME NEW w \in Workers, Restart(w) PROVE PP!Next
  BY <1>4, JobPushes, InletIsState DEF Restart, At, Running
<1>5. ASSUME NEW w \in Workers, Forward(w) PROVE PP!Next
  <2>1. /\ Pool!Exists /\ Running(w) /\ unit[w].job \in States
        /\ Stage(w) < numPumps /\ numPumps \in 0..MaxPumps
        /\ product[w] \in 0..MaxProducts
    BY <1>5 DEF Forward, At, Running, Shape, Typed, AtWork
  <2>2. [stage |-> Stage(w) + 1, product |-> product[w]] \in States
    BY <2>1, PumpsAssumption DEF States, Stage
  <2> QED BY <1>5, <2>1, <2>2, JobPushes DEF Forward
<1>6. ASSUME NEW w \in Workers, Retire(w) PROVE [PP!Next]_(PP!vars)
  <2>1. CASE active' = 0
    BY <1>6, <2>1, JobTerminates DEF Retire, At, Running
  <2>2. CASE active' # 0
    BY <1>6, <2>2 DEF Retire, PoolUnchangedButWork, PP!vars
  <2> QED BY <2>1, <2>2
<1>7. ASSUME NEW w \in Workers, LoopReturns(w) PROVE PP!Next
  <2>1. PP!JobReturn(w)
    BY <1>7 DEF LoopReturns, Pool!JobReturn, Pool!Finish, Pool!GotoW, Pool!clientVars,
                PP!JobReturn, PP!Finish, PP!GotoW, PP!clientVars
  <2>2. PP!Exists
    BY <1>7 DEF LoopReturns, At, Pool!Exists, PP!Exists
  <2> QED BY <2>1, <2>2 DEF PP!Next, PP!WorkerStep
<1>8. CASE OwnerStep
  <2>1. PP!OwnerStep
    BY <1>8 DEF OwnerStep, Pool!OwnerStep, Pool!Create, Pool!NewReturns, Pool!Join,
                Pool!FreeAssert, Pool!FreeReturns, Pool!GotoW, Pool!GotoC, Pool!workerVars,
                PP!OwnerStep, PP!Create, PP!NewReturns, PP!Join,
                PP!FreeAssert, PP!FreeReturns, PP!GotoW, PP!GotoC, PP!workerVars
  <2> QED BY <2>1 DEF PP!Next
<1>9. CASE FreeCalled
  <2>1. PP!FreeCalled
    BY <1>9 DEF FreeCalled, Pool!FreeCalled, Pool!GotoC, Pool!workerVars,
                PP!FreeCalled, PP!GotoC, PP!workerVars
  <2> QED BY <2>1 DEF PP!Next
<1>10. CASE AddInlet \/ AddOutlet \/ AddPump \/ PipelineTerminate
  BY <1>10 DEF AddInlet, AddOutlet, AddPump, PipelineTerminate, poolVars, PP!vars
<1>11. CASE Execute
  <2>1. CASE inlet /\ outlet
    <3>1. PP!ClientPush(Main, InletState)
      BY <1>11, <2>1 DEF Execute, Pool!Push, Pool!Refuse, Pool!Unit,
             PoolUnchangedButWork,
             PP!ClientPush, PP!Push, PP!Refuse, PP!Unit, PP!Room,
             PP!workerVars, PP!clientVars
    <3> QED BY <3>1, InletIsState DEF PP!Next
  <2>2. CASE ~(inlet /\ outlet)
    BY <1>11, <2>2 DEF Execute, PoolUnchangedButWork, PP!vars
  <2> QED BY <2>1, <2>2
<1>12. CASE UNCHANGED vars
  BY <1>12 DEF vars, poolVars, PP!vars
<1> QED
  BY <1>1, <1>2, <1>3, <1>4, <1>5, <1>6, <1>7, <1>8, <1>9, <1>10, <1>11, <1>12
  DEF Next, WorkerStep

-----------------------------------------------------------------------------
(* Shape is inductive: CountStep of the pool keeps its part. *)

LEMMA PoolInit == Init => PP!Init
<1>1. \A S : PP!Cardinality(S) = Pool!Cardinality(S)
  BY DEF PP!Cardinality, Pool!Cardinality, PP!IsFiniteSet, Pool!IsFiniteSet
<1> QED BY <1>1 DEF Init, Pool!Init, PP!Init

LEMMA ShapeInit == Init => Shape
<1> SUFFICES ASSUME Init PROVE Shape
  OBVIOUS
<1>1. PP!CountInv
  BY PoolInit, PoolAssumptions, PP!CountInit
<1>2. Typed
  BY PumpsAssumption, ProductsAssumption DEF Init, Typed, JobPCs
<1>3. \A w \in Workers : AtWork(w)
  BY DEF Init, Pool!Init, AtWork, Running
<1> QED BY <1>1, <1>2, <1>3 DEF Shape

LEMMA CountStays == Shape /\ [Next]_vars => PP!CountInv'
BY PoolStep, PoolAssumptions, PP!CountStep DEF Shape

\* A worker the step leaves alone is at work as before.
LEMMA KeepAtWork ==
  ASSUME NEW w \in Workers, AtWork(w), wpc'[w] = wpc[w], unit'[w] = unit[w],
         jpc'[w] = jpc[w], Shape, numPumps' \in Int, numPumps <= numPumps'
  PROVE  AtWork(w)'
<1>1. CASE jpc[w] = "forward"
  <2>1. Stage(w) \in Int /\ numPumps \in Int
    BY <1>1, StateIsRecord, PumpsAssumption DEF Shape, Typed, AtWork, Stage
  <2> QED BY <1>1, <2>1 DEF AtWork, Running, Stage
<1>2. CASE jpc[w] # "forward"
  BY <1>2 DEF AtWork, Running, Stage
<1> QED BY <1>1, <1>2

\* The step of one worker that runs a unit and keeps it.
LEMMA MoveAtWork ==
  ASSUME Shape, NEW w \in Workers, NEW l \in JobPCs, wpc' = wpc, unit' = unit,
         GotoJ(w, l), Running(w), numPumps' = numPumps,
         l \in {"inlet", "restart", "requeue"} => Stage(w) = -1,
         l = "forward" => Stage(w) < numPumps
  PROVE  /\ jpc' \in [Workers -> JobPCs]
         /\ \A v \in Workers : AtWork(v)'
<1>1. /\ jpc' \in [Workers -> JobPCs]
      /\ jpc'[w] = l
      /\ \A v \in Workers \ {w} : jpc'[v] = jpc[v]
  BY DEF GotoJ, Shape, Typed
<1>2. numPumps \in Int
  BY PumpsAssumption DEF Shape, Typed
<1>3. AtWork(w)'
  BY <1>1 DEF Shape, AtWork, Running, Stage
<1>4. ASSUME NEW v \in Workers \ {w} PROVE AtWork(v)'
  BY <1>1, <1>2, <1>4, KeepAtWork DEF Shape
<1> QED BY <1>1, <1>3, <1>4

\* A step of the pool that starts no unit.
LEMMA PoolAtWork ==
  ASSUME Shape, jpc' = jpc, numPumps' = numPumps, NEW w \in Workers,
         wpc[w] # "run", wpc'[w] # "run",
         \A v \in Workers \ {w} : wpc'[v] = wpc[v] /\ unit'[v] = unit[v]
  PROVE  \A v \in Workers : AtWork(v)'
<1>1. numPumps \in Int
  BY PumpsAssumption DEF Shape, Typed
<1>2. AtWork(w)'
  BY DEF Shape, AtWork, Running
<1>3. ASSUME NEW v \in Workers \ {w} PROVE AtWork(v)'
  BY <1>1, <1>3, KeepAtWork DEF Shape
<1> QED BY <1>2, <1>3

\* Nobody's place in pipeline_loop changes.
LEMMA SameAtWork ==
  ASSUME Shape, wpc' = wpc, unit' = unit, jpc' = jpc,
         numPumps' \in Int, numPumps <= numPumps'
  PROVE  \A w \in Workers : AtWork(w)'
BY KeepAtWork DEF Shape

\* Stages of running units are numbers from -1 on.
LEMMA StageType ==
  ASSUME Shape, NEW w \in Workers, Running(w)
  PROVE  /\ Stage(w) \in -1..MaxPumps /\ unit[w].job.product \in 0..MaxProducts
         /\ MaxPumps \in Nat /\ numPumps \in Int
BY StateIsRecord, PumpsAssumption DEF Shape, Typed, AtWork, Stage

LEMMA ShapeStep == Shape /\ [Next]_vars => Shape'
<1> SUFFICES ASSUME Shape, [Next]_vars PROVE Typed' /\ \A w \in Workers : AtWork(w)'
  BY CountStays DEF Shape
<1> USE DEF Shape
<1>1. ASSUME NEW w \in Workers, ThreadLoop(w)
      PROVE  Typed' /\ \A v \in Workers : AtWork(v)'
  <2>1. jpc' = jpc /\ numPumps' = numPumps /\ Typed'
    BY <1>1 DEF ThreadLoop, setupVars, lineVars, Typed
  <2>2. CASE Pool!Pop(w)
    <3>1. /\ work # <<>> /\ Head(work) \in PP!Units
          /\ \/ wpc'[w] = "term" /\ Head(work).job = Term
             \/ wpc'[w] = "run" /\ Head(work).job # Term
          /\ unit'[w] = Head(work) /\ wpc[w] = "pop"
          /\ \A v \in Workers \ {w} : wpc'[v] = wpc[v] /\ unit'[v] = unit[v]
      BY <2>2 DEF Pool!Pop, Pool!GotoW, PP!CountInv, PP!TypeOK
    <3>2. Head(work).job \in States \cup {Term}
      BY <3>1 DEF PP!Units
    <3>3. AtWork(w)'
      BY <2>1, <3>1, <3>2 DEF AtWork, Running
    <3>4. ASSUME NEW v \in Workers \ {w} PROVE AtWork(v)'
      BY <2>1, <3>1, <3>4, KeepAtWork, PumpsAssumption DEF Typed
    <3> QED BY <2>1, <3>3, <3>4
  <2>3. CASE Pool!TermLock(w)
    BY <2>1, <2>3, PoolAtWork DEF Pool!TermLock, Pool!GotoW, PP!CountInv, PP!TypeOK
  <2>4. CASE Pool!Relay(w)
    BY <2>1, <2>4, PoolAtWork DEF Pool!Relay, Pool!GotoW, PP!CountInv, PP!TypeOK
  <2>5. CASE Pool!Leave(w)
    BY <2>1, <2>5, PoolAtWork DEF Pool!Leave, Pool!GotoW, PP!CountInv, PP!TypeOK
  <2> QED BY <1>1, <2>2, <2>3, <2>4, <2>5 DEF ThreadLoop
<1>2. ASSUME NEW w \in Workers, InletEnter(w)
      PROVE  Typed' /\ \A v \in Workers : AtWork(v)'
  <2>1. /\ Running(w) /\ Stage(w) = -1
        /\ wpc' = wpc /\ unit' = unit /\ numPumps' = numPumps
    BY <1>2, StageType DEF InletEnter, At, Running, poolVars, setupVars
  <2>2. \E l \in {"return", "requeue", "inlet"} : GotoJ(w, l)
    BY <1>2 DEF InletEnter
  <2>3. jpc' \in [Workers -> JobPCs] /\ \A v \in Workers : AtWork(v)'
    BY <2>1, <2>2, MoveAtWork DEF JobPCs
  <2> QED BY <1>2, <2>1, <2>3 DEF InletEnter, Typed
<1>3. ASSUME NEW w \in Workers, Requeue(w)
      PROVE  Typed' /\ \A v \in Workers : AtWork(v)'
  <2>1. jpc' \in [Workers -> JobPCs] /\ \A v \in Workers : AtWork(v)'
    BY <1>3, MoveAtWork
    DEF Requeue, At, Running, PoolUnchangedButWork, setupVars, JobPCs
  <2> QED BY <1>3, <2>1 DEF Requeue, setupVars, Typed
<1>4. ASSUME NEW w \in Workers, Inlet(w)
      PROVE  Typed' /\ \A v \in Workers : AtWork(v)'
  <2>1. /\ Running(w) /\ Stage(w) = -1
        /\ wpc' = wpc /\ unit' = unit /\ numPumps' = numPumps
    BY <1>4 DEF Inlet, At, Running, poolVars, setupVars, AtWork
  <2>2. \E l \in {"restart", "retire"} : GotoJ(w, l)
    BY <1>4 DEF Inlet
  <2>3. jpc' \in [Workers -> JobPCs] /\ \A v \in Workers : AtWork(v)'
    BY <2>1, <2>2, MoveAtWork DEF JobPCs
  <2>4. /\ product' \in [Workers -> 0..MaxProducts]
        /\ produced' \in 0..MaxProducts
    BY <1>4, ProductsAssumption DEF Inlet, Typed
  <2> QED BY <1>4, <2>1, <2>3, <2>4 DEF Inlet, Typed
<1>5. ASSUME NEW w \in Workers, Restart(w)
      PROVE  Typed' /\ \A v \in Workers : AtWork(v)'
  <2>1. Running(w) /\ Stage(w) = -1 /\ numPumps \in Nat
    BY <1>5, PumpsAssumption DEF Restart, At, Running, AtWork, Typed
  <2>2. jpc' \in [Workers -> JobPCs] /\ \A v \in Workers : AtWork(v)'
    BY <1>5, <2>1, MoveAtWork DEF Restart, PoolUnchangedButWork, setupVars, JobPCs
  <2> QED BY <1>5, <2>2 DEF Restart, setupVars, Typed
<1>6. ASSUME NEW w \in Workers, Pump(w)
      PROVE  Typed' /\ \A v \in Workers : AtWork(v)'
  <2>1. /\ Running(w) /\ Stage(w) < numPumps
        /\ unit[w].job.product \in 0..MaxProducts
    BY <1>6, StageType DEF Pump, At, Running
  <2>2. jpc' \in [Workers -> JobPCs] /\ \A v \in Workers : AtWork(v)'
    BY <1>6, <2>1, MoveAtWork DEF Pump, poolVars, setupVars, JobPCs
  <2> QED BY <1>6, <2>1, <2>2 DEF Pump, setupVars, Typed
<1>7. ASSUME NEW w \in Workers, Outlet(w)
      PROVE  Typed' /\ \A v \in Workers : AtWork(v)'
  <2>1. jpc' \in [Workers -> JobPCs] /\ \A v \in Workers : AtWork(v)'
    BY <1>7, MoveAtWork DEF Outlet, At, Running, poolVars, setupVars, JobPCs
  <2> QED BY <1>7, <2>1 DEF Outlet, setupVars, Typed
<1>8. ASSUME NEW w \in Workers, Forward(w)
      PROVE  Typed' /\ \A v \in Workers : AtWork(v)'
  <2>1. jpc' \in [Workers -> JobPCs] /\ \A v \in Workers : AtWork(v)'
    BY <1>8, MoveAtWork
    DEF Forward, At, Running, PoolUnchangedButWork, setupVars, JobPCs
  <2> QED BY <1>8, <2>1 DEF Forward, setupVars, Typed
<1>9. ASSUME NEW w \in Workers, Retire(w)
      PROVE  Typed' /\ \A v \in Workers : AtWork(v)'
  <2>1. jpc' \in [Workers -> JobPCs] /\ \A v \in Workers : AtWork(v)'
    BY <1>9, MoveAtWork
    DEF Retire, At, Running, PoolUnchangedButWork, setupVars, JobPCs
  <2> QED BY <1>9, <2>1 DEF Retire, setupVars, Typed
<1>10. ASSUME NEW w \in Workers, LoopReturns(w)
       PROVE  Typed' /\ \A v \in Workers : AtWork(v)'
  <2>1. /\ jpc' \in [Workers -> JobPCs] /\ product' \in [Workers -> 0..MaxProducts]
        /\ wpc'[w] = "pop" /\ jpc'[w] = "start" /\ numPumps' = numPumps
        /\ \A v \in Workers \ {w} :
             wpc'[v] = wpc[v] /\ unit'[v] = unit[v] /\ jpc'[v] = jpc[v]
    BY <1>10, ProductsAssumption
    DEF LoopReturns, Pool!JobReturn, Pool!Finish, Pool!GotoW, GotoJ, setupVars,
        Typed, JobPCs, PP!CountInv, PP!TypeOK
  <2>2. AtWork(w)'
    BY <2>1 DEF AtWork, Running
  <2>3. ASSUME NEW v \in Workers \ {w} PROVE AtWork(v)'
    BY <2>1, <2>3, KeepAtWork, PumpsAssumption DEF Typed
  <2> QED BY <1>10, <2>1, <2>2, <2>3 DEF LoopReturns, setupVars, Typed
<1>11. CASE OwnerStep
  <2>1. Typed' /\ jpc' = jpc /\ numPumps' = numPumps
    BY <1>11 DEF OwnerStep, setupVars, lineVars, Typed
  <2>2. ASSUME NEW w \in Workers, Pool!Create(w) PROVE \A v \in Workers : AtWork(v)'
    BY <2>1, <2>2, PoolAtWork DEF Pool!Create, Pool!GotoW, PP!CountInv, PP!TypeOK
  <2>3. CASE Pool!NewReturns \/ Pool!Join \/ Pool!FreeAssert \/ Pool!FreeReturns
    BY <2>1, <2>3, SameAtWork, PumpsAssumption
    DEF Pool!NewReturns, Pool!Join, Pool!FreeAssert, Pool!FreeReturns, Pool!workerVars, Typed
  <2> QED BY <1>11, <2>1, <2>2, <2>3 DEF OwnerStep, Pool!OwnerStep
<1>12. CASE FreeCalled \/ AddInlet \/ AddOutlet \/ Execute \/ PipelineTerminate
            \/ UNCHANGED vars
  <2>1. Typed' /\ jpc' = jpc /\ numPumps' = numPumps /\ wpc' = wpc /\ unit' = unit
    BY <1>12
    DEF FreeCalled, AddInlet, AddOutlet, Execute, PipelineTerminate, vars,
        Pool!FreeCalled, Pool!workerVars, PoolUnchangedButWork, poolVars, setupVars,
        lineVars, Typed
  <2> QED BY <2>1, SameAtWork, PumpsAssumption DEF Typed
<1>13. CASE AddPump
  <2>1. Typed' /\ numPumps' = numPumps + 1
    BY <1>13, PumpsAssumption DEF AddPump, lineVars, Typed
  <2>2. jpc' = jpc /\ wpc' = wpc /\ unit' = unit
    BY <1>13 DEF AddPump, poolVars, lineVars
  <2> QED BY <2>1, <2>2, SameAtWork, PumpsAssumption DEF Typed
<1> QED
  BY <1>1, <1>2, <1>3, <1>4, <1>5, <1>6, <1>7, <1>8, <1>9, <1>10, <1>11,
     <1>12, <1>13
  DEF Next, WorkerStep

-----------------------------------------------------------------------------
(* What holds of every pool holds of the pipeline's. *)

\* The pipeline is one of the programs ThreadPool allows: workers push and
\* terminate only while they run a unit, main only before it frees the pool.
THEOREM RunsOnPool == Spec => PP!Spec
<1>1. Init => PP!Init
  BY PoolInit
<1> QED BY <1>1, ShapeInit, ShapeStep, PoolStep, PTL DEF Spec, PP!Spec

\* The last thread to leave the pipeline's pool is recognised as such.
THEOREM PoolCountsCorrect == Spec => []PP!NumThreadsAccurate
<1>1. PP!OwnerAssumption /\ PP!WorkersAssumption /\ PP!NamesAssumption
      /\ PP!FailAssumption /\ PP!BoundAssumption
  BY PoolAssumptions
<1> QED BY <1>1, RunsOnPool, PP!NumThreadsCorrect, PTL

-----------------------------------------------------------------------------
(***************************************************************************)
(* Lines and inlet stages are counted over the queue and over the workers. *)
(* These are the two sets of units and the two sets of workers; a step     *)
(* enqueues or dequeues one unit at most and moves one worker at most.     *)
(***************************************************************************)
BetweenStages == {u \in PP!Units : u.job # Term /\ u.job.stage >= 0}
InletUnits == {u \in PP!Units : u.job # Term /\ u.job.stage < 0}

Holding == {w \in Workers :
  \/ jpc[w] \in {"inlet", "restart", "forward", "retire"}
  \/ Running(w) /\ jpc[w] = "start" /\ Stage(w) >= 0}

AtInlet == {w \in Workers :
  /\ Running(w) /\ Stage(w) < 0
  /\ jpc[w] \in {"start", "requeue", "inlet", "restart"}}

\* How often the queue holds units of the two kinds.
Queued == Count(work, BetweenStages)
QueuedInlets == Count(work, InletUnits)

LEMMA QueuedType == Shape => Queued \in Nat /\ QueuedInlets \in Nat
BY CountType DEF Shape, PP!CountInv, PP!TypeOK, Queued, QueuedInlets

\* Lines counts what the two sets count.
LEMMA LinesSplit == Shape => Lines = Queued + Cardinality(Holding)
<1> SUFFICES ASSUME Shape PROVE Lines = Queued + Cardinality(Holding)
  OBVIOUS
<1>1. \A i \in DOMAIN work : work[i] \in PP!Units
  BY DEF Shape, PP!CountInv, PP!TypeOK
<1>2. {i \in DOMAIN work : work[i].job # Term /\ work[i].job.stage >= 0}
        = Places(work, BetweenStages)
  BY <1>1 DEF Places, BetweenStages
<1> QED BY <1>2 DEF Lines, Holding, Queued, Count

\* The queue is left alone.
LEMMA SameQueue ==
  work' = work => Queued' = Queued /\ QueuedInlets' = QueuedInlets
BY DEF Queued, QueuedInlets

\* A unit enqueued, or refused for lack of memory.
LEMMA Enqueued ==
  ASSUME Shape, NEW j \in States \cup {Term},
         Pool!Push(j) \/ (j = Term /\ Pool!Terminate)
  PROVE  \/ lost' # {} /\ Queued' = Queued /\ QueuedInlets' = QueuedInlets
         \/ /\ lost' = lost
            /\ Queued' = Queued + One(j # Term /\ j.stage >= 0)
            /\ QueuedInlets' = QueuedInlets + One(j # Term /\ j.stage < 0)
<1>1. CASE Pool!Refuse(j)
  BY <1>1, SameQueue DEF Pool!Refuse
<1>2. CASE work' = Append(work, Pool!Unit(j)) /\ lost' = lost
  <2> DEFINE u == Pool!Unit(j)
  <2>1. work \in Seq(PP!Units) /\ terms \in 0..2
    BY DEF Shape, PP!CountInv, PP!TypeOK
  <2>2. (terms > 0) \in BOOLEAN
    BY <2>1
  <2>3. u \in PP!Units /\ u.job = j
    BY <2>2, Zenon DEF Pool!Unit, PP!Units
  <2>4. Queued' = Queued + One(u \in BetweenStages)
    BY <1>2, <2>1, <2>3, CountAppend DEF Queued
  <2>5. QueuedInlets' = QueuedInlets + One(u \in InletUnits)
    BY <1>2, <2>1, <2>3, CountAppend DEF QueuedInlets
  <2> QED BY <1>2, <2>3, <2>4, <2>5 DEF BetweenStages, InletUnits, One
<1> QED BY <1>1, <1>2 DEF Pool!Push, Pool!Terminate

\* The unit dequeued.
LEMMA Dequeued ==
  ASSUME Shape, work # <<>>, work' = Tail(work)
  PROVE  LET u == Head(work)
         IN /\ Queued = Queued' + One(u.job # Term /\ u.job.stage >= 0)
            /\ QueuedInlets = QueuedInlets' + One(u.job # Term /\ u.job.stage < 0)
            /\ u \in PP!Units
<1>1. work \in Seq(PP!Units) /\ Head(work) \in PP!Units
  BY DEF Shape, PP!CountInv, PP!TypeOK
<1>2. Queued = Queued' + One(Head(work) \in BetweenStages)
  BY <1>1, CountTail DEF Queued
<1>3. QueuedInlets = QueuedInlets' + One(Head(work) \in InletUnits)
  BY <1>1, CountTail DEF QueuedInlets
<1> QED BY <1>1, <1>2, <1>3 DEF BetweenStages, InletUnits, One

\* One worker moves.
LEMMA Moved ==
  ASSUME NEW w \in Workers,
         \A v \in Workers \ {w} :
           wpc'[v] = wpc[v] /\ unit'[v] = unit[v] /\ jpc'[v] = jpc[v]
  PROVE  /\ Cardinality(Holding) \in Nat /\ Cardinality(Holding)' \in Nat
         /\ Cardinality(Holding)'
              = Cardinality(Holding) + One(w \in Holding') - One(w \in Holding)
         /\ Cardinality(AtInlet) \in Nat /\ Cardinality(AtInlet)' \in Nat
         /\ Cardinality(AtInlet)'
              = Cardinality(AtInlet) + One(w \in AtInlet') - One(w \in AtInlet)
<1>1. \A v \in Workers \ {w} :
        (v \in Holding <=> v \in Holding') /\ (v \in AtInlet <=> v \in AtInlet')
  BY DEF Holding, AtInlet, At, Running, Stage
<1>2. /\ Holding \in SUBSET Workers /\ Holding' \in SUBSET Workers
      /\ AtInlet \in SUBSET Workers /\ AtInlet' \in SUBSET Workers
  BY DEF Holding, AtInlet
<1>3. /\ Cardinality(Holding) \in Nat /\ Cardinality(Holding)' \in Nat
      /\ Cardinality(Holding)'
           = Cardinality(Holding) + One(w \in Holding') - One(w \in Holding)
  BY <1>1, <1>2, Sizes, OneMoves
<1>4. /\ Cardinality(AtInlet) \in Nat /\ Cardinality(AtInlet)' \in Nat
      /\ Cardinality(AtInlet)'
           = Cardinality(AtInlet) + One(w \in AtInlet') - One(w \in AtInlet)
  BY <1>1, <1>2, Sizes, OneMoves
<1> QED BY <1>3, <1>4

-----------------------------------------------------------------------------
\* active_lines never falls short of the lines under way; a refused push can
\* only make it too large.  And there is one inlet stage at most for each
\* pipeline_execute.
InletStages == QueuedInlets + Cardinality(AtInlet)

LinesInv ==
  /\ Queued + Cardinality(Holding) <= active
  /\ lost = {} => active = Queued + Cardinality(Holding)

InletInv == executes \in Nat /\ InletStages <= executes

CountsInv == LinesInv /\ InletInv

\* Neither count changes.
LEMMA SameCounts ==
  ASSUME CountsInv, work' = work, wpc' = wpc, unit' = unit, jpc' = jpc,
         active' = active, lost' = lost, executes' = executes
  PROVE  CountsInv'
<1>1. Queued' = Queued /\ QueuedInlets' = QueuedInlets
  BY SameQueue
<1>2. Holding' = Holding /\ AtInlet' = AtInlet
  BY DEF Holding, AtInlet, At, Running, Stage
<1> QED BY <1>1, <1>2 DEF CountsInv, LinesInv, InletInv, InletStages

LEMMA CountsStep == Shape /\ CountsInv /\ [Next]_vars => CountsInv'
<1> SUFFICES ASSUME Shape, CountsInv, [Next]_vars PROVE CountsInv'
  OBVIOUS
<1>0. Queued \in Nat /\ QueuedInlets \in Nat /\ active \in Int /\ executes \in Nat
  BY QueuedType DEF Shape, Typed, CountsInv, InletInv
<1> USE DEF CountsInv, LinesInv, InletInv, InletStages, One
<1>1. ASSUME NEW w \in Workers, ThreadLoop(w) PROVE CountsInv'
  <2>1. /\ jpc' = jpc /\ active' = active /\ executes' = executes
        /\ \A v \in Workers \ {w} : wpc'[v] = wpc[v] /\ unit'[v] = unit[v]
    BY <1>1
    DEF ThreadLoop, setupVars, lineVars, Pool!Pop, Pool!TermLock, Pool!Relay,
        Pool!Leave, Pool!GotoW, Shape, PP!CountInv, PP!TypeOK
  <2>2. /\ Cardinality(Holding) \in Nat /\ Cardinality(Holding)' \in Nat
        /\ Cardinality(Holding)'
             = Cardinality(Holding) + One(w \in Holding') - One(w \in Holding)
        /\ Cardinality(AtInlet) \in Nat /\ Cardinality(AtInlet)' \in Nat
        /\ Cardinality(AtInlet)'
             = Cardinality(AtInlet) + One(w \in AtInlet') - One(w \in AtInlet)
    BY <2>1, Moved
  <2>3. CASE Pool!Pop(w)
    <3> DEFINE u == Head(work)
    <3>1. /\ work # <<>> /\ work' = Tail(work) /\ lost' = lost
          /\ wpc[w] = "pop" /\ unit'[w] = u
          /\ wpc'[w] = (IF u.job = Term THEN "term" ELSE "run")
      BY <2>3 DEF Pool!Pop, Pool!GotoW, Shape, PP!CountInv, PP!TypeOK
    <3>2. /\ Queued = Queued' + One(u.job # Term /\ u.job.stage >= 0)
          /\ QueuedInlets = QueuedInlets' + One(u.job # Term /\ u.job.stage < 0)
          /\ u.job \in States \cup {Term}
      BY <3>1, Dequeued DEF PP!Units
    <3>3. jpc[w] = "start"
      BY <3>1 DEF Shape, AtWork, Running
    <3>4. w \notin Holding /\ w \notin AtInlet
      BY <3>1, <3>3 DEF Holding, AtInlet, At, Running
    <3>5. /\ w \in Holding' <=> u.job # Term /\ u.job.stage >= 0
          /\ w \in AtInlet' <=> u.job # Term /\ u.job.stage < 0
      BY <2>1, <3>1, <3>3 DEF Holding, AtInlet, At, Running, Stage
    <3>6. Queued' \in Nat /\ QueuedInlets' \in Nat
      BY CountStays, CountType DEF PP!CountInv, PP!TypeOK, Queued, QueuedInlets
    <3> QED BY <1>0, <2>1, <2>2, <3>1, <3>2, <3>4, <3>5, <3>6
  <2>4. CASE Pool!TermLock(w) \/ Pool!Relay(w) \/ Pool!Leave(w)
    <3>1. wpc[w] # "run" /\ wpc'[w] # "run"
      BY <2>4 DEF Pool!TermLock, Pool!Relay, Pool!Leave, Pool!GotoW, Shape,
                  PP!CountInv, PP!TypeOK
    <3>2. jpc[w] = "start"
      BY <3>1 DEF Shape, AtWork, Running
    <3>3. w \notin Holding /\ w \notin Holding' /\ w \notin AtInlet /\ w \notin AtInlet'
      BY <2>1, <3>1, <3>2 DEF Holding, AtInlet, At, Running
    <3>4. \/ lost' # {} /\ Queued' = Queued /\ QueuedInlets' = QueuedInlets
          \/ lost' = lost /\ Queued' = Queued /\ QueuedInlets' = QueuedInlets
      <4>1. CASE work' = work /\ lost' = lost
        BY <4>1, SameQueue
      <4>2. CASE Pool!Push(Term)
        BY <1>0, <4>2, Enqueued
      <4> QED BY <2>4, <4>1, <4>2 DEF Pool!TermLock, Pool!Relay, Pool!Leave
    <3> QED BY <1>0, <2>1, <2>2, <3>3, <3>4
  <2> QED BY <1>1, <2>3, <2>4 DEF ThreadLoop
<1>2. ASSUME NEW w \in Workers,
             \/ InletEnter(w) \/ Requeue(w) \/ Inlet(w) \/ Restart(w)
             \/ Pump(w) \/ Outlet(w) \/ Forward(w) \/ Retire(w)
      PROVE  CountsInv'
  <2>1. /\ wpc' = wpc /\ unit' = unit /\ executes' = executes /\ Running(w)
        /\ \E l \in JobPCs : GotoJ(w, l)
    BY <1>2
    DEF InletEnter, Requeue, Inlet, Restart, Pump, Outlet, Forward, Retire, At,
        Running, poolVars, setupVars, PoolUnchangedButWork, JobPCs
  <2>2. \A v \in Workers \ {w} : jpc'[v] = jpc[v]
    BY <2>1 DEF GotoJ, Shape, Typed
  <2>3. /\ Cardinality(Holding) \in Nat /\ Cardinality(Holding)' \in Nat
        /\ Cardinality(Holding)'
             = Cardinality(Holding) + One(w \in Holding') - One(w \in Holding)
        /\ Cardinality(AtInlet) \in Nat /\ Cardinality(AtInlet)' \in Nat
        /\ Cardinality(AtInlet)'
             = Cardinality(AtInlet) + One(w \in AtInlet') - One(w \in AtInlet)
    BY <2>1, <2>2, Moved
  <2>4. /\ Stage(w) \in Int /\ jpc[w] \in JobPCs
        /\ jpc[w] \in {"inlet", "restart", "requeue"} => Stage(w) = -1
        /\ unit[w].job \in States
    BY <2>1, StageType DEF Shape, Typed, AtWork
  <2>5. CASE InletEnter(w)
    <3>1. work' = work /\ lost' = lost /\ Stage(w) < 0 /\ jpc[w] = "start"
      BY <2>5 DEF InletEnter, poolVars, At
    <3>2. \/ jpc'[w] \in {"return", "requeue"} /\ active' = active
          \/ jpc'[w] = "inlet" /\ active' = active + 1
      BY <2>5 DEF InletEnter, GotoJ, Shape, Typed
    <3>3. w \notin Holding /\ w \in AtInlet
      BY <2>1, <2>4, <3>1 DEF Holding, AtInlet, At
    <3>4. w \in Holding' <=> jpc'[w] = "inlet"
      BY <2>1, <3>2 DEF Holding, At
    <3> QED BY <1>0, <2>1, <2>3, <3>1, <3>2, <3>3, <3>4, SameQueue
  <2>6. CASE Requeue(w)
    <3>1. /\ active' = active /\ jpc[w] = "requeue" /\ jpc'[w] = "return"
          /\ Pool!Push(unit[w].job)
      BY <2>6 DEF Requeue, At, GotoJ, Shape, Typed
    <3>2. \/ lost' # {} /\ Queued' = Queued /\ QueuedInlets' = QueuedInlets
          \/ /\ lost' = lost /\ Queued' = Queued
             /\ QueuedInlets' = QueuedInlets + 1
      BY <1>0, <2>4, <3>1, Enqueued, SentinelAssumption DEF Stage
    <3>3. w \notin Holding /\ w \in AtInlet /\ w \notin Holding' /\ w \notin AtInlet'
      BY <2>1, <2>4, <3>1 DEF Holding, AtInlet, At
    <3> QED BY <1>0, <2>1, <2>3, <3>1, <3>2, <3>3
  <2>7. CASE Inlet(w)
    <3>1. /\ work' = work /\ lost' = lost /\ active' = active
          /\ jpc[w] = "inlet" /\ jpc'[w] \in {"restart", "retire"}
      BY <2>7 DEF Inlet, poolVars, At, GotoJ, Shape, Typed
    <3>2. w \in Holding /\ w \in AtInlet /\ w \in Holding'
      BY <2>1, <2>4, <3>1 DEF Holding, AtInlet
    <3> QED BY <1>0, <2>1, <2>3, <3>1, <3>2, SameQueue
  <2>8. CASE Restart(w)
    <3>1. /\ active' = active /\ jpc[w] = "restart" /\ jpc'[w] = "forward"
          /\ Pool!Push(InletState)
      BY <2>8 DEF Restart, At, GotoJ, Shape, Typed
    <3>2. \/ lost' # {} /\ Queued' = Queued /\ QueuedInlets' = QueuedInlets
          \/ /\ lost' = lost /\ Queued' = Queued
             /\ QueuedInlets' = QueuedInlets + 1
      BY <1>0, <3>1, InletIsState, Enqueued, SentinelAssumption DEF InletState
    <3>3. w \in Holding /\ w \in AtInlet /\ w \in Holding' /\ w \notin AtInlet'
      BY <2>1, <2>4, <3>1 DEF Holding, AtInlet
    <3> QED BY <1>0, <2>1, <2>3, <3>1, <3>2, <3>3
  <2>9. CASE Pump(w) \/ Outlet(w)
    <3>1. /\ work' = work /\ lost' = lost /\ active' = active /\ Stage(w) >= 0
          /\ jpc[w] = "start" /\ jpc'[w] \in {"forward", "retire"}
      BY <2>4, <2>9, PumpsAssumption DEF Pump, Outlet, poolVars, At, GotoJ, Shape, Typed
    <3>2. w \in Holding /\ w \notin AtInlet /\ w \in Holding' /\ w \notin AtInlet'
      BY <2>1, <2>4, <3>1 DEF Holding, AtInlet, At, Running
    <3> QED BY <1>0, <2>1, <2>3, <3>1, <3>2, SameQueue
  <2>10. CASE Forward(w)
    <3> DEFINE s == [stage |-> Stage(w) + 1, product |-> product[w]]
    <3>1. /\ active' = active /\ jpc[w] = "forward" /\ jpc'[w] = "return"
          /\ Pool!Push(s)
      BY <2>10 DEF Forward, At, GotoJ, Shape, Typed
    <3>2. Stage(w) \in -1..MaxPumps /\ Stage(w) < numPumps /\ numPumps \in 0..MaxPumps
          /\ product[w] \in 0..MaxProducts
      BY <2>1, <3>1, StageType DEF Shape, Typed, AtWork
    <3>3. s \in States /\ s.stage >= 0
      BY <3>2, PumpsAssumption DEF States
    <3>4. \/ lost' # {} /\ Queued' = Queued /\ QueuedInlets' = QueuedInlets
          \/ /\ lost' = lost /\ Queued' = Queued + 1
             /\ QueuedInlets' = QueuedInlets
      <4>1. s.stage \in Int
        BY <3>2
      <4> HIDE DEF s
      <4> QED BY <1>0, <3>1, <3>3, <4>1, Enqueued, SentinelAssumption
    <3>5. w \in Holding /\ w \notin AtInlet /\ w \notin Holding' /\ w \notin AtInlet'
      BY <2>1, <3>1 DEF Holding, AtInlet, At
    <3> QED BY <1>0, <2>1, <2>3, <3>1, <3>4, <3>5
  <2>11. CASE Retire(w)
    <3>1. /\ active' = active - 1 /\ jpc[w] = "retire" /\ jpc'[w] = "return"
          /\ Pool!Terminate \/ (work' = work /\ lost' = lost)
      BY <2>11 DEF Retire, At, GotoJ, Shape, Typed
    <3>2. \/ lost' # {} /\ Queued' = Queued /\ QueuedInlets' = QueuedInlets
          \/ lost' = lost /\ Queued' = Queued /\ QueuedInlets' = QueuedInlets
      BY <1>0, <3>1, Enqueued, SameQueue
    <3>3. w \in Holding /\ w \notin AtInlet /\ w \notin Holding' /\ w \notin AtInlet'
      BY <2>1, <3>1 DEF Holding, AtInlet, At
    <3> QED BY <1>0, <2>1, <2>3, <3>1, <3>2, <3>3
  <2> QED BY <1>2, <2>5, <2>6, <2>7, <2>8, <2>9, <2>10, <2>11
<1>3. ASSUME NEW w \in Workers, LoopReturns(w) PROVE CountsInv'
  <2>1. /\ work' = work /\ lost' = lost /\ active' = active /\ executes' = executes
        /\ jpc[w] = "return" /\ jpc'[w] = "start" /\ wpc'[w] = "pop"
        /\ \A v \in Workers \ {w} :
             wpc'[v] = wpc[v] /\ unit'[v] = unit[v] /\ jpc'[v] = jpc[v]
    BY <1>3
    DEF LoopReturns, At, GotoJ, setupVars, Pool!JobReturn, Pool!Finish, Pool!GotoW,
        Shape, Typed, PP!CountInv, PP!TypeOK
  <2>2. w \notin Holding /\ w \notin AtInlet /\ w \notin Holding' /\ w \notin AtInlet'
    BY <2>1 DEF Holding, AtInlet, At, Running
  <2> QED BY <1>0, <2>1, <2>2, Moved, SameQueue
<1>4. CASE OwnerStep
  <2>1. /\ work' = work /\ lost' = lost /\ unit' = unit /\ jpc' = jpc
        /\ active' = active /\ executes' = executes
    BY <1>4
    DEF OwnerStep, setupVars, lineVars, Pool!OwnerStep, Pool!Create,
        Pool!NewReturns, Pool!Join, Pool!FreeAssert, Pool!FreeReturns, Pool!workerVars
  <2>2. ASSUME NEW w \in Workers, Pool!Create(w) PROVE CountsInv'
    <3>1. /\ wpc[w] = "unborn" /\ wpc'[w] = "pop"
          /\ \A v \in Workers \ {w} : wpc'[v] = wpc[v]
      BY <2>2 DEF Pool!Create, Pool!GotoW, Shape, PP!CountInv, PP!TypeOK
    <3>2. jpc[w] = "start"
      BY <3>1 DEF Shape, AtWork, Running
    <3>3. w \notin Holding /\ w \notin AtInlet /\ w \notin Holding' /\ w \notin AtInlet'
      BY <2>1, <3>1, <3>2 DEF Holding, AtInlet, At, Running
    <3> QED BY <1>0, <2>1, <3>1, <3>3, Moved, SameQueue
  <2>3. CASE wpc' = wpc
    BY <2>1, <2>3, SameCounts
  <2> QED
    BY <1>4, <2>2, <2>3
    DEF OwnerStep, Pool!OwnerStep, Pool!NewReturns, Pool!Join, Pool!FreeAssert, Pool!FreeReturns,
        Pool!workerVars
<1>5. CASE FreeCalled \/ AddInlet \/ AddOutlet \/ AddPump \/ PipelineTerminate
           \/ UNCHANGED vars
  BY <1>5, SameCounts
  DEF FreeCalled, AddInlet, AddOutlet, AddPump, PipelineTerminate, vars,
      Pool!FreeCalled, Pool!workerVars, poolVars, setupVars, lineVars
<1>6. CASE Execute
  <2>1. /\ executes \in Nat /\ executes' = executes + 1
        /\ wpc' = wpc /\ unit' = unit /\ jpc' = jpc /\ active' = active
    BY <1>6 DEF Execute, PoolUnchangedButWork, lineVars
  <2>2. Holding' = Holding /\ AtInlet' = AtInlet
    BY <2>1 DEF Holding, AtInlet, At, Running, Stage
  <2>3. \/ lost' # {} /\ Queued' = Queued /\ QueuedInlets' = QueuedInlets
        \/ /\ lost' = lost /\ Queued' = Queued
           /\ QueuedInlets' \in {QueuedInlets, QueuedInlets + 1}
    <3>1. CASE Pool!Push(InletState)
      BY <1>0, <3>1, InletIsState, Enqueued, SentinelAssumption DEF InletState
    <3>2. CASE work' = work /\ lost' = lost
      BY <3>2, SameQueue
    <3> QED BY <1>6, <3>1, <3>2 DEF Execute
  <2>4. Cardinality(AtInlet) \in Nat /\ Cardinality(Holding) \in Nat
    BY Sizes, FS_Subset, FS_CardinalityType DEF AtInlet, Holding
  <2>5. LinesInv'
    BY <1>0, <2>1, <2>2, <2>3, <2>4
  <2>6. InletInv'
    <3>1. QueuedInlets' \in {QueuedInlets, QueuedInlets + 1}
      BY <2>3
    <3>2. Cardinality(AtInlet)' = Cardinality(AtInlet)
      BY <2>2
    <3> QED BY <1>0, <2>1, <2>4, <3>1, <3>2
  <2> QED BY <2>5, <2>6
<1> QED
  BY <1>1, <1>2, <1>3, <1>4, <1>5, <1>6 DEF Next, WorkerStep

LEMMA CountsInit == Init => CountsInv
<1> SUFFICES ASSUME Init PROVE CountsInv
  OBVIOUS
<1>1. Queued = 0 /\ QueuedInlets = 0
  BY CountEmpty DEF Init, Pool!Init, Queued, QueuedInlets
<1>2. Holding = {} /\ AtInlet = {}
  BY DEF Init, Pool!Init, Holding, AtInlet, At, Running
<1>3. Cardinality(Holding) = 0 /\ Cardinality(AtInlet) = 0
  BY <1>2, FS_EmptySet
<1> QED BY <1>1, <1>3 DEF Init, CountsInv, LinesInv, InletInv, InletStages

LEMMA CountsAlways == Spec => [](Shape /\ CountsInv)
BY ShapeInit, ShapeStep, CountsInit, CountsStep, PTL DEF Spec

\* active_lines is the number of lines under way, so it is zero only when none
\* is left, and the line that makes it zero may terminate the pool
\* (pipeline.c:242).
THEOREM ActiveLinesCorrect == Spec => []ActiveLinesAccurate
<1>1. Shape /\ CountsInv => ActiveLinesAccurate
  BY LinesSplit DEF CountsInv, LinesInv, ActiveLinesAccurate
<1> QED BY <1>1, CountsAlways, PTL

\* Inlet stages are as many as there were calls of pipeline_execute, at most, so
\* that one call means one inlet at a time (pipeline.c:205-217, :268).
THEOREM OneInletStagePerExecuteCorrect == Spec => []OneInletStagePerExecute
<1>1. Shape /\ CountsInv => OneInletStagePerExecute
  <2> SUFFICES ASSUME Shape, CountsInv PROVE OneInletStagePerExecute
    OBVIOUS
  <2> DEFINE A == {i \in DOMAIN work : work[i].job = InletState}
  <2>1. work \in Seq(PP!Units)
    BY DEF Shape, PP!CountInv, PP!TypeOK
  <2>2. A \subseteq Places(work, InletUnits)
    BY <2>1, InletIsState, SentinelAssumption DEF Places, InletUnits, InletState
  <2>3. IsFiniteSet(Places(work, InletUnits)) /\ QueuedInlets \in Nat
    BY <2>1, CountType DEF QueuedInlets
  <2>4. Cardinality(A) \in Nat /\ Cardinality(A) <= QueuedInlets
    BY <2>2, <2>3, FS_Subset, FS_CardinalityType DEF QueuedInlets, Count
  <2>5. Cardinality(AtInlet) \in Nat
    BY Sizes, FS_Subset, FS_CardinalityType DEF AtInlet
  <2>6. executes \in Nat
    BY DEF CountsInv, InletInv
  <2>7. Cardinality(A) + Cardinality(AtInlet) <= executes
    BY <2>3, <2>4, <2>5, <2>6 DEF CountsInv, InletInv, InletStages
  <2> QED BY <2>7 DEF OneInletStagePerExecute, AtInlet
<1> QED BY <1>1, CountsAlways, PTL

-----------------------------------------------------------------------------
\* The rest of the type invariant needs the count: active_lines is a size_t,
\* and never goes below zero because no line retires uncounted
\* (pipeline.c:223, :241).
Recorded ==
  /\ inlet \in BOOLEAN /\ outlet \in BOOLEAN /\ terminated \in BOOLEAN
  /\ dried \in BOOLEAN
  /\ executes \in 0..MaxExecutes /\ aborted \in BOOLEAN
  /\ trail \in [1..MaxProducts -> Seq(0..MaxPumps)]

LEMMA RecordedInit == Init => Recorded
<1> SUFFICES ASSUME Init PROVE Recorded
  OBVIOUS
<1>1. <<>> \in Seq(0..MaxPumps)
  OBVIOUS
<1>2. trail \in [1..MaxProducts -> Seq(0..MaxPumps)]
  BY <1>1 DEF Init
<1>3. terminated \in BOOLEAN /\ dried \in BOOLEAN
  BY DEF Init
<1>4. inlet \in BOOLEAN /\ outlet \in BOOLEAN
  BY DEF Init
<1>5. executes \in 0..MaxExecutes
  BY ExecutesAssumption DEF Init
<1>6. aborted \in BOOLEAN
  BY DEF Init
<1> QED BY <1>2, <1>3, <1>4, <1>5, <1>6 DEF Recorded

LEMMA RecordedStep == Shape /\ Recorded /\ [Next]_vars => Recorded'
<1> SUFFICES ASSUME Shape, Recorded, [Next]_vars PROVE Recorded'
  OBVIOUS
<1>1. ASSUME NEW w \in Workers, Pump(w) \/ Outlet(w) PROVE Recorded'
  <2>1. Stage(w) \in 0..MaxPumps
    <3>1. Stage(w) \in -1..MaxPumps /\ MaxPumps \in Nat /\ numPumps \in Nat
      BY <1>1, StageType DEF Pump, Outlet, At, Running, Shape, Typed
    <3> QED BY <1>1, <3>1 DEF Pump, Outlet
  <2>2. \A p \in 1..MaxProducts : Append(trail[p], Stage(w)) \in Seq(0..MaxPumps)
    BY <2>1 DEF Recorded
  <2>3. trail' \in [1..MaxProducts -> Seq(0..MaxPumps)]
    <3>1. trail' = [trail EXCEPT ![unit[w].job.product] = Append(@, Stage(w))]
      BY <1>1 DEF Pump, Outlet
    <3> QED BY <2>2, <3>1 DEF Recorded
  <2> QED BY <1>1, <2>3 DEF Pump, Outlet, setupVars, Recorded
<1>2. ASSUME NEW w \in Workers, ~(Pump(w) \/ Outlet(w)), WorkerStep(w)
      PROVE  Recorded'
  BY <1>2
  DEF WorkerStep, ThreadLoop, InletEnter, Requeue, Inlet, Restart, Forward, Retire,
      LoopReturns, setupVars, lineVars, Recorded
<1>3. CASE OwnerStep \/ FreeCalled \/ AddInlet \/ AddOutlet \/ AddPump
           \/ PipelineTerminate \/ UNCHANGED vars
  BY <1>3
  DEF OwnerStep, FreeCalled, AddInlet, AddOutlet, AddPump, PipelineTerminate, vars,
      setupVars, lineVars, Recorded
<1>4. CASE Execute
  <2>1. executes' \in 0..MaxExecutes
    BY <1>4, ExecutesAssumption DEF Execute, Recorded
  <2>2. aborted' \in BOOLEAN
    BY <1>4, Zenon DEF Execute, Recorded
  <2>3. UNCHANGED <<inlet, outlet, terminated, dried, trail>>
    BY <1>4 DEF Execute, lineVars
  <2> QED BY <2>1, <2>2, <2>3 DEF Recorded
<1> QED BY <1>1, <1>2, <1>3, <1>4 DEF Next, WorkerStep

\* Every variable of the pipeline keeps its type; above all active_lines is
\* never negative.
THEOREM TypeCorrect == Spec => []TypeOK
<1>1. Init => Recorded
  BY RecordedInit
<1>2. \A S : PP!Cardinality(S) = Pool!Cardinality(S)
  BY DEF PP!Cardinality, Pool!Cardinality, PP!IsFiniteSet, Pool!IsFiniteSet
<1>3. PP!TypeOK => Pool!TypeOK
  BY <1>2 DEF PP!TypeOK, Pool!TypeOK, PP!Units, Pool!Units
<1>4. Shape /\ CountsInv => active \in Nat
  BY QueuedType, Sizes, FS_Subset, FS_CardinalityType
  DEF Shape, Typed, CountsInv, LinesInv, Holding
<1>5. Shape /\ CountsInv /\ Recorded => TypeOK
  BY <1>3, <1>4 DEF Shape, PP!CountInv, Typed, Recorded, TypeOK
<1> QED BY <1>1, <1>5, RecordedStep, CountsAlways, PTL DEF Spec
-----------------------------------------------------------------------------
(***************************************************************************)
(* The safety half of StartedPipelineStops.  A line that ends terminates   *)
(* the pool unless another is under way, so once the inlet was called      *)
(* there is a line or a sentinel: something for a worker to do.            *)
(***************************************************************************)
Started == produced > 0 \/ dried

Executing == executes > 0 /\ ~aborted

StartedInv ==
  /\ ~Executing => /\ work = <<>>
                   /\ \A w \in Workers : wpc[w] \in {"unborn", "pop"}
  /\ Started => Executing
  /\ Started /\ lost = {} => terms > 0 \/ active > 0

\* Once pipeline_execute passed its asserts it will pass them again.
BuiltInv == Executing => inlet /\ outlet

LEMMA BuiltStep == BuiltInv /\ [Next]_vars => BuiltInv'
<1> SUFFICES ASSUME BuiltInv, [Next]_vars PROVE BuiltInv'
  OBVIOUS
<1>1. CASE AddInlet \/ AddOutlet \/ AddPump
  BY <1>1 DEF AddInlet, AddOutlet, AddPump, BuiltInv, Executing
<1>2. CASE Execute
  <2>1. CASE inlet /\ outlet
    BY <1>2, <2>1 DEF Execute, BuiltInv
  <2>2. CASE ~(inlet /\ outlet)
    <3>1. aborted'
      BY <1>2, <2>2 DEF Execute
    <3> QED BY <3>1 DEF BuiltInv, Executing
  <2> QED BY <2>1, <2>2
<1>3. CASE \/ \E w \in Workers : WorkerStep(w)
           \/ OwnerStep \/ FreeCalled \/ PipelineTerminate \/ UNCHANGED vars
  <2>1. UNCHANGED setupVars
    BY <1>3
    DEF WorkerStep, ThreadLoop, InletEnter, Requeue, Inlet, Restart, Pump, Outlet,
        Forward, Retire, LoopReturns, OwnerStep, FreeCalled, PipelineTerminate, vars
  <2> QED BY <2>1 DEF setupVars, BuiltInv, Executing
<1> QED BY <1>1, <1>2, <1>3 DEF Next

LEMMA StartedInit == Init => StartedInv
BY DEF Init, Pool!Init, StartedInv, Started

\* A step that ends no line and does not call the inlet.
LEMMA KeepStarted ==
  ASSUME Shape, StartedInv, produced' = produced, dried' = dried,
         Executing => Executing',
         ~Executing' => /\ work' = work
                              /\ \A w \in Workers : wpc'[w] \in {"unborn", "pop"},
         lost # {} => lost' # {}, terms' = terms, active' \in Int, active' >= active
  PROVE  StartedInv'
<1>1. active \in Int
  BY DEF Shape, Typed
<1>2. ~Executing => work = <<>>
  BY DEF StartedInv
<1>3. ~Executing' => /\ work' = <<>>
                           /\ \A w \in Workers : wpc'[w] \in {"unborn", "pop"}
  BY <1>2
<1>4. Started' => Started /\ Executing'
  BY DEF StartedInv, Started
<1>5. active > 0 => active' > 0
  BY <1>1
<1>6. Started' /\ lost' = {} => terms' > 0 \/ active' > 0
  <2> SUFFICES ASSUME Started', lost' = {} PROVE terms' > 0 \/ active' > 0
    OBVIOUS
  <2>1. Started /\ lost = {}
    BY <1>4
  <2> QED BY <1>5, <2>1 DEF StartedInv
<1> QED BY <1>3, <1>4, <1>6 DEF StartedInv

\* A worker that holds a line is counted.
LEMMA HoldingCounts ==
  /\ Cardinality(Holding) \in Nat
  /\ Holding # {} => Cardinality(Holding) > 0
<1>1. IsFiniteSet(Holding)
  BY Sizes, FS_Subset DEF Holding
<1> QED BY <1>1, FS_CardinalityType, FS_EmptySet

LEMMA PushKeepsLost ==
  ASSUME NEW j, Pool!Push(j) \/ Pool!Terminate
  PROVE  lost # {} => lost' # {}
BY DEF Pool!Push, Pool!Terminate, Pool!Refuse

LEMMA StartedStep ==
  Shape /\ CountsInv /\ BuiltInv /\ StartedInv /\ [Next]_vars => StartedInv'
<1> SUFFICES ASSUME Shape, CountsInv, BuiltInv, StartedInv, [Next]_vars
             PROVE  StartedInv'
  OBVIOUS
<1>0. active \in Int /\ terms \in 0..2
  BY DEF Shape, Typed, PP!CountInv, PP!TypeOK
<1>1. ASSUME NEW w \in Workers, ThreadLoop(w) PROVE StartedInv'
  <2>1. Executing
    BY <1>1 DEF ThreadLoop, Pool!Pop, Pool!TermLock, Pool!Relay, Pool!Leave, StartedInv
  <2>2. lost # {} => lost' # {}
    BY <1>1, PushKeepsLost
    DEF ThreadLoop, Pool!Pop, Pool!TermLock, Pool!Relay, Pool!Leave
  <2>3. /\ terms' = terms /\ active' = active /\ Executing' = Executing
        /\ produced' = produced /\ dried' = dried
    BY <1>1 DEF ThreadLoop, Pool!Pop, Pool!TermLock, Pool!Relay, Pool!Leave,
                setupVars, lineVars, Executing
  <2> QED BY <1>0, <2>1, <2>2, <2>3, KeepStarted
<1>2. ASSUME NEW w \in Workers, Running(w) PROVE Executing
  BY <1>2 DEF Running, StartedInv
<1>3. ASSUME NEW w \in Workers, InletEnter(w) \/ Pump(w) \/ Outlet(w) \/ LoopReturns(w)
      PROVE  StartedInv'
  <2>1. Executing
    BY <1>2, <1>3 DEF InletEnter, Pump, Outlet, LoopReturns, At, Running
  <2>2. /\ lost' = lost /\ terms' = terms /\ Executing' = Executing
        /\ produced' = produced /\ dried' = dried
    BY <1>3 DEF InletEnter, Pump, Outlet, LoopReturns, Pool!JobReturn, poolVars, setupVars, Executing
  <2>3. active' \in Int /\ active' >= active
    BY <1>0, <1>3 DEF InletEnter, Pump, Outlet, LoopReturns
  <2> QED BY <2>1, <2>2, <2>3, KeepStarted
<1>4. ASSUME NEW w \in Workers, Requeue(w) \/ Restart(w) \/ Forward(w)
      PROVE  StartedInv'
  <2>1. Executing
    BY <1>2, <1>4 DEF Requeue, Restart, Forward, At, Running
  <2>2. lost # {} => lost' # {}
    BY <1>4, PushKeepsLost DEF Requeue, Restart, Forward
  <2>3. /\ terms' = terms /\ Executing' = Executing /\ active' = active
        /\ produced' = produced /\ dried' = dried
    BY <1>4 DEF Requeue, Restart, Forward, setupVars, Executing
  <2> QED BY <1>0, <2>1, <2>2, <2>3, KeepStarted
<1>5. ASSUME NEW w \in Workers, Inlet(w) PROVE StartedInv'
  <2>1. Executing'
    BY <1>2, <1>5 DEF Inlet, At, Running, setupVars, Executing
  <2>2. Cardinality(Holding) > 0
    BY <1>5, HoldingCounts DEF Inlet, At, Holding
  <2>3. Queued \in Nat /\ active > 0
    BY <1>0, <2>2, QueuedType, HoldingCounts DEF CountsInv, LinesInv
  <2>4. active' = active
    BY <1>5 DEF Inlet
  <2> QED BY <2>1, <2>3, <2>4 DEF StartedInv
<1>6. ASSUME NEW w \in Workers, Retire(w) PROVE StartedInv'
  <2>1. Executing'
    BY <1>2, <1>6 DEF Retire, At, Running, setupVars, Executing
  <2>2. Cardinality(Holding) > 0 /\ Queued \in Nat
    BY <1>6, QueuedType, HoldingCounts DEF Retire, At, Holding
  <2>3. active > 0 /\ active' = active - 1
    BY <1>0, <1>6, <2>2, HoldingCounts DEF CountsInv, LinesInv, Retire
  <2>4. CASE active' = 0
    <3>1. Pool!Terminate
      BY <1>6, <2>4 DEF Retire
    <3>2. lost' # {} \/ terms' > 0
      <4>1. CASE Pool!Refuse(Term)
        BY <4>1 DEF Pool!Refuse
      <4>2. CASE terms' = IF terms = 2 THEN 2 ELSE terms + 1
        BY <1>0, <4>2
      <4> QED BY <3>1, <4>1, <4>2 DEF Pool!Terminate
    <3> QED BY <2>1, <3>2 DEF StartedInv
  <2>5. CASE active' # 0
    <3>1. active' > 0
      BY <1>0, <2>3, <2>5
    <3> QED BY <2>1, <3>1 DEF StartedInv
  <2> QED BY <2>4, <2>5
<1>7. CASE OwnerStep
  <2>1. work' = work /\ lost' = lost /\ terms' = terms
    BY <1>7 DEF OwnerStep, Pool!OwnerStep, Pool!Create, Pool!NewReturns, Pool!Join,
                Pool!FreeAssert, Pool!FreeReturns
  <2>2. \A w \in Workers : wpc[w] \in {"unborn", "pop"} => wpc'[w] \in {"unborn", "pop"}
    BY <1>7 DEF OwnerStep, Pool!OwnerStep, Pool!Create, Pool!NewReturns, Pool!Join,
                Pool!FreeAssert, Pool!FreeReturns, Pool!GotoW, Pool!workerVars, Shape, PP!CountInv,
                PP!TypeOK
  <2>3. Executing' = Executing /\ produced' = produced /\ dried' = dried /\ active' = active
    BY <1>7 DEF OwnerStep, setupVars, lineVars, Executing
  <2>4. ~Executing => \A w \in Workers : wpc'[w] \in {"unborn", "pop"}
    BY <2>2 DEF StartedInv
  <2> QED BY <1>0, <2>1, <2>3, <2>4, KeepStarted
<1>8. CASE Execute
  <2>1. /\ Executing => Executing'
        /\ ~Executing' => work' = work
        /\ ~Executing' => ~Executing
    <3>1. executes \in Nat /\ executes' = executes + 1
      BY <1>8 DEF Execute, CountsInv, InletInv
    <3>2. CASE inlet /\ outlet
      <4>1. ~aborted'
        BY <1>8, <3>2 DEF Execute
      <4> QED BY <3>1, <4>1 DEF Executing
    <3>3. CASE ~(inlet /\ outlet)
      <4>1. ~Executing /\ work' = work
        BY <1>8, <3>3 DEF Execute, BuiltInv
      <4> QED BY <4>1
    <3> QED BY <3>2, <3>3
  <2>2. lost # {} => lost' # {}
    BY <1>8, PushKeepsLost DEF Execute
  <2>3. /\ wpc' = wpc /\ terms' = terms /\ active' = active
        /\ produced' = produced /\ dried' = dried
    BY <1>8 DEF Execute, PoolUnchangedButWork, lineVars
  <2>4. ~Executing' => \A w \in Workers : wpc'[w] \in {"unborn", "pop"}
    BY <2>1, <2>3 DEF StartedInv
  <2> QED BY <1>0, <2>1, <2>2, <2>3, <2>4, KeepStarted
<1>9. CASE \/ FreeCalled \/ AddInlet \/ AddOutlet \/ AddPump \/ PipelineTerminate
           \/ UNCHANGED vars
  <2>1. /\ work' = work /\ wpc' = wpc /\ lost' = lost /\ terms' = terms
        /\ active' = active /\ Executing' = Executing
        /\ produced' = produced /\ dried' = dried
    BY <1>9 DEF FreeCalled, Pool!FreeCalled, Pool!workerVars, AddInlet, AddOutlet, AddPump,
                PipelineTerminate, poolVars, setupVars, lineVars, vars, Executing
  <2>2. ~Executing => \A w \in Workers : wpc'[w] \in {"unborn", "pop"}
    BY <2>1 DEF StartedInv
  <2> QED BY <1>0, <2>1, <2>2, KeepStarted
<1> QED BY <1>1, <1>3, <1>4, <1>5, <1>6, <1>7, <1>8, <1>9 DEF Next, WorkerStep

LEMMA StartedAlways == Spec => [](Shape /\ CountsInv /\ StartedInv)
<1>1. Init => BuiltInv
  BY DEF Init, BuiltInv, Executing
<1> QED BY <1>1, BuiltStep, CountsAlways, StartedInit, StartedStep, PTL DEF Spec

StartedNeverStuck ==
  Started /\ lost = {} /\ Pool!Exists /\ ~Pool!AllExited
    => Executing /\ \E w \in Workers : PP!CanGoOn(w)

\* StartedNeverStuck: once the inlet was called, some thread of the pipeline has
\* something to do until all have exited or the pool is released, unless memory
\* was refused: there is a line under way, or the last one has terminated the pool
\* (pipeline.c:239-249).
THEOREM StartedNeverStuckCorrect == Spec => []StartedNeverStuck
<1>1. ASSUME Shape, CountsInv, StartedInv, PP!NeverStuck, PP!NewInv, PP!EarlyInv
      PROVE  StartedNeverStuck
  <2> SUFFICES ASSUME Started, lost = {}, Pool!Exists, ~Pool!AllExited
               PROVE  Executing /\ \E w \in Workers : PP!CanGoOn(w)
    BY DEF StartedNeverStuck
  <2>1. Executing
    BY <1>1 DEF StartedInv
  <2>2. CASE terms > 0
    <3>1. ~PP!AllExited /\ PP!Exists
      BY DEF Pool!AllExited, PP!AllExited, Pool!Exists, PP!Exists
    <3> QED BY <2>1, <2>2, <3>1, <1>1 DEF PP!NeverStuck
  <2>3. CASE ~(terms > 0)
    <3>0. PP!Exists
      BY DEF Pool!Exists, PP!Exists
    <3>1. active > 0 /\ active = Queued + Cardinality(Holding)
      BY <1>1, <2>3 DEF StartedInv, CountsInv, LinesInv
    <3>2. CASE Holding # {}
      <4>1. PICK w \in Workers : w \in Holding
        BY <3>2 DEF Holding
      <4>2. wpc[w] = "run"
        BY <1>1, <4>1 DEF Shape, AtWork, Holding, At, Running
      <4> QED BY <2>1, <3>0, <4>2 DEF PP!CanGoOn
    <3>3. CASE Holding = {}
      <4>1. Queued > 0
        BY <1>1, <3>1, <3>3, FS_EmptySet, QueuedType
      <4>2. work # <<>>
        BY <4>1, CountEmpty DEF Queued
      <4>3. PICK w \in Workers : TRUE
        BY ThreadsAssumption
      <4>4. wpc[w] # "unborn"
        BY <1>1, <4>2 DEF PP!NewInv
      <4>5. wpc[w] \notin {"term", "relay", "leave", "exited"}
        BY <1>1, <2>3 DEF PP!EarlyInv, PP!SentinelSent, PP!Met
      <4>6. wpc[w] \in {"pop", "run"}
        BY <1>1, <4>4, <4>5 DEF Shape, PP!CountInv, PP!TypeOK
      <4> QED BY <2>1, <3>0, <4>2, <4>6 DEF PP!CanGoOn
    <3> QED BY <3>2, <3>3
  <2> QED BY <2>2, <2>3
<1>2. PP!OwnerAssumption /\ PP!WorkersAssumption /\ PP!NamesAssumption
      /\ PP!FailAssumption /\ PP!BoundAssumption
  BY PoolAssumptions
<1>3. Spec => []PP!NeverStuck /\ []PP!NewInv /\ []PP!EarlyInv
  BY <1>2, RunsOnPool, PP!NeverStuckCorrect, PP!NewAlways, PP!SentinelAlways, PTL
<1> QED BY <1>1, <1>3, StartedAlways, PTL

-----------------------------------------------------------------------------
(***************************************************************************)
(* "Pumps will be executed in the order in which they were added" of       *)
(* pipeline.h:81, for every number of threads, pumps and products.  No     *)
(* lock orders the stages of a product: what does is that the product has  *)
(* one token, the unit of its next stage, which one worker takes up and    *)
(* turns into the next.                                                    *)
(***************************************************************************)
Products == 1..MaxProducts

AtStart(w) == Running(w) /\ jpc[w] = "start"

\* The units that carry product p, and the workers that do.
TokenUnits(p) == {u \in BetweenStages : u.job.product = p}

Carriers(p) == {w \in Workers :
  \/ jpc[w] \in {"restart", "forward"} /\ product[w] = p
  \/ AtStart(w) /\ Stage(w) >= 0 /\ unit[w].job.product = p}

TokensQueued(p) == Count(work, TokenUnits(p))
Tokens(p) == TokensQueued(p) + Cardinality(Carriers(p))

\* How far product p came when its token is at stage k and has not been
\* through it: stages 0 to k - 1.
Passed(p, k) == Len(trail[p]) = k

InOrder(p) ==
  /\ Len(trail[p]) <= numPumps + 1
  /\ \A i \in 1..Len(trail[p]) : trail[p][i] = i - 1

QueueAgrees ==
  \A i \in DOMAIN work : work[i] \in BetweenStages =>
    /\ work[i].job.product \in Products
    /\ work[i].job.stage <= numPumps
    /\ Passed(work[i].job.product, work[i].job.stage)

WorkersAgree ==
  \A w \in Workers :
    /\ AtStart(w) /\ Stage(w) >= 0 =>
         /\ unit[w].job.product \in Products
         /\ Stage(w) <= numPumps
         /\ Passed(unit[w].job.product, Stage(w))
    /\ jpc[w] \in {"restart", "forward"} =>
         /\ product[w] \in Products
         /\ Passed(product[w], Stage(w) + 1)

OneToken ==
  \A p \in Products :
    /\ Tokens(p) <= 1
    /\ p > produced => Tokens(p) = 0 /\ trail[p] = <<>>
    /\ p <= produced /\ lost = {} => Tokens(p) = 1 \/ Len(trail[p]) = numPumps + 1

OrderInv ==
  /\ OneToken /\ QueueAgrees /\ WorkersAgree
  /\ \A p \in Products : InOrder(p)

-----------------------------------------------------------------------------
(* Counting tokens *)

LEMMA TokensType ==
  ASSUME Shape, NEW p \in Products
  PROVE  /\ TokensQueued(p) \in Nat /\ Cardinality(Carriers(p)) \in Nat
         /\ IsFiniteSet(Carriers(p)) /\ IsFiniteSet(Places(work, TokenUnits(p)))
<1>1. work \in Seq(PP!Units)
  BY DEF Shape, PP!CountInv, PP!TypeOK
<1>2. TokensQueued(p) \in Nat /\ IsFiniteSet(Places(work, TokenUnits(p)))
  BY <1>1, CountType DEF TokensQueued
<1>3. Carriers(p) \in SUBSET Workers
  BY DEF Carriers
<1> QED BY <1>2, <1>3, Sizes, FS_Subset, FS_CardinalityType

\* A worker that carries the token is the only one, and no unit does.
LEMMA SoleCarrier ==
  ASSUME Shape, NEW p \in Products, Tokens(p) <= 1, NEW w \in Carriers(p)
  PROVE  Carriers(p) = {w} /\ Places(work, TokenUnits(p)) = {}
<1>1. Cardinality(Carriers(p)) # 0
  BY TokensType, FS_EmptySet
<1>2. Cardinality(Carriers(p)) = 1 /\ TokensQueued(p) = 0
  BY <1>1, TokensType DEF Tokens
<1>3. Places(work, TokenUnits(p)) = {}
  BY <1>2, TokensType, FS_EmptySet DEF TokensQueued, Count
<1>4. \E x : Carriers(p) = {x}
  BY <1>2, TokensType, FS_Singleton
<1> QED BY <1>3, <1>4

\* A push enqueues one unit of the job, or nothing.
LEMMA EnqueuedUnit ==
  ASSUME Shape, NEW j \in States \cup {Term},
         Pool!Push(j) \/ (j = Term /\ Pool!Terminate)
  PROVE  \/ work' = work /\ lost' # {}
         \/ \E u \in PP!Units : u.job = j /\ work' = Append(work, u)
<1>1. CASE Pool!Refuse(j)
  BY <1>1 DEF Pool!Refuse
<1>2. CASE work' = Append(work, Pool!Unit(j))
  <2>1. terms \in 0..2
    BY DEF Shape, PP!CountInv, PP!TypeOK
  <2>2. (terms > 0) \in BOOLEAN
    BY <2>1
  <2>3. Pool!Unit(j) \in PP!Units /\ Pool!Unit(j).job = j
    BY <2>2, Zenon DEF Pool!Unit, PP!Units
  <2> QED BY <1>2, <2>3
<1> QED BY <1>1, <1>2 DEF Pool!Push, Pool!Terminate

LEMMA TokenEnqueued ==
  ASSUME Shape, NEW j \in States \cup {Term}, NEW p \in Products,
         Pool!Push(j) \/ (j = Term /\ Pool!Terminate)
  PROVE  \/ TokensQueued(p)' = TokensQueued(p) /\ lost' # {}
         \/ TokensQueued(p)' = TokensQueued(p)
                               + One(j # Term /\ j.stage >= 0 /\ j.product = p)
<1>1. work \in Seq(PP!Units)
  BY DEF Shape, PP!CountInv, PP!TypeOK
<1>2. CASE work' = work /\ lost' # {}
  BY <1>2 DEF TokensQueued
<1>3. ASSUME NEW u \in PP!Units, u.job = j, work' = Append(work, u)
      PROVE  TokensQueued(p)' = TokensQueued(p)
               + One(j # Term /\ j.stage >= 0 /\ j.product = p)
  <2>1. TokensQueued(p)' = TokensQueued(p) + One(u \in TokenUnits(p))
    BY <1>1, <1>3, CountAppend DEF TokensQueued
  <2> QED BY <1>3, <2>1 DEF TokenUnits, BetweenStages, One
<1> QED BY <1>2, <1>3, EnqueuedUnit

LEMMA TokenDequeued ==
  ASSUME Shape, work # <<>>, work' = Tail(work), NEW p \in Products
  PROVE  TokensQueued(p) = TokensQueued(p)'
           + One(/\ Head(work).job # Term /\ Head(work).job.stage >= 0
                 /\ Head(work).job.product = p)
<1>1. work \in Seq(PP!Units) /\ Head(work) \in PP!Units
  BY DEF Shape, PP!CountInv, PP!TypeOK
<1>2. TokensQueued(p) = TokensQueued(p)' + One(Head(work) \in TokenUnits(p))
  BY <1>1, CountTail DEF TokensQueued
<1> QED BY <1>1, <1>2 DEF TokenUnits, BetweenStages, One

LEMMA CarrierMoves ==
  ASSUME NEW w \in Workers, NEW p \in Products,
         \A v \in Workers \ {w} :
           /\ wpc'[v] = wpc[v] /\ unit'[v] = unit[v]
           /\ jpc'[v] = jpc[v] /\ product'[v] = product[v]
  PROVE  /\ Cardinality(Carriers(p)) \in Nat /\ Cardinality(Carriers(p))' \in Nat
         /\ Cardinality(Carriers(p))' = Cardinality(Carriers(p))
              + One(w \in Carriers(p)') - One(w \in Carriers(p))
<1>1. \A v \in Workers \ {w} : v \in Carriers(p) <=> v \in Carriers(p)'
  BY DEF Carriers, At, AtStart, Running, Stage
<1>2. Carriers(p) \in SUBSET Workers /\ Carriers(p)' \in SUBSET Workers
  BY DEF Carriers
<1> QED BY <1>1, <1>2, Sizes, OneMoves

-----------------------------------------------------------------------------
(* What a step keeps of the agreement between tokens and trails. *)

\* A queue that grows by one unit, at the right stage if it is a token.
LEMMA QueueGrows ==
  ASSUME Shape, QueueAgrees, NEW u \in PP!Units, work' = Append(work, u),
         trail' = trail, numPumps' = numPumps,
         u \in BetweenStages => /\ u.job.product \in Products
                                /\ u.job.stage <= numPumps
                                /\ Passed(u.job.product, u.job.stage)
  PROVE  QueueAgrees'
<1>1. work \in Seq(PP!Units)
  BY DEF Shape, PP!CountInv, PP!TypeOK
<1>2. /\ DOMAIN work' = 1..(Len(work) + 1) /\ DOMAIN work = 1..Len(work)
      /\ \A i \in DOMAIN work : work'[i] = work[i]
      /\ work'[Len(work) + 1] = u /\ Len(work) \in Nat
  BY <1>1
<1> SUFFICES ASSUME NEW i \in DOMAIN work', work'[i] \in BetweenStages
             PROVE  /\ work'[i].job.product \in Products
                    /\ work'[i].job.stage <= numPumps
                    /\ Passed(work'[i].job.product, work'[i].job.stage)
  BY DEF QueueAgrees, Passed
<1>3. CASE i \in DOMAIN work
  BY <1>2, <1>3 DEF QueueAgrees
<1>4. CASE i = Len(work) + 1
  BY <1>2, <1>4
<1> QED BY <1>2, <1>3, <1>4

LEMMA QueueShrinks ==
  ASSUME Shape, QueueAgrees, work # <<>>, work' = Tail(work), trail' = trail,
         numPumps' = numPumps
  PROVE  QueueAgrees'
<1>1. work \in Seq(PP!Units)
  BY DEF Shape, PP!CountInv, PP!TypeOK
<1>2. \A i \in DOMAIN work' : i + 1 \in DOMAIN work /\ work'[i] = work[i + 1]
  BY <1>1
<1> QED BY <1>2 DEF QueueAgrees, Passed

\* The other workers agree as before; the trails did not change.
LEMMA WorkersKeep ==
  ASSUME WorkersAgree, NEW w \in Workers, trail' = trail, numPumps' = numPumps,
         \A v \in Workers \ {w} :
           /\ wpc'[v] = wpc[v] /\ unit'[v] = unit[v]
           /\ jpc'[v] = jpc[v] /\ product'[v] = product[v],
         (AtStart(w) /\ Stage(w) >= 0)' =>
           /\ unit'[w].job.product \in Products
           /\ unit'[w].job.stage <= numPumps
           /\ Passed(unit'[w].job.product, unit'[w].job.stage),
         jpc'[w] \in {"restart", "forward"} =>
           /\ product'[w] \in Products
           /\ Passed(product'[w], unit'[w].job.stage + 1)
  PROVE  WorkersAgree'
<1> SUFFICES ASSUME NEW v \in Workers
             PROVE  /\ (AtStart(v) /\ Stage(v) >= 0)' =>
                         /\ unit'[v].job.product \in Products
                         /\ unit'[v].job.stage <= numPumps
                         /\ Passed(unit'[v].job.product, unit'[v].job.stage)
                    /\ jpc'[v] \in {"restart", "forward"} =>
                         /\ product'[v] \in Products
                         /\ Passed(product'[v], unit'[v].job.stage + 1)
  BY DEF WorkersAgree, Passed, Stage
<1>1. CASE v = w
  BY <1>1
<1>2. CASE v # w
  BY <1>2 DEF WorkersAgree, At, AtStart, Running, Stage
<1> QED BY <1>1, <1>2

\* Nothing about products changes.
LEMMA SameOrder ==
  ASSUME Shape, Recorded, OrderInv,
         wpc' = wpc, unit' = unit, jpc' = jpc, product' = product,
         work' = work, trail' = trail, produced' = produced,
         lost' = lost, numPumps' \in Int, numPumps <= numPumps',
         numPumps' = numPumps \/ produced = 0
  PROVE  OrderInv'
<1>0. numPumps \in Int
  BY PumpsAssumption DEF Shape, Typed
<1>1. \A p \in Products : Tokens(p)' = Tokens(p)
  BY DEF Tokens, TokensQueued, Carriers, At, AtStart, Running, Stage
<1>2. OneToken'
  BY <1>1 DEF OrderInv, OneToken, Products
<1>3. QueueAgrees'
  <2>1. \A i \in DOMAIN work : work[i] \in BetweenStages => work[i].job.stage \in Int
    BY StateIsRecord DEF BetweenStages, PP!Units
  <2> QED BY <1>0, <2>1 DEF OrderInv, QueueAgrees, Passed
<1>4. WorkersAgree'
  <2>1. \A w \in Workers : AtStart(w) => Stage(w) \in Int
    BY StageType DEF At, AtStart, Running
  <2> QED BY <1>0, <2>1 DEF OrderInv, WorkersAgree, Passed, At, AtStart, Running, Stage
<1>5. \A p \in Products : InOrder(p)'
  <2>1. \A p \in Products : Len(trail[p]) \in Nat
    BY DEF Recorded
  <2> QED BY <1>0, <2>1 DEF OrderInv, InOrder
<1> QED BY <1>2, <1>3, <1>4, <1>5 DEF OrderInv

-----------------------------------------------------------------------------
\* A step of worker w that leaves trails and products as they are: what is to
\* be shown is that no product gains a token, or loses one unless memory was
\* refused, and that w agrees with the trail.
LEMMA KeepOrder ==
  ASSUME OrderInv, NEW w \in Workers, trail' = trail, numPumps' = numPumps,
         produced' = produced, QueueAgrees', WorkersAgree',
         \A p \in Products : Tokens(p)' \in Int /\ Tokens(p) \in Nat
                             /\ Tokens(p)' <= Tokens(p) /\ Tokens(p)' \in Nat,
         lost' = {} => lost = {} /\ \A p \in Products : Tokens(p)' = Tokens(p)
  PROVE  OrderInv'
<1>1. OneToken'
  BY DEF OrderInv, OneToken
<1>2. \A p \in Products : InOrder(p)'
  BY DEF OrderInv, InOrder
<1> QED BY <1>1, <1>2 DEF OrderInv

LEMMA PopOrder ==
  ASSUME Shape, OrderInv, NEW w \in Workers, ThreadLoop(w), Pool!Pop(w)
  PROVE  OrderInv'
<1> DEFINE u == Head(work)
<1>1. /\ work \in Seq(PP!Units) /\ work # <<>> /\ work' = Tail(work)
      /\ wpc[w] = "pop" /\ unit'[w] = u /\ lost' = lost
      /\ wpc'[w] = (IF u.job = Term THEN "term" ELSE "run")
      /\ \A v \in Workers \ {w} : wpc'[v] = wpc[v] /\ unit'[v] = unit[v]
  BY DEF Pool!Pop, Pool!GotoW, Shape, PP!CountInv, PP!TypeOK
<1>2. /\ jpc' = jpc /\ product' = product /\ trail' = trail
      /\ numPumps' = numPumps /\ produced' = produced
  BY DEF ThreadLoop, setupVars, lineVars
<1>3. jpc[w] = "start"
  BY <1>1 DEF Shape, AtWork, Running
<1>4. u \in PP!Units /\ 1 \in DOMAIN work /\ work[1] = u
  BY <1>1
<1>5. QueueAgrees'
  BY <1>1, <1>2, QueueShrinks DEF OrderInv
<1>6. u.job # Term /\ u.job.stage >= 0 =>
        /\ u.job.product \in Products /\ u.job.stage <= numPumps
        /\ Passed(u.job.product, u.job.stage)
  BY <1>4 DEF OrderInv, QueueAgrees, BetweenStages
<1>7. WorkersAgree'
  <2>1. (AtStart(w) /\ Stage(w) >= 0)' => u.job # Term /\ u.job.stage >= 0
    BY <1>1 DEF At, AtStart, Running, Stage
  <2> HIDE DEF u
  <2> QED BY <1>1, <1>2, <1>3, <1>6, <2>1, WorkersKeep DEF OrderInv
<1>8. ASSUME NEW p \in Products
      PROVE  Tokens(p) \in Nat /\ Tokens(p)' = Tokens(p)
  <2>1. w \notin Carriers(p)
    BY <1>1, <1>3 DEF Carriers, At, AtStart, Running
  <2>2. w \in Carriers(p)' <=> u.job # Term /\ u.job.stage >= 0 /\ u.job.product = p
    BY <1>1, <1>2, <1>3 DEF Carriers, At, AtStart, Running, Stage
  <2>3. TokensQueued(p) = TokensQueued(p)'
          + One(u.job # Term /\ u.job.stage >= 0 /\ u.job.product = p)
    BY <1>1, TokenDequeued
  <2>4. TokensQueued(p) \in Nat /\ TokensQueued(p)' \in Nat
    <3>1. Tail(work) \in Seq(PP!Units)
      BY <1>1
    <3> QED BY <1>1, <3>1, CountType DEF TokensQueued
  <2>5. /\ Cardinality(Carriers(p)) \in Nat /\ Cardinality(Carriers(p))' \in Nat
        /\ Cardinality(Carriers(p))' = Cardinality(Carriers(p))
             + One(w \in Carriers(p)') - One(w \in Carriers(p))
    BY <1>1, <1>2, CarrierMoves
  <2> HIDE DEF u
  <2> QED BY <2>1, <2>2, <2>3, <2>4, <2>5 DEF Tokens, One
<1> QED BY <1>1, <1>2, <1>5, <1>7, <1>8, KeepOrder

\* The other steps of thread_loop move no token; at most they enqueue a sentinel.
LEMMA LeaveOrder ==
  ASSUME Shape, OrderInv, NEW w \in Workers, ThreadLoop(w),
         Pool!TermLock(w) \/ Pool!Relay(w) \/ Pool!Leave(w)
  PROVE  OrderInv'
<1>1. /\ wpc[w] # "run" /\ wpc'[w] # "run"
      /\ \A v \in Workers \ {w} : wpc'[v] = wpc[v] /\ unit'[v] = unit[v]
      /\ work' = work \/ Pool!Push(Term)
  BY DEF Pool!TermLock, Pool!Relay, Pool!Leave, Pool!GotoW, Shape,
         PP!CountInv, PP!TypeOK
<1>2. /\ jpc' = jpc /\ product' = product /\ trail' = trail
      /\ numPumps' = numPumps /\ produced' = produced
  BY DEF ThreadLoop, setupVars, lineVars
<1>3. jpc[w] = "start"
  BY <1>1 DEF Shape, AtWork, Running
<1>4. QueueAgrees'
  <2>1. CASE work' = work
    BY <1>2, <2>1 DEF OrderInv, QueueAgrees, Passed
  <2>2. CASE \E u \in PP!Units : u.job = Term /\ work' = Append(work, u)
    BY <1>2, <2>2, QueueGrows DEF OrderInv, BetweenStages
  <2>3. work' = work \/ Pool!Push(Term) => \/ work' = work
          \/ \E u \in PP!Units : u.job = Term /\ work' = Append(work, u)
    BY EnqueuedUnit
  <2> QED BY <1>1, <2>1, <2>2, <2>3
<1>5. WorkersAgree'
  BY <1>1, <1>2, <1>3, WorkersKeep DEF OrderInv, At, AtStart, Running
<1>6. ASSUME NEW p \in Products
      PROVE  Tokens(p) \in Nat /\ Tokens(p)' = Tokens(p)
  <2>1. w \notin Carriers(p) /\ w \notin Carriers(p)'
    BY <1>1, <1>2, <1>3 DEF Carriers, At, AtStart, Running
  <2>2. TokensQueued(p)' = TokensQueued(p)
    <3>1. CASE work' = work
      BY <3>1 DEF TokensQueued
    <3>2. CASE Pool!Push(Term)
      BY <3>2, TokenEnqueued, TokensType DEF One
    <3> QED BY <1>1, <3>1, <3>2
  <2>3. /\ Cardinality(Carriers(p)) \in Nat /\ Cardinality(Carriers(p))' \in Nat
        /\ Cardinality(Carriers(p))' = Cardinality(Carriers(p))
             + One(w \in Carriers(p)') - One(w \in Carriers(p))
    BY <1>1, <1>2, CarrierMoves
  <2> QED BY <2>1, <2>2, <2>3, TokensType DEF Tokens, One
<1>7. lost # {} => lost' # {}
  BY PushKeepsLost DEF Pool!TermLock, Pool!Relay, Pool!Leave
<1> QED BY <1>2, <1>4, <1>5, <1>6, <1>7, KeepOrder

\* What is enqueued is no token: a sentinel, or a stage of the inlet.
LEMMA NoTokenQueued ==
  ASSUME Shape, QueueAgrees, NEW j \in States \cup {Term}, trail' = trail,
         Pool!Push(j) \/ (j = Term /\ Pool!Terminate),
         j = Term \/ j.stage < 0, numPumps' = numPumps
  PROVE  /\ QueueAgrees'
         /\ \A p \in Products : TokensQueued(p)' = TokensQueued(p)
<1>1. j # Term => j.stage \in Int
  BY StateIsRecord
<1>2. QueueAgrees'
  <2>1. CASE work' = work
    BY <2>1 DEF QueueAgrees, Passed
  <2>2. ASSUME NEW u \in PP!Units, u.job = j, work' = Append(work, u)
        PROVE  QueueAgrees'
    <3>1. u \notin BetweenStages
      BY <1>1, <2>2 DEF BetweenStages
    <3> QED BY <2>2, <3>1, QueueGrows
  <2> QED BY <2>1, <2>2, EnqueuedUnit
<1>3. ASSUME NEW p \in Products PROVE TokensQueued(p)' = TokensQueued(p)
  BY <1>1, TokenEnqueued, TokensType DEF One
<1> QED BY <1>2, <1>3

\* The steps of pipeline_loop at an inlet stage, but for the inlet itself, and
\* the end of a line: they start no stage of a product.
LEMMA QuietOrder ==
  ASSUME Shape, OrderInv, NEW w \in Workers,
         InletEnter(w) \/ Requeue(w) \/ Restart(w) \/ Retire(w)
  PROVE  OrderInv'
<1>1. /\ wpc' = wpc /\ unit' = unit /\ product' = product /\ trail' = trail
      /\ numPumps' = numPumps /\ produced' = produced /\ Running(w)
  BY DEF InletEnter, Requeue, Restart, Retire, poolVars, setupVars,
         PoolUnchangedButWork, At, AtStart, Running
<1>2. \/ /\ jpc[w] = "start" /\ Stage(w) < 0
         /\ jpc'[w] \in {"return", "requeue", "inlet"}
      \/ jpc[w] \in {"requeue", "retire"} /\ jpc'[w] = "return"
      \/ jpc[w] = "restart" /\ jpc'[w] = "forward"
  BY DEF InletEnter, Requeue, Restart, Retire, At, AtStart, Running, GotoJ, Shape, Typed
<1>3. \A v \in Workers \ {w} : jpc'[v] = jpc[v]
  BY DEF InletEnter, Requeue, Restart, Retire, GotoJ, Shape, Typed
<1>4. Stage(w) \in Int
  BY <1>1, StageType
<1>5. WorkersAgree'
  <2>1. jpc'[w] # "start"
    BY <1>2
  <2>2. jpc'[w] \in {"restart", "forward"} =>
          product[w] \in Products /\ Passed(product[w], Stage(w) + 1)
    BY <1>2 DEF OrderInv, WorkersAgree
  <2> QED BY <1>1, <1>3, <2>1, <2>2, WorkersKeep DEF OrderInv, At, AtStart, Running, Stage
<1>6. QueueAgrees' /\ \A p \in Products : TokensQueued(p)' = TokensQueued(p)
  <2>1. CASE InletEnter(w)
    BY <1>1, <2>1 DEF InletEnter, poolVars, OrderInv, QueueAgrees, TokensQueued, Passed
  <2>2. CASE Requeue(w)
    <3>1. unit[w].job \in States /\ Stage(w) < 0
      BY <1>1, <2>2 DEF Requeue, At, AtStart, Running, Shape, AtWork
    <3> QED BY <1>1, <2>2, <3>1, NoTokenQueued DEF Requeue, OrderInv, Stage
  <2>3. CASE Restart(w)
    BY <1>1, <2>3, InletIsState, NoTokenQueued DEF Restart, OrderInv, InletState
  <2>4. CASE Retire(w)
    <3>1. CASE Pool!Terminate
      BY <1>1, <3>1, NoTokenQueued DEF OrderInv
    <3>2. CASE work' = work
      BY <1>1, <3>2 DEF OrderInv, QueueAgrees, TokensQueued, Passed
    <3> QED BY <2>4, <3>1, <3>2 DEF Retire
  <2> QED BY <2>1, <2>2, <2>3, <2>4
<1>7. ASSUME NEW p \in Products
      PROVE  Tokens(p) \in Nat /\ Tokens(p)' = Tokens(p)
  <2>1. w \in Carriers(p)' <=> w \in Carriers(p)
    BY <1>4, <1>1, <1>2 DEF Carriers, At, AtStart, Running
  <2>2. /\ Cardinality(Carriers(p)) \in Nat /\ Cardinality(Carriers(p))' \in Nat
        /\ Cardinality(Carriers(p))' = Cardinality(Carriers(p))
             + One(w \in Carriers(p)') - One(w \in Carriers(p))
    BY <1>1, <1>3, CarrierMoves
  <2> QED BY <1>6, <2>1, <2>2, TokensType DEF Tokens, One
<1>8. lost # {} => lost' # {}
  BY PushKeepsLost DEF InletEnter, Requeue, Restart, Retire, poolVars
<1> QED BY <1>1, <1>5, <1>6, <1>7, <1>8, KeepOrder

LEMMA ReturnOrder ==
  ASSUME Shape, OrderInv, NEW w \in Workers, LoopReturns(w)
  PROVE  OrderInv'
<1>1. /\ work' = work /\ lost' = lost /\ trail' = trail /\ numPumps' = numPumps /\ produced' = produced
      /\ jpc[w] = "return" /\ jpc'[w] = "start" /\ wpc'[w] = "pop"
      /\ \A v \in Workers \ {w} : /\ wpc'[v] = wpc[v] /\ unit'[v] = unit[v]
                                  /\ jpc'[v] = jpc[v] /\ product'[v] = product[v]
  BY DEF LoopReturns, At, AtStart, Running, GotoJ, setupVars, Pool!JobReturn, Pool!Finish, Pool!GotoW,
         Shape, Typed, PP!CountInv, PP!TypeOK
<1>2. WorkersAgree'
  BY <1>1, WorkersKeep DEF OrderInv, At, AtStart, Running
<1>3. QueueAgrees'
  BY <1>1 DEF OrderInv, QueueAgrees, Passed
<1>4. ASSUME NEW p \in Products
      PROVE  Tokens(p) \in Nat /\ Tokens(p)' = Tokens(p)
  <2>1. w \notin Carriers(p) /\ w \notin Carriers(p)'
    BY <1>1 DEF Carriers, At, AtStart, Running
  <2>2. TokensQueued(p)' = TokensQueued(p)
    BY <1>1 DEF TokensQueued
  <2>3. /\ Cardinality(Carriers(p)) \in Nat /\ Cardinality(Carriers(p))' \in Nat
        /\ Cardinality(Carriers(p))' = Cardinality(Carriers(p))
             + One(w \in Carriers(p)') - One(w \in Carriers(p))
    BY <1>1, CarrierMoves
  <2> QED BY <2>1, <2>2, <2>3, TokensType DEF Tokens, One
<1> QED BY <1>1, <1>2, <1>3, <1>4, KeepOrder

-----------------------------------------------------------------------------
\* A new product gets its first token.
LEMMA InletOrder ==
  ASSUME Shape, Recorded, OrderInv, NEW w \in Workers, Inlet(w)
  PROVE  OrderInv'
<1>1. /\ work' = work /\ lost' = lost /\ wpc' = wpc /\ unit' = unit /\ trail' = trail
      /\ numPumps' = numPumps /\ jpc[w] = "inlet" /\ Stage(w) = -1
      /\ \A v \in Workers \ {w} : jpc'[v] = jpc[v] /\ product'[v] = product[v]
  BY DEF Inlet, poolVars, setupVars, At, AtStart, Running, GotoJ, Shape, Typed, AtWork
<1>2. QueueAgrees'
  BY <1>1 DEF OrderInv, QueueAgrees, Passed
<1>3. \A p \in Products : w \notin Carriers(p) /\ TokensQueued(p)' = TokensQueued(p)
  BY <1>1 DEF Carriers, At, AtStart, Running, TokensQueued
<1>4. ASSUME NEW p \in Products
      PROVE  /\ Cardinality(Carriers(p)) \in Nat /\ Cardinality(Carriers(p))' \in Nat
             /\ Cardinality(Carriers(p))' = Cardinality(Carriers(p))
                  + One(w \in Carriers(p)') - One(w \in Carriers(p))
  BY <1>1, CarrierMoves
<1>5. CASE produced < MaxProducts /\ produced' = produced + 1
  <2> DEFINE q == produced + 1
  <2>1. produced \in 0..MaxProducts /\ q \in Products
    BY <1>5, ProductsAssumption DEF Shape, Typed, Products
  <2>2. jpc'[w] = "restart" /\ product'[w] = q
    BY <1>1, <1>5, <2>1 DEF Inlet, GotoJ, Shape, Typed
  <2>3. Tokens(q) = 0 /\ trail[q] = <<>> /\ Len(trail[q]) = 0
    BY <2>1 DEF OrderInv, OneToken
  <2>4. WorkersAgree'
    BY <1>1, <2>1, <2>2, <2>3, WorkersKeep DEF OrderInv, At, AtStart, Running, Stage, Passed
  <2>5. \A p \in Products : w \in Carriers(p)' <=> p = q
    BY <2>2 DEF Carriers, At, AtStart, Running
  <2>6. OneToken'
    <3> SUFFICES ASSUME NEW p \in Products
                 PROVE  /\ Tokens(p)' <= 1
                        /\ p > produced' => Tokens(p)' = 0 /\ trail'[p] = <<>>
                        /\ p <= produced' /\ lost = {} =>
                             Tokens(p)' = 1 \/ Len(trail[p]) = numPumps + 1
      BY <1>1 DEF OneToken
    <3>1. Tokens(p)' = Tokens(p) + One(p = q)
      BY <1>3, <1>4, <2>5, TokensType DEF Tokens, One
    <3>2. Tokens(p) \in Nat
      BY TokensType DEF Tokens
    <3>3. CASE p = q
      BY <1>5, <2>1, <2>3, <3>1, <3>3 DEF One
    <3>4. CASE p # q
      <4>1. Tokens(p)' = Tokens(p)
        BY <3>1, <3>2, <3>4 DEF One
      <4>2. (p > produced' => p > produced) /\ (p <= produced' => p <= produced)
        BY <1>5, <2>1, <3>4 DEF Products
      <4> QED BY <1>1, <4>1, <4>2 DEF OrderInv, OneToken
    <3> QED BY <3>3, <3>4
  <2> QED BY <1>1, <1>2, <2>4, <2>6 DEF OrderInv, InOrder
<1>6. CASE product' = product /\ produced' = produced /\ jpc'[w] = "retire"
  <2>1. WorkersAgree'
    BY <1>1, <1>6, WorkersKeep DEF OrderInv, At, AtStart, Running
  <2>2. ASSUME NEW p \in Products
        PROVE  Tokens(p) \in Nat /\ Tokens(p)' = Tokens(p)
    <3>1. w \notin Carriers(p)'
      BY <1>6 DEF Carriers, At, AtStart, Running
    <3> QED BY <1>3, <1>4, <3>1, TokensType DEF Tokens, One
  <2> QED BY <1>1, <1>2, <1>6, <2>1, <2>2, KeepOrder
<1> QED BY <1>5, <1>6 DEF Inlet, GotoJ, Shape, Typed

\* The token goes from the worker to the unit of the next stage.
LEMMA ForwardOrder ==
  ASSUME Shape, OrderInv, NEW w \in Workers, Forward(w)
  PROVE  OrderInv'
<1> DEFINE j == [stage |-> Stage(w) + 1, product |-> product[w]]
<1>1. /\ wpc' = wpc /\ unit' = unit /\ product' = product /\ trail' = trail
      /\ numPumps' = numPumps /\ produced' = produced /\ Running(w)
      /\ jpc[w] = "forward" /\ jpc'[w] = "return" /\ Pool!Push(j)
      /\ \A v \in Workers \ {w} : jpc'[v] = jpc[v]
  BY DEF Forward, setupVars, PoolUnchangedButWork, At, AtStart, Running, GotoJ, Shape, Typed
<1>2. /\ Stage(w) \in -1..MaxPumps /\ Stage(w) < numPumps
      /\ numPumps \in 0..MaxPumps /\ product[w] \in 0..MaxProducts
  BY <1>1, StageType DEF Shape, Typed, AtWork
<1>3. j \in States /\ j.stage \in Nat /\ j.stage <= numPumps /\ j.product = product[w]
  BY <1>2, PumpsAssumption DEF States
<1>4. product[w] \in Products /\ Passed(product[w], j.stage)
  BY <1>1 DEF OrderInv, WorkersAgree
<1> HIDE DEF j
<1>5. QueueAgrees'
  <2>1. CASE work' = work
    BY <1>1, <2>1 DEF OrderInv, QueueAgrees, Passed
  <2>2. ASSUME NEW u \in PP!Units, u.job = j, work' = Append(work, u)
        PROVE  QueueAgrees'
    BY <1>1, <1>3, <1>4, <2>2, QueueGrows DEF OrderInv
  <2> QED BY <1>1, <1>3, <2>1, <2>2, EnqueuedUnit
<1>6. WorkersAgree'
  BY <1>1, WorkersKeep DEF OrderInv, At, AtStart, Running
<1>7. ASSUME NEW p \in Products
      PROVE  /\ Tokens(p) \in Nat /\ Tokens(p)' \in Nat /\ Tokens(p)' <= Tokens(p)
             /\ lost' = {} => Tokens(p)' = Tokens(p)
  <2>1. w \notin Carriers(p)' /\ (w \in Carriers(p) <=> p = product[w])
    BY <1>1 DEF Carriers, At, AtStart, Running
  <2>2. \/ TokensQueued(p)' = TokensQueued(p) /\ lost' # {}
        \/ TokensQueued(p)' = TokensQueued(p) + One(p = product[w])
    BY <1>1, <1>3, TokenEnqueued, SentinelAssumption, TokensType DEF One
  <2>3. /\ Cardinality(Carriers(p)) \in Nat /\ Cardinality(Carriers(p))' \in Nat
        /\ Cardinality(Carriers(p))' = Cardinality(Carriers(p))
             + One(w \in Carriers(p)') - One(w \in Carriers(p))
    BY <1>1, CarrierMoves
  <2> QED BY <2>1, <2>2, <2>3, TokensType DEF Tokens, One
<1>8. lost # {} => lost' # {}
  BY <1>1, PushKeepsLost
<1> QED BY <1>1, <1>5, <1>6, <1>7, <1>8, KeepOrder

\* A pump or the outlet handles the product: its trail grows by the one stage
\* it is due, and nobody else has a token of it.
LEMMA StageOrder ==
  ASSUME Shape, Recorded, OrderInv, NEW w \in Workers, Pump(w) \/ Outlet(w)
  PROVE  OrderInv'
<1> DEFINE k == Stage(w)
           q == unit[w].job.product
<1>0. /\ work' = work /\ lost' = lost /\ wpc' = wpc /\ unit' = unit
      /\ numPumps' = numPumps /\ produced' = produced
      /\ AtStart(w) /\ Running(w)
      /\ trail' = [trail EXCEPT ![q] = Append(@, k)]
  BY DEF Pump, Outlet, poolVars, setupVars, At, AtStart, Running
<1>1. /\ work' = work /\ lost' = lost /\ wpc' = wpc /\ unit' = unit
      /\ numPumps' = numPumps /\ produced' = produced
      /\ AtStart(w) /\ Running(w)
      /\ trail' = [trail EXCEPT ![q] = Append(@, k)]
      /\ \/ jpc'[w] = "forward" /\ product'[w] = q /\ k \in 0..(numPumps - 1)
         \/ jpc'[w] = "retire" /\ k >= numPumps
      /\ \A v \in Workers \ {w} : jpc'[v] = jpc[v] /\ product'[v] = product[v]
  <2>1. CASE Pump(w)
    BY <1>0, <2>1 DEF Pump, GotoJ, Shape, Typed
  <2>2. CASE Outlet(w)
    BY <1>0, <2>2 DEF Outlet, GotoJ, Shape, Typed
  <2> QED BY <2>1, <2>2
<1>2. numPumps \in Nat /\ k \in Nat
  BY <1>1, StageType, PumpsAssumption DEF Shape, Typed
<1>3. q \in Products /\ k <= numPumps /\ Len(trail[q]) = k
  BY <1>1, <1>2 DEF OrderInv, WorkersAgree, Passed
<1>4. w \in Carriers(q)
  BY <1>1, <1>2 DEF Carriers
<1>5. Carriers(q) = {w} /\ Places(work, TokenUnits(q)) = {}
  BY <1>3, <1>4, SoleCarrier DEF OrderInv, OneToken
<1>6. /\ trail[q] \in Seq(0..MaxPumps)
      /\ trail'[q] = Append(trail[q], k)
      /\ \A p \in Products \ {q} : trail'[p] = trail[p]
  BY <1>1, <1>3 DEF Recorded, Products
<1>7. Len(trail'[q]) = k + 1 /\ trail'[q][k + 1] = k
      /\ \A i \in 1..k : trail'[q][i] = trail[q][i]
  <2> HIDE DEF k, q
  <2> QED BY <1>3, <1>6
<1>8. QueueAgrees'
  <2>1. \A i \in DOMAIN work : work[i] \in BetweenStages => work[i].job.product # q
    BY <1>5 DEF Places, TokenUnits
  <2> QED BY <1>1, <1>6, <2>1 DEF OrderInv, QueueAgrees, Passed
<1>9. WorkersAgree'
  <2> SUFFICES ASSUME NEW v \in Workers
               PROVE  /\ (AtStart(v) /\ Stage(v) >= 0)' =>
                           /\ unit'[v].job.product \in Products
                           /\ unit'[v].job.stage <= numPumps
                           /\ Len(trail'[unit'[v].job.product]) = unit'[v].job.stage
                      /\ jpc'[v] \in {"restart", "forward"} =>
                           /\ product'[v] \in Products
                           /\ Len(trail'[product'[v]]) = unit'[v].job.stage + 1
    BY <1>1 DEF WorkersAgree, Passed, Stage
  <2>1. CASE v = w
    BY <1>1, <1>3, <1>7, <2>1 DEF At, AtStart, Running, Stage
  <2>2. CASE v # w
    <3>1. v \notin Carriers(q)
      BY <1>5, <2>2
    <3>2. /\ AtStart(v) /\ Stage(v) >= 0 => unit[v].job.product # q
          /\ jpc[v] \in {"restart", "forward"} => product[v] # q
      BY <3>1 DEF Carriers
    <3> QED BY <1>1, <1>6, <2>2, <3>2 DEF OrderInv, WorkersAgree, Passed, At, AtStart, Running, Stage
  <2> QED BY <2>1, <2>2
<1>10. ASSUME NEW p \in Products PROVE InOrder(p)'
  <2>1. CASE p = q
    <3>1. \A i \in 1..k : trail[q][i] = i - 1
      BY <1>3 DEF OrderInv, InOrder
    <3>2. \A i \in 1..(k + 1) : trail'[q][i] = i - 1
      <4> HIDE DEF k, q
      <4> QED BY <1>2, <1>7, <3>1
    <3> QED BY <1>1, <1>2, <1>3, <1>7, <2>1, <3>2 DEF InOrder
  <2>2. CASE p # q
    BY <1>1, <1>6, <2>2 DEF OrderInv, InOrder
  <2> QED BY <2>1, <2>2
<1>11. OneToken'
  <2> SUFFICES ASSUME NEW p \in Products
               PROVE  /\ Tokens(p)' <= 1
                      /\ p > produced => Tokens(p)' = 0 /\ trail'[p] = <<>>
                      /\ p <= produced /\ lost = {} =>
                           Tokens(p)' = 1 \/ Len(trail'[p]) = numPumps + 1
    BY <1>1 DEF OneToken
  <2>1. w \in Carriers(p)' => w \in Carriers(p)
    BY <1>1, <1>2 DEF Carriers, At, AtStart, Running
  <2>2. /\ Cardinality(Carriers(p)) \in Nat /\ Cardinality(Carriers(p))' \in Nat
        /\ Cardinality(Carriers(p))' = Cardinality(Carriers(p))
             + One(w \in Carriers(p)') - One(w \in Carriers(p))
    BY <1>1, CarrierMoves
  <2>3. TokensQueued(p)' = TokensQueued(p)
    BY <1>1 DEF TokensQueued
  <2>4. Tokens(p)' \in Nat /\ Tokens(p) \in Nat /\ Tokens(p)' <= Tokens(p)
    BY <2>1, <2>2, <2>3, TokensType DEF Tokens, One
  <2>5. p = q => Tokens(p) # 0
    BY <1>4, TokensType, FS_EmptySet DEF Tokens
  <2>6. Tokens(p)' <= 1 /\ (p > produced => Tokens(p)' = 0 /\ trail'[p] = <<>>)
    BY <1>6, <2>4, <2>5 DEF OrderInv, OneToken
  <2>7. CASE p = q /\ jpc'[w] = "retire"
    BY <1>1, <1>2, <1>3, <1>7, <2>6, <2>7
  <2>8. CASE p = q /\ jpc'[w] = "forward"
    <3>1. w \in Carriers(p) /\ w \in Carriers(p)'
      BY <1>1, <1>4, <2>8 DEF Carriers
    <3>2. Tokens(p)' = Tokens(p)
      BY <2>2, <2>3, <3>1, TokensType DEF Tokens, One
    <3>3. Tokens(p)' = 1
      BY <2>4, <2>5, <2>6, <2>8, <3>2
    <3> QED BY <2>6, <3>3
  <2>9. CASE p # q
    <3>1. w \notin Carriers(p) /\ w \notin Carriers(p)'
      BY <1>1, <1>2, <2>9 DEF Carriers, AtStart
    <3>2. Tokens(p)' = Tokens(p)
      BY <2>2, <2>3, <3>1, TokensType DEF Tokens, One
    <3> QED BY <1>6, <2>6, <2>9, <3>2 DEF OrderInv, OneToken
  <2> QED BY <1>1, <2>7, <2>8, <2>9
<1> QED BY <1>8, <1>9, <1>10, <1>11 DEF OrderInv

-----------------------------------------------------------------------------
LEMMA OrderInit == Init => OrderInv
<1> SUFFICES ASSUME Init PROVE OrderInv
  OBVIOUS
<1>1. /\ work = <<>> /\ produced = 0 /\ numPumps = 0
      /\ \A p \in Products : trail[p] = <<>> /\ Len(trail[p]) = 0
      /\ \A w \in Workers : wpc[w] = "unborn" /\ jpc[w] = "start"
  BY DEF Init, Pool!Init, Products
<1>2. ASSUME NEW p \in Products PROVE Tokens(p) = 0
  <2>1. TokensQueued(p) = 0
    BY <1>1, CountEmpty DEF TokensQueued
  <2>2. Carriers(p) = {}
    BY <1>1 DEF Carriers, At, AtStart, Running
  <2> QED BY <2>1, <2>2, FS_EmptySet DEF Tokens
<1>3. OneToken
  BY <1>1, <1>2 DEF OneToken, Products
<1>4. QueueAgrees /\ WorkersAgree
  BY <1>1 DEF QueueAgrees, WorkersAgree, At, AtStart, Running
<1>5. \A p \in Products : InOrder(p)
  BY <1>1 DEF InOrder
<1> QED BY <1>3, <1>4, <1>5 DEF OrderInv

LEMMA OrderStep ==
  Shape /\ Recorded /\ StartedInv /\ OrderInv /\ [Next]_vars => OrderInv'
<1> SUFFICES ASSUME Shape, Recorded, StartedInv, OrderInv, [Next]_vars PROVE OrderInv'
  OBVIOUS
<1>0. numPumps \in Nat
  BY PumpsAssumption DEF Shape, Typed
<1>1. ASSUME NEW w \in Workers, ThreadLoop(w) PROVE OrderInv'
  BY <1>1, PopOrder, LeaveOrder DEF ThreadLoop
<1>2. ASSUME NEW w \in Workers,
             InletEnter(w) \/ Requeue(w) \/ Restart(w) \/ Retire(w)
      PROVE  OrderInv'
  BY <1>2, QuietOrder
<1>3. ASSUME NEW w \in Workers, Inlet(w) PROVE OrderInv'
  BY <1>3, InletOrder
<1>4. ASSUME NEW w \in Workers, Pump(w) \/ Outlet(w) PROVE OrderInv'
  BY <1>4, StageOrder
<1>5. ASSUME NEW w \in Workers, Forward(w) PROVE OrderInv'
  BY <1>5, ForwardOrder
<1>6. ASSUME NEW w \in Workers, LoopReturns(w) PROVE OrderInv'
  BY <1>6, ReturnOrder
<1>7. CASE OwnerStep
  <2>1. /\ work' = work /\ lost' = lost /\ unit' = unit /\ jpc' = jpc /\ product' = product
        /\ trail' = trail /\ produced' = produced /\ numPumps' = numPumps
    BY <1>7
    DEF OwnerStep, setupVars, lineVars, Pool!OwnerStep, Pool!Create,
        Pool!NewReturns, Pool!Join, Pool!FreeAssert, Pool!FreeReturns, Pool!workerVars
  <2>2. ASSUME NEW w \in Workers PROVE AtStart(w)' <=> AtStart(w)
    BY <1>7, <2>1
    DEF OwnerStep, Pool!OwnerStep, Pool!Create, Pool!NewReturns, Pool!Join,
        Pool!FreeAssert, Pool!FreeReturns, Pool!workerVars, Pool!GotoW, At, AtStart,
        Running, Shape, PP!CountInv, PP!TypeOK
  <2>3. \A p \in Products : Tokens(p)' = Tokens(p)
    <3>1. \A p \in Products : Carriers(p)' = Carriers(p)
      BY <2>1, <2>2 DEF Carriers, Stage
    <3> QED BY <2>1, <3>1 DEF Tokens, TokensQueued
  <2>4. QueueAgrees' /\ WorkersAgree'
    BY <2>1, <2>2 DEF OrderInv, QueueAgrees, WorkersAgree, Passed, Stage
  <2> QED BY <2>1, <2>3, <2>4 DEF OrderInv, OneToken, InOrder
<1>8. CASE FreeCalled \/ AddInlet \/ AddOutlet \/ PipelineTerminate \/ UNCHANGED vars
  BY <1>0, <1>8, SameOrder
  DEF FreeCalled, AddInlet, AddOutlet, PipelineTerminate, vars,
      Pool!FreeCalled, Pool!workerVars, poolVars, setupVars, lineVars
<1>9. CASE AddPump
  <2>1. produced = 0
    <3>1. ~Started
      BY <1>9 DEF AddPump, Building, StartedInv, Executing
    <3> QED BY <3>1 DEF Started, Shape, Typed
  <2> QED BY <1>0, <1>9, <2>1, SameOrder DEF AddPump, poolVars, lineVars
<1>10. CASE Execute
  <2>1. /\ wpc' = wpc /\ unit' = unit /\ jpc' = jpc /\ product' = product
        /\ trail' = trail /\ produced' = produced /\ numPumps' = numPumps
    BY <1>10 DEF Execute, PoolUnchangedButWork, lineVars
  <2>2. QueueAgrees' /\ \A p \in Products : TokensQueued(p)' = TokensQueued(p)
    <3>1. CASE Pool!Push(InletState)
      BY <2>1, <3>1, InletIsState, NoTokenQueued DEF OrderInv, InletState
    <3>2. CASE work' = work
      BY <2>1, <3>2 DEF OrderInv, QueueAgrees, TokensQueued, Passed
    <3> QED BY <1>10, <3>1, <3>2 DEF Execute
  <2>3. \A p \in Products : Tokens(p)' = Tokens(p)
    <3>1. \A p \in Products : Carriers(p)' = Carriers(p)
      BY <2>1 DEF Carriers, At, AtStart, Running, Stage
    <3> QED BY <2>2, <3>1 DEF Tokens
  <2>4. WorkersAgree'
    BY <2>1 DEF OrderInv, WorkersAgree, Passed, At, AtStart, Running, Stage
  <2>5. lost # {} => lost' # {}
    BY <1>10, PushKeepsLost DEF Execute
  <2> QED BY <2>1, <2>2, <2>3, <2>4, <2>5 DEF OrderInv, OneToken, InOrder
<1> QED
  BY <1>1, <1>2, <1>3, <1>4, <1>5, <1>6, <1>7, <1>8, <1>9, <1>10
  DEF Next, WorkerStep

LEMMA OrderAlways == Spec => [](Shape /\ Recorded /\ OrderInv)
<1>1. Init => Recorded
  BY RecordedInit
<1> QED
  BY <1>1, OrderInit, OrderStep, RecordedStep, StartedAlways, PTL DEF Spec

\* Every product passes the pumps in the order they were added, each once, and
\* then the outlet, once (pipeline.h:81).
THEOREM StagesInOrderCorrect == Spec => []StagesInOrder
<1>1. OrderInv => StagesInOrder
  BY DEF OrderInv, InOrder, StagesInOrder, Products
<1> QED BY <1>1, OrderAlways, PTL

\* What the inlet made has left by the outlet when the pipeline is freed, if no
\* memory was refused: in a freed pool every thread was joined, so that none is in
\* the middle of a stage, and no unit is left, so that no product waits for its next
\* one; a product without a token has been through all (pipeline.h:45).
THEOREM FreedDeliveredCorrect == Spec => []FreedDelivered
<1>1. ASSUME Shape, OrderInv, PP!FreedIsQuiet PROVE FreedDelivered
  <2> SUFFICES ASSUME cpc[Main] = "freed", lost = {}, unjoined = {},
                      NEW p \in 1..produced
               PROVE  Len(trail[p]) = numPumps + 1
    BY DEF FreedDelivered
  <2>1. p \in Products /\ p <= produced
    BY <1>1, ProductsAssumption DEF Shape, Typed, Products
  <2>2. work = <<>> /\ \A w \in Workers : wpc[w] = "exited"
    BY <1>1 DEF PP!FreedIsQuiet
  <2>3. Carriers(p) = {}
    BY <1>1, <2>2 DEF Shape, AtWork, Carriers, AtStart, Running
  <2>4. TokensQueued(p) = 0
    BY <2>2, CountEmpty DEF TokensQueued
  <2>5. Tokens(p) = 0
    BY <2>3, <2>4, FS_EmptySet DEF Tokens
  <2> QED BY <1>1, <2>1, <2>5 DEF OrderInv, OneToken
<1>2. PP!OwnerAssumption /\ PP!WorkersAssumption /\ PP!NamesAssumption
      /\ PP!FailAssumption /\ PP!BoundAssumption
  BY PoolAssumptions
<1>3. Spec => []PP!FreedIsQuiet
  BY <1>2, RunsOnPool, PP!FreedIsQuietCorrect, PTL
<1> QED BY <1>1, <1>3, OrderAlways, PTL
=============================================================================
