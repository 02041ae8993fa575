------------------------------ MODULE Pipeline ------------------------------
(***************************************************************************)
(* src/src/pipeline.c: products are made by an inlet routine, pass every   *)
(* pump in order and leave through an outlet, each stage being one unit of *)
(* a thread pool that pushes the unit of the next stage.  The inlet stage  *)
(* restarts itself; the line that brings active_lines down to zero         *)
(* terminates the pool.                                                    *)
(*                                                                         *)
(* What pipeline.c does between taking pipe->lock and giving it up is one  *)
(* step here: those sections touch shared state besides the lock-protected *)
(* fields at most once, in the push of thread_pool_terminate.              *)
(***************************************************************************)
EXTENDS Integers, Sequences, FiniteSets

CONSTANTS
  Workers,     \* the pool's threads, max_threads of them
  Main,        \* the thread that builds, executes and frees the pipeline
  Term, Null,  \* see ThreadPool
  MayFail,
  MaxPumps,    \* bound: pumps main may add
  MaxProducts, \* bound: products the inlet makes before it dries up
  MaxExecutes  \* bound: calls of pipeline_execute

ASSUME ThreadsAssumption ==
  /\ IsFiniteSet(Workers) /\ Workers # {}
  /\ Main \notin Workers /\ Null \notin Workers \cup {Main}
ASSUME FailAssumption == MayFail \in BOOLEAN
ASSUME PumpsAssumption == MaxPumps \in Nat
ASSUME ProductsAssumption == MaxProducts \in Nat
ASSUME ExecutesAssumption == MaxExecutes \in Nat

VARIABLES
  work, threadQueue, numThreads, poolLock, wpc, unit, cpc, terms, lost,
  unjoined,  \* pipe->pool, see ThreadPool
  inlet,     \* pipe->inlet is set
  outlet,    \* pipe->outlet is set
  numPumps,  \* pipe->num_pumps
  active,    \* pipe->active_lines
  terminated,\* pipe->terminated
  executes,  \* history: calls of pipeline_execute
  aborted,   \* an assertion of pipeline_execute ended the program
  jpc,       \* where each worker stands in pipeline_loop
  product,   \* its local new_product
  produced,  \* products the inlet has made so far
  dried,     \* the inlet has returned NULL
  trail      \* history: the stages each product has passed

poolVars == <<work, threadQueue, numThreads, poolLock, wpc, unit, cpc, terms, lost,
              unjoined>>
setupVars == <<inlet, outlet, numPumps, executes, aborted>>
lineVars == <<active, terminated, jpc, product, produced, dried, trail>>
vars == <<poolVars, setupVars, lineVars>>

\* struct pipeline_state: product 0 is NULL, stage -1 the inlet's.
States == [stage : -1..MaxPumps, product : 0..MaxProducts]
InletState == [stage |-> -1, product |-> 0]

ASSUME SentinelAssumption == Term \notin States

Pool == INSTANCE ThreadPool WITH
  Clients <- {Main}, Owner <- Main, Jobs <- States, MaxWork <- Null

JobPCs == {"start", "requeue", "inlet", "restart", "forward", "retire", "return"}

TypeOK ==
  /\ Pool!TypeOK
  /\ inlet \in BOOLEAN /\ outlet \in BOOLEAN
  /\ numPumps \in 0..MaxPumps
  /\ active \in Nat
  /\ terminated \in BOOLEAN
  /\ executes \in 0..MaxExecutes
  /\ aborted \in BOOLEAN
  /\ jpc \in [Workers -> JobPCs]
  /\ product \in [Workers -> 0..MaxProducts]
  /\ produced \in 0..MaxProducts
  /\ dried \in BOOLEAN
  /\ trail \in [1..MaxProducts -> Seq(0..MaxPumps)]

Init ==
  /\ Pool!Init
  /\ inlet = FALSE /\ outlet = FALSE
  /\ numPumps = 0
  /\ active = 0
  /\ terminated = FALSE
  /\ executes = 0
  /\ aborted = FALSE
  /\ jpc = [w \in Workers |-> "start"]
  /\ product = [w \in Workers |-> 0]
  /\ produced = 0
  /\ dried = FALSE
  /\ trail = [p \in 1..MaxProducts |-> <<>>]

-----------------------------------------------------------------------------
(* The calls of the main thread *)

PoolUnchangedButWork ==
  UNCHANGED <<threadQueue, numThreads, poolLock, wpc, unit, cpc, unjoined>>

Building == cpc[Main] = "use" /\ executes = 0 /\ ~aborted

\* "You must add exactly ONE inlet to every pipeline", and one outlet.
AddInlet ==
  /\ Building /\ ~inlet
  /\ inlet' = TRUE
  /\ UNCHANGED <<poolVars, outlet, numPumps, executes, aborted, lineVars>>

AddOutlet ==
  /\ Building /\ ~outlet
  /\ outlet' = TRUE
  /\ UNCHANGED <<poolVars, inlet, numPumps, executes, aborted, lineVars>>

AddPump ==
  /\ Building /\ numPumps < MaxPumps
  /\ numPumps' = numPumps + 1
  /\ UNCHANGED <<poolVars, inlet, outlet, executes, aborted, lineVars>>

\* pipeline_execute, which may be called again; its asserts end the program
\* when a routine is missing.
Execute ==
  /\ cpc[Main] = "use" /\ ~aborted /\ executes < MaxExecutes
  /\ executes' = executes + 1
  /\ IF inlet /\ outlet
     THEN /\ Pool!Push(InletState)
          /\ UNCHANGED aborted
     ELSE /\ aborted' = TRUE
          /\ UNCHANGED <<work, lost>>
  /\ PoolUnchangedButWork
  /\ UNCHANGED <<terms, inlet, outlet, numPumps, lineVars>>

\* pipeline_terminate, by any thread that has the pipeline.
PipelineTerminate ==
  /\ cpc[Main] \in {"use", "free"} /\ ~aborted
  /\ ~terminated
  /\ terminated' = TRUE
  /\ UNCHANGED <<poolVars, setupVars,
                 active, jpc, product, produced, dried, trail>>

\* pipeline_free is thread_pool_free and the release of what the pipe owns.
FreeCalled ==
  /\ ~aborted
  /\ Pool!FreeCalled
  /\ UNCHANGED <<setupVars, lineVars>>

OwnerStep ==
  /\ ~aborted
  /\ Pool!OwnerStep
  /\ UNCHANGED <<setupVars, lineVars>>

-----------------------------------------------------------------------------
(* pipeline_loop *)

At(w, label) == Pool!Exists /\ ~aborted /\ wpc[w] = "run" /\ jpc[w] = label
GotoJ(w, label) == jpc' = [jpc EXCEPT ![w] = label]
Stage(w) == unit[w].job.stage

\* As if only the lines that leave were counted.
InletEnterUncounted(w) ==
  /\ At(w, "start") /\ Stage(w) < 0
  /\ GotoJ(w, IF terminated THEN "return" ELSE "inlet")
  /\ UNCHANGED <<poolVars, setupVars, active, terminated, product, produced, dried, trail>>

\* The inlet stage under the lock: stop, come back later, or start a line.
InletEnter(w) ==
  /\ At(w, "start") /\ Stage(w) < 0
  /\ \/ /\ terminated
        /\ GotoJ(w, "return") /\ UNCHANGED active
     \/ /\ ~terminated /\ Cardinality(Workers) < active
        /\ GotoJ(w, "requeue") /\ UNCHANGED active
     \/ /\ ~terminated /\ active <= Cardinality(Workers)
        /\ GotoJ(w, "inlet") /\ active' = active + 1
  /\ UNCHANGED <<poolVars, setupVars, terminated, product, produced, dried, trail>>

\* The limit was met: enqueue the same state again.
Requeue(w) ==
  /\ At(w, "requeue")
  /\ Pool!Push(unit[w].job)
  /\ GotoJ(w, "return")
  /\ PoolUnchangedButWork
  /\ UNCHANGED <<terms, setupVars, active, terminated, product, produced, dried, trail>>

\* As if the inlet were restarted before its routine is called.
InletRestartsFirst(w) ==
  /\ At(w, "inlet")
  /\ \/ /\ produced < MaxProducts
        /\ produced' = produced + 1
        /\ product' = [product EXCEPT ![w] = produced + 1]
        /\ GotoJ(w, "restart")
        /\ UNCHANGED <<dried, work>>
     \/ /\ work' = Append(work, Pool!Unit(InletState))
        /\ UNCHANGED <<dried, product, produced, jpc>>
  /\ PoolUnchangedButWork
  /\ UNCHANGED <<terms, lost, setupVars, active, terminated, trail>>

\* pipe->inlet makes a product or returns NULL, without the lock.
Inlet(w) ==
  /\ At(w, "inlet")
  /\ \/ /\ produced < MaxProducts
        /\ produced' = produced + 1
        /\ product' = [product EXCEPT ![w] = produced + 1]
        /\ GotoJ(w, "restart")
        /\ UNCHANGED dried
     \/ /\ dried' = TRUE
        /\ GotoJ(w, "retire")
        /\ UNCHANGED <<product, produced>>
  /\ UNCHANGED <<poolVars, setupVars, active, terminated, trail>>

\* The inlet has not dried up: push a new inlet stage.
Restart(w) ==
  /\ At(w, "restart")
  /\ Pool!Push(InletState)
  /\ GotoJ(w, "forward")
  /\ PoolUnchangedButWork
  /\ UNCHANGED <<terms, setupVars, active, terminated, product, produced, dried, trail>>

\* pipe->pump[current_stage].  The product is followed through what pumps make
\* of it.
Pump(w) ==
  /\ At(w, "start") /\ Stage(w) \in 0..(numPumps - 1)
  /\ product' = [product EXCEPT ![w] = unit[w].job.product]
  /\ trail' = [trail EXCEPT ![unit[w].job.product] = Append(@, Stage(w))]
  /\ GotoJ(w, "forward")
  /\ UNCHANGED <<poolVars, setupVars, active, terminated, produced, dried>>

\* pipe->outlet.
Outlet(w) ==
  /\ At(w, "start") /\ Stage(w) >= numPumps
  /\ trail' = [trail EXCEPT ![unit[w].job.product] = Append(@, Stage(w))]
  /\ GotoJ(w, "retire")
  /\ UNCHANGED <<poolVars, setupVars, active, terminated, product, produced, dried>>

\* As if a terminated pipeline gave up its products.
ForwardGivesUp(w) ==
  /\ At(w, "forward")
  /\ IF terminated
     THEN GotoJ(w, "retire") /\ UNCHANGED <<work, lost>>
     ELSE /\ Pool!Push([stage |-> Stage(w) + 1, product |-> product[w]])
          /\ GotoJ(w, "return")
  /\ PoolUnchangedButWork
  /\ UNCHANGED <<terms, setupVars, active, terminated, product, produced, dried, trail>>

\* As if the stage were not advanced before it is pushed.
ForwardSameStage(w) ==
  /\ At(w, "forward")
  /\ Pool!Push([stage |-> IF Stage(w) < 0 THEN 0 ELSE Stage(w),
                product |-> product[w]])
  /\ GotoJ(w, "return")
  /\ PoolUnchangedButWork
  /\ UNCHANGED <<terms, setupVars, active, terminated, product, produced, dried, trail>>

\* Start up the next stage with the new product.
Forward(w) ==
  /\ At(w, "forward")
  /\ Pool!Push([stage |-> Stage(w) + 1, product |-> product[w]])
  /\ GotoJ(w, "return")
  /\ PoolUnchangedButWork
  /\ UNCHANGED <<terms, setupVars, active, terminated, product, produced, dried, trail>>

\* As if the line that ends did not look whether it is the last.
RetireSilently(w) ==
  /\ At(w, "retire")
  /\ active' = active - 1
  /\ GotoJ(w, "return")
  /\ UNCHANGED <<poolVars, setupVars, terminated, product, produced, dried, trail>>

\* As if only an outlet ended a line.
RetireUncounted(w) ==
  /\ At(w, "retire")
  /\ active' = IF Stage(w) < 0 THEN active ELSE active - 1
  /\ IF active' = 0 THEN Pool!Terminate ELSE UNCHANGED <<work, terms, lost>>
  /\ GotoJ(w, "return")
  /\ PoolUnchangedButWork
  /\ UNCHANGED <<setupVars, terminated, product, produced, dried, trail>>

\* A line ends, at the outlet or because the inlet dried up; the last one to
\* end terminates the pool.
Retire(w) ==
  /\ At(w, "retire")
  /\ active' = active - 1
  /\ IF active' = 0 THEN Pool!Terminate ELSE UNCHANGED <<work, terms, lost>>
  /\ GotoJ(w, "return")
  /\ PoolUnchangedButWork
  /\ UNCHANGED <<setupVars, terminated, product, produced, dried, trail>>

\* pipeline_loop returns to thread_loop.
LoopReturns(w) ==
  /\ At(w, "return")
  /\ Pool!JobReturn(w)
  /\ GotoJ(w, "start")
  /\ product' = [product EXCEPT ![w] = 0]
  /\ UNCHANGED <<setupVars, active, terminated, produced, dried, trail>>

ThreadLoop(w) ==
  /\ Pool!Exists /\ ~aborted
  /\ Pool!Pop(w) \/ Pool!TermLock(w) \/ Pool!Relay(w) \/ Pool!Leave(w)
  /\ UNCHANGED <<setupVars, lineVars>>

WorkerStep(w) ==
  \/ ThreadLoop(w)
  \/ InletEnter(w) \/ Requeue(w) \/ Inlet(w) \/ Restart(w)
  \/ Pump(w) \/ Outlet(w) \/ Forward(w) \/ Retire(w)
  \/ LoopReturns(w)

Next ==
  \/ \E w \in Workers : WorkerStep(w)
  \/ OwnerStep \/ FreeCalled
  \/ AddInlet \/ AddOutlet \/ AddPump \/ Execute \/ PipelineTerminate

Spec == Init /\ [][Next]_vars

\* Workers that can run do, the user's routines return, the inlet dries up
\* after MaxProducts at the latest, and main goes on with a call it is in.
FairSpec ==
  /\ Spec
  /\ \A w \in Workers : WF_vars(WorkerStep(w))
  /\ WF_vars(OwnerStep)

-----------------------------------------------------------------------------
Running(w) == wpc[w] = "run"

\* Lines under way: products queued between stages, and workers that hold one
\* or have claimed one from the inlet.
Lines ==
  Cardinality({i \in DOMAIN work : /\ work[i].job # Term
                                   /\ work[i].job.stage >= 0})
  + Cardinality({w \in Workers :
       \/ jpc[w] \in {"inlet", "restart", "forward", "retire"}
       \/ Running(w) /\ jpc[w] = "start" /\ Stage(w) >= 0})

\* active_lines counts the lines under way, so it reaches zero only when none
\* is left and the size_t never wraps (pipeline.c:202, :223, :242).
ActiveLinesAccurate == lost = {} => active = Lines

\* Each pipeline_execute makes one inlet stage, which restarts itself and is never
\* duplicated: in a pipeline that is executed once the inlet routine never runs
\* twice at once and needs no lock of its own (pipeline.c:205-217, :268).
OneInletStagePerExecute ==
  Cardinality({i \in DOMAIN work : work[i].job = InletState})
  + Cardinality({w \in Workers :
       /\ Running(w) /\ Stage(w) < 0
       /\ jpc[w] \in {"start", "requeue", "inlet", "restart"}}) <= executes

\* "Pumps will be executed in the order in which they were added", each once
\* per product, and the outlet after them, once (pipeline.h:81).
StagesInOrder ==
  \A p \in 1..MaxProducts :
    /\ Len(trail[p]) <= numPumps + 1
    /\ \A i \in 1..Len(trail[p]) : trail[p][i] = i - 1

\* When pipeline_free returns, "all of the PRODUCT has passed through the system"
\* (pipeline.h:45): whatever the inlet made has left by the outlet, also if the
\* pipeline was terminated, unless memory ran out.
FreedDelivered ==
  cpc[Main] = "freed" /\ lost = {} /\ unjoined = {} =>
    \A p \in 1..produced : Len(trail[p]) = numPumps + 1

\* Once the inlet has been called the pipeline comes to an end: lines retire,
\* the last one terminates the pool and every thread exits, also when
\* pipeline_terminate strikes in between.
StartedPipelineStops ==
  produced > 0 \/ dried ~> \/ Pool!AllExited \/ lost # {} \/ aborted
                         \/ ~Pool!Exists

\* thread_pool.c:112 asserts that no work is left when a pool is freed;
\* pipeline.h:44 promises that freeing blocks "until the pipe dries up".
FreeFindsNoWork == cpc[Main] # "aborted"
=============================================================================
