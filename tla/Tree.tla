-------------------------------- MODULE Tree --------------------------------
(***************************************************************************)
(* src/src/tree.c: a tree of vertices whose routines are run as units of a *)
(* thread pool.  active_lines goes up when the root is entered and down at *)
(* a vertex without children; the line that brings it to zero terminates   *)
(* the pool.                                                               *)
(*                                                                         *)
(* Only a root without children runs to its end: tree_loop fetches the     *)
(* first child with async_list_get, whose assertion then ends the program. *)
(* The unit of a vertex other than the root is therefore never pushed.     *)
(*                                                                         *)
(* tree_free destroys tree->lock before it joins the workers that take it. *)
(* A destroyed mutex either still works or refuses every call; tree_loop   *)
(* does not look, so in the second case it goes on without exclusion, and  *)
(* active_lines is cut into its loads and stores for that.                 *)
(***************************************************************************)
EXTENDS Integers, Sequences, FiniteSets, AsyncList

CONSTANTS
  Workers,     \* the pool's threads, max_threads of them
  Users,       \* the threads that call tree_*
  Main,        \* the one that creates and frees the tree
  Vertices,    \* the vertices that may become root or get children
  Term, Null,  \* see ThreadPool
  MayFail,     \* whether memory may run out
  SizeValues,  \* number of values of a size_t
  MaxLines,    \* bound: calls of tree_execute that push
  MaxChildren  \* bound: children of one vertex

ASSUME MainAssumption == Main \in Users
ASSUME ThreadsAssumption ==
  /\ IsFiniteSet(Workers) /\ Workers # {}
  /\ Users \cap Workers = {} /\ Null \notin Users \cup Workers
ASSUME FailAssumption == MayFail \in BOOLEAN
ASSUME VerticesAssumption == Null \notin Vertices /\ Null \notin Lists
ASSUME SizeAssumption == SizeValues \in Nat /\ Cardinality(Workers) + 1 < SizeValues
ASSUME TreeBoundsAssumption == MaxLines \in Nat /\ MaxChildren \in Nat

VARIABLES
  work, threadQueue, numThreads, poolLock, wpc, unit, cpc, terms, lost,
  unjoined,   \* tree->pool, see ThreadPool
  root,       \* tree->root
  active,     \* tree->active_lines
  terminated, \* tree->terminated
  treeLock,   \* the owner of tree->lock, or Null
  lockWorks,  \* calls on it have their effect
  allocated,  \* the vertices that exist
  children,   \* vertice->children
  vlock,      \* the owner of vertice->lock, or Null
  adding,     \* the parent a user is adding a child to, or Null
  lines,      \* tree_execute calls that pushed
  aborted,    \* an assertion ended the program
  jpc,        \* where each worker stands in tree_loop
  loaded      \* the active_lines it has loaded and not stored yet

poolVars == <<work, threadQueue, numThreads, poolLock, wpc, unit, cpc, terms, lost,
              unjoined>>
lockVars == <<treeLock, lockWorks>>
vertexVars == <<allocated, children, vlock, adding>>
lineVars == <<active, jpc, loaded>>
vars == <<poolVars, root, terminated, lockVars, vertexVars, lines, aborted, lineVars>>

\* struct tree_state of a root.
Line == "line"

ASSUME SentinelAssumption == Term # Line

Pool == INSTANCE ThreadPool WITH
  Clients <- {Main}, Owner <- Main, Jobs <- {Line}, MaxWork <- Null

JobPCs == {"start", "count", "requeue", "routine", "children", "restart", "done",
           "store", "return"}

TypeOK ==
  /\ Pool!TypeOK
  /\ root \in Vertices \cup {Null}
  /\ active \in 0..(SizeValues - 1)
  /\ terminated \in BOOLEAN /\ lockWorks \in BOOLEAN /\ aborted \in BOOLEAN
  /\ treeLock \in Users \cup Workers \cup {Null}
  /\ allocated \in SUBSET Vertices
  /\ children \in [Vertices -> Lists \cup {Null}]
  /\ vlock \in [Vertices -> Users \cup {Null}]
  /\ adding \in [Users -> Vertices \cup {Null}]
  /\ lines \in 0..MaxLines
  /\ jpc \in [Workers -> JobPCs]
  /\ loaded \in [Workers -> 0..(SizeValues - 1)]

\* tree_new_vertice was called for all of them.
NewVertices ==
  /\ allocated = Vertices
  /\ children = [v \in Vertices |-> Null]
  /\ vlock = [v \in Vertices |-> Null]

Init ==
  /\ Pool!Init
  /\ root = Null
  /\ active = 0
  /\ terminated = FALSE
  /\ treeLock = Null /\ lockWorks = TRUE
  /\ NewVertices
  /\ adding = [u \in Users |-> Null]
  /\ lines = 0
  /\ aborted = FALSE
  /\ jpc = [w \in Workers |-> "start"]
  /\ loaded = [w \in Workers |-> 0]

-----------------------------------------------------------------------------
(* The users' calls, while the tree exists and nobody frees it.  A call     *)
(* that waits for a lock is one that has yet to be made.                    *)

MayCall(u) == cpc[Main] = "use" /\ ~aborted /\ adding[u] = Null

\* tree_add_root of a tree that has one returns false and keeps the lock.
AddRoot(u, v) ==
  /\ MayCall(u)
  /\ treeLock = Null
  /\ \/ /\ root = Null
        /\ root' = v
        /\ UNCHANGED treeLock
     \/ /\ root # Null
        /\ treeLock' = u
        /\ UNCHANGED root
  /\ UNCHANGED <<poolVars, terminated, lockWorks, vertexVars, lines, aborted, lineVars>>

\* tree_add_child up to the list; without memory for one the call returns
\* false and keeps the parent's lock.
AddChildLock(u, p) ==
  /\ MayCall(u)
  /\ children[p] # Null => children[p].count < MaxChildren
  /\ vlock[p] = Null
  /\ vlock' = [vlock EXCEPT ![p] = u]
  /\ \/ /\ adding' = [adding EXCEPT ![u] = p]
        /\ children' = IF children[p] # Null THEN children
                       ELSE [children EXCEPT ![p] = NewList]
     \/ /\ MayFail /\ children[p] = Null
        /\ UNCHANGED <<adding, children>>
  /\ UNCHANGED <<poolVars, root, terminated, lockVars, allocated, lines, aborted, lineVars>>

\* async_list_add, and the lock is given back; an assertion looks after realloc.
AddChild(u) ==
  /\ ~aborted /\ adding[u] # Null
  /\ \/ /\ children' = [children EXCEPT ![adding[u]] = Added(@)]
        /\ vlock' = [vlock EXCEPT ![adding[u]] = Null]
        /\ UNCHANGED aborted
     \/ /\ MayFail /\ Full(children[adding[u]])
        /\ aborted' = TRUE
        /\ UNCHANGED <<children, vlock>>
  /\ adding' = [adding EXCEPT ![u] = Null]
  /\ UNCHANGED <<poolVars, root, terminated, lockVars, allocated, lines, lineVars>>

\* tree_execute, with a root.
Execute(u) ==
  /\ MayCall(u) /\ root # Null /\ lines < MaxLines
  /\ lines' = lines + 1
  /\ Pool!Push(Line)
  /\ UNCHANGED <<threadQueue, numThreads, poolLock, wpc, unit, cpc, terms, unjoined,
                 root, terminated, lockVars, vertexVars, aborted, lineVars>>

TreeTerminate(u) ==
  /\ MayCall(u) /\ ~terminated
  /\ treeLock = Null
  /\ terminated' = TRUE
  /\ UNCHANGED <<poolVars, root, lockVars, vertexVars, lines, aborted, lineVars>>

\* tree_free destroys the lock and goes on to thread_pool_free.
FreeCalled ==
  /\ ~aborted /\ \A u \in Users : adding[u] = Null
  /\ lockWorks' \in BOOLEAN
  /\ Pool!FreeCalled
  /\ UNCHANGED <<root, terminated, treeLock, vertexVars, lines, aborted, lineVars>>

OwnerStep ==
  /\ ~aborted
  /\ Pool!OwnerStep
  /\ UNCHANGED <<root, terminated, lockVars, vertexVars, lines, aborted, lineVars>>

\* tree_free_vertice, when the tree is gone.
FreeVertice(v) ==
  /\ cpc[Main] = "freed" /\ v \in allocated
  /\ allocated' = allocated \ {v}
  /\ children' = [children EXCEPT ![v] = Null]
  /\ UNCHANGED <<poolVars, root, terminated, lockVars, vlock, adding, lines,
                 aborted, lineVars>>

-----------------------------------------------------------------------------
(* tree_loop *)

At(w, label) == Pool!Exists /\ ~aborted /\ wpc[w] = "run" /\ jpc[w] = label
GotoJ(w, label) == jpc' = [jpc EXCEPT ![w] = label]

PoolUnchangedButWork ==
  UNCHANGED <<threadQueue, numThreads, poolLock, wpc, unit, cpc, unjoined>>

\* Taking the lock is one step with the first look under it: a lock that works
\* lets nobody come between, and one that does not is no step.
Lock(w) ==
  IF lockWorks THEN treeLock = Null /\ treeLock' = w ELSE UNCHANGED treeLock

Unlock == treeLock' = IF lockWorks THEN Null ELSE treeLock

\* Taken and given back with nothing but looks in between.
LockAndUnlock == (lockWorks => treeLock = Null) /\ UNCHANGED treeLock

\* As if the root were entered without the lock.
EnterUnlocked(w) ==
  /\ At(w, "start")
  /\ \/ /\ terminated
        /\ GotoJ(w, "return") /\ UNCHANGED loaded
     \/ /\ ~terminated /\ Cardinality(Workers) < active
        /\ GotoJ(w, "requeue") /\ UNCHANGED loaded
     \/ /\ ~terminated /\ active <= Cardinality(Workers)
        /\ loaded' = [loaded EXCEPT ![w] = active]
        /\ GotoJ(w, "count")
  /\ UNCHANGED <<poolVars, root, terminated, lockVars, vertexVars, lines, aborted, active>>

\* Stop, come back later, or go on to start a line.
Enter(w) ==
  /\ At(w, "start")
  /\ \/ /\ terminated
        /\ LockAndUnlock /\ GotoJ(w, "return") /\ UNCHANGED loaded
     \/ /\ ~terminated /\ Cardinality(Workers) < active
        /\ LockAndUnlock /\ GotoJ(w, "requeue") /\ UNCHANGED loaded
     \/ /\ ~terminated /\ active <= Cardinality(Workers)
        /\ loaded' = [loaded EXCEPT ![w] = active]
        /\ Lock(w) /\ GotoJ(w, "count")
  /\ UNCHANGED <<poolVars, root, terminated, lockWorks, vertexVars, lines, aborted, active>>

\* tree->active_lines++ is stored, and the lock given back.
CountIn(w) ==
  /\ At(w, "count")
  /\ active' = (loaded[w] + 1) % SizeValues
  /\ loaded' = [loaded EXCEPT ![w] = 0]
  /\ Unlock
  /\ GotoJ(w, "routine")
  /\ UNCHANGED <<poolVars, root, terminated, lockWorks, vertexVars, lines, aborted>>

\* Push the root's unit again: the limit was met, or its children were visited.
PushRoot(w) ==
  /\ At(w, "requeue") \/ At(w, "restart")
  /\ Pool!Push(Line)
  /\ GotoJ(w, "return")
  /\ PoolUnchangedButWork
  /\ UNCHANGED <<terms, root, terminated, lockVars, vertexVars, lines, aborted,
                 active, loaded>>

\* vertice->routine, then the look at vertice->children, without its lock.
Routine(w) ==
  /\ At(w, "routine")
  /\ GotoJ(w, IF children[root] = Null THEN "done" ELSE "children")
  /\ UNCHANGED <<poolVars, root, terminated, lockVars, vertexVars, lines,
                 aborted, active, loaded>>

\* The loop over the children: none yet, or an assertion at the first.
Walk(w) ==
  /\ At(w, "children")
  /\ \/ /\ children[root].count = 0
        /\ GotoJ(w, "restart")
        /\ UNCHANGED aborted
     \/ /\ children[root].count > 0 /\ GetAborts(children[root], 0)
        /\ aborted' = TRUE
        /\ UNCHANGED jpc
  /\ UNCHANGED <<poolVars, root, terminated, lockVars, vertexVars, lines, active, loaded>>

LoadLines(w) ==
  /\ At(w, "done")
  /\ Lock(w)
  /\ loaded' = [loaded EXCEPT ![w] = active]
  /\ GotoJ(w, "store")
  /\ UNCHANGED <<poolVars, root, terminated, lockWorks, vertexVars, lines,
                 aborted, active>>

\* As if active_lines were signed.
CountOutSigned(w) ==
  /\ At(w, "store")
  /\ active' = loaded[w] - 1
  /\ IF active' = 0 THEN Pool!Terminate ELSE UNCHANGED <<work, terms, lost>>
  /\ Unlock
  /\ GotoJ(w, "return")
  /\ PoolUnchangedButWork
  /\ loaded' = [loaded EXCEPT ![w] = 0]
  /\ UNCHANGED <<root, terminated, lockWorks, vertexVars, lines, aborted>>

\* As if nobody looked whether the line was the last.
CountOutSilently(w) ==
  /\ At(w, "store")
  /\ active' = (loaded[w] - 1) % SizeValues
  /\ UNCHANGED <<work, terms, lost>>
  /\ Unlock
  /\ GotoJ(w, "return")
  /\ PoolUnchangedButWork
  /\ loaded' = [loaded EXCEPT ![w] = 0]
  /\ UNCHANGED <<root, terminated, lockWorks, vertexVars, lines, aborted>>

\* As if a root without children were restarted too.
CountOutRestarts(w) ==
  /\ At(w, "store")
  /\ active' = (loaded[w] - 1) % SizeValues
  /\ work' = IF active' = 0 THEN work \o <<Pool!Unit(Term), Pool!Unit(Line)>>
             ELSE Append(work, Pool!Unit(Line))
  /\ terms' = IF active' = 0 /\ terms < 2 THEN terms + 1 ELSE terms
  /\ UNCHANGED lost
  /\ Unlock
  /\ GotoJ(w, "return")
  /\ PoolUnchangedButWork
  /\ loaded' = [loaded EXCEPT ![w] = 0]
  /\ UNCHANGED <<root, terminated, lockWorks, vertexVars, lines, aborted>>

\* --tree->active_lines is stored; at zero the pool is terminated.
CountOut(w) ==
  /\ At(w, "store")
  /\ active' = (loaded[w] - 1) % SizeValues
  /\ IF active' = 0 THEN Pool!Terminate ELSE UNCHANGED <<work, terms, lost>>
  /\ Unlock
  /\ GotoJ(w, "return")
  /\ PoolUnchangedButWork
  /\ loaded' = [loaded EXCEPT ![w] = 0]
  /\ UNCHANGED <<root, terminated, lockWorks, vertexVars, lines, aborted>>

LoopReturns(w) ==
  /\ At(w, "return")
  /\ Pool!JobReturn(w)
  /\ GotoJ(w, "start")
  /\ UNCHANGED <<root, terminated, lockVars, vertexVars, lines, aborted, active, loaded>>

ThreadLoop(w) ==
  /\ Pool!Exists /\ ~aborted
  /\ Pool!Pop(w) \/ Pool!TermLock(w) \/ Pool!Relay(w) \/ Pool!Leave(w)
  /\ UNCHANGED <<root, terminated, lockVars, vertexVars, lines, aborted, lineVars>>

WorkerStep(w) ==
  \/ ThreadLoop(w)
  \/ Enter(w) \/ CountIn(w) \/ PushRoot(w)
  \/ Routine(w) \/ Walk(w)
  \/ LoadLines(w) \/ CountOut(w)
  \/ LoopReturns(w)

UserStep(u) ==
  \/ \E v \in Vertices : AddRoot(u, v) \/ AddChildLock(u, v)
  \/ AddChild(u)
  \/ Execute(u) \/ TreeTerminate(u)

Next ==
  \/ \E w \in Workers : WorkerStep(w)
  \/ \E u \in Users : UserStep(u)
  \/ OwnerStep \/ FreeCalled
  \/ \E v \in Vertices : FreeVertice(v)

Spec == Init /\ [][Next]_vars

\* Workers that can run do, users' routines return, and main goes on with a call
\* it is in.  Nobody has to call anything.
FairSpec ==
  /\ Spec
  /\ \A w \in Workers : WF_vars(WorkerStep(w))
  /\ WF_vars(OwnerStep)
-----------------------------------------------------------------------------
\* No root yet, or one whose children are NULL.
Childless == root # Null => children[root] = Null

\* Lines that were counted in and have not been counted out.
Lines == Cardinality({w \in Workers :
  wpc[w] = "run" /\ jpc[w] \in {"routine", "done", "store"}})

\* active_lines counts the lines under way as long as tree->lock works, for any
\* number of tree_execute calls (tree.c:183, :214); once children are being
\* added it may count more, never more than the limit admits.
ActiveLinesAccurate ==
  lockWorks /\ cpc[Main] # "freed" =>
            /\ Childless => active = Lines
            /\ Lines <= active
            /\ active <= Cardinality(Workers) + 1

\* Lists of children never hold more than their array does, whoever adds to
\* them at the same time (async_list.c:54).
ListsSound == \A v \in Vertices : children[v] # Null => Sound(children[v])

\* A tree that is executed once terminates its pool at most once and finds it
\* empty when it is freed, although the lock is destroyed under the worker that
\* uses it (tree.c:83), unless a thread that nobody could join is still there
\* (thread_pool.c:96).
OneLineFreesCleanly ==
  lines <= 1 =>
    /\ terms <= 1
    /\ cpc[Main] = "aborted" => \E w \in unjoined : wpc[w] # "exited"

\* A tree whose root was entered comes to an end, terminated or not (tree.h:48:
\* free blocks "until all of the threads have exited").  What keeps it from it:
\* a refused second root that left the lock behind (tree.c:130), children, a
\* refused push, a thread that nobody could join and whose tree is gone, and with
\* more than one line the lock that tree_free destroyed.
StartedTreeStops ==
  (\E w \in Workers : jpc[w] = "routine")
    ~> \/ Pool!AllExited
       \/ treeLock \in Users \/ ~Childless \/ lost # {}
       \/ ~lockWorks /\ lines > 1
       \/ aborted \/ ~Pool!Exists
=============================================================================
