----------------------------- MODULE ThreadPool -----------------------------
(***************************************************************************)
(* src/src/thread_pool.c: workers that run the units of one work queue     *)
(* until they meet a sentinel.  thread_pool_terminate enqueues a single    *)
(* sentinel; the worker that dequeues it enqueues it anew for the next     *)
(* worker and exits, so it travels behind whatever was pushed meanwhile.   *)
(*                                                                         *)
(* The two async_queues are sequences whose push and pop are one step      *)
(* each, as AsyncQueue implements BlockingFifo.  What a unit's function    *)
(* does is left open: it may push, terminate, or return.  Pipeline         *)
(* instantiates this module with its own function.                         *)
(***************************************************************************)
EXTENDS Naturals, Sequences, FiniteSets

CONSTANTS
  Workers,   \* the threads thread_pool_new creates, max_threads of them
  Clients,   \* the other threads that call into the pool
  Owner,     \* the client that creates and frees it
  Jobs,      \* what a unit may carry: a function and its data
  Term,      \* THREAD_POOL_TERM_SIG
  Null,      \* NULL
  MayFail,   \* whether queue_push may run out of memory
  MaxWork    \* bound: units queued by clients and by units; Null for none

ASSUME OwnerAssumption == Owner \in Clients
ASSUME WorkersAssumption == IsFiniteSet(Workers) /\ Workers # {}
ASSUME NamesAssumption ==
  /\ Workers \cap Clients = {}
  /\ Null \notin Workers \cup Clients
  /\ Term \notin Jobs
ASSUME FailAssumption == MayFail \in BOOLEAN
ASSUME BoundAssumption == MaxWork \in Nat \cup {Null}

VARIABLES
  work,        \* pool->work_queue
  threadQueue, \* pool->thread_queue: the threads still to be joined
  numThreads,  \* pool->num_threads
  poolLock,    \* the thread that owns pool->lock, or Null
  wpc,         \* where each worker stands in thread_loop
  unit,        \* its local work, or Null
  cpc,         \* where each client stands
  terms,       \* history: sentinels thread_pool_terminate enqueued, 2 for more
  lost,        \* history: what was to be enqueued and was refused for lack of memory
  unjoined     \* history: the threads whose push to thread_queue was refused

vars == <<work, threadQueue, numThreads, poolLock, wpc, unit, cpc, terms, lost,
          unjoined>>
workerVars == <<numThreads, poolLock, wpc, unit>>
clientVars == <<threadQueue, cpc, unjoined>>

\* late: enqueued after a sentinel of thread_pool_terminate.
Units == [job : Jobs \cup {Term}, late : BOOLEAN]

TypeOK ==
  /\ work \in Seq(Units)
  /\ threadQueue \in Seq(Workers)
  /\ numThreads \in 0..Cardinality(Workers)
  /\ poolLock \in Workers \cup Clients \cup {Null}
  /\ wpc \in [Workers ->
       {"unborn", "pop", "run", "term", "relay", "leave", "exited"}]
  /\ unit \in [Workers -> Units \cup {Null}]
  /\ cpc \in [Clients -> {"new", "use", "done", "free", "drain", "aborted", "freed"}]
  /\ terms \in 0..2
  /\ lost \in SUBSET (Jobs \cup {Term})
  /\ unjoined \in SUBSET Workers

Init ==
  /\ work = <<>>
  /\ threadQueue = <<>>
  /\ numThreads = Cardinality(Workers)
  /\ poolLock = Null
  /\ wpc = [w \in Workers |-> "unborn"]
  /\ unit = [w \in Workers |-> Null]
  /\ cpc = [c \in Clients |-> "new"]
  /\ terms = 0
  /\ lost = {}
  /\ unjoined = {}

GotoW(w, label) == wpc' = [wpc EXCEPT ![w] = label]
GotoC(c, label) == cpc' = [cpc EXCEPT ![c] = label]

\* The pool is there.  What a thread that nobody joined does with a pool that was
\* released is undefined, and after a failed assert there is no program.
Exists == cpc[Owner] \notin {"aborted", "freed"}

-----------------------------------------------------------------------------
(* Enqueuing: the one step other threads see of thread_pool_push. *)

Unit(j) == [job |-> j, late |-> terms > 0]

Refuse(j) ==
  /\ MayFail
  /\ lost' = lost \cup {j}
  /\ UNCHANGED work

\* thread_pool_push; every caller in the library ignores a refusal.
Push(j) ==
  \/ /\ work' = Append(work, Unit(j))
     /\ UNCHANGED lost
  \/ Refuse(j)

\* As if the sentinel jumped the queue.
TerminateInFront ==
  \/ /\ work' = <<Unit(Term)>> \o work
     /\ terms' = IF terms = 2 THEN 2 ELSE terms + 1
     /\ UNCHANGED lost
  \/ Refuse(Term) /\ UNCHANGED terms

\* thread_pool_terminate.
Terminate ==
  \/ /\ work' = Append(work, Unit(Term))
     /\ terms' = IF terms = 2 THEN 2 ELSE terms + 1
     /\ UNCHANGED lost
  \/ Refuse(Term) /\ UNCHANGED terms

-----------------------------------------------------------------------------
(* thread_loop *)

\* The pop of thread_loop, which waits for a unit; then the test of its
\* function against the sentinel.
Pop(w) ==
  /\ wpc[w] = "pop"
  /\ work # <<>>
  /\ unit' = [unit EXCEPT ![w] = Head(work)]
  /\ work' = Tail(work)
  /\ GotoW(w, IF Head(work).job = Term THEN "term" ELSE "run")
  /\ UNCHANGED <<numThreads, poolLock, clientVars, terms, lost>>

\* work->func has returned; the unit is released.
Finish(w) ==
  /\ wpc[w] = "run"
  /\ GotoW(w, "pop")
  /\ unit' = [unit EXCEPT ![w] = Null]

TermLock(w) ==
  /\ wpc[w] = "term"
  /\ poolLock = Null
  /\ poolLock' = w
  /\ GotoW(w, "relay")
  /\ UNCHANGED <<work, numThreads, unit, clientVars, terms, lost>>

\* As if the last worker also passed the sentinel on.
RelayAlways(w) ==
  /\ wpc[w] = "relay"
  /\ Push(Term)
  /\ GotoW(w, "leave")
  /\ UNCHANGED <<numThreads, poolLock, unit, clientVars, terms>>

\* As if the sentinel were not passed on.
RelayNever(w) ==
  /\ wpc[w] = "relay"
  /\ GotoW(w, "leave")
  /\ UNCHANGED <<work, numThreads, poolLock, unit, clientVars, terms, lost>>

\* As if a worker counted itself out here, and again when it leaves.
RelayCountsOut(w) ==
  /\ wpc[w] = "relay"
  /\ IF 1 < numThreads THEN Push(Term) ELSE UNCHANGED <<work, lost>>
  /\ numThreads' = numThreads - 1
  /\ GotoW(w, "leave")
  /\ UNCHANGED <<poolLock, unit, clientVars, terms>>

Relay(w) ==
  /\ wpc[w] = "relay"
  /\ IF 1 < numThreads THEN Push(Term) ELSE UNCHANGED <<work, lost>>
  /\ GotoW(w, "leave")
  /\ UNCHANGED <<numThreads, poolLock, unit, clientVars, terms>>

\* As if the count were the pool's size for ever.
LeaveUncounted(w) ==
  /\ wpc[w] = "leave"
  /\ poolLock' = Null
  /\ unit' = [unit EXCEPT ![w] = Null]
  /\ GotoW(w, "exited")
  /\ UNCHANGED <<work, numThreads, clientVars, terms, lost>>

\* As if a worker that leaves kept the lock.
LeaveLocked(w) ==
  /\ wpc[w] = "leave"
  /\ numThreads' = numThreads - 1
  /\ unit' = [unit EXCEPT ![w] = Null]
  /\ GotoW(w, "exited")
  /\ UNCHANGED <<work, poolLock, clientVars, terms, lost>>

Leave(w) ==
  /\ wpc[w] = "leave"
  /\ numThreads' = numThreads - 1
  /\ poolLock' = Null
  /\ unit' = [unit EXCEPT ![w] = Null]
  /\ GotoW(w, "exited")
  /\ UNCHANGED <<work, clientVars, terms, lost>>

-----------------------------------------------------------------------------
(* thread_pool_new and thread_pool_free, by the owner *)

\* One turn of the loop of thread_pool_new.  The thread runs even if the push
\* that enters it among those to be joined finds no memory.  Which of the
\* identical threads is created first makes no difference.
Create(w) ==
  /\ cpc[Owner] = "new"
  /\ wpc[w] = "unborn"
  /\ w = CHOOSE v \in Workers : wpc[v] = "unborn"
  /\ GotoW(w, "pop")
  /\ \/ /\ threadQueue' = Append(threadQueue, w)
        /\ UNCHANGED unjoined
     \/ /\ MayFail
        /\ unjoined' = unjoined \cup {w}
        /\ UNCHANGED threadQueue
  /\ UNCHANGED <<work, numThreads, poolLock, unit, cpc, terms, lost>>

\* thread_pool_new returns, and its result is shared with the other clients.
NewReturns ==
  /\ cpc[Owner] = "new"
  /\ \A w \in Workers : wpc[w] # "unborn"
  /\ cpc' = [c \in Clients |-> "use"]
  /\ UNCHANGED <<work, threadQueue, workerVars, terms, lost, unjoined>>

\* The owner frees a pool that no other client will call again; it need not
\* have been terminated, for a unit may do that.
FreeCalled ==
  /\ cpc[Owner] = "use"
  /\ \A c \in Clients \ {Owner} : cpc[c] = "done"
  /\ GotoC(Owner, "free")
  /\ UNCHANGED <<work, threadQueue, workerVars, terms, lost, unjoined>>

\* One turn of the joining loop: pthread_join waits for the thread to exit.
Join ==
  /\ cpc[Owner] = "free"
  /\ threadQueue # <<>>
  /\ wpc[Head(threadQueue)] = "exited"
  /\ threadQueue' = Tail(threadQueue)
  /\ UNCHANGED <<work, workerVars, cpc, terms, lost, unjoined>>

\* As if thread_pool_free joined only the first thread.
FreeAssertEarly ==
  /\ cpc[Owner] = "free"
  /\ Len(threadQueue) < Cardinality(Workers)
  /\ GotoC(Owner, IF work = <<>> THEN "drain" ELSE "aborted")
  /\ UNCHANGED <<work, threadQueue, workerVars, terms, lost, unjoined>>

\* Nobody is left to be joined: the assert on work_queue's count.
FreeAssert ==
  /\ cpc[Owner] = "free"
  /\ threadQueue = <<>>
  /\ GotoC(Owner, IF work = <<>> THEN "drain" ELSE "aborted")
  /\ UNCHANGED <<work, threadQueue, workerVars, terms, lost, unjoined>>

\* async_queue_free waits for the queue to drain, then everything is released.
FreeReturns ==
  /\ cpc[Owner] = "drain"
  /\ work = <<>>
  /\ GotoC(Owner, "freed")
  /\ UNCHANGED <<work, threadQueue, workerVars, terms, lost, unjoined>>

-----------------------------------------------------------------------------
(* Any use of the pool: what clients call, and what units do. *)

Room == MaxWork # Null => Len(work) < MaxWork

ClientPush(c, j) ==
  /\ cpc[c] = "use" /\ Room
  /\ Push(j)
  /\ UNCHANGED <<workerVars, clientVars, terms>>

ClientTerminate(c) ==
  /\ cpc[c] = "use" /\ Room
  /\ Terminate
  /\ UNCHANGED <<workerVars, clientVars>>

ClientDone(c) ==
  /\ cpc[c] = "use" /\ c # Owner
  /\ GotoC(c, "done")
  /\ UNCHANGED <<work, threadQueue, workerVars, terms, lost, unjoined>>

JobPush(w, j) ==
  /\ Exists /\ wpc[w] = "run" /\ Room
  /\ Push(j)
  /\ UNCHANGED <<workerVars, clientVars, terms>>

JobTerminate(w) ==
  /\ Exists /\ wpc[w] = "run" /\ Room
  /\ Terminate
  /\ UNCHANGED <<workerVars, clientVars>>

JobReturn(w) ==
  /\ Finish(w)
  /\ UNCHANGED <<work, numThreads, poolLock, clientVars, terms, lost>>

WorkerStep(w) ==
  /\ Exists
  /\ Pop(w) \/ TermLock(w) \/ Relay(w) \/ Leave(w) \/ JobReturn(w)

OwnerStep ==
  \/ \E w \in Workers : Create(w)
  \/ NewReturns \/ Join \/ FreeAssert \/ FreeReturns

Next ==
  \/ \E w \in Workers :
       \/ WorkerStep(w)
       \/ \E j \in Jobs : JobPush(w, j)
       \/ JobTerminate(w)
  \/ OwnerStep
  \/ FreeCalled
  \/ \E c \in Clients :
       \/ \E j \in Jobs : ClientPush(c, j)
       \/ ClientTerminate(c) \/ ClientDone(c)

Spec == Init /\ [][Next]_vars

\* Workers that can run do, units return, and the owner goes on with a call it
\* is in.  Nobody has to push, terminate or free.
FairSpec ==
  /\ Spec
  /\ \A w \in Workers : WF_vars(WorkerStep(w))
  /\ WF_vars(OwnerStep)

-----------------------------------------------------------------------------
\* Workers that will still take a unit or pass a sentinel on.
Serving == {w \in Workers : wpc[w] \notin {"leave", "exited"}}

\* Sentinels: those enqueued, and those a worker has dequeued to pass on.
Sentinels ==
  Cardinality({i \in DOMAIN work : work[i].job = Term})
  + Cardinality({w \in Workers : wpc[w] \in {"term", "relay"}})

AllExited == \A w \in Workers : wpc[w] = "exited"

\* num_threads counts the threads that have not left the pool, so the last one
\* is recognised as such and the size_t never wraps below zero
\* (thread_pool.c:64-67).
NumThreadsAccurate == numThreads = Cardinality({w \in Workers : wpc[w] # "exited"})

\* After one thread_pool_terminate there is exactly one sentinel on its way for
\* as long as some worker is to be stopped, and none when there is none: no
\* worker is forgotten, and none is left behind in the queue.
OneSentinelOnItsWay ==
  terms = 1 /\ Term \notin lost => Sentinels = (IF Serving = {} THEN 0 ELSE 1)

\* Once any worker has met a sentinel, every unit pushed before the first
\* terminate has been taken up: shutting down "once all of the work has been
\* finished" (thread_pool.h:68) abandons nothing that was already queued.
NothingEarlyAbandoned ==
  (\E w \in Workers : wpc[w] \in {"term", "relay", "leave", "exited"})
    => \A i \in DOMAIN work : work[i].late

\* The asserts of thread_pool_free (thread_pool.c:112) fail only on a pool
\* that was terminated twice or given work after it was terminated, or beside a
\* thread that is still there because nobody could join it (thread_pool.c:96).
AbortOnlyByLateUse ==
  cpc[Owner] = "aborted" =>
    \/ terms = 2
    \/ \E i \in DOMAIN work : work[i].job # Term
    \/ \E w \in unjoined : wpc[w] # "exited"

\* A freed pool is quiet: no unit is left, and every thread was joined, so that
\* nobody owns the destroyed mutex (thread_pool_free "will block until all of the
\* threads have exited and there is no more work to be done"), except the threads
\* that could not be entered among those to be joined (thread_pool.c:96).
FreedIsQuiet ==
  cpc[Owner] = "freed" =>
    /\ work = <<>>
    /\ {w \in Workers : wpc[w] # "exited"} \subseteq unjoined
    /\ poolLock \in unjoined \cup {Null}

\* A terminated pool stops: every worker exits, unless the memory to pass the
\* sentinel on was refused, or the pool was released under a worker that nobody
\* could join.
TerminateStops == terms > 0 ~> AllExited \/ Term \in lost \/ ~Exists

\* Freeing a terminated pool returns, or fails its assertion.  It may wait for
\* ever for work that a thread nobody could join pushed behind the assertion.
FreeEnds == cpc[Owner] = "free" /\ terms > 0
              ~> \/ cpc[Owner] \in {"freed", "aborted"}
                 \/ Term \in lost
                 \/ cpc[Owner] = "drain" /\ unjoined # {}

\* thread_pool.h:68: "No work pushed after this call will be done."
NoLateWorkDone == \A w \in Workers : wpc[w] = "run" => ~unit[w].late
=============================================================================
