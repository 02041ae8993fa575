# A TLA+ model of loomlib

loomlib is a C library of threading structures on top of POSIX threads: queues,
a thread pool, and two structures (pipeline, tree) that run on the pool. It
holds no global state. Everything that happens in it happens in calls made by the
user's threads, in the worker threads of a pool, and in the user's routines that
these workers run.

This directory models it in TLA+, checks the models with TLC on small instances
and proves theorems about them with TLAPS. Paths below are relative to the
repository; line numbers are those of the modelled commit.

## Inventory

| Component | State | Operations | Talks to |
|---|---|---|---|
| queue (`src/queue.c`) | a singly linked ring of nodes, entered at the newest | push, pop, count | called by async_queue under its lock |
| async_queue (`src/async_queue.c`) | the ring, `size`, a mutex, conditions `nonempty` and `is_empty` | new, free, push, pop (waiting or not), count | called by thread_pool and by users |
| thread_pool (`src/thread_pool.c`) | `work_queue`, `thread_queue` (two async_queues), `num_threads`, a mutex | new, free, push, terminate, barrier_wait; `thread_loop` in each worker | called by pipeline, tree, users; units push and terminate from inside workers |
| pipeline (`src/pipeline.c`) | the routines, `num_pumps`, `active_lines`, `terminated`, a mutex, its pool | new, free, terminate, add_inlet, add_outlet, add_pump, execute; `pipeline_loop` as the pool's unit | thread_pool, the user's routines |
| tree (`src/tree.c`) | `root`, vertices with children, `active_lines`, `terminated`, a mutex per tree and per vertex | new, free, terminate, new_vertice, free_vertice, add_root, add_child, execute; `tree_loop` as the pool's unit | thread_pool, async_list, the user's routines |
| async_list (`src/async_list.c`) | an array that doubles, `count`, `size`, a mutex | new, add, get, count, free | tree |
| alpha_queue | a list with a dummy node, no locks | new, free, push, pop | users |
| beta_queue | the same with a lock at each end | new, free, push, pop | users, `lock.c` |
| gamma_queue | the same and a condition `nonempty` | new, free, push, pop (waiting or not) | users, `lock.c` |
| cache (`src/cache.c`) | a ring of free pointers, `head` and `tail` counters, a lock at each end | init, destroy, alloc, free | users, `lock.c` |
| barrier (`src/barrier.c`) | `count`, `tripped`, a lock, a condition | init, destroy, wait | thread_pool_barrier_wait |
| lock (`src/lock.c`) | wrappers that pick mutexes or spin locks at build time | | alpha/beta/gamma queues, cache, barrier |

What is hard in it, and what makes each part correct:

* **async_queue**: condition variables and a free that overlaps the last pops.
  Correct when it is a FIFO whose calls take effect atomically, no wakeup is lost,
  and nothing is destroyed while a thread is inside.
* **thread_pool**: one sentinel has to stop all workers by travelling through the
  queue it shares with the work. Correct when every worker stops, no unit queued
  before the terminate is abandoned, and free finds the pool quiet.
* **pipeline**: a counter of lines under way decides when the pool is terminated,
  and the only inlet stage restarts itself. Correct when lines are counted
  exactly, every product passes the pumps in order and leaves by the outlet, and the
  pipeline ends.
* **tree**: the same counter over a tree of vertices, and locks that error paths
  must give back.
* **node queues**: the two ends meet at the dummy node, and gamma's broadcast is
  made outside the lock its waiters hold.
* **cache**: a slot is looked at under two different locks; counters wrap.
* **barrier**: counts arrivals, reused, with pool->lock held around it.

`PROJECT.json` lists every hazard at its line under `hazards`, with the properties
that would notice it going wrong.

## Modules

| Module | Models | Kind |
|---|---|---|
| `BlockingFifo` | what `include/async_queue.h` promises | abstract specification |
| `AsyncQueue` | `async_queue.c` | component |
| `AsyncQueueProofs` | | proofs about `AsyncQueue` |
| `ThreadPool` | `thread_pool.c` without the barrier | component |
| `ThreadPoolProofs` | | proofs about `ThreadPool` |
| `Pipeline` | `pipeline.c`, on an instance of `ThreadPool` | composition |
| `PipelineProofs` | | proofs about `Pipeline` |
| `AsyncList` | `async_list.c`: what its calls do to count and size | operators |
| `Tree` | `tree.c`, on an instance of `ThreadPool` and the lists of `AsyncList` | composition |
| `TreeProofs` | | proofs about `Tree` |
| `Lock` | `lock.c` | operators |
| `NodeQueue` | the list the alpha, beta and gamma queues share, access by access | operators |
| `AlphaQueue` | `alpha_queue.c`: the list without locks | component |
| `BetaQueue` | `beta_queue.c`: the list with a lock at each end | component |
| `GammaQueue` | `gamma_queue.c`: those steps, waits and the broadcast | component |
| `NodeQueueProofs` | | proofs about `GammaQueue`, `BetaQueue` and `AlphaQueue` |
| `Cache` | `cache.c` | component |
| `CacheProofs` | | proofs about `Cache` |
| `RingQueue` | `queue.c` | component |
| `RingQueueProofs` | | proofs about `RingQueue` |
| `Counting` | | lemmas the proofs share: counting the members of a queue and of a set |
| `MCAsyncQueue`, `MCThreadPool`, `MCPipeline`, `MCTree`, `MCAlphaQueue`, `MCGammaQueue`, `MCCache`, `MCRingQueue` | | instances for TLC |

### AsyncQueue

The variables are the fields of `struct async_queue` (`queue`, `size`, `lock`),
the local state of each thread's call (`pc`, `op`, `arg`, `rv`), `destroyed`, and
a bounded count of calls. A condition variable has no state of its own: a thread
parked on it is one whose `pc` is `wait_nonempty` or `wait_is_empty`.

A call is `Call`, `Lock`, a body, for push and pop a signal, `Unlock`, and for a
free `Destroy`. Under the lock the code is cut only where another thread can tell:
at `pthread_cond_wait`, which gives the lock up (`PopPark`, `FreeBody`), and at the
broadcasts (`PushSignal`, `PopSignal`), which change where other threads stand. A
woken thread goes back to `lock` and looks at its condition again, as the while
loops do. `SpuriousWake` is what POSIX allows. `PushBody` may find no memory.

`MayCall` is the contract. The header forbids calls after a free but a free waits
for the queue to drain, so pops may overlap it. The model lets one thread free,
when nobody pushes or counts, and pops overlap it as long as each has an item
there for it. The check `DestroyedUnused` is about this overlap.

### ThreadPool

`work` and `threadQueue` are the two async_queues. A push or pop of theirs is one
step, which `AsyncQueue` implementing `BlockingFifo` justifies: a call takes effect
in one step between its start and its end. `wpc` is the place of each worker in
`thread_loop`: waiting in `pop`, inside `run`, and the three steps of the sentinel
branch, `term` (before the lock), `relay` (`1 < num_threads` and the push), `leave`
(decrement, unlock, exit). `cpc` is the place of each client; the owner creates and
frees. A unit may do what a client may: `JobPush`, `JobTerminate`, `JobReturn`.
`terms`, `lost`, `unjoined` and the `late` mark of a unit are history: how many sentinels
`thread_pool_terminate` enqueued, what was to be enqueued and was refused, which threads
could not be entered in `thread_queue`, whether a unit was pushed after a terminate.

The code looks at the result of no push. `Push` may be refused wherever it is made, and so
may the push of `thread_pool_new` that enters a new thread in `thread_queue`
(`thread_pool.c:96`, in `Create`): such a thread runs and is never joined. `thread_pool_free`
is `FreeCalled`, one `Join` for each thread in the queue, `FreeAssert` (line 112, which ends
the program, `aborted`, if work is left) and `FreeReturns`, which waits in `drain` as
`async_queue_free` does, since a thread that was not joined may have pushed behind the
assertion. What such a thread does with a pool that was released, or after the program
ended, is undefined and not modelled: nothing moves in the pool any more (`Exists`).

### Pipeline

`Pipeline` has the variables of the pool and instantiates `ThreadPool` with one client;
what a unit does is `pipeline_loop` instead of anything. `jpc` is the place in it. A
section between `pthread_mutex_lock` and `unlock` of `pipe->lock` is one step
(`InletEnter`, `Retire`): such a section shares with the outside only the one push of
`thread_pool_terminate`. `Execute` may be called any number of times (`executes` counts),
before and after the pool has been terminated, as nothing in `pipeline.c:254-269` or the
header forbids it; each call puts an inlet stage of its own in the queue. The user's inlet
either makes the next product or returns NULL, for good or not; products are numbers and
keep them through the pumps so that `trail` can record which stages each has passed.
Adding routines after `pipeline_execute` is outside what the header describes and not
modelled.

### Tree and AsyncList

`Tree` has the variables of the pool and instantiates `ThreadPool` with one client, the
thread that creates and frees the tree; the only kind of unit is that of the root. `jpc`
is the place of a worker in `tree_loop`. The users call `AddRoot`, `AddChildLock` (to the
list, under the vertex's lock) and `AddChild` (the `async_list_add`), `Execute` and
`TreeTerminate` while main is in no `tree_free`; what main does is `FreeCalled` and the
`OwnerStep` of the pool, and `FreeVertice` afterwards.

The error paths are part of the handlers: a second `tree_add_root` and a `tree_add_child`
without memory return with the lock still held, so `treeLock` or `vlock` stays with the
user. A failed `realloc` sets `aborted`, and then nothing moves any more.

`tree_free` destroys `tree->lock` before it joins the workers that lock it. POSIX leaves
the effect undefined; `lockWorks` is the choice between a destroyed mutex that still works
and one that refuses every call, which `tree_loop` does not look at. In the second case two
lines may be in the sections of the lock at once, so the load and the store of
`active_lines` are steps of their own (`Enter` and `CountIn`, `LoadLines` and `CountOut`).
Taking the lock is one step with the first look under it (`Lock`): a lock that works lets
nobody come between the two, and one that does not is no step. `active_lines` is reduced
to `SizeValues` values when it is stored, as a `size_t` is.

`AsyncList` has the calls of `async_list.c` as operators on a record of `count` and `size`.
Each call holds the list's own lock from start to end and `tree.c` is the only caller. The
array's entries are left out: `async_list_get` asserts the opposite of what it means
(`async_list.c:70`), so a call for an index that exists ends the program and no call that
returns reads an entry. For the same reason `tree_loop` never pushes the unit of a child:
`Walk` finds a list without members, or ends the program at the first. One root vertex is all
that ever runs.

### Lock

The operators of `Lock` are the wrappers of `lock.c` in the build with mutexes. A lock is a
variable of the caller, its owner or `Null`; a condition has no state, a parked thread being
one whose label is `parked`. `BetaQueue`, `GammaQueue` and `Cache` take theirs from it.
`Tree`, `ThreadPool` and `AsyncQueue` use pthreads directly, as the code does.

### NodeQueue, AlphaQueue, BetaQueue, GammaQueue

The three queues have the same list: a dummy node at `head`, `tail` at the last node
or, between the two stores of a push, at the one before. `NodeQueue` has the memory
(`next`, `item`, and `heap`, the nodes that are allocated) and one operator per access:
`Alloc`, `StoreItem`, `StoreLink`, `StoreTail`; `LookEmpty`/`LookFull`, `Take`, `FreeTemp`;
`FreeNode`, `FreeQueue`. Operators that lead somewhere take the label as a parameter. A node
that was freed can be handed out by the next `calloc`, and it is, since memory is
small. What a freed node holds is set to NULL, because any value would do: the
invariant `NoUseAfterFree` says that nobody reads it. `list` and `queued` are history:
the linked nodes and the items not yet popped, in order.

The item, link and tail stores of a push wait in `todo`. With `Ordered` they are made in
program order. Without it the link may come before the item, which the C code does
not rule out: the accesses race with those of the pop, in alpha outright and in beta
and gamma because the two ends have different locks. The passing runs assume `Ordered`
(x86 with a compiler that keeps the two stores apart); `alpha_weak` does not.

`AlphaQueue` lets one thread push and one pop. `BetaQueue` adds `headLock` and `tailLock`
around the same accesses; a push stores the item in its node before it takes `tail_lock`
(`beta_queue.c:96`, `gamma_queue.c:98`) and the link and the tail under it. `GammaQueue`
adds to these `wait` (after the look, under head_lock), `Wait` (parks and gives up the
lock), `SpuriousWake`, and `Broadcast`, after the unlock. `BetaSpec` is `beta_queue.c` by
itself: every pop is a `try_pop`, and a push returns from its unlock. No run has it as its
specification, since its steps are those of `gamma_queue` except for that return; it is
proved about. A free starts when no other call is under way and nothing is called
afterwards.

Calls refine `BlockingFifo`: a push takes effect at `StoreLink`, a pop at `Take` or
`LookEmpty`. A free is outside that interface.

### Cache

`table`, `head`, `tail` and the locks are the fields; `W` is the number of values of a
`size_t`. A call is lock, a look at the slot, the change (`Take`, `Put`), unlock, and then
the user's allocator or free routine (`Alloc`, `Release`) where the code calls it. `live`
and `held` are the outside: what the allocator gave out, and what the users have in
hand; any thread may free what another allocated, once. `cache_free (NULL)` does
nothing and is left out.

### RingQueue

`queue.c` by itself, one step per call, since `async_queue` makes these calls under its
lock. `last` records the call and its result. `ActsAsSequence` is the link to
`AsyncQueue`: pushes append, pops take the oldest, failed pushes change nothing.

## Runs

| Run | Question | Instance | Distinct states |
|---|---|---|---|
| `async_queue` | is the locked queue a FIFO that never sleeps through a wakeup and is destroyed only when unused? | 3 threads, 2 items, 2 calls each | 178 625 |
| `thread_pool` | does one sentinel stop all workers and abandon nothing early? | 3 workers, 2 clients, one kind of job, queue of 3, refused pushes of units, sentinels and threads | 1 043 915 |
| `pipeline` | are lines counted and ordered, is all that was made delivered, is there one inlet stage per execute, and does the pipeline end? | 2 workers, up to 1 pump, up to 3 products, up to 2 executes | 349 336 |
| `tree` | are lines counted while the lock works, are lists never overrun, and does the tree end? | 2 workers, 2 users, 1 vertex, 2 lines, 3 children, size_t of 5 values | 1 106 659 |
| `alpha_queue` | is the list a FIFO for one pusher and one popper without locks? | 4 nodes, 2 items (one NULL), calls unbounded | 30 332 |
| `gamma_queue` | and for any threads under two locks, with waits; do pushes go on whatever pops do? | 2 threads, 2 items, 3 nodes, calls unbounded | 95 334 |
| `cache` | is every object in one place while the counters wrap? | 3 threads, 4 objects, 3 slots, 3-bit counters | 12 751 (up to symmetry) |
| `ring_queue` | is the ring the sequence `AsyncQueue` takes it for? | 4 nodes, 2 items | 3 030 |
| `late_work` | is no work pushed after terminate done? (violated) | 2 workers, 1 client | |
| `stranded_work` | does pipeline_free find an empty work queue? (violated) | 2 workers, up to 1 pump, up to 2 products | |
| `alpha_weak` | is it still a FIFO if stores may be reordered? (violated) | 2 nodes | |
| `gamma_sleep` | does a waiting pop sleep only while there is no item? (violated) | 2 threads, 2 nodes | |

The properties, by run, are stated in the modules with the behaviour they are
about. In short:

* `async_queue`: `TypeOK`, `NoLostWakeup`, `DestroyedUnused`, `ImplementsFifo` (the
  refinement of `BlockingFifo`), `ItemsReachPops` and `DrainedFreeReturns` (liveness).
* `thread_pool`: `TypeOK`, `NumThreadsAccurate`, `OneSentinelOnItsWay`,
  `NothingEarlyAbandoned`, `AbortOnlyByLateUse`, `FreedIsQuiet`, `TerminateStops` and
  `FreeEnds` (liveness).
* `pipeline`: `TypeOK`, `ActiveLinesAccurate`, `OneInletStagePerExecute`, `StagesInOrder`,
  `FreedDelivered`, `StartedPipelineStops` (liveness).
* `tree`: `TypeOK`, `ActiveLinesAccurate`, `ListsSound`, `OneLineFreesCleanly`,
  `StartedTreeStops` (liveness).
* `alpha_queue` and `gamma_queue`: `ListIntact`, `NoUseAfterFree`, `NothingLeaked`,
  `ImplementsFifo`; gamma also `PushesGoOn` (liveness, under fairness for pushes alone).
* `cache`: `TypeOK`, `RingIntact`, `OneHolder`, `GivenUpOnlyWhenFull`.
* `ring_queue`: `RingIntact`, `ActsAsSequence`.

**Bounds.** Three threads on the queue is the least with two parked pops, or a parked pop
and a parked free, beside a thread that signals; two calls each let a thread come back to
a queue others still use. Three workers is the least where the sentinel is passed on by a
worker that itself got it second hand; a queue of three holds an early unit, a sentinel
and a late unit, and `MaxWork` bounds only what clients and units add, not the relay. In
the pipeline the limit on lines is the number of workers plus one, so two workers reach it
with three products, and one pump makes three kinds of stage; two calls of
`pipeline_execute` are the least with two inlet stages. No push is refused in this run
(with refusals the same properties held for two products, an instance of 1.2 million
states that is too slow to keep); refused pushes are in `thread_pool` and `tree`, and the
theorems cover them for the pipeline. In the tree two lines are the least that can lose an
update of `active_lines` under the destroyed lock; `size_t` has one value more than the
limit needs, so that a count that wrapped below zero is none that `ActiveLinesAccurate`
admits (`TypeOK` would not see it, the count being reduced when it is stored); three
children make the array double twice; and one vertex is enough because no other than the
root is ever run. In the node queues the memory is the only bound: `calloc` fails when it
is used up, as it may at any time, and calls go on for ever. Under the locks of gamma two
threads are at the same end or at one each, and two items show their order; a third thread
with them makes 2.6 million states, and the theorems hold for any number. With three nodes
a freed dummy is handed out again while `tail` still points to it. The cache has one
object more than slots, and 8 counter values over 3 slots so that counters wrap between
slots. `MaxCalls`, `MaxWork`, `MaxPumps`, `MaxProducts`, `MaxExecutes`, `MaxLines`,
`MaxChildren`, and the sizes of `Vertices`, `Nodes` and `Objects` are all the bounds there
are.

**Fairness.** A thread that can take a step of its own eventually does: weak fairness per
thread for `Step`, per worker for `WorkerStep`, and for the owner inside a call (in `Tree`
too, where nobody is obliged to call anything). It is what a scheduler that starves nobody
gives; no strong fairness is assumed of the mutexes. Starting a call is never fair: nobody
is obliged to push, pop, terminate or free. Users' units return and the inlet dries up
after `MaxProducts`. In `AsyncQueue` spurious wakeups are assumed to stop eventually,
because a thread that wakes for nothing for ever could keep the unfair mutex from the
others. In `GammaQueue` only the steps inside a push are fair: `PushesGoOn` is about
pushes whose fellow pops may have stopped with head_lock held.

**Deadlock** is not checked: a pop waits for ever on a queue nobody fills, and a
pool nobody terminates has its workers wait for ever. The liveness properties say
which of those waits must end.

### What the violated runs show

* `late_work`: `thread_pool.h` says that no work pushed after `thread_pool_terminate`
  will be done. A sentinel stops only the worker that took it: a second worker runs what is
  queued behind it while the first has not passed it on yet (the shortest trace), or after
  the first has enqueued it again *behind* whatever arrived in the meantime. With a single
  worker the promise holds.
* `stranded_work`: a line is counted when its inlet stage is entered, not when that
  stage is pushed. If the first product reaches the outlet before the second inlet
  stage got the lock, `active_lines` goes 1, 0 and the pool is terminated while the
  inlet has products left. The pipeline goes on for as long as some worker lives and
  terminates the pool again; what is left over trips the assertion of
  `thread_pool_free`.
* `gamma_sleep`: a pop that has looked and not yet parked holds head_lock, which a push
  never takes; the push links, broadcasts to nobody, and the pop parks beside the
  item. The next push wakes it, a last push does not.
* `alpha_weak`: see `Ordered` above; a pop returns NULL where an item was pushed.

`findings` in `PROJECT.json` lists these and the other disagreements between code
and documentation met while reading (threads that are never joined when the push to
`thread_queue` is refused, inverted assertion in `async_list_get`, the
uninitialised barrier, the barrier that never trips, the off-by-one `queue_count`,
slots that meet when the cache's counters wrap, `tree_free` destroying a lock in use,
locks kept on error paths, `pipeline_terminate` before the first inlet stage, and lock and
`realloc` calls inside `assert`, which a build with NDEBUG leaves out). What keeps a tree from
ending is named in `StartedTreeStops`.

## Proofs

The theorems hold for every set of threads, items, nodes, workers, clients, jobs and
vertices, every number of pumps, products, lines and children, every size of a cache, and
every width of `size_t` that exceeds it. The assumptions are the named ones of the modules:
finite sets of workers, nodes and, where something counts them, threads; the owner is a
client, workers and clients are disjoint, the sentinel is not a job, `Null` is no vertex,
list, item, thread or node, nor a push's result, a `size_t` can hold the limit on lines, bounds
are natural numbers. The theorems of `NodeQueueProofs` have two hypotheses besides: `Ordered`,
for all of them, without which run `alpha_weak` refutes the refinement, and for
`AlphaQueue` that there are two threads (`Pair`), which is its `PairAssumption`.
`Counting` has what several proofs need: how often members of a set occur
in a queue (`Count`), before and after an append and a pop, and how the size of a
set of threads changes when one of them moves.

* `AsyncQueueProofs`. `IInv` is inductive: `TypeOK`, `LockInv` (the owner of the lock is
  exactly the thread between its lock and unlock), `CallInv` (labels belong to calls),
  `SizeInv` (`size` is the length of the ring) and `NoLostWakeup`. The last is the point
  and needs the others: a thread that changes the ring keeps the lock until it has
  signalled, and a pop signals when `size` is zero, which is the emptiness `is_empty` is
  about only because of `SizeInv`. Theorems `TypeCorrect` and `NoLostWakeupCorrect`.
  `ContractInv` adds what the callers' contract keeps: beside a free there are only pops,
  no more of them than items (`Overlap`), and from the moment a free has found the queue
  drained every other thread is idle (`Alone`). Theorems `DestroyedUnusedCorrect` and
  `Refinement`: every behaviour of `AsyncQueue` is one of `BlockingFifo`, each body step
  being the step in which the call takes effect.
* `ThreadPoolProofs`. `CountInv`: types and `num_threads` together, since the type of
  `num_threads` (it never goes below zero) needs that it counts the threads that have not
  left. `EarlyInv`: what stands behind a sentinel is late (`BehindSentinel`) and a
  sentinel exists only after a terminate (`SentinelSent`), which make
  `NothingEarlyAbandoned` inductive. `QuietInv`: every thread that was created and has not
  exited is still in the thread queue or could not be entered in it (`JoinInv`), that
  queue is empty from the assertion on (`DrainInv`), the lock belongs to a worker in its
  critical section (`PoolLockInv`), and nobody but the owner uses a pool that is being
  freed (`ClientsInv`); from these `FreedIsQuietCorrect`. `SentinelInv` counts the
  sentinels queued and those that workers hold: none before a terminate, at least as many
  as are due after any number of terminates, and no more than that after one; due is one,
  until the last worker has kept it. `NumThreadsAccurate` is what makes the last worker
  know that it is the last. From it `OneSentinelCorrect`, and, since the owner's assertion
  is evaluated when every thread that could be joined has exited,
  `AbortOnlyByLateUseCorrect`, which is inductive beside these. With `NewInv` (nobody
  calls into a pool before it is complete) it also gives the safety half of
  `TerminateStops`, `NeverStuckCorrect`: while a thread of a terminated pool has not
  exited, the pool is there and no sentinel was refused, the next step of `thread_loop` is
  one that some thread can make.
* `PipelineProofs`. `Shape` (the pool's `CountInv`, types, and that a worker is inside
  `pipeline_loop` only while it runs a unit) makes every step of the pipeline one of its
  pool: `RunsOnPool`, `Spec => PP!Spec`, where `PP` is an instance of `ThreadPoolProofs`.
  Whatever is proved of `ThreadPool` is thereby proved of the pipeline's pool;
  `PoolCountsCorrect` is the case of `NumThreadsAccurate`. `CountsInv` counts lines in two
  places, as units in the queue between two stages and as workers that hold one: together
  they are `active_lines`, or at most that once a push was refused (`LinesInv`), and there
  are no more inlet stages in both places together than calls of `pipeline_execute`
  (`InletInv`). From these `ActiveLinesCorrect`, `OneInletStagePerExecuteCorrect` and
  `TypeCorrect`. `OrderInv`: each product is in one unit or at one worker until it has
  been delivered, and only then in none unless memory was refused (`OneToken`), and the
  stage that place stands for is the one after the last in the product's `trail`
  (`QueueAgrees`, `WorkersAgree`). The property alone, that the trail is in order, says
  nothing of where the product is and is not inductive. Theorem `StagesInOrderCorrect`.
  `FreedDeliveredCorrect` is the same invariant at the end: in a freed pool no thread runs
  and the queue is empty (`FreedIsQuiet` of the pool), so that no product is anywhere, and
  a product that is nowhere was delivered. `BuiltInv`: a pipeline that passed the
  assertions of `pipeline_execute` passes them again. `StartedInv`: once the inlet was
  called there is a line, or the line that was the last has terminated the pool. With
  `LinesInv` and the pool's `NeverStuck` this is the safety half of
  `StartedPipelineStops`, `StartedNeverStuckCorrect`.
* `TreeProofs`. `RunsOnPool` as for the pipeline. `TokenInv`: each `tree_execute` puts one
  unit on its way, and a tree with one line has ended it when the pool has been
  terminated; with `AbortOnlyByLateUse` of the pool this gives
  `OneLineFreesCleanlyCorrect`, whatever the destroyed lock does; what is left is the
  thread that nobody could join. `ChildrenInv`: lists are sound and a user that is adding
  a child finds the list there (`ListsSoundCorrect`). `LockInv`: while the lock works it
  belongs to exactly the worker in a section of it, what that worker has loaded is still
  `active_lines` (`ExclusionInv`), and `active_lines` is the number of workers in a line
  (`LinesInv`): `ActiveLinesCorrect` and `TypeCorrect`.
* `CacheProofs`. `PlacesInv`: types, each lock belongs to the thread in its section and
  what that thread saw in the slot still holds whatever is done under the other lock
  (`OwnersInv`), labels go with pointers (`HandsInv`), and whoever destroys the cache is
  alone (`AloneInv`). `RingInv` is `RingIntact` with the part of it that lasts while the
  cache is destroyed (`SlotsInv`); `HolderInv` is `OneHolder`. They are proved together: a
  pointer that is put is in no slot yet because its object is in one place. `Window`,
  `Grows` and `Shrinks` are the arithmetic of counters that wrap, `Pigeons` says that
  counters with slots of their own are no more than the slots, and `Apart` that counters
  which share one are a multiple of `nmemb` apart, from which
  `GivenUpOnlyWhenFullCorrect`, an action property.

* `NodeQueueProofs`. The memory is a graph of pointers; the history variable `list` says
  which path in it is the queue, so that no proof has to follow pointers by recursion.
  `NodeInv` is: types; labels, locals and calls of a thread go together (`CallsInv`); who
  frees is alone (`FreeInv`); `list` is a path from `head` without repetition whose items
  are `queued` (`ShapeInv`); every allocated node is in it or in one thread's hands
  (`HoldInv`). Each access keeps it, given that one thread at most is at each end
  (`Exclusive`). The queues differ in why that is so: under gamma's and beta's locks because
  the owner of each is exactly the thread in its section (`LocksInv`), in alpha because of
  who may call what (`Roles`). From it `ListIntact`, `NoUseAfterFree`, `NothingLeaked` and,
  step by step, the refinement of `BlockingFifo` for each of the three. In beta, in
  addition, no pop waits (`NobodyWaits`), so that a push has nobody to signal.
* `RingQueueProofs`. `RingInv`: there is a sequence of nodes, oldest first, whose neighbours
  `prev` links and whose members are all the allocated nodes (`IsRing`). `RingIntact` and
  `Contents` speak of `Along`, which is defined by recursion over the number of steps; that
  it runs through the sequence is shown without induction, by the least number at which
  two walks along `prev` would differ (`Least`, `WalksAgree`) and a walk in closed form
  (`WalkExists`). Theorems `RingIntactCorrect` and, an action property,
  `ActsAsSequenceCorrect`: what `AsyncQueue` takes the ring for.

The inductive invariants of the pool, the pipeline, the tree, the node queues and the ring
were checked by TLC on the instances of the runs before they were proved.

Only model-checked: the liveness properties `ItemsReachPops`, `DrainedFreeReturns`,
`TerminateStops`, `FreeEnds`, `StartedPipelineStops`, `StartedTreeStops` and `PushesGoOn`
(fairness and `ENABLED` are outside what TLAPS proves). Of `TerminateStops` and
`StartedPipelineStops` the safety half is proved: some thread always has a step to make
until all have exited (`NeverStuck`, `StartedNeverStuck`); that these steps come to an end
is not. Every safety property of the passing runs, action properties and refinements
included, is proved.

## Not modelled, and why

* `barrier.c` and `thread_pool_barrier_wait`. The barrier has no start state the program
  defines: `loomlib_barrier_init` stores the new barrier in its own parameter, so the caller
  keeps the pointer it had, and the only caller's is an uninitialised local
  (`thread_pool.c:153-155`). Everything after it reads, locks and frees what that local
  happens to point to; a model would have to invent the memory it describes. That
  `loomlib_barrier_wait` never trips (`barrier.c:57`) is plain from its three lines.
* The spin lock alternative of `lock.c`, which the build does not choose, and a build with
  NDEBUG, in which the locks of `lock.c` do nothing. The mutants of the node queues' and the
  cache's properties show what that breaks.
* The entries of `async_list`, and the children of a tree: see `Tree` above. `tree_free`
  does not free vertices, and calls on a tree that was freed are outside what the header
  describes.
* The build files.
* Constructors of queues and caches are initial states. When one of their two
  allocations fails they return NULL and leak the other (`alpha_queue.c:49`,
  `cache.c:64`); there is nothing further to model.
* The result of the unchecked `malloc` calls of `thread_pool.c`, of `pthread_create` and of
  the initialisers: a failure there is a crash or a missing thread that the code
  does not handle. Refused pushes are modelled, of units and sentinels (`Refuse`) and of
  threads to be joined (`Create`), because `async_queue_push` returns them.
* What a thread that was never joined does with a released pool: undefined (see `Exists`).
* `thread_pool_new(0)`: a pool without workers does nothing; `Workers` is not empty.
* Routines of users are anything that returns; a unit that never returns blocks its
  worker and is excluded by fairness.

## Plan

All components with a defined behaviour are modelled, and every safety property of the
passing runs is proved. What could follow, in this order:

1. `NeverStuck` for the tree and for the queues, as it is proved for the pool and the pipeline.
2. `RingQueue` as a refinement of a sequence that `AsyncQueue` could be instantiated with, in
   place of the action property that says so now.
