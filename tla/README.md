# A specification of the thread pool sample

TLA+ modules for the thread pool of `src/src/threadpool.c`, the sample program `src/src/main.c`,
the utility headers beside them and the POSIX threads for Windows that the pool is built on
(`src/pthreads-w32/pthreads.2`); runs of TLC that check them on small instances, and theorems that
TLAPS proves for every instance. Paths are relative to the repository without the leading `src/`
where that is clear; file names of this directory stand alone.

## 1. Inventory

| component | source | state | operations |
|---|---|---|---|
| thread pool: worker loop and calls | `threadpool.c` 261-459, `threadpool.h` | `lock`, `notify`, the ring (`head`, `tail`, `count`, `queues`), `shutdown`, `started` | `threadpool_run`, `_add`, `_unused_queues`, `_destroy`, `_free` |
| thread pool: creation | `threadpool.c` 132-259, 462-496 | the pool under construction | `threadpool_create`, `pthread_attr_init_config` |
| thread pool: memory of the ring | `threadpool.c` 80-121, 166-181, 294-314, 434-443 | one block from `malloc` | `threadpool_get_task_at` |
| thread pool: CPU affinity | `threadpool.c` 500-569 | a mask for each worker | `thread_set_affinity_cpus` |
| sample program | `main.c` | connections, arguments of tasks | `main`, `doThreadTask` |
| string buffer | `cstrbuf.h` from 1539 | `len`, `maxsz`, bytes | `cstrbufNew`, `Cat`, `Concat`, `Dup`, `Sub`, `Trunc`, `PushBack`, `Free` |
| string algorithms | `cstrbuf.h` 67-1078 | none | trim, split, find, replace, compare, copy |
| time and dates | `timeut.h`, `cstrbuf.h` 1081-1536 | none | conversions, parsing, differences |
| files and paths | `misc.h` | none | paths of the program, search for a configuration file |
| mutexes, spinlocks, semaphores | `pthread_mutex_*.c`, `pthread_spin_*.c`, `sem_*.c` | lock word, event, owner; counters | lock, timedlock, trylock, unlock, consistent; wait, post |
| condition variables, read-write locks, barriers | `pthread_cond_*.c`, `pthread_rwlock_*.c`, `pthread_barrier_*.c` | gate, queue and counters; two counts and two mutexes | wait, signal, broadcast; rdlock, wrlock; wait |
| MCS lock and once | `ptw32_MCS_lock.c`, `pthread_once.c` | a queue of nodes | acquire, release, transfer |
| thread-specific data | `pthread_key_*.c`, `ptw32_tkAssoc*.c` | associations, each in two chains | create, set, delete, destructors |
| life of threads | `create.c`, `pthread_join.c`, `pthread_cancel.c`, `ptw32_reuse.c`, ... | thread structures and handles to them | create, exit, join, detach, cancel |
| attributes and scheduling | `pthread_attr_*.c`, `pthread_*attr_*.c`, `pthread_setschedparam.c`, ... | one object; priorities | init, destroy, get, set |
| memory wrappers; types; `QueueUserAPCEx`; build files | `memapi.h`; `unitypes.h`, `mscrtdbg.h` | none | see section 6 |

How they interact. A program creates a pool and calls `threadpool_add` from any thread; the pool's
workers run `threadpool_run`, take tasks from the ring and call the function of each with their
`thread_context_t`. All share one mutex and one condition variable. Tasks run in the workers and
may call the pool themselves. `threadpool_destroy` sets `shutdown`, wakes all workers, joins them
and frees the pool; it is also the clean-up of a `threadpool_create` that fails half-way. On Windows
mutex, condition variable and joins are those of pthreads-w32. That library builds its objects from
each other: a condition variable from two semaphores and a mutex, a read-write lock from two mutexes
and a condition variable, a barrier and `pthread_once` from MCS locks, a semaphore from a mutex.
Of the utility headers the sample uses `sleep_msec` only.

The hard behaviour is listed line by line under `hazards` in `PROJECT.json`. In short: one signal for
each task and no broadcast in `threadpool_add`; reads without the lock; a second unlock in
`threadpool_destroy`; a pool freed while calls are on their way; destroy from inside a task; pthread
calls that fail in the middle; a wrapped product of ints. In pthreads-w32: interlocked operations
with time-outs, cancellations and ending threads between any two of them; counters that have to take
back a waiter that left; thread structures that are used again while old handles are around; lists
guarded by two locks. In the headers: texts that just fit, -1 as an error and as a result, integers
of two widths and signs.

What makes the components correct:

* the pool: mutual exclusion; the ring holds exactly the accepted tasks, in order; no wakeup is
  lost; a refused task is not run; a task sees its own `task_arg`; after `shutdown` nothing starts;
  `destroy` returns, and nobody touches the freed pool;
* creation: what is returned is ready for use; a failure leaves no worker running, and no memory
  but where a join failed; the workers get CPUs that are online, apart and evenly;
* memory: accesses stay in the block, queued tasks keep their bytes;
* the sample: tasks read memory that is alive; only tasks that never start leak;
* locks: one holder, or one writer; nobody who waits is forgotten; an owner's end is reported;
* condition variables, semaphores, barriers: the counters agree with who waits; nobody is left
  asleep; no round is left early;
* keys and threads: no structure is freed twice or too early, and none is lost;
* headers: the text or the time is the one that was asked for, and the bytes after it are not read.

## 2. Modules

| module | what it is | composed with |
|---|---|---|
| `TaskQueue` | the promise of the pool: a bounded FIFO of tasks until it is closed | - |
| `ThreadPoolState` | constants with their assumptions, variables and types of the pool | - |
| `ThreadPool` | the pool once created: actions, properties, refinement of `TaskQueue` | extends `ThreadPoolState`, instantiates `TaskQueue` |
| `CpuAffinity` | which CPUs a worker gets: operators, no state | - |
| `PoolCreate` | `threadpool_create` and its ways back | extends `CpuAffinity` |
| `PoolLayout` | the ring in bytes | - |
| `SampleMain` | the sample program | extends `ThreadPool` |
| `Calls` | threads in calls of the library: where each is, what it holds, cancellation | - |
| `FifoLock` | the promise of the MCS lock | - |
| `McsLock` | the MCS lock, one interlocked operation a step | extends `Calls` |
| `Once`, `Barrier` | `pthread_once`; barriers | extend `McsLock` |
| `SpinLock`, `Semaphore`, `Mutex`, `CondVar`, `RwLock` | the objects of those names | extend `Calls` |
| `Keys`, `Threads` | thread-specific data; the life of threads and their cancellation | extend `Calls` |
| `Attrs` | attribute objects, priorities | - |
| `CstrBuf` | the string buffer | - |
| `Text` | algorithms on strings, the search for a configuration file | extends `CstrBuf` |
| `Clock` | dates, time differences, time-outs | - |
| `MCThreadPool`, `MCPoolCreate`, `MCPoolLayout`, `MCSampleMain` | small instances | extend the module they are named after |
| `MCSync` | one object of a kind at a time: MCS lock, once, barrier, spinlock, semaphore, keys, threads | extends these modules, instantiates `FifoLock` |
| `MCWaits` | the same for mutex, condition variable, read-write lock | extends these modules |
| `MCData` | one sequential part at a time: ring, attributes, buffer, texts, times | extends these modules |
| `ThreadPoolProofs`, `PoolCreateProofs`, `CondVarProofs`, `ThreadsProofs` | theorems, see section 4 | extend the module they are named after |
| `TaskQueueProofs` | theorems on the tasks of the pool and of the sample | extends `ThreadPoolProofs`, `SampleMain` |
| `LockProofs` | theorems on mutexes and read-write locks | extends `Mutex`, `RwLock` |
| `SyncProofs` | theorems on MCS lock, once, barrier, spinlock, semaphore, thread-specific data | extends these modules |
| `DataProofs` | theorems on ring, attributes, string buffer and times | extends `PoolLayout`, `Attrs`, `CstrBuf`, `Clock` |

`PoolCreate!ReturnedPoolIsReady` is what `ThreadPool!Init` starts from, and the condition
`AccessInBlock` of `PoolLayout` is what lets `ThreadPool` treat slots as values. `OneHolder` of
`Mutex` and `SemBalance` of `Semaphore` are what lets `CondVar` and `RwLock` use mutexes and
semaphores as values, and `CondBalance`, `NobodySleepsOnWork` and `GateReopens` what lets
`ThreadPool` do so with `notify`.

The operators headed "Faulty versions", or commented "A faulty version", take no part in a
specification. Each is a plausible mistake in the code; put in place of the definition it names, it
makes TLC refute the property that `PROJECT.json` pairs it with.

### The pool

The variables of `ThreadPool` carry the names of the fields of `struct threadpool_t`. `lock` is the
owner of the mutex. `wpc` and `cpc` say where a worker is in `threadpool_run` and where a thread is in
a function of the pool; a worker whose task calls the pool has both. `offered`, `ret` and `joining`
are the locals of those functions, `taskcpy` is the worker's. `outcome`, `finished` and `credit`
are history: what the caller of `threadpool_add` knows of a task, which tasks returned, and how
many free places a thread was told of and has not used yet.

One action is what a thread does between two points where others can tell the difference: each
`pthread_` call, each read without the lock, and in a critical section each write to the ring, to
`count` and to `shutdown`. The places of a worker and of a call, in order:

    threadpool_run   lock -> check -> (asleep -> lock) | take -> taken -> unlock -> run -> lock ...
                                   -> exit -> done
    threadpool_add   add_lock -> add_body -> add_fill -> add_count -> add_signal -> add_unlock
    unused_queues    unused_count
    destroy          destroy_lock -> destroy_body -> broadcast -> join ... -> last_unlock
                     -> free_check -> free_lock -> free

The mutex is a default one: any thread may unlock it, and unlocking a free one does nothing, which
the second unlock of `threadpool_destroy` relies on. A task is a value that stands for function,
argument and flags; `task_arg` is a row of bytes, each named by the task that wrote it last, so
that stale bytes show. A slot keeps its content when it is taken.

`Failures` says which pthread calls may fail: those whose result the code looks at, except for the
unlocks, which cannot fail on a default mutex. `Calls` says who calls what. `Quiescent` says
whether a client destroys the pool only after all other clients have left it, which the pool
demands silently of its users.

A step on freed memory is not modelled as corruption: the pool keeps its last state, `mem` says
that it is freed, and `NoUseAfterFree` says that nobody is inside it then. A mutex that was
destroyed locked stays locked: a thread that still wants it waits for ever. The runs with
`Quiescent = FALSE` stop there, which is why `pool_failures` does not check for deadlock.

`PoolCreate` has one program counter for the creator and one state for each worker, which can
only wait and leave, for the queue is empty. Memory from `malloc` is `"raw"`; pthread may refuse a
raw object or bring the program down (`result = "crashed"`). When a worker could not be created,
the clean-up joins handles nobody wrote; `JoinRaw` is that step.

`CpuAffinity` is the arithmetic of `thread_set_affinity_cpus`; `PoolCreate` calls it for one worker
after the other. The CPUs online are a set of ids, `get_nprocs` is their number, and
`pthread_create` refuses a mask without an online one. The code passes ids that start from 1 where
the comment of the function counts from 0; the first worker then gets the second group. An
`affinity_cpus` of -1 would mean all CPUs there, but `threadpool_create` passes on positive ones
only and sets no mask otherwise.

`PoolLayout` runs the ring over an array of bytes, with `threadpool_get_task_at` computed as an
int of the given width that wraps. `SampleMain` adds to the pool the place and counter of `main`, the
state of each argument, and how many connections are freed; the process ends when `main` returns.

### POSIX threads

In `Calls`, `op[t]` is the function thread t is in and `pc[t]` where it is there; a thread that is not
in a call is `"idle"`, one whose thread has ended `"exited"`. `holds` counts what the calls that
returned success gave it. `object` is the kind of object a behaviour is about: the modules of a run
share `op` and `pc`, and the variables of the others stand still. Calls are made by `...Calls(t)`,
which also says what POSIX demands of the program, such as not to destroy a lock that is in use.

* `McsLock`: the lock is the last node of its queue, and each node is memory of a call. Acquire and
  release are one step for each interlocked operation on `tail`, `next`, `readyFlag` and `nextFlag`,
  with the events that are made for flags somebody sleeps on. With `ReuseFrames` the next call of a
  thread may find its node where the last one was, which goes wrong (`node_reuse`). `Barrier` uses
  `ptw32_mcs_node_transfer`.
* `Mutex`: `idx` is `lock_idx`, with 0 for free, 1 for held and -1 for held and wanted. A thread that
  ends (`Detach`) is `pthread_win32_thread_detach_np`. `orphaned` and `racing` are history: the owner
  ended and nobody was told since; who had looked at the state for the last time when a robust mutex
  was given up, that is, unlocked without having been made consistent.
* `Semaphore`: what is done with `s->lock` held is one step; `kernel` is the Win32 semaphore.
* `CondVar`: the gate `semBlockLock`, the queue `semBlockQueue` and the three counters, with a step
  for each of the three locks. Producers and consumers wait for items with the program's own mutex
  `outer`, so that a lost wakeup shows as somebody asleep beside an item. A thread that is cancelled in
  one of the two semaphores goes through its clean-up handler in a step of its own (`GateCancelled`,
  `AsleepCancelled`), before which a post may come that it then takes along. `swallowed` and `gateLost`
  are history: how many posts went that way.
* `RwLock`: the two mutexes as their owners, the wait for the readers as the place `"waiting"`.
* `Once`: cancelled init routines release the lock in a cleanup handler.
* `SpinLock`: on one processor a mutex, on more an interlocked word.
* `Keys`: each association is in the chain of its key and of its thread, `threads[k]` and `keys[t]`.
* `Threads`: `st[s].x` counts the uses of a structure; a handle is a structure and that number.
* `Attrs`: one attribute object of any kind, any order of calls on it; and threads that set each
  other's priority in the two steps of `pthread_setschedparam`.

### The utility headers

`CstrBuf` keeps the block as bytes, some of them never set, next to the text it should hold.
`Text` has one operator for each algorithm, and for each its definition on sequences; TLC compares
the two on every text. `Clock` does the same for dates against a calendar that counts days, for time
zones, and for time-outs with a clock that goes on between the look at it and the wait.

## 3. Runs

Each run answers a question of its own; the project keeps them few, so that all of them can be
repeated after every change. Passing runs (distinct states):

| run | instance | what it shows |
|---|---|---|
| `pool_safety` (1,020,000) | 2 workers, 2 clients that add, one that destroys; 2 places, 4 tasks whose `task_arg` is full, half, empty and too large; spurious wakeups | mutual exclusion, ring, wakeups, refused tasks, own arguments, freeing, and that the pool implements `TaskQueue` |
| `pool_failures` (1,530,000) | 2 workers, 2 clients, 1 place, 2 tasks; tasks and clients add, a client destroys while others are in the pool (`Quiescent = FALSE`); lock, signal and broadcast may fail | whatever the callers do and whatever fails: the queue keeps every task once and freezes at shutdown |
| `pool_liveness` (22,000) | 2 workers, 1 client that adds and asks for free places, 2 tasks that destroy the pool, again and again, from both workers at once; fair | queued tasks are taken, `destroy` returns, and a sole submitter finds the places it was told of |
| `create_failures` (61,000) | limits of 4 threads and 2 places, arguments below, at and above each, 1 to 7 CPUs and affinities around them, every call failing | a returned pool is ready, a `NULL` leaves no worker and no memory but after a failed join, workers are placed on online CPUs, apart and evenly, creation returns |
| `sample_main` (66,000) | 2 workers, 2 places, 4 rounds, signals failing at times | tasks read live memory, only the arguments of tasks never started leak |
| `sync` (338,000) | 3 threads on one object; for keys and threads 2 threads, 2 keys and 3 structures; fair | one holder, once, barriers in step, balanced semaphores, sound chains and structures, that the MCS lock implements `FifoLock`, and that calls return |
| `waits` (390,000) | 3 threads on a mutex of each of six kinds, a condition variable or a read-write lock, with time-outs, cancellation and ending threads; fair | one holder, orphans reported, balanced waiters, nobody asleep beside work but for posts that cancelled waiters take along, writers alone, gates reopen after a signal; lock calls return but for a robust mutex whose owner was not recorded |
| `data` (1,650,000) | rings of 1 to 3 slots, attributes of 5 kinds, buffers and texts of up to 5 characters, dates and time-outs around every limit | bytes of queued tasks, attributes as asked, priorities that agree, buffers that hold their text, algorithms and times that equal their definitions |

Runs that refute a property, each a disagreement between the code and a statement of the
repository; the statement is quoted under `findings` in `PROJECT.json`:

| run | property | what TLC finds |
|---|---|---|
| `pool_use_after_free` | `NoUseAfterFree` | a `threadpool_add` that began before `destroy` is in the freed pool |
| `layout_overflow` | `AccessInBlock` | an offset wraps for sizes `threadpool_create` accepts |
| `key_delete` | `DeleteGuarded` | from its second association on `pthread_key_delete` walks the chain without the key's lock |
| `node_reuse` | `NextIsKnown` | a node of an MCS lock that is used again is told of its old successor, and the next release goes through a null pointer |

More the models show, or the reading of the code for them, without a run of its own:

* the second unlock of `threadpool_destroy` (`threadpool.c:386`) may take the lock from a thread
  inside `threadpool_add`, and `threadpool_free` destroys the mutex it has just locked (404);
* a failing `pthread_cond_signal` (320) makes `threadpool_add` report an error for a task that is
  queued and will run; `RefusedNeverRun` holds only without that failure;
* with a CPU of a low id offline a worker may be given only CPUs that are not there (529);
* after a failed `pthread_create` the clean-up joins handles that were never written (`JoinRaw`),
  and then keeps the pool allocated with nobody left to free it;
* the clean-up handler of `sem_wait` is given the semaphore where it expects a pointer to one, and
  takes a value of 0 for a destroyed one: a post that comes between the end of a cancelled wait and
  this handler is lost. `PostMeetsCancel` lets it come; `SemBalance` does not hold then;
* `pthread_mutex_timedlock` takes a robust mutex of the normal kind that it finds free without
  recording its owner (`pthread_mutex_timedlock.c:222`), where line 203 says that all types record
  the current owner: `pthread_mutex_unlock` then returns `EPERM`, and everybody else waits for ever.
  `LocksReturn` makes an exception of such a mutex (`Unrecorded`);
* after a robust mutex was unlocked without having been made consistent, a thread that is already in
  `pthread_mutex_lock` or `pthread_mutex_trylock`, past its last look at the state, still gets it with 0
  (`pthread_mutex_lock.c:170-199`, 230-260), where `pthread_mutex_consistent.c:59` says that all
  subsequent calls fail. `OrphanReported` says that nobody else does;
* a waiter that is cancelled in `sem_timedwait` may take a post with it in its clean-up handler
  (`sem_timedwait.c:71`, "as if we were cancelled just before we return", "which is ok"): for a condition
  variable that is the wakeup of another waiter, who sleeps on beside the item. `NobodySleepsOnWork`
  counts such posts (`swallowed`) and shows that no other wakeup is lost;
* a waiter that is cancelled at the gate of a condition variable, in `sem_wait`, may take the gate's
  post along ("Thread can be cancelled in sem_wait() but this is OK", `pthread_cond_wait.c:384`): the
  gate then stays shut, and the next signal or wait never returns. `CondBalance` names this case (`gateLost`);
* the attribute functions for process-shared objects accept `PTHREAD_PROCESS_SHARED` with 0, because
  `pthread.h:469` defines `_POSIX_THREAD_PROCESS_SHARED` (as -1) and so the branch for `ENOSYS`, which
  `pthread_mutexattr_setpshared.c:79` promises, is not compiled; the init functions refuse the
  attribute object later;
* a thread that starts sets its state to running without looking at it (`ptw32_threadStart.c:174`), and
  so overwrites a cancellation that is already pending; `EarlyCancel` lets it happen;
* `difftime_msec` is wrong for a negative difference of nanoseconds where `unsigned long` has 64
  bits; `cstr_replace_new` does not end for an empty pattern; `find_config_pathfile` reads the
  byte before an empty path (`misc.h:497`); the get and set functions of an attribute's scope
  dereference their argument before they check it.

### Properties of each run

Each is stated in words above its definition.

* `pool_safety`: `MutualExclusion`, `RingConsistent`, `NoLostWakeup`, `RefusedNeverRun`,
  `OwnArgument`, `DestroyFreesPool`, `NoUseAfterFree`, `ImplementsTaskQueue`
* `pool_failures`: `TasksConserved`, `ShutdownFreezesQueue`
* `pool_liveness`: `SoleSubmitterCredit`, `QueuedIsTaken`, `DestroyReturns`
* `create_failures`: `ReturnedPoolIsReady`, `NothingLeftBehind`, `WorkersPlaced`, `CreateReturns`
* `sample_main`: `TaskReadsLiveMemory`, `LeaksOnlyUnstarted`
* `sync`: `OneHolder`, `OnceComplete`, `BarrierInStep`, `SemBalance`, `TsdInStep`,
  `StructsInStep`, `McsImplementsFifoLock`, `CallsReturn`
* `waits`: `OneHolder`, `OrphanReported`, `CondBalance`, `NobodySleepsOnWork`, `WriterAlone`,
  `GateReopens`, `LocksReturn`
* `data`: `QueuedIntact`, `AttrAsAsked`, `PriorityKept`, `BufferHoldsText`, `TextKept`,
  `ClockRight`

### Bounds

Two workers are what it takes for them to steal each other's tasks and wakeups and for one to
sleep while the other works; a third adds no new pair. Two clients race each other and `destroy`.
With two places and three or four tasks the ring fills up, wraps and reuses slots; with one place
head always equals tail. `task_arg` has two bytes so that a shorter one leaves a stale byte. Four
tasks are needed for a too large one beside three that go round the ring. In `create_failures` the
limits of the header are set small, as its `#ifndef` allows. In `layout_overflow` slots of three bytes
and an int of 2 bits stand for slots of 16416 bytes and an int of 32:
`131071 * 16416 = 2151661536 > 2147483647`, and the first slot out of reach is 130817.

`MaxCalls` bounds the calls of each thread in `sync` and `waits`: one thread makes two or more, so
that an object is used again after it was destroyed or released, and the others one each, so that two
of them meet while a third waits. Unlocks and returns are not counted. Three threads are what it takes
for one to come while a second is woken and a third leaves. `Height` 2 with four waits gives two
rounds of a barrier, one of them entered while the other is left. `GoneLimit` and `SharedMax` are 2
and 3 where the code has `INT_MAX / 2` and `INT_MAX`, so that the counters do come back to 0.
Semaphores start with `InitValues` 0, 1 and 3, the last above their maximum of 2, and `sem_post_multiple`
posts `PostCounts` 0, which is refused, and 2, which may be too many. `DESTRUCTOR_ITERATIONS` is 1 with one destructor that sets a value again: the limit is reached.
Three structures serve two threads at once and one that waits to be joined.

In `data` a millisecond has four nanoseconds, a DWORD counts to 16, an unsigned long to 64, and times reach
24 milliseconds; the days are
those around ends of months and years, leap years and the turn of the century. Four nanoseconds are what it takes
to tell half a millisecond from a whole one: with three, the wait that `ptw32_relmillisecs` asks for looked right to
within a millisecond, which it is not. Texts have four
letters: white space, a delimiter, a dot and another one. The block of a buffer grows in steps of
three bytes, so that a text of up to five characters fits, just fits or needs more.

The theorems of section 4 lift most of the safety properties from these bounds. The runs use no
symmetry: workers are joined in order, one client alone destroys, and threads make different numbers
of calls. `sync`, `waits` and `data` end when their calls are used up, so that they do not check for
deadlock; in the first two the liveness properties do.

### Fairness

`FairSpec` of `ThreadPool` asks for weak fairness of each worker and of each call in progress: a
thread the scheduler runs. That is weak for the lock, too: pthread promises no order among those who
wait for a mutex, and the properties hold without it since a program submits finitely many tasks in a
run. Spurious wakeups are off in the fair runs: a worker that woke for nothing again and again could
keep the others from the lock. So could a client that calls `threadpool_destroy` in a loop while a
task destroys the pool; the client of `pool_liveness` does not. `WorkerFinish` has strong fairness: a
task returns however often it calls the pool before. Nobody has to begin a call, no wakeup has to be
spurious and no call has to fail. `PoolCreate` has weak fairness of its creator and of each worker,
and `SampleMain` of `main` and of each worker.

`MCSync` and `MCWaits` have weak fairness of each thread, for what it does inside a call of the library
and for what a program always does in the end: it unlocks what it holds and its threads return. No
call has to be begun, and nobody is bound to be cancelled or to time out as long as something else
can happen to him. `CallsReturn` leaves out barriers and semaphores, where a thread may wait for a
call that nobody makes. `FifoLock` asks only that the lock is handed on.

## 4. Theorems

The theorems hold for every value of the constants: any number of threads, tasks, places and calls.

| module | theorem | property | needs |
|---|---|---|---|
| `ThreadPoolProofs` | `TypeCorrectness` | `TypeOK` | - |
| | `RingStaysConsistent` | `RingConsistent` | - |
| | `TasksSeeTheirArgument` | `OwnArgument` | - |
| | `SuccessfulDestroyFrees` | `DestroyFreesPool` | - |
| | `ShutdownIsFinal` | `ShutdownFreezesQueue` | - |
| | `WakeupsAreNotLost` | `NoLostWakeup` | `pthread_cond_signal` does not fail |
| | `LockExcludes` | `MutualExclusion` | `Orderly` |
| | `FreedPoolIsLeftAlone` | `NoUseAfterFree` | `Orderly` |
| `TaskQueueProofs` | `TasksAreConserved` | `TasksConserved` | - |
| | `RefusedTasksNeverRun` | `RefusedNeverRun` | `pthread_cond_signal` does not fail |
| | `PoolImplementsTaskQueue` | `ImplementsTaskQueue` | - |
| | `SoleSubmitterIsServed` | `SoleSubmitterCredit` | - |
| | `TasksReadLiveMemory` | `TaskReadsLiveMemory` | no call fails but `pthread_cond_signal` |
| | `OnlyUnstartedLeak` | `LeaksOnlyUnstarted` | the same |
| `PoolCreateProofs` | `CreatedPoolIsReady` | `ReturnedPoolIsReady` | - |
| | `GivingUpCleansUp` | `NothingLeftBehind` | - |
| | `WorkersAreSpread` | `WorkersPlaced` | `LowestOnline` |
| `LockProofs` | `MutexExcludes` | `OneHolder` | - |
| | `OrphansAreReported` | `OrphanReported` | - |
| | `WritersAreAlone` | `WriterAlone` | - |
| `CondVarProofs` | `CountersAgree` | `CondBalance` | - |
| | `NoWakeupIsLost` | `NobodySleepsOnWork` | - |
| `SyncProofs` | `SemaphoresBalance` | `SemBalance` | - |
| | `SpinLocksExclude` | `OneHolder` | - |
| | `McsIsFifo` | refines `FifoLock!SafeSpec` | `FreshNodes` |
| | `OnceLockIsFifo` | the same, inside `pthread_once` | `FreshNodes` |
| | `BarrierLockIsFifo` | the same, inside a barrier | `FreshNodes` |
| | `BarrierStaysInStep` | `BarrierInStep` | `FreshNodes` |
| | `SuccessorIsKnown` | `NextIsKnown` | `FreshNodes` |
| | `ChainsStayInStep` | `TsdInStep` | `CarefulDelete` |
| | `NoHandOverIsLost` | `SleepersAreServed` | `FreshNodes` |
| | `OnceRunsOnce` | `OnceComplete` | `FreshNodes` |
| `ThreadsProofs` | `StructsStayInStep` | `StructsInStep` | - |
| `DataProofs` | `AttrKeepsWhatWasAsked` | `AttrAsAsked` | - |
| | `PrioritiesAgree` | `PriorityKept` | - |
| | `AccessStaysInBlock` | `AccessInBlock` | `OffsetsFit` |
| | `QueuedStayIntact` | `QueuedIntact` | `OffsetsFit` |
| | `BufferHolds` | `BufferHoldsText` | - |
| | `WaitsAreRight` | `WaitsRight`, a conjunct of `ClockRight` | - |
| | `PrintedIsRead` | what `ClockRight` says of the printing and the reading of a date: read as it was written, or refused where `mktime` refuses it | - |

`Orderly` is `Quiescent`, and no task destroys the pool. `LowestOnline` says that the online CPUs are
those with the lowest ids. `OffsetsFit` says that the last slot of every ring begins where an int can
say so, which `threadpool_create` does not see to (`layout_overflow`). `FreshNodes` is `~ReuseFrames`:
without it `NextIsKnown` is false, as `node_reuse` shows. `CarefulDelete` is `~FreeDelete`: a key is deleted
when at most one thread has a value for it and no thread is ending, because `pthread_key_delete` is right
for no other program (`key_delete`). Beyond that the theorems rest on the named assumptions on constants: at
least one worker and one place, finitely many clients, none of them a worker; for `SampleMain` that
its tasks are its rounds and `main` the only client; for `Threads` that `Main` and `AtOnce` are
threads and `NoStruct` is no structure; for `CstrBuf` that `NoBuffer`, as `NULL`, is no block; for `Clock` that a
long holds the nanoseconds of a second and the milliseconds between any two times, and a DWORD more than 0 and 1;
limits that are numbers, and defaults within them. `MutexSpec`, `RwSpec` and `CondSpec` are the part of `MCWaits!Spec` for one object, for any set of kinds
and, in the last two, with any thread cancelled; `SpinSpec`, `SemSpec`, `McsSpec`, `OnceSpec`, `BarrierSpec`,
`KeysSpec` and `ThreadsSpec` are those of `MCSync!Spec`, and `AttrsSpec`, `BufSpec`, `ClockSpec` and the `Spec` of
`PoolLayout` those of `MCData`. `SemSpec` keeps posts
away from the clean-up of a cancelled `sem_wait` (`PostApart`), where `SemBalance` fails.

The pool. `TypeOK` is not inductive: that `count` stays within the queue depends on nobody
changing it between a test and the write that relies on it. The invariant `Inv` therefore has
eight parts, each with its own lemma: `Types` without bounds; `Control` (a worker calls the pool
only from its task, a submission has a task); `Locked` (until `shutdown` the owner of the critical
section owns the lock, after it nobody is where the ring changes: this is why the second unlock
does the ring no harm, whoever it robs); `Counted` (what was tested under the lock holds where it
is used); `Ring` (`tail` is `Length` places after `head`, and what lies between is tasks);
`Arguments`; `Started` (`started` counts the workers that have not left, by the cardinality of a
set that loses one element at a time); `Joined` (destroy has found the workers before its index
done). `Invariance` puts them together. `NoLostWakeup` is inductive relative to `Inv`: a signal
turns a sleeper into one of those on their way, a worker that takes a task lowers `count` when it
leaves that set, and one that falls asleep has seen `count` at 0. `LockExcludes` and
`FreedPoolIsLeftAlone` use a second invariant, `Alone`: in an orderly program the thread that has
set `shutdown` is the only client, and the workers are all that can hold the lock until they are
joined.

The tasks. Three actions move a task; `TaskQueueProofs` says of each in the words of `TaskQueue` what it
does to the backlog, and of all others that they leave alone what is seen from outside. `Apart` (no
task is in two places) and `Placed` (a task is in one of them exactly from the write of its slot on)
are inductive on top of `Inv`, and give conservation and the refinement; `Refused` adds that a
refused task was never written. The sample program is a behaviour of the pool: `TaskQueueProofs`
shows that each of its steps is one of the pool, takes over these invariants, and adds where `main`
is (`MainPlace`: workers are done before the first connection is closed) and whose argument is
allocated.

Creation. `CreateInv` says for each stretch of `threadpool_create` which workers run and which handles
were written; on the way back `started` may miss one worker, so that what counts is the set `Alive`.
For the CPUs there is arithmetic to add: division with remainder, how many of the ids up to n fall into a
group (one more whenever n does), and by that the number of workers in each group as an invariant of
the loop.

Mutexes. `MutexInv` says how a mutex may be locked: by its holder; by one that ended, in state
"dead" or unknown to the list of robust mutexes; or for good. `Known` ties the fields to the holder: a
thread in `ownerThread` or in the list holds the mutex, or has ended; a recursive count equals
`holds`; and the stretch of `pthread_mutex_unlock` in which the owner is gone but `lock_idx` not yet
stored (`Leaving`) belongs to a holder. With that each step either gets the mutex when nobody holds it
(`Gets`) or changes neither who holds it nor `lock_idx` to free (`GoesOn`). `GivenUp` adds, for
`OrphansAreReported`, that once a robust mutex was given up nobody gets past the look at its state
any more, so that those past it can only become fewer.

Read-write locks. `RwInv` says by `Owners` that the two mutexes tell who writes or waits to, and by
`Counted` that the counts are the readers: `shared - completed` of them in general, and
`-completed` while a writer waits for them, whatever readers left meanwhile and wherever
`SharedMax` took the completed ones off. A writer goes on at 0, and then there are none.

Condition variables. `CountersAgree` rests on `CondInv`. Its core is `GateHeld`: the gate semaphore is
shut on behalf of the woken threads that are still counted, or by one thread that is entering or
reopening it, or for good by one that was cancelled at it, and never by two of these; and `UnblockerHeld`: while a thread keeps `mtxUnblockLock` from one step to the
next, no woken threads are counted. `Balance` ties the three counters to the sets of
threads that wait, were posted to, timed out or were cancelled. `NoWakeupIsLost` rests on `WakeInv`
above it: who goes to sleep still holds the program's mutex and saw no item (`SeesNone`); what is to be
unblocked is covered by posts in the queue, posts about to be made, and threads that were paid for and
are on their way (`TokensCover`); and the items are covered by these tokens, by threads about to signal and by the tokens that cancelled
waiters took along, or there is a token for everybody asleep (`WorkIsSeen`).

Semaphores. `SemBalance` is inductive next to three facts (`SemInv`): types; `NoTokenForTheDying` (a
`sem_wait` that was cancelled found no token, and none comes before its clean-up); and `Apart`, what the
program sees to when it initialises and destroys. A wait that timed out takes a token or undoes its
count in one step under the lock. Spinlocks: `SpinHeld` ties the interlocked word, or on one processor the mutex, to
the one thread whose `holds` is set.

MCS lock, once and barrier. `QueueInv` describes the queue from its nodes: each node but the first `Follows` the
one before it (it knows it, has linked itself or will, and the flags say how far they are), the first is
`AtHead` (it holds the lock, or its flag is set and it will find so), and the lock points to the last.
`Places` ties a node to the place of its thread, and `Unknown` says that nobody knows a node before it
joins: that is where reuse would break in. Every step is then `Join`, `Grant`, `Release` of `FifoLock` or
a stutter, or `Transfer` when a barrier moves a thread's place to its own node: the node behind it then
knows the node that is gone, not the one in its place (`TakenOver`), and tells that one. `OnceDone` adds that `done` is set while the lock is held, and is not when the init routine begins.

Barriers. `Rounds` counts calls as sets of pairs of a thread and a number, each of which grows by one element
at a time: those begun, those that have arrived, and those that have left. While the barrier is closed, all that
arrived in the round sleep, and nobody is on the way out. It `Opens` when the lock moves into it; as nobody
can get that lock, the arrived are then fixed, and those who have not left are asleep, each with a post made or
about to be made, or leaving. So the last to leave (`LastToLeave`) is the last there is, and the counts are those of
the next round. `Closed` says that a destroyed barrier is left by all but who has released its lock.

Thread-specific data. The lemmas on chains say what putting an association in, taking one out and looking
behind one do to a chain without repetitions. `KeysInv` keeps the chains of keys and threads in agreement
(`Chained`) and ties associations to live keys and owed values (`Owed`); a deletion is alone with its key
and with the end of threads (`Exclusive`). `Scans` is about a thread that ends: it stands at an association
of its own, and as long as no destructor ran in the round, at the first one it has: so a round without
destructors ends with an empty chain.

The life of threads. `StructsInStep` is far from inductive: whether a structure may be put into the queue depends
on who may still look at it. `LifeInv` says whose every structure in use is (`Owned`: of a thread about to
start, of one that runs, or of one that ended and is not detached) and who is to see to it if it is not
detached (`Kept`: its handle can be joined, or one thread is in `pthread_detach` with it). Handles are judged by their
number: a use that is over has a smaller one for good (`Stale`), one that can be joined is current and not
detached (`Good`), and one the program once got never names a later use (`Past`). `Stage` says where a
thread is in its life and what its structure then says, `Knows` what the handle of its call is worth, and
`Separate` that no two calls are about the same thread that is there. The proof does not go action by
action through these parts: `Frame` shows that they survive any step in which each structure goes on, is
put into the queue or is taken from it (`Goes`, `Pushed`, `Taken`), and each thread is left alone or moves in
order (`Stays`, `Moves`), and each action is then shown to be such a step. What carries it are two reasons that
are nowhere written down in the code: `pthread_detach` reads `state` under the lock that `pthread_win32_thread_detach_np` writes it
under, so that just one of the two puts the structure away; and a canceller that has looked at `state` holds the
lock until it has written, so that it never writes into a structure in its last state.

The ring in bytes. `LayoutInv` says that `tail` is the slot behind the last task, and that the slots in use
hold their tasks byte for byte. By `OffsetsFit` the int offset of a slot is the true one; slots then lie
apart and inside the block, so that a write to one leaves the others alone.

Attributes. What was asked for is what is stored, field by field. For the priorities the invariant is
that the record of a thread whose lock is free agrees with what Windows was told.

The string buffer. `BufInv` says that the bytes of the block hold the text (`Holding`) and that a NUL follows it
unless characters were pushed (`HoldsEnded`); as no byte of a text is NUL, the C string in the block is then
the text (`CStrings`). `CopiedBytes` and `Prints` say once what `memcpy` and `vsnprintf` leave in a block, also where a
text is cut. What carries `cstrbufCat` is that the first print, into too small a block, spoils only bytes behind the
old text, which the second print, into the larger block, writes again. `get_proc_abspath` cuts at the last
separator, of which there is one by `LastOne`.

Times. The end of a wait is rounded to milliseconds, the time of the system is cut, and both by division: so the
difference is too small by less than one millisecond and too large by less than one and a half (`Rounded`,
`Apart`), and a DWORD holds it if two milliseconds more would fit. A wait of `INFINITE` is out of the
question in any case. That the wait may be too long by more than a millisecond is seen only by this proof: it
did not go through for the bound of one millisecond that TLC had confirmed with milliseconds of three nanoseconds.
`DifferenceIsRight` does the same for `difftime_msec` in each of its three cases, where the unsigned operations wrap and are
brought back. Both are facts about two times, which `TimesStay` carries over to any behaviour of the clock.

Only model-checked: `TextKept`, and `DatesRight`, the conjunct of `ClockRight` on the dates that `getlocaltime_safe` yields.
Both compare recursive definitions, or folds over sets, with what they should compute, which takes an
induction over data that this prover has no way to do. Also all liveness with the fairness it needs, that of `FifoLock`
included, as the prover knows neither fairness nor `ENABLED`.

## 5. Abstractions

* In `CondVar` a post of the queue's semaphore is one step, and in `RwLock` taking a mutex is; the
  time-out of the second mutex of `pthread_rwlock_timedrdlock` is left out.
* `pthread_barrier_destroy` is called by one thread, when all waits have begun.
* An asynchronous cancellation redirects its thread in one step, where the code suspends the thread,
  looks whether it still runs, changes its instruction pointer and resumes it (`pthread_cancel.c:131-163`).
  A thread that is suspended while it waits for the lock of its own structure is therefore not
  represented. Threads that can be cancelled so call nothing else, as POSIX demands. The variant of `pthread_create` that starts a thread suspended is
  not told apart. Cleanup handlers are counted in `holds`.
* Four constants keep the model away from what the violations or the notes above show, so that the
  rest can be checked: `PostMeetsCancel`, `FreeDelete` (a key is deleted while another thread with a
  value for it ends, or several have one), `EarlyCancel` (a thread is cancelled before it starts) and
  `ReuseFrames`, which is `FALSE` but in `node_reuse`: each call has a node of its own.
* `AtOnce` are the threads there can be at once; the others stand for memory that is out.
* In `Clock` seconds, DWORDs and longs are scaled down. `MktimeFails` are the dates and times that
  `mktime` refuses, any set of them in the theorem and the first hours of 1970 in the run: what it refuses
  depends on the system and its timezone.
* In `Text` a text is a sequence of letters, and in `find_config_pathfile` paths are built of them.
* In `ThreadPool` memory is sequentially consistent: all writes to the ring are under the lock;
  `count` is read with an atomic operation, `shutdown` without one in `threadpool_unused_queues`.

## 6. Not modelled

* The pool: failing `pthread_mutex_unlock`; a failing `pthread_mutex_lock` in `threadpool_run`, whose
  result is ignored; a `malloc` that fails in `threadpool_run`: undefined behaviour follows at once.
  `NULL` for the pool in calls other than `threadpool_add`; a call begun after the pool is freed.
  `threadpool_get_threads_count`, `threadpool_get_context`: constant fields.
  `thread_check_affinity_cpus`: no caller, it lists a mask. The alignment of slots, and the length of
  the array behind `thread_args`.
* `cstrbuf.h`: conversions of numbers and of hexadecimal text, case, reading of lines, formats other
  than `%s` and `%c`, sizes near the limit of 128 MB. `timeut.h`: what asks the system for the time,
  and the formats of `strftime`. `misc.h`: opening, reading and writing files.
* pthreads-w32: attribute functions that are aliases, `sched_setscheduler` and functions that
  only ask Windows; `ptw32_OLL_lock.c`, which is not compiled; the unwinding of C++ and SEH builds.
* `memapi.h`: wrappers that end the program when memory runs out. `unitypes.h`, `mscrtdbg.h`: no
  behaviour. `QueueUserAPCEx`: a driver and its helper for asynchronous cancellation; `Threads` models
  the cancellation without it. Build files; prebuilt headers, which repeat those of `pthreads.2`.

## 7. What could come next

The pool on top of `CondVar` instead of an atomic condition
variable; the life of threads for more than two at once.
