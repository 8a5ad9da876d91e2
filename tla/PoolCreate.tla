----------------------------- MODULE PoolCreate -----------------------------
(***************************************************************************)
(* threadpool_create of src/threadpool.c: the checks of its parameters,    *)
(* the allocation, the pthread objects, the loop that places and starts    *)
(* the workers, and every way back when one of these fails,                *)
(* threadpool_destroy and threadpool_free included.  The workers find an   *)
(* empty queue: all they can do is wait and, once shutdown is set, leave.  *)
(*                                                                         *)
(* Memory from malloc is "raw" until it is written.  What pthread makes of *)
(* a raw object is not defined: it may refuse it or bring the program      *)
(* down.                                                                   *)
(***************************************************************************)
EXTENDS CpuAffinity, FiniteSets, Sequences

CONSTANTS
  MaxThreads, DefaultThreads,   \* POOL_MAX_THREADS, POOL_DEFAULT_THREADS
  MaxQueues, DefaultQueues,     \* POOL_MAX_QUEUES, POOL_DEFAULT_QUEUES
  MaxArgSize,                   \* POOL_TASK_ARG_SIZE_MAX
  ThreadCounts, QueueSizes, ArgSizes, Affinities,  \* the arguments tried
  OnlineSets,                   \* the sets of cpu ids that may be online
  Failures                      \* the calls that may fail

ASSUME CreateAssumption ==
  /\ MaxThreads \in Nat /\ DefaultThreads \in 1..MaxThreads
  /\ MaxQueues \in Nat /\ DefaultQueues \in 1..MaxQueues
  /\ MaxArgSize \in Nat
  /\ ThreadCounts \subseteq Int /\ QueueSizes \subseteq Int
  /\ ArgSizes \subseteq Nat /\ Affinities \subseteq Int
  /\ \A cpus \in OnlineSets : cpus # {} /\ cpus \subseteq CpuIds
  /\ Failures \subseteq {"malloc", "mutex_init", "cond_init", "attr_init", "setaffinity",
                         "create", "getaffinity", "attr_destroy"}

Ids == 1..MaxThreads

VARIABLES
  online,      \* the cpu ids online
  pc,          \* where the creator is
  args,        \* its arguments; thread_count and queue_size as adjusted
  id,          \* the worker the loop is at, pctx->id
  mem,         \* the pool's memory: "none", "live", "freed"
  mutex, cond, \* "raw", "ready", "destroyed"
  started, shutdown,
  masks,       \* the cpuset of each worker placed so far
  handle,      \* pctx->thread of each worker: "raw" or "thread"
  worker,      \* each worker thread: "none", "running", "done"
  err,         \* the err of threadpool_destroy
  result       \* "none" yet, "pool", "null", or "crashed"

vars == <<online, pc, args, id, mem, mutex, cond, started, shutdown, masks, handle,
          worker, err, result>>
fixed == <<online, args>>
objects == <<mem, mutex, cond>>
pool == <<started, shutdown, masks, handle, worker>>

\* pthread_create refuses a mask without an online CPU.
CanRun == args.affinity > 0 => masks[id] \cap online # {}

-----------------------------------------------------------------------------
(* Faulty versions of definitions below, not used here. *)

\* Adjusted: the default is forgotten.
AdjustedNoDefault(a) == a

\* JoinDone: a worker is not waited for.
JoinNoWait ==
  /\ pc = "join" /\ id <= args.threads
  /\ handle[id] = "thread"
  /\ id' = id + 1
  /\ UNCHANGED <<pc, fixed, objects, pool, err, result>>

\* Shutdown: threadpool_destroy wakes the workers but shutdown is not set.
ShutdownUnset ==
  /\ pc = "destroy"
  /\ pc' = "join" /\ id' = 1 /\ err' = "success"
  /\ UNCHANGED <<fixed, objects, pool, result>>

-----------------------------------------------------------------------------
\* 0 asks for the default.
Adjusted(a) ==
  [a EXCEPT !.threads = IF @ = 0 THEN DefaultThreads ELSE @,
            !.queues  = IF @ = 0 THEN DefaultQueues ELSE @]

Accepted(a) ==
  /\ a.threads \in 0..MaxThreads
  /\ a.queues \in 0..MaxQueues
  /\ a.argSize <= MaxArgSize

Init ==
  /\ online \in OnlineSets
  /\ pc = "check"
  /\ args \in [threads : ThreadCounts, queues : QueueSizes, argSize : ArgSizes,
               affinity : Affinities]
  /\ id = 1
  /\ mem = "none" /\ mutex = "raw" /\ cond = "raw"
  /\ started = 0 /\ shutdown = FALSE
  /\ masks = <<>>
  /\ handle = [i \in Ids |-> "raw"]
  /\ worker = [i \in Ids |-> "none"]
  /\ err = "success"
  /\ result = "none"

Goto(from, to) == pc = from /\ pc' = to
get_nprocs == Cardinality(online)
Fails(call) == call \in Failures
ReturnNull == result' = "null"

Check ==
  /\ Goto("check", "malloc")
  /\ Accepted(args)
  /\ args' = Adjusted(args)
  /\ UNCHANGED <<online, id, objects, pool, err, result>>

Reject ==
  /\ Goto("check", "returned")
  /\ ~Accepted(args)
  /\ ReturnNull
  /\ UNCHANGED <<fixed, id, objects, pool, err>>

Malloc ==
  /\ Goto("malloc", "mutex_init")
  /\ mem' = "live"
  /\ UNCHANGED <<fixed, id, mutex, cond, pool, err, result>>

MallocFails ==
  /\ Fails("malloc")
  /\ Goto("malloc", "returned")
  /\ ReturnNull
  /\ UNCHANGED <<fixed, id, objects, pool, err>>

MutexInit ==
  /\ Goto("mutex_init", "cond_init")
  /\ mutex' = "ready"
  /\ UNCHANGED <<fixed, id, mem, cond, pool, err, result>>

CondInit ==
  /\ Goto("cond_init", "attr_init")
  /\ cond' = "ready"
  /\ UNCHANGED <<fixed, id, mem, mutex, pool, err, result>>

AttrInit ==
  /\ Goto("attr_init", "loop")
  /\ UNCHANGED <<fixed, id, objects, pool, err, result>>

\* goto err, with the pool allocated.
InitFails ==
  /\ \E call \in {"mutex_init", "cond_init", "attr_init"} :
       Fails(call) /\ Goto(call, "err")
  /\ UNCHANGED <<fixed, id, objects, pool, err, result>>

\* The affinity mask is set only if one was asked for.
Loop ==
  /\ pc = "loop" /\ id <= args.threads
  /\ pc' = IF args.affinity > 0 THEN "setaffinity" ELSE "create"
  /\ UNCHANGED <<fixed, id, objects, pool, err, result>>

\* The worker's id, which starts from 1, is the thrid.
Place ==
  masks' = Append(masks, thread_set_affinity_cpus(id, args.affinity, get_nprocs))

SetAffinity ==
  /\ Goto("setaffinity", "create")
  /\ Place
  /\ UNCHANGED <<fixed, id, objects, started, shutdown, handle, worker, err, result>>

SetAffinityFails ==
  /\ Fails("setaffinity")
  /\ Goto("setaffinity", "destroy")
  /\ Place
  /\ UNCHANGED <<fixed, id, objects, started, shutdown, handle, worker, err, result>>

CreateThread ==
  /\ Goto("create", "getaffinity")
  /\ CanRun
  /\ handle' = [handle EXCEPT ![id] = "thread"]
  /\ worker' = [worker EXCEPT ![id] = "running"]
  /\ UNCHANGED <<fixed, id, objects, started, shutdown, masks, err, result>>

CreateThreadFails ==
  /\ Goto("create", "destroy")
  /\ Fails("create") \/ ~CanRun
  /\ UNCHANGED <<fixed, id, objects, pool, err, result>>

\* started++, without the lock.
GetAffinity ==
  /\ Goto("getaffinity", "loop")
  /\ started' = started + 1
  /\ id' = id + 1
  /\ UNCHANGED <<fixed, objects, shutdown, masks, handle, worker, err, result>>

\* The worker runs but was not counted.
GetAffinityFails ==
  /\ Fails("getaffinity")
  /\ Goto("getaffinity", "destroy")
  /\ UNCHANGED <<fixed, id, objects, pool, err, result>>

AttrDestroy ==
  /\ pc = "loop" /\ id > args.threads
  /\ pc' = "returned"
  /\ result' = "pool"
  /\ UNCHANGED <<fixed, id, objects, pool, err>>

AttrDestroyFails ==
  /\ Fails("attr_destroy")
  /\ pc = "loop" /\ id > args.threads
  /\ pc' = "destroy"
  /\ UNCHANGED <<fixed, id, objects, pool, err, result>>

-----------------------------------------------------------------------------
(* threadpool_destroy and threadpool_free, on the way back *)

Shutdown ==
  /\ Goto("destroy", "join")
  /\ shutdown' = TRUE
  /\ id' = 1 /\ err' = "success"
  /\ UNCHANGED <<fixed, objects, started, masks, handle, worker, result>>

JoinDone ==
  /\ pc = "join" /\ id <= args.threads
  /\ handle[id] = "thread" /\ worker[id] = "done"
  /\ id' = id + 1
  /\ UNCHANGED <<pc, fixed, objects, pool, err, result>>

\* The join of a worker that was never created.
JoinRaw ==
  /\ pc = "join" /\ id <= args.threads
  /\ handle[id] = "raw"
  /\ \/ /\ err' = "run_failure" /\ id' = id + 1
        /\ UNCHANGED <<pc, result>>
     \/ /\ pc' = "returned" /\ result' = "crashed"
        /\ UNCHANGED <<id, err>>
  /\ UNCHANGED <<fixed, objects, pool>>

\* All joined: free the pool if all went well; NULL either way.
Joined ==
  /\ pc = "join" /\ id > args.threads
  /\ pc' = IF err = "success" THEN "err" ELSE "returned"
  /\ result' = IF err = "success" THEN result ELSE "null"
  /\ UNCHANGED <<fixed, id, objects, pool, err>>

\* threadpool_free keeps a pool with workers; destroying a raw mutex or
\* condition variable may bring the program down.
Free ==
  /\ Goto("err", "returned")
  /\ IF started > 0
     THEN ReturnNull /\ UNCHANGED objects
     ELSE /\ mutex' = "destroyed" /\ cond' = "destroyed" /\ mem' = "freed"
          /\ result' \in IF "raw" \in {mutex, cond} THEN {"null", "crashed"} ELSE {"null"}
  /\ UNCHANGED <<fixed, id, pool, err>>

\* Worker i of the pool: it waits for a task and leaves when shutdown is set.
WorkerLeaves(i) ==
  /\ worker[i] = "running"
  /\ shutdown
  /\ worker' = [worker EXCEPT ![i] = "done"]
  /\ started' = started - 1
  /\ UNCHANGED <<pc, fixed, id, objects, shutdown, masks, handle, err, result>>

\* threadpool_create has returned.
Returned == pc = "returned" /\ UNCHANGED vars

-----------------------------------------------------------------------------
Creator ==
  \/ Check \/ Reject \/ Malloc \/ MallocFails
  \/ MutexInit \/ CondInit \/ AttrInit \/ InitFails
  \/ Loop \/ SetAffinity \/ SetAffinityFails
  \/ CreateThread \/ CreateThreadFails \/ GetAffinity \/ GetAffinityFails
  \/ AttrDestroy \/ AttrDestroyFails
  \/ Shutdown \/ JoinDone \/ JoinRaw \/ Joined \/ Free

Next == Creator \/ Returned \/ \E i \in Ids : WorkerLeaves(i)

Spec == Init /\ [][Next]_vars /\ WF_vars(Creator) /\ \A i \in Ids : WF_vars(WorkerLeaves(i))

-----------------------------------------------------------------------------
(* Properties *)

\* The pool a caller gets is the one module ThreadPool starts from: as many
\* workers as asked for or the default, at least one, all of them running,
\* joinable and counted, and the lock and the condition variable usable.
ReturnedPoolIsReady ==
  result = "pool" =>
    /\ args.threads \in 1..MaxThreads /\ args.queues \in 1..MaxQueues
    /\ mem = "live" /\ mutex = "ready" /\ cond = "ready"
    /\ ~shutdown /\ started = args.threads
    /\ \A i \in 1..args.threads : handle[i] = "thread" /\ worker[i] = "running"

\* The way back frees the pool only when no worker uses it any more, also when
\* a worker was created that started does not count; and when threadpool_create
\* gives up, no worker is left running.
FreedAfterWorkers == mem = "freed" \/ result = "null" => \A i \in Ids : worker[i] # "running"

\* A NULL leaves the pool allocated, with no pointer for the caller to free it
\* by, only when a worker could not be created and its join failed: the other
\* failures, before the first worker and after the last one, are cleaned up.
LeakOnlyAfterFailedJoin ==
  result = "null" /\ mem = "live" => shutdown /\ \E i \in 1..args.threads : handle[i] = "raw"

\* When threadpool_create gives up, whatever call failed, those workers already
\* created have been stopped and joined, and then the memory is released.
NothingLeftBehind == FreedAfterWorkers /\ LeakOnlyAfterFailedJoin

\* Every worker is given an online CPU, or pthread_create refuses it, and none
\* but online CPUs as long as affinity_cpus does not exceed their number.  It
\* rests on the online CPUs being those with the lowest ids.
Placed == DOMAIN masks
EveryWorkerCanRun ==
  \A i \in Placed :
    /\ masks[i] \cap online # {}
    /\ Capped(args.affinity) <= get_nprocs => masks[i] \subseteq online

\* Two workers share all of their CPUs or none: the groups do not overlap.
GroupsApart ==
  \A i, j \in Placed : masks[i] = masks[j] \/ masks[i] \cap masks[j] = {}

\* The workers are spread evenly: each group has the share of the workers
\* placed so far rounded up or down, also before the last worker is placed.
Crowd(i) == Cardinality({j \in Placed : masks[j] = masks[i]})
SpreadEvenly ==
  LET groups == Groups(get_nprocs, Capped(args.affinity))
  IN  \A i \in Placed :
        (Crowd(i) - 1) * groups < Len(masks) /\ Len(masks) < (Crowd(i) + 1) * groups

\* thread_set_affinity_cpus cuts the CPUs into groups that every worker can use
\* and that share the work.
WorkersPlaced == EveryWorkerCanRun /\ GroupsApart /\ SpreadEvenly

\* threadpool_create returns; its joins wait for nobody who does not leave.
CreateReturns == <>(pc = "returned")
=============================================================================
