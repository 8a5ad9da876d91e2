-------------------------- MODULE ThreadPoolState --------------------------
(***************************************************************************)
(* The state of the thread pool of src/threadpool.c and of the threads in  *)
(* it: parameters, variables, and the bookkeeping shared by all actions.   *)
(***************************************************************************)
EXTENDS Integers, Sequences, FiniteSets

CONSTANTS
  ThreadCount,      \* pool->thread_count
  QueueSize,        \* pool->queue_size
  TaskArgSize,      \* pool->task_arg_size, in bytes
  Clients,          \* the threads of the program that are not workers
  Tasks,            \* what the calls of threadpool_add submit, one task a call
  ArgSize,          \* the arg_size each task is submitted with
  Calls,            \* the functions of the pool each thread calls
  Failures,         \* the pthread calls that may fail
  SpuriousWakeups,  \* whether pthread_cond_wait may return unasked
  Quiescent,        \* whether a client destroys the pool only when no other uses it
  NoTask, NoThread

Workers == 1..ThreadCount
Threads == Clients \cup Workers
Slots == 0..(QueueSize - 1)

ASSUME SizesAssumption ==
  /\ ThreadCount \in Nat \ {0}
  /\ QueueSize \in Nat \ {0}
  /\ TaskArgSize \in Nat

ASSUME ThreadsAssumption ==
  /\ IsFiniteSet(Clients)
  /\ Clients \cap Workers = {}
  /\ NoThread \notin Threads
  /\ Calls \in [Threads -> SUBSET {"add", "unused_queues", "destroy"}]
  /\ Quiescent \in BOOLEAN
  /\ SpuriousWakeups \in BOOLEAN
  /\ Failures \subseteq {"lock", "signal", "broadcast"}

ASSUME TasksAssumption ==
  /\ NoTask \notin Tasks
  /\ ArgSize \in [Tasks -> Int]

VARIABLES
  \* struct threadpool_t
  lock,       \* the owner of pool->lock
  head, tail, count,
  shutdown,
  started,
  queues,     \* the ring of task slots
  mem,        \* "live", then "freed" once threadpool_free has run
  \* the worker threads
  wpc,        \* where each worker is in threadpool_run
  taskcpy,    \* its private copy of the task it took
  \* the calls in progress
  cpc,        \* where each thread is in a function of the pool
  offered,    \* the task its threadpool_add submits
  ret,        \* its local err, then what its last call returned
  joining,    \* its loop index i in threadpool_destroy
  \* history
  outcome,    \* what the caller of threadpool_add knows of each task
  finished,   \* the tasks whose function has returned
  credit      \* free places each thread counts on, see threadpool_unused_queues

poolVars == <<head, tail, count, queues>>
lifeVars == <<shutdown, started, mem>>
workerVars == <<wpc, taskcpy>>
callVars == <<cpc, offered, ret, joining>>
historyVars == <<outcome, finished, credit>>
vars == <<lock, poolVars, lifeVars, workerVars, callVars, historyVars>>

(***************************************************************************)
(* A slot of the ring.  The function, argument and flags of a task are its *)
(* identity; task_arg is a buffer of TaskArgSize bytes, each of them named *)
(* by the task that wrote it last.                                         *)
(***************************************************************************)
Bytes == 1..TaskArgSize
Slot == [task : Tasks \cup {NoTask}, size : Nat, bytes : [Bytes -> Tasks \cup {NoTask}]]
RawSlot == [task |-> NoTask, size |-> 0, bytes |-> [b \in Bytes |-> NoTask]]

WorkerLabels ==
  {"lock", "check", "take", "taken", "unlock", "run", "asleep", "exit", "done"}
CallLabels ==
  {"idle", "add_lock", "add_body", "add_fill", "add_count", "add_signal",
   "add_unlock", "unused_count", "destroy_lock", "destroy_body", "broadcast",
   "join", "last_unlock", "free_check", "free_lock", "free", "retired"}
Codes ==
  {"success", "invalid", "lock_failure", "queue_full", "shutdown",
   "run_failure", "task_arg_overflow"}

Return(x, code) == ret' = [ret EXCEPT ![x] = code]

\* Worker w goes on in threadpool_run, thread x in a function of the pool.
WorkerMoves(w, from, to) == wpc[w] = from /\ wpc' = [wpc EXCEPT ![w] = to]
CallMoves(x, from, to) == cpc[x] = from /\ cpc' = [cpc EXCEPT ![x] = to]

\* What such a step leaves alone when it is about control and the lock only.
workerRest == <<poolVars, lifeVars, taskcpy, callVars, historyVars>>
callRest == <<poolVars, lifeVars, workerVars, offered, joining, historyVars>>
=============================================================================
