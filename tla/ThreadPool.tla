----------------------------- MODULE ThreadPool -----------------------------
(***************************************************************************)
(* The thread pool of src/threadpool.c once threadpool_create has returned *)
(* it: the worker loop threadpool_run, and threadpool_add,                 *)
(* threadpool_unused_queues, threadpool_destroy and threadpool_free as     *)
(* called by any number of client threads and by the tasks themselves.     *)
(*                                                                         *)
(* A step is what a thread does between two points where another thread    *)
(* can tell the difference: every lock and unlock, every call on the       *)
(* condition variable, every lock-free read and every join is a step of    *)
(* its own.  A critical section is cut where its writes to the ring, to    *)
(* count and to shutdown lie, so that what the lock protects is at stake.  *)
(***************************************************************************)
EXTENDS ThreadPoolState

-----------------------------------------------------------------------------
(* Faulty versions of definitions below, none of which is used here.  Each  *)
(* makes one plausible mistake; put in place of the definition its comment  *)
(* names, it breaks a property, which shows that the property speaks about  *)
(* the code.                                                                *)

\* Lock: the owner is not looked at.
LockUnchecked(x) == lock' = x

\* Filled: the last byte of task_arg is not copied.
FilledShort(old, t) ==
  [task  |-> t,
   size  |-> IF ArgSize[t] > 0 THEN ArgSize[t] ELSE 0,
   bytes |-> [b \in Bytes |-> IF b < ArgSize[t] THEN t ELSE old.bytes[b]]]

\* WorkerWait: the loop condition forgets shutdown.
WorkerWaitBlind(w) ==
  /\ WorkerMoves(w, "check", "asleep")
  /\ count = 0
  /\ lock' = NoThread
  /\ UNCHANGED workerRest

\* WorkerCheck: a pool that is shutting down is drained first.
WorkerCheckDrains(w) ==
  /\ WorkerMoves(w, "check", "take")
  /\ count # 0
  /\ UNCHANGED <<lock, workerRest>>

\* WorkerTake: head is stepped before the slot is copied.
WorkerTakeAfterStep(w) ==
  LET next == IF head + 1 = QueueSize THEN 0 ELSE head + 1
  IN  /\ WorkerMoves(w, "take", "taken")
      /\ head' = next
      /\ taskcpy' = [taskcpy EXCEPT ![w] = queues[next]]
      /\ UNCHANGED <<lock, tail, count, queues, lifeVars, callVars, historyVars>>

\* WorkerStop: started-- is forgotten.
WorkerStopUncounted(w) ==
  /\ WorkerMoves(w, "check", "exit")
  /\ shutdown
  /\ UNCHANGED <<lock, workerRest>>

\* AddRefused: err is lost.
AddRefusedSilently(x) ==
  /\ CallMoves(x, "add_body", "add_unlock")
  /\ shutdown \/ count = QueueSize
  /\ UNCHANGED <<lock, ret, callRest>>

\* AddRefused: the break after err = threadpool_queue_full is forgotten.
AddRefusedNoBreak(x) ==
  /\ CallMoves(x, "add_body", IF shutdown THEN "add_unlock" ELSE "add_fill")
  /\ shutdown \/ count = QueueSize
  /\ Return(x, IF shutdown THEN "shutdown" ELSE "queue_full")
  /\ UNCHANGED <<lock, callRest>>

\* AddCheck: a full queue is not noticed.
AddCheckFull(x) ==
  /\ CallMoves(x, "add_body", "add_fill")
  /\ ~shutdown
  /\ UNCHANGED <<lock, ret, callRest>>

\* AddSignal: only the first task of an empty queue is signalled.
AddSignalFirst(x) ==
  /\ CallMoves(x, "add_signal", "add_unlock")
  /\ \/ \E w \in Workers : count = 1 /\ WorkerMoves(w, "asleep", "lock")
     \/ (count > 1 \/ \A w \in Workers : wpc[w] # "asleep") /\ UNCHANGED wpc
  /\ UNCHANGED <<lock, poolVars, lifeVars, taskcpy, offered, ret, joining, historyVars>>

\* AddSignal: the signal is forgotten.
AddSignalNever(x) ==
  CallMoves(x, "add_signal", "add_unlock") /\ UNCHANGED <<lock, ret, callRest>>

\* UnusedCount: one place too many.
UnusedCountOneMore(x) ==
  /\ CallMoves(x, "unused_count", "idle")
  /\ credit' = [credit EXCEPT ![x] = QueueSize - count + 1]
  /\ Return(x, "success")
  /\ UNCHANGED <<lock, poolVars, lifeVars, workerVars, offered, joining, outcome, finished>>

\* Join: the worker is not waited for.
JoinNoWait(x) ==
  /\ CallMoves(x, "join", "join")
  /\ joining[x] < ThreadCount
  /\ joining' = [joining EXCEPT ![x] = @ + 1]
  /\ UNCHANGED <<lock, poolVars, lifeVars, workerVars, offered, ret, historyVars>>

-----------------------------------------------------------------------------
\* The pool as threadpool_create returns it: all workers started, none in.
Init ==
  /\ lock = NoThread
  /\ head = 0 /\ tail = 0 /\ count = 0
  /\ shutdown = FALSE
  /\ started = ThreadCount
  /\ queues = [s \in Slots |-> RawSlot]
  /\ mem = "live"
  /\ wpc = [w \in Workers |-> "lock"]
  /\ taskcpy = [w \in Workers |-> RawSlot]
  /\ cpc = [x \in Threads |-> "idle"]
  /\ offered = [x \in Threads |-> NoTask]
  /\ ret = [x \in Threads |-> "success"]
  /\ joining = [x \in Threads |-> 0]
  /\ outcome = [t \in Tasks |-> "fresh"]
  /\ finished = {}
  /\ credit = [x \in Threads |-> 0]

\* pthread_mutex_unlock looks at no owner: a normal mutex that someone else
\* holds is released, one that nobody holds stays free, and 0 is returned.
Lock(x) == lock = NoThread /\ lock' = x
Unlock == lock' = NoThread

\* The next index of the ring: the index is stepped, then compared.
Step(i) == IF i + 1 = QueueSize THEN 0 ELSE i + 1

\* What threadpool_add leaves in a slot that held old: it writes arg_size
\* bytes of task_arg, and none when arg_size is 0 or negative.
Filled(old, t) ==
  [task  |-> t,
   size  |-> IF ArgSize[t] > 0 THEN ArgSize[t] ELSE 0,
   bytes |-> [b \in Bytes |-> IF b <= ArgSize[t] THEN t ELSE old.bytes[b]]]

Asleep == {w \in Workers : wpc[w] = "asleep"}

-----------------------------------------------------------------------------
(* threadpool_run, the worker w *)

\* At the top of the loop, and again when pthread_cond_wait is about to return.
WorkerLock(w) ==
  WorkerMoves(w, "lock", "check") /\ Lock(w) /\ UNCHANGED workerRest

\* pthread_cond_wait releases the lock and goes to sleep in one step.
WorkerWait(w) ==
  /\ WorkerMoves(w, "check", "asleep")
  /\ count = 0 /\ ~shutdown
  /\ Unlock
  /\ UNCHANGED workerRest

SpuriousWakeup(w) ==
  /\ SpuriousWakeups
  /\ WorkerMoves(w, "asleep", "lock")
  /\ UNCHANGED <<lock, workerRest>>

\* The loop is left with a task to take ...
WorkerCheck(w) ==
  /\ WorkerMoves(w, "check", "take")
  /\ count # 0 /\ ~shutdown
  /\ UNCHANGED <<lock, workerRest>>

\* ... the whole slot is copied, stale bytes of task_arg included ...
WorkerTake(w) ==
  /\ WorkerMoves(w, "take", "taken")
  /\ taskcpy' = [taskcpy EXCEPT ![w] = queues[head]]
  /\ head' = Step(head)
  /\ UNCHANGED <<lock, tail, count, queues, lifeVars, callVars, historyVars>>

\* ... and the count, which threadpool_unused_queues reads without the lock,
\* is lowered.
WorkerCount(w) ==
  /\ WorkerMoves(w, "taken", "unlock")
  /\ count' = count - 1
  /\ UNCHANGED <<lock, head, tail, queues, lifeVars, taskcpy, callVars, historyVars>>

WorkerUnlock(w) ==
  WorkerMoves(w, "unlock", "run") /\ Unlock /\ UNCHANGED workerRest

\* The task's function returns; a call it made of the pool has returned before.
WorkerFinish(w) ==
  /\ WorkerMoves(w, "run", "lock")
  /\ cpc[w] = "idle"
  /\ finished' = finished \cup {taskcpy[w].task}
  /\ UNCHANGED <<lock, poolVars, lifeVars, taskcpy, callVars, outcome, credit>>

\* Out of the loop, still holding the lock.
WorkerStop(w) ==
  /\ WorkerMoves(w, "check", "exit")
  /\ shutdown
  /\ started' = started - 1
  /\ UNCHANGED <<lock, poolVars, shutdown, mem, taskcpy, callVars, historyVars>>

WorkerExit(w) ==
  WorkerMoves(w, "exit", "done") /\ Unlock /\ UNCHANGED workerRest

-----------------------------------------------------------------------------
(* The calls.  x is a client, or a worker whose task makes the call.       *)

\* A call begins on a pool that exists: nobody calls once it is destroyed.
MayCall(x, name) ==
  /\ name \in Calls[x]
  /\ cpc[x] = "idle"
  /\ x \in Workers => wpc[x] = "run"
  /\ mem = "live"

(* threadpool_add *)

\* pool or function is NULL.
AddInvalid(x) ==
  /\ MayCall(x, "add")
  /\ Return(x, "invalid")
  /\ UNCHANGED <<lock, cpc, callRest>>

AddOverflow(x, t) ==
  /\ MayCall(x, "add")
  /\ outcome[t] = "fresh"
  /\ ArgSize[t] > TaskArgSize
  /\ Return(x, "task_arg_overflow")
  /\ outcome' = [outcome EXCEPT ![t] = "rejected"]
  /\ UNCHANGED <<lock, poolVars, lifeVars, workerVars, cpc, offered, joining, finished, credit>>

AddCall(x, t) ==
  /\ MayCall(x, "add")
  /\ outcome[t] = "fresh"
  /\ ArgSize[t] <= TaskArgSize
  /\ CallMoves(x, "idle", "add_lock")
  /\ offered' = [offered EXCEPT ![x] = t]
  /\ outcome' = [outcome EXCEPT ![t] = "offered"]
  /\ Return(x, "success")
  /\ UNCHANGED <<lock, poolVars, lifeVars, workerVars, joining, finished, credit>>

AddLock(x) ==
  CallMoves(x, "add_lock", "add_body") /\ Lock(x) /\ UNCHANGED <<ret, callRest>>

AddLockFails(x) ==
  /\ "lock" \in Failures
  /\ CallMoves(x, "add_lock", "idle")
  /\ Return(x, "lock_failure")
  /\ outcome' = [outcome EXCEPT ![offered[x]] = "rejected"]
  /\ UNCHANGED <<lock, poolVars, lifeVars, workerVars, offered, joining, finished, credit>>

AddRefused(x) ==
  /\ CallMoves(x, "add_body", "add_unlock")
  /\ shutdown \/ count = QueueSize
  /\ Return(x, IF shutdown THEN "shutdown" ELSE "queue_full")
  /\ UNCHANGED <<lock, callRest>>

AddCheck(x) ==
  /\ CallMoves(x, "add_body", "add_fill")
  /\ ~shutdown /\ count # QueueSize
  /\ UNCHANGED <<lock, ret, callRest>>

AddFill(x) ==
  /\ CallMoves(x, "add_fill", "add_count")
  /\ queues' = [queues EXCEPT ![tail] = Filled(@, offered[x])]
  /\ tail' = Step(tail)
  /\ UNCHANGED <<lock, head, count, lifeVars, workerVars, offered, ret, joining, historyVars>>

AddCount(x) ==
  /\ CallMoves(x, "add_count", "add_signal")
  /\ count' = count + 1
  /\ credit' = [credit EXCEPT ![x] = IF @ > 0 THEN @ - 1 ELSE 0]
  /\ UNCHANGED <<lock, head, tail, queues, lifeVars, workerVars, offered, ret, joining,
                 outcome, finished>>

\* pthread_cond_signal wakes one of the workers that wait, if any waits.
AddSignal(x) ==
  /\ CallMoves(x, "add_signal", "add_unlock")
  /\ \/ \E w \in Asleep : WorkerMoves(w, "asleep", "lock")
     \/ Asleep = {} /\ UNCHANGED wpc
  /\ UNCHANGED <<lock, poolVars, lifeVars, taskcpy, offered, ret, joining, historyVars>>

AddSignalFails(x) ==
  /\ "signal" \in Failures
  /\ CallMoves(x, "add_signal", "add_unlock")
  /\ Return(x, "lock_failure")
  /\ UNCHANGED <<lock, callRest>>

AddUnlock(x) ==
  /\ CallMoves(x, "add_unlock", "idle")
  /\ Unlock
  /\ outcome' = [outcome EXCEPT ![offered[x]] =
                   IF ret[x] = "success" THEN "accepted" ELSE "rejected"]
  /\ UNCHANGED <<poolVars, lifeVars, workerVars, offered, ret, joining, finished, credit>>

(* threadpool_unused_queues: two reads, without the lock *)

UnusedInvalid(x) ==
  /\ MayCall(x, "unused_queues")
  /\ shutdown
  /\ Return(x, "invalid")
  /\ UNCHANGED <<lock, cpc, callRest>>

UnusedCall(x) ==
  /\ MayCall(x, "unused_queues")
  /\ ~shutdown
  /\ CallMoves(x, "idle", "unused_count")
  /\ UNCHANGED <<lock, ret, callRest>>

UnusedCount(x) ==
  /\ CallMoves(x, "unused_count", "idle")
  /\ credit' = [credit EXCEPT ![x] = QueueSize - count]
  /\ Return(x, "success")
  /\ UNCHANGED <<lock, poolVars, lifeVars, workerVars, offered, joining, outcome, finished>>

(* threadpool_destroy and threadpool_free *)

\* A quiescent program lets every other client leave the pool first.
DestroyCall(x) ==
  /\ MayCall(x, "destroy")
  /\ Quiescent /\ x \in Clients => \A d \in Clients \ {x} : cpc[d] = "retired"
  /\ CallMoves(x, "idle", "destroy_lock")
  /\ Return(x, "success")
  /\ UNCHANGED <<lock, callRest>>

DestroyLock(x) ==
  CallMoves(x, "destroy_lock", "destroy_body") /\ Lock(x) /\ UNCHANGED <<ret, callRest>>

DestroyLockFails(x) ==
  /\ "lock" \in Failures
  /\ CallMoves(x, "destroy_lock", "idle")
  /\ Return(x, "lock_failure")
  /\ UNCHANGED <<lock, callRest>>

DestroyRefused(x) ==
  /\ CallMoves(x, "destroy_body", "last_unlock")
  /\ shutdown
  /\ Return(x, "shutdown")
  /\ UNCHANGED <<lock, callRest>>

DestroyBody(x) ==
  /\ CallMoves(x, "destroy_body", "broadcast")
  /\ ~shutdown
  /\ shutdown' = TRUE
  /\ UNCHANGED <<lock, poolVars, started, mem, workerVars, offered, ret, joining, historyVars>>

\* pthread_cond_broadcast wakes all workers that wait; then the lock is left.
Broadcast(x) ==
  /\ CallMoves(x, "broadcast", "join")
  /\ wpc' = [w \in Workers |-> IF w \in Asleep THEN "lock" ELSE wpc[w]]
  /\ Unlock
  /\ joining' = [joining EXCEPT ![x] = 0]
  /\ UNCHANGED <<poolVars, lifeVars, taskcpy, offered, ret, historyVars>>

\* Nobody is woken, the workers are not joined, shutdown stays set.
BroadcastFails(x) ==
  /\ "broadcast" \in Failures
  /\ CallMoves(x, "broadcast", "last_unlock")
  /\ Return(x, "lock_failure")
  /\ UNCHANGED <<lock, callRest>>

\* pthread_join waits until the worker with index joining[x] is done.
Join(x) ==
  /\ CallMoves(x, "join", "join")
  /\ joining[x] < ThreadCount
  /\ wpc[joining[x] + 1] = "done"
  /\ joining' = [joining EXCEPT ![x] = @ + 1]
  /\ UNCHANGED <<lock, poolVars, lifeVars, workerVars, offered, ret, historyVars>>

\* A task that destroys its own pool: joining oneself is refused (EDEADLK).
JoinSelf(x) ==
  /\ CallMoves(x, "join", "join")
  /\ joining[x] < ThreadCount
  /\ joining[x] + 1 = x
  /\ Return(x, "run_failure")
  /\ joining' = [joining EXCEPT ![x] = @ + 1]
  /\ UNCHANGED <<lock, poolVars, lifeVars, workerVars, offered, historyVars>>

JoinedAll(x) ==
  /\ CallMoves(x, "join", "last_unlock")
  /\ joining[x] = ThreadCount
  /\ UNCHANGED <<lock, ret, callRest>>

\* The unlock after the loop; a thread that comes from the joins has unlocked
\* already and does it again.
LastUnlock(x) ==
  /\ CallMoves(x, "last_unlock", IF ret[x] = "success" THEN "free_check" ELSE "idle")
  /\ Unlock
  /\ UNCHANGED <<ret, callRest>>

\* threadpool_free leaves the pool alone while a worker counts as started;
\* threadpool_destroy returns 0 all the same.
FreeCheck(x) ==
  /\ CallMoves(x, "free_check", IF started > 0 THEN "retired" ELSE "free_lock")
  /\ UNCHANGED <<lock, ret, callRest>>

FreeLock(x) ==
  CallMoves(x, "free_lock", "free") /\ Lock(x) /\ UNCHANGED <<ret, callRest>>

\* The mutex and the condition variable are destroyed, the memory is freed.
Free(x) ==
  /\ CallMoves(x, "free", "retired")
  /\ mem' = "freed"
  /\ UNCHANGED <<lock, poolVars, shutdown, started, workerVars, offered, ret, joining, historyVars>>

\* A client makes no further call.
Retire(c) == CallMoves(c, "idle", "retired") /\ UNCHANGED <<lock, ret, callRest>>

-----------------------------------------------------------------------------
WorkerNext(w) ==
  \/ WorkerLock(w) \/ WorkerWait(w) \/ WorkerCheck(w) \/ WorkerTake(w)
  \/ WorkerCount(w) \/ WorkerUnlock(w) \/ WorkerFinish(w)
  \/ WorkerStop(w) \/ WorkerExit(w)

AddNext(x) ==
  \/ AddLock(x) \/ AddLockFails(x) \/ AddRefused(x) \/ AddCheck(x)
  \/ AddFill(x) \/ AddCount(x)
  \/ AddSignal(x) \/ AddSignalFails(x) \/ AddUnlock(x)

DestroyNext(x) ==
  \/ DestroyLock(x) \/ DestroyLockFails(x) \/ DestroyRefused(x) \/ DestroyBody(x)
  \/ Broadcast(x) \/ BroadcastFails(x)
  \/ Join(x) \/ JoinSelf(x) \/ JoinedAll(x) \/ LastUnlock(x)
  \/ FreeCheck(x) \/ FreeLock(x) \/ Free(x)

\* What a thread does inside a call, and the calls it may begin.
CallNext(x) == AddNext(x) \/ UnusedCount(x) \/ DestroyNext(x)

BeginCall(x) ==
  \/ AddInvalid(x)
  \/ \E t \in Tasks : AddOverflow(x, t) \/ AddCall(x, t)
  \/ UnusedInvalid(x) \/ UnusedCall(x) \/ DestroyCall(x)

\* The program is over: the clients have left, the workers sleep or are gone.
Quiet ==
  /\ \A c \in Clients : cpc[c] = "retired"
  /\ \A w \in Workers : wpc[w] \in {"asleep", "done"}
  /\ UNCHANGED vars

Next ==
  \/ \E w \in Workers : WorkerNext(w) \/ SpuriousWakeup(w)
  \/ \E x \in Threads : CallNext(x) \/ BeginCall(x)
  \/ \E c \in Clients : Retire(c)
  \/ Quiet

Spec == Init /\ [][Next]_vars

\* A thread that can take a step inside the pool takes it, and a task returns,
\* whatever calls it makes before.  No thread has to begin a call, no wakeup
\* has to be spurious, and a thread may lose the lock to others again and again.
Fairness ==
  /\ \A w \in Workers : WF_vars(WorkerNext(w)) /\ SF_vars(WorkerFinish(w))
  /\ \A x \in Threads : WF_vars(CallNext(x))

FairSpec == Spec /\ Fairness

-----------------------------------------------------------------------------
(* What the state means *)

WorkerOwns == {"check", "take", "taken", "unlock", "exit"}
CallOwns ==
  {"add_body", "add_fill", "add_count", "add_signal", "add_unlock",
   "destroy_body", "broadcast", "free"}

\* Thread x is between a lock and the unlock that ends its critical section.
Owns(x) ==
  \/ x \in Workers /\ wpc[x] \in WorkerOwns
  \/ cpc[x] \in CallOwns
  \/ cpc[x] = "last_unlock" /\ ret[x] \in {"shutdown", "lock_failure"}

\* How many tasks the ring holds: count, but for a task that has just been
\* written or just been copied and is not counted yet.
Length ==
  IF \E x \in Threads : cpc[x] = "add_count" THEN count + 1
  ELSE IF \E w \in Workers : wpc[w] = "taken" THEN count - 1
  ELSE count

\* The index i places after the index h, for i up to QueueSize.
Place(h, i) == IF h + i < QueueSize THEN h + i ELSE h + i - QueueSize

\* The tasks in the ring, the oldest first.
Backlog == [i \in 1..Length |-> queues[Place(head, i - 1)].task]
Queued == {Backlog[i] : i \in 1..Length}

\* The task each worker has taken and not finished.
Assigned ==
  [w \in Workers |->
     IF wpc[w] \in {"taken", "unlock", "run"} THEN taskcpy[w].task ELSE NoTask]
Running == {Assigned[w] : w \in Workers} \ {NoTask}

-----------------------------------------------------------------------------
(* Properties *)

\* Every variable has its type; index arithmetic stays within the ring and
\* count within the queue.
TypeOK ==
  /\ lock \in Threads \cup {NoThread}
  /\ head \in Slots /\ tail \in Slots
  /\ count \in 0..QueueSize
  /\ shutdown \in BOOLEAN
  /\ started \in 0..ThreadCount
  /\ queues \in [Slots -> Slot]
  /\ mem \in {"live", "freed"}
  /\ wpc \in [Workers -> WorkerLabels]
  /\ taskcpy \in [Workers -> Slot]
  /\ cpc \in [Threads -> CallLabels]
  /\ offered \in [Threads -> Tasks \cup {NoTask}]
  /\ ret \in [Threads -> Codes]
  /\ joining \in [Threads -> 0..ThreadCount]
  /\ outcome \in [Tasks -> {"fresh", "offered", "accepted", "rejected"}]
  /\ finished \subseteq Tasks
  /\ credit \in [Threads -> 0..QueueSize]

\* A thread inside a critical section of the pool holds pool->lock, so there is
\* at most one.  The unlock at the end of threadpool_destroy, which the thread
\* does not hold, must not take the lock from another one.
MutualExclusion == \A x \in Threads : Owns(x) => lock = x

\* head, tail and count describe the same segment of the ring, in the middle
\* of threadpool_add and of threadpool_run too: no task is overwritten before
\* it is taken and no slot is taken twice.
RingConsistent ==
  /\ Length \in 0..QueueSize
  /\ tail = Place(head, Length)

\* threadpool_add signals once for each task and never broadcasts.  While a
\* worker sleeps in pthread_cond_wait, every waiting task has an awake worker
\* on its way to the queue, or a signal that is about to be sent: no wakeup is
\* lost, whoever took what in between.
Coming ==
  {x \in Threads :
     \/ cpc[x] = "add_signal"
     \/ x \in Workers /\ wpc[x] \in {"lock", "check", "take", "taken"}}
NoLostWakeup == ~shutdown /\ Asleep # {} => count <= Cardinality(Coming)

\* A task that threadpool_add accepted is in the ring, with a worker or
\* finished, and in one of these places only: none is lost to the wrap of the
\* ring and none is run twice.
TasksConserved ==
  /\ \A t \in Tasks : outcome[t] = "accepted" => t \in Queued \cup Running \cup finished
  /\ \A i, j \in 1..Length : Backlog[i] = Backlog[j] => i = j
  /\ \A v, w \in Workers : Assigned[v] = Assigned[w] /\ Assigned[v] # NoTask => v = w
  /\ Queued \cap Running = {}
  /\ (Queued \cup Running) \cap finished = {}

\* What threadpool_add refused is never run: the caller may free the argument
\* or submit it again.
RefusedNeverRun ==
  \A t \in Tasks :
    outcome[t] = "rejected" => t \notin Queued \cup Running \cup finished

\* A running task reads in task_arg the arg_size bytes it was submitted with,
\* although its slot and the worker's copy held other tasks before.
OwnArgument ==
  \A w \in Workers :
    wpc[w] = "run" =>
      \A b \in Bytes : b <= taskcpy[w].size => taskcpy[w].bytes[b] = taskcpy[w].task

\* When the joins of threadpool_destroy went well every worker is gone and no
\* longer counts as started, so threadpool_free, whose result nobody reads,
\* does not leave the pool allocated.
DestroyFinds == {"free_check", "free_lock", "free"}
DestroyFreesPool ==
  \A x \in Threads :
    cpc[x] \in DestroyFinds => started = 0 /\ \A w \in Workers : wpc[w] = "done"

\* Once threadpool_free has freed the pool no worker runs and no call is in
\* progress: nobody touches the freed memory.
NoUseAfterFree ==
  mem = "freed" =>
    /\ \A w \in Workers : wpc[w] = "done"
    /\ \A x \in Threads : cpc[x] \in {"idle", "retired"}

\* If one thread alone submits, the places threadpool_unused_queues told it of
\* are still free when it uses them, although it read the count without the
\* lock: its threadpool_add is not answered queue_full.
SoleSubmitterCredit ==
  \A x \in Threads :
    (\A y \in Threads : "add" \in Calls[y] => y = x) => credit[x] <= QueueSize - count

\* From threadpool_destroy's shutdown = 1 on the ring does not change: what is
\* queued then is never started, and nothing is queued any more.
ShutdownFreezesQueue == [][shutdown => UNCHANGED <<poolVars, shutdown>>]_vars

\* The pool is a bounded FIFO queue of tasks, each run once, until it is closed.
Promise ==
  INSTANCE TaskQueue
    WITH queue <- Backlog, running <- Assigned, closed <- shutdown, Capacity <- QueueSize
ImplementsTaskQueue == Promise!Spec

\* A queued task is taken, unless the pool is shut down first.
QueuedIsTaken == \A t \in Tasks : t \in Queued ~> (t \notin Queued \/ shutdown)

\* threadpool_destroy returns: it does not wait for ever for a worker that
\* sleeps, or for the lock.
DestroyReturns ==
  \A x \in Threads : cpc[x] = "destroy_lock" ~> cpc[x] \in {"idle", "retired"}
=============================================================================
