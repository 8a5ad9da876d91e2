-------------------------- MODULE TaskQueueProofs --------------------------
(***************************************************************************)
(* What becomes of the tasks, for any number of workers and of clients,    *)
(* any queue size and any set of tasks: none is lost, run twice or run     *)
(* after it was refused, and the pool implements TaskQueue.                *)
(*                                                                         *)
(* Only three actions move a task: AddFill puts it into the ring,          *)
(* WorkerTake hands it to a worker and WorkerFinish retires it.  The       *)
(* lemmas on them say so in the words of TaskQueue; every other step       *)
(* leaves the queue as it is seen from outside alone, even when it changes *)
(* count.                                                                  *)
(*                                                                         *)
(* The last part is about the sample program, for any number of workers,   *)
(* places and rounds: its tasks read live memory, and only tasks that were *)
(* never started keep theirs.  The program is a behaviour of the pool, so  *)
(* all that is shown of the tasks before holds in it.  main closes the     *)
(* connections whatever threadpool_destroy returned, so its theorems need  *)
(* its calls to succeed; a signal may fail.                                *)
(***************************************************************************)
EXTENDS SampleMain, ThreadPoolProofs, SequenceTheorems

\* Where a task is once threadpool_add has written it.
Held == Queued \cup Running \cup finished

\* The queue and what the workers run, as TaskQueue sees them.
Seen == <<Backlog, Assigned, finished>>

LEMMA BacklogType ==
  ASSUME Inv
  PROVE  /\ Length \in 0..QueueSize
         /\ Backlog \in Seq(Tasks)
         /\ Len(Backlog) = Length
         /\ DOMAIN Backlog = 1..Length
         /\ \A i \in 1..Length : Backlog[i] = queues[Place(head, i - 1)].task
         /\ Assigned \in [Workers -> Tasks \cup {NoTask}]
<1>1. Length \in 0..QueueSize
  BY SizesAssumption
  DEF Inv, Types, Locked, Counted, Ring, Length, Owns, CallOwns, WorkerOwns, Threads
<1>2. \A i \in 1..Length : queues[Place(head, i - 1)].task \in Tasks
  BY <1>1 DEF Inv, Ring
<1>3. Backlog \in [1..Length -> Tasks]
  BY <1>2 DEF Backlog
<1>4. Backlog \in Seq(Tasks) /\ Len(Backlog) = Length
  BY <1>1, <1>3
<1>5. Assigned \in [Workers -> Tasks \cup {NoTask}]
  BY DEF Inv, Ring, Assigned
<1> QED BY <1>1, <1>3, <1>4, <1>5 DEF Backlog

\* threadpool_add puts its task behind all others.
LEMMA FillAppends ==
  ASSUME Inv, NEW x \in Threads, AddFill(x)
  PROVE  /\ offered[x] \in Tasks /\ ~shutdown
         /\ Length < QueueSize
         /\ Backlog' = Append(Backlog, offered[x])
         /\ Length' = Length + 1 /\ Backlog'[Length'] = offered[x]
         /\ \A i \in 1..Length : Backlog'[i] = Backlog[i]
         /\ UNCHANGED <<Assigned, finished>>
<1> USE SizesAssumption, ThreadsAssumption
<1>1. lock = x /\ ~shutdown /\ cpc[x] = "add_fill" /\ offered[x] \in Tasks
  BY DEF AddFill, CallMoves, Owns, CallOwns, AddPending, Inv, Locked, Control
<1>2. \A y \in Threads : cpc[y] # "add_count"
  BY <1>1 DEF Inv, Locked, Owns, CallOwns
<1>3. \A w \in Workers : wpc[w] # "taken"
  BY <1>1 DEF Inv, Locked, Owns, CallOwns, WorkerOwns, Threads, Control
<1>4. Length = count /\ count \in 0..(QueueSize - 1)
  BY <1>1, <1>2, <1>3 DEF Inv, Counted, Length
<1>5. /\ cpc'[x] = "add_count" /\ count' = count /\ head' = head
      /\ wpc' = wpc /\ taskcpy' = taskcpy /\ finished' = finished
      /\ queues' = [queues EXCEPT ![tail] = Filled(@, offered[x])]
  BY DEF AddFill, CallMoves, Inv, Types, workerVars, historyVars
<1>6. Length' = Length + 1
  BY <1>4, <1>5 DEF Length
<1>7. tail = Place(head, Length) /\ head \in Slots /\ tail \in Slots /\ queues \in [Slots -> Slot]
  BY DEF Inv, Ring, Types
<1>8. \A i \in 1..Length : queues'[Place(head', i - 1)] = queues[Place(head, i - 1)]
  <2> SUFFICES ASSUME NEW i \in 1..Length
               PROVE  queues'[Place(head', i - 1)] = queues[Place(head, i - 1)]
    OBVIOUS
  <2>1. i - 1 \in 0..(QueueSize - 1) /\ Length \in 0..(QueueSize - 1) /\ i - 1 # Length
    BY <1>4
  <2>2. Place(head, i - 1) # tail /\ Place(head, i - 1) \in Slots
    BY <1>7, <2>1, PlaceInjective, PlaceInSlots
  <2> QED BY <1>5, <1>7, <2>2
<1>9. queues'[Place(head', Length)].task = offered[x]
  BY <1>5, <1>7 DEF Filled
<1>10. Backlog' = [i \in 1..(Length + 1) |-> IF i <= Length THEN Backlog[i] ELSE offered[x]]
  <2>1. \A i \in 1..(Length + 1) :
          queues'[Place(head', i - 1)].task = IF i <= Length THEN Backlog[i] ELSE offered[x]
    BY <1>4, <1>8, <1>9 DEF Backlog
  <2> QED BY <1>6, <2>1 DEF Backlog
<1>11. Backlog' = Append(Backlog, offered[x])
  BY <1>1, <1>4, <1>10, BacklogType
<1>12. Assigned' = Assigned
  BY <1>5 DEF Assigned
<1> QED BY <1>1, <1>4, <1>5, <1>6, <1>10, <1>11, <1>12

\* A worker takes the oldest task.
LEMMA TakeStarts ==
  ASSUME Inv, NEW w \in Workers, WorkerTake(w)
  PROVE  /\ ~shutdown
         /\ Backlog # << >>
         /\ Assigned[w] = NoTask
         /\ Backlog' = Tail(Backlog)
         /\ Length \in 1..QueueSize /\ Length' = Length - 1
         /\ \A i \in 1..(Length - 1) : Backlog'[i] = Backlog[i + 1]
         /\ Head(Backlog) = Backlog[1]
         /\ Assigned' = [Assigned EXCEPT ![w] = Head(Backlog)]
         /\ finished' = finished
<1> USE SizesAssumption, ThreadsAssumption
<1>1. w \in Threads /\ lock = w /\ ~shutdown /\ wpc[w] = "take"
  BY DEF WorkerTake, WorkerMoves, Owns, WorkerOwns, Threads, Inv, Locked
<1>2. \A y \in Threads : cpc[y] # "add_count"
  BY <1>1 DEF Inv, Locked, Control, Owns, CallOwns
<1>3. \A v \in Workers : wpc[v] # "taken"
  BY <1>1 DEF Inv, Locked, Owns, WorkerOwns, Threads
<1>4. Length = count /\ count \in 1..QueueSize
  BY <1>1, <1>2, <1>3 DEF Inv, Counted, Length
<1>5. /\ wpc' = [wpc EXCEPT ![w] = "taken"] /\ count' = count /\ head' = Step(head)
      /\ cpc' = cpc /\ queues' = queues /\ finished' = finished
      /\ taskcpy' = [taskcpy EXCEPT ![w] = queues[head]]
  BY DEF WorkerTake, WorkerMoves, callVars, historyVars
<1>6. Length' = Length - 1
  BY <1>2, <1>4, <1>5 DEF Length, Inv, Types
<1>7. head \in Slots
  BY DEF Inv, Types
<1>8. \A i \in 1..(Length - 1) : Place(head', i - 1) = Place(head, i)
  BY <1>4, <1>5, <1>7, PlaceStep
<1>9. Backlog' = [i \in 1..(Length - 1) |-> Backlog[i + 1]]
  <2>1. \A i \in 1..(Length - 1) : queues'[Place(head', i - 1)].task = Backlog[i + 1]
    BY <1>4, <1>5, <1>8 DEF Backlog
  <2> QED BY <1>6, <2>1 DEF Backlog
<1>10. Backlog # << >> /\ Backlog' = Tail(Backlog)
  <2>1. Backlog \in Seq(Tasks) /\ Len(Backlog) = Length
    BY BacklogType
  <2>2. Backlog # << >>
    BY <1>4, <2>1
  <2>3. /\ Tail(Backlog) \in Seq(Tasks) /\ Len(Tail(Backlog)) = Length - 1
        /\ \A i \in 1..(Length - 1) : Tail(Backlog)[i] = Backlog[i + 1]
    BY <2>1, <2>2, HeadTailProperties
  <2>4. /\ Backlog' \in Seq(Tasks) /\ Len(Backlog') = Length - 1
        /\ \A i \in 1..(Length - 1) : Backlog'[i] = Backlog[i + 1]
    BY <1>4, <1>9, <2>1
  <2> QED BY <2>2, <2>3, <2>4, SeqEqual
<1>11. Head(Backlog) = Backlog[1] /\ Backlog[1] = queues[head].task
  BY <1>4, <1>7, BacklogType DEF Place, Slots
<1>12. Assigned[w] = NoTask
  BY <1>1 DEF Assigned
<1>13. Assigned' = [Assigned EXCEPT ![w] = Head(Backlog)]
  <2>1. \A v \in Workers : v # w => wpc'[v] = wpc[v] /\ taskcpy'[v] = taskcpy[v]
    BY <1>5 DEF Inv, Types
  <2>2. wpc'[w] = "taken" /\ taskcpy'[w].task = Head(Backlog)
    BY <1>5, <1>11 DEF Inv, Types
  <2> QED BY <2>1, <2>2 DEF Assigned
<1> QED BY <1>1, <1>4, <1>5, <1>6, <1>9, <1>10, <1>11, <1>12, <1>13

\* A task that returns is finished, and its worker is free.
LEMMA FinishRetires ==
  ASSUME Inv, NEW w \in Workers, WorkerFinish(w)
  PROVE  /\ Assigned[w] # NoTask
         /\ Backlog' = Backlog
         /\ Assigned' = [Assigned EXCEPT ![w] = NoTask]
         /\ finished' = finished \cup {Assigned[w]}
<1> USE ThreadsAssumption, TasksAssumption
<1>1. /\ wpc[w] = "run" /\ wpc' = [wpc EXCEPT ![w] = "lock"]
      /\ count' = count /\ head' = head /\ cpc' = cpc /\ queues' = queues /\ taskcpy' = taskcpy
      /\ finished' = finished \cup {taskcpy[w].task}
  BY DEF WorkerFinish, WorkerMoves, poolVars, callVars
<1>2. \A v \in Workers : wpc'[v] = "taken" <=> wpc[v] = "taken"
  BY <1>1 DEF Inv, Types
<1>3. Length' = Length
  BY <1>1, <1>2 DEF Length
<1>4. Backlog' = Backlog
  BY <1>1, <1>3 DEF Backlog
<1>5. Assigned[w] = taskcpy[w].task /\ Assigned[w] # NoTask
  BY <1>1 DEF Assigned, Inv, Ring
<1>6. Assigned' = [Assigned EXCEPT ![w] = NoTask]
  BY <1>1 DEF Assigned, Inv, Types
<1> QED BY <1>1, <1>4, <1>5, <1>6

\* A step that moves no task and no mark of the ring.
Aside ==
  /\ UNCHANGED <<count, head, queues, finished, taskcpy>>
  /\ \A w \in Workers :
       /\ wpc'[w] = "taken" <=> wpc[w] = "taken"
       /\ wpc'[w] \in {"taken", "unlock", "run"} <=> wpc[w] \in {"taken", "unlock", "run"}
  /\ \A x \in Threads : cpc'[x] = "add_count" <=> cpc[x] = "add_count"

LEMMA AsideUnseen ==
  ASSUME Inv, Aside
  PROVE  UNCHANGED Seen
<1>1. Length' = Length
  BY DEF Aside, Length
<1>2. Backlog' = Backlog
  BY <1>1 DEF Aside, Backlog
<1>3. Assigned' = Assigned
  BY DEF Aside, Assigned
<1> QED BY <1>2, <1>3 DEF Aside, Seen

\* Raising and lowering count makes up for the mark the step before left, for
\* the thread inside the critical section is the only one there.
LEMMA CountsUnseen ==
  ASSUME Inv,
         \/ \E x \in Threads : AddCount(x)
         \/ \E w \in Workers : WorkerCount(w)
  PROVE  UNCHANGED Seen
<1> USE SizesAssumption, ThreadsAssumption
<1>1. ASSUME NEW x \in Threads, AddCount(x) PROVE UNCHANGED Seen
  <2>1. /\ lock = x /\ ~shutdown /\ cpc[x] = "add_count" /\ cpc' = [cpc EXCEPT ![x] = "add_signal"]
        /\ count' = count + 1 /\ count \in Int
        /\ UNCHANGED <<head, queues, finished, taskcpy, wpc>>
    BY <1>1 DEF AddCount, CallMoves, Owns, CallOwns, Inv, Locked, Types, workerVars
  <2>2. \A w \in Workers : wpc[w] # "taken"
    BY <2>1 DEF Inv, Locked, Control, Owns, CallOwns, WorkerOwns, Threads
  <2>3. \A y \in Threads : cpc'[y] # "add_count"
    BY <2>1 DEF Inv, Locked, Owns, CallOwns, Types
  <2>4. Length' = Length
    BY <2>1, <2>2, <2>3 DEF Length
  <2> QED BY <2>1, <2>4 DEF Seen, Backlog, Assigned
<1>2. ASSUME NEW w \in Workers, WorkerCount(w) PROVE UNCHANGED Seen
  <2>1. /\ lock = w /\ ~shutdown /\ wpc[w] = "taken" /\ wpc' = [wpc EXCEPT ![w] = "unlock"]
        /\ count' = count - 1 /\ count \in Int /\ w \in Threads
        /\ UNCHANGED <<head, queues, finished, taskcpy, cpc>>
    BY <1>2 DEF WorkerCount, WorkerMoves, Owns, WorkerOwns, Inv, Locked, Types, Threads,
                callVars, historyVars
  <2>2. \A v \in Workers : wpc'[v] # "taken"
    BY <2>1 DEF Inv, Locked, Owns, WorkerOwns, Types, Threads
  <2>3. \A y \in Threads : cpc[y] # "add_count"
    BY <2>1 DEF Inv, Locked, Control, Owns, CallOwns
  <2>4. Length' = Length
    BY <2>1, <2>2, <2>3 DEF Length
  <2>5. Assigned' = Assigned
    BY <2>1 DEF Assigned, Inv, Types
  <2> QED BY <2>1, <2>4, <2>5 DEF Seen, Backlog
<1> QED BY <1>1, <1>2

\* What a step of the pool does to the queue.
LEMMA QueueStep ==
  ASSUME Inv, [Next]_vars
  PROVE  \/ \E x \in Threads : AddFill(x)
         \/ \E w \in Workers : WorkerTake(w) \/ WorkerFinish(w)
         \/ UNCHANGED Seen /\ (shutdown' = shutdown \/ \E x \in Threads : DestroyBody(x))
<1> DEFINE Rest == UNCHANGED Seen /\ (shutdown' = shutdown \/ \E x \in Threads : DestroyBody(x))
<1> USE ThreadsAssumption
    DEF Inv, Types, Aside, WorkerMoves, CallMoves, workerRest, callRest, poolVars, lifeVars,
        workerVars, callVars, historyVars
<1>1. ASSUME NEW w \in Workers, WorkerNext(w) \/ SpuriousWakeup(w),
             ~WorkerTake(w), ~WorkerFinish(w)
      PROVE  Rest
  <2>1. CASE WorkerCount(w)
    BY <2>1, CountsUnseen DEF WorkerCount
  <2>2. CASE WorkerLock(w) \/ WorkerWait(w) \/ WorkerCheck(w) \/ WorkerUnlock(w)
             \/ WorkerStop(w) \/ WorkerExit(w) \/ SpuriousWakeup(w)
    <3>1. Aside /\ shutdown' = shutdown
      BY <2>2 DEF WorkerLock, WorkerWait, WorkerCheck, WorkerUnlock, WorkerStop, WorkerExit,
                  SpuriousWakeup
    <3> QED BY <3>1, AsideUnseen
  <2> QED BY <1>1, <2>1, <2>2 DEF WorkerNext
<1>2. ASSUME NEW x \in Threads, AddNext(x) \/ UnusedCount(x), ~AddFill(x) PROVE Rest
  <2>1. CASE AddCount(x)
    BY <2>1, CountsUnseen DEF AddCount
  <2>2. CASE AddLock(x) \/ AddLockFails(x) \/ AddRefused(x) \/ AddCheck(x) \/ AddSignalFails(x)
             \/ AddUnlock(x) \/ UnusedCount(x)
    <3>1. Aside /\ shutdown' = shutdown
      BY <2>2 DEF AddLock, AddLockFails, AddRefused, AddCheck, AddSignalFails, AddUnlock,
                  UnusedCount
    <3> QED BY <3>1, AsideUnseen
  <2>3. CASE AddSignal(x)
    <3>1. Aside /\ shutdown' = shutdown
      BY <2>3 DEF AddSignal, Asleep
    <3> QED BY <3>1, AsideUnseen
  <2> QED BY <1>2, <2>1, <2>2, <2>3 DEF AddNext
<1>3. ASSUME NEW x \in Threads, DestroyNext(x) PROVE Rest
  <2>1. CASE Broadcast(x)
    <3>1. Aside /\ shutdown' = shutdown
      BY <2>1 DEF Broadcast, Asleep
    <3> QED BY <3>1, AsideUnseen
  <2>2. CASE DestroyBody(x)
    <3>1. Aside
      BY <2>2 DEF DestroyBody
    <3> QED BY <2>2, <3>1, AsideUnseen
  <2>3. CASE \/ DestroyLock(x) \/ DestroyLockFails(x) \/ DestroyRefused(x) \/ BroadcastFails(x)
             \/ Join(x) \/ JoinSelf(x) \/ JoinedAll(x) \/ LastUnlock(x)
             \/ FreeCheck(x) \/ FreeLock(x) \/ Free(x)
    <3>1. Aside /\ shutdown' = shutdown
      BY <2>3 DEF DestroyLock, DestroyLockFails, DestroyRefused, BroadcastFails, Join, JoinSelf,
                  JoinedAll, LastUnlock, FreeCheck, FreeLock, Free
    <3> QED BY <3>1, AsideUnseen
  <2> QED BY <1>3, <2>1, <2>2, <2>3 DEF DestroyNext
<1>4. ASSUME NEW x \in Threads, BeginCall(x) \/ Retire(x) PROVE Rest
  <2>1. Aside /\ shutdown' = shutdown
    BY <1>4 DEF BeginCall, AddInvalid, AddOverflow, AddCall, UnusedInvalid, UnusedCall,
                DestroyCall, Retire
  <2> QED BY <2>1, AsideUnseen
<1>5. ASSUME UNCHANGED vars PROVE Rest
  <2>1. Aside /\ shutdown' = shutdown
    BY <1>5 DEF vars
  <2> QED BY <2>1, AsideUnseen
<1> QED BY <1>1, <1>2, <1>3, <1>4, <1>5 DEF Next, CallNext, Quiet, Threads

-----------------------------------------------------------------------------
(* Where the tasks are *)

\* Every task is in one place only: the last conjuncts of TasksConserved.
Apart ==
  /\ \A i, j \in 1..Length : Backlog[i] = Backlog[j] => i = j
  /\ \A v, w \in Workers : Assigned[v] = Assigned[w] /\ Assigned[v] # NoTask => v = w
  /\ Queued \cap Running = {}
  /\ (Queued \cup Running) \cap finished = {}

LEMMA FillHolds ==
  ASSUME Inv, Apart, NEW x \in Threads, AddFill(x), offered[x] \notin Held
  PROVE  Held' = Held \cup {offered[x]} /\ Apart'
<1> USE SizesAssumption, TasksAssumption
<1>1. /\ Length \in 0..QueueSize /\ Length' = Length + 1
      /\ Backlog'[Length'] = offered[x] /\ offered[x] # NoTask
      /\ \A i \in 1..Length : Backlog'[i] = Backlog[i]
      /\ Assigned' = Assigned /\ finished' = finished
  BY FillAppends, BacklogType
<1>2. Queued' = Queued \cup {offered[x]}
  BY <1>1 DEF Queued
<1>3. Running' = Running
  BY <1>1 DEF Running
<1>4. Held' = Held \cup {offered[x]}
  BY <1>1, <1>2, <1>3 DEF Held
<1>5. \A i \in 1..Length : Backlog[i] # offered[x]
  BY DEF Held, Queued
<1>6. \A i, j \in 1..Length' : Backlog'[i] = Backlog'[j] => i = j
  BY <1>1, <1>5 DEF Apart
<1>7. offered[x] \notin Running \cup finished
  BY DEF Held
<1> QED BY <1>1, <1>2, <1>3, <1>4, <1>6, <1>7 DEF Apart

LEMMA TakeHolds ==
  ASSUME Inv, Apart, NEW w \in Workers, WorkerTake(w)
  PROVE  Held' = Held /\ Apart'
<1> USE SizesAssumption, TasksAssumption
<1>1. /\ Length \in 1..QueueSize /\ Length' = Length - 1
      /\ \A i \in 1..(Length - 1) : Backlog'[i] = Backlog[i + 1]
      /\ Assigned[w] = NoTask /\ Assigned' = [Assigned EXCEPT ![w] = Backlog[1]]
      /\ Backlog[1] \in Tasks /\ Assigned \in [Workers -> Tasks \cup {NoTask}]
      /\ finished' = finished
  <2>1. /\ Length \in 1..QueueSize /\ Length' = Length - 1
        /\ \A i \in 1..(Length - 1) : Backlog'[i] = Backlog[i + 1]
        /\ Assigned[w] = NoTask /\ Assigned' = [Assigned EXCEPT ![w] = Backlog[1]]
        /\ finished' = finished
    BY TakeStarts
  <2>2. Assigned \in [Workers -> Tasks \cup {NoTask}] /\ Backlog[1] \in Tasks
    BY <2>1, BacklogType
  <2> QED BY <2>1, <2>2
<1>2. Backlog[1] \in Queued /\ \A i \in 2..Length : Backlog[i] # Backlog[1]
  BY <1>1 DEF Queued, Apart
<1>3. Queued' = Queued \ {Backlog[1]}
  <2>1. \A i \in 2..Length : i - 1 \in 1..(Length - 1) /\ Backlog'[i - 1] = Backlog[i]
    BY <1>1
  <2>2. Queued' = {Backlog[i] : i \in 2..Length}
    BY <1>1, <2>1 DEF Queued
  <2>3. Queued = {Backlog[i] : i \in 2..Length} \cup {Backlog[1]}
    BY <1>1 DEF Queued
  <2> QED BY <1>2, <2>2, <2>3
<1>4. Running' = Running \cup {Backlog[1]}
  BY <1>1 DEF Running
<1>5. Held' = Held
  BY <1>1, <1>2, <1>3, <1>4 DEF Held
<1>6. \A i, j \in 1..Length' : Backlog'[i] = Backlog'[j] => i = j
  <2> SUFFICES ASSUME NEW i \in 1..(Length - 1), NEW j \in 1..(Length - 1), Backlog'[i] = Backlog'[j]
               PROVE  i = j
    BY <1>1
  <2>1. i + 1 \in 1..Length /\ j + 1 \in 1..Length /\ Backlog[i + 1] = Backlog[j + 1]
    BY <1>1
  <2> QED BY <2>1 DEF Apart
<1>7. \A v \in Workers : Assigned[v] # Backlog[1]
  BY <1>1, <1>2 DEF Apart, Running
<1>8. \A u, v \in Workers : Assigned'[u] = Assigned'[v] /\ Assigned'[u] # NoTask => u = v
  BY <1>1, <1>7 DEF Apart
<1> QED BY <1>1, <1>2, <1>3, <1>4, <1>5, <1>6, <1>8 DEF Apart

LEMMA FinishHolds ==
  ASSUME Inv, Apart, NEW w \in Workers, WorkerFinish(w)
  PROVE  Held' = Held /\ Apart'
<1> USE SizesAssumption, TasksAssumption
<1>1. /\ Assigned[w] # NoTask /\ Assigned' = [Assigned EXCEPT ![w] = NoTask]
      /\ Backlog' = Backlog /\ finished' = finished \cup {Assigned[w]}
      /\ Assigned \in [Workers -> Tasks \cup {NoTask}]
  BY FinishRetires, BacklogType
<1>2. Queued' = Queued
  <2>1. DOMAIN Backlog = 1..Length /\ DOMAIN Backlog' = 1..Length'
    BY DEF Backlog
  <2> QED BY <1>1, <2>1 DEF Queued
<1>3. \A v \in Workers : v # w /\ Assigned[v] # NoTask => Assigned[v] # Assigned[w]
  BY <1>1 DEF Apart
<1>4. Running' = Running \ {Assigned[w]} /\ Assigned[w] \in Running
  BY <1>1, <1>3 DEF Running
<1>5. Held' = Held
  BY <1>1, <1>2, <1>4 DEF Held
<1>6. \A i, j \in 1..Length' : Backlog'[i] = Backlog'[j] => i = j
  <2>1. DOMAIN Backlog = 1..Length /\ DOMAIN Backlog' = 1..Length'
    BY DEF Backlog
  <2> QED BY <1>1, <2>1 DEF Apart
<1>7. \A u, v \in Workers : Assigned'[u] = Assigned'[v] /\ Assigned'[u] # NoTask => u = v
  BY <1>1 DEF Apart
<1> QED BY <1>1, <1>2, <1>4, <1>5, <1>6, <1>7 DEF Apart

LEMMA UnseenHolds ==
  ASSUME Apart, UNCHANGED Seen
  PROVE  Held' = Held /\ Apart'
<1>1. DOMAIN Backlog = 1..Length /\ DOMAIN Backlog' = 1..Length'
  BY DEF Backlog
<1>2. Queued' = Queued /\ Running' = Running
  BY <1>1 DEF Queued, Running, Seen
<1>3. \A i, j \in 1..Length' : Backlog'[i] = Backlog'[j] => i = j
  BY <1>1 DEF Apart, Seen
<1> QED BY <1>2, <1>3 DEF Apart, Held, Seen

\* A thread in threadpool_add submits a task of its own, which is in the pool
\* from the write of its slot on; what was accepted stays there.
Placed ==
  /\ \A x \in Threads : cpc[x] \in AddPending => outcome[offered[x]] = "offered"
  /\ \A x, y \in Threads :
       cpc[x] \in AddPending /\ cpc[y] \in AddPending /\ offered[x] = offered[y] => x = y
  /\ \A t \in Tasks : outcome[t] = "fresh" => t \notin Held
  /\ \A x \in Threads : cpc[x] \in {"add_lock", "add_body", "add_fill"} => offered[x] \notin Held
  /\ \A x \in Threads :
       cpc[x] \in {"add_count", "add_signal"} \/ (cpc[x] = "add_unlock" /\ ret[x] = "success")
         => offered[x] \in Held
  /\ \A t \in Tasks : outcome[t] = "accepted" => t \in Held

\* What is about to be refused, or was, is not in the pool.
Refused ==
  /\ \A x \in Threads : cpc[x] \in AddPending \ {"add_unlock"} => ret[x] = "success"
  /\ \A x \in Threads : cpc[x] = "add_unlock" /\ ret[x] # "success" => offered[x] \notin Held
  /\ \A t \in Tasks : outcome[t] = "rejected" => t \notin Held

\* A step outside of threadpool_add.
Calm ==
  /\ Held' = Held /\ UNCHANGED <<offered, outcome>>
  /\ \A x \in Threads : cpc'[x] \in AddPending => cpc'[x] = cpc[x] /\ ret'[x] = ret[x]

LEMMA CalmStep ==
  ASSUME Calm
  PROVE  (Placed => Placed') /\ (Refused => Refused')
BY DEF Calm, Placed, Refused, AddPending

\* The steps of a call of threadpool_add that leave the queue alone.
LEMMA AddStep ==
  ASSUME Inv, Placed, NEW x \in Threads, AddNext(x), ~AddFill(x), Held' = Held
  PROVE  Placed' /\ ("signal" \notin Failures /\ Refused => Refused')
<1> USE ThreadsAssumption, TasksAssumption
    DEF Inv, Types, Control, CallMoves, Return, AddPending, callRest, historyVars
<1>1. CASE AddLock(x) \/ AddCheck(x)
  BY <1>1 DEF AddLock, AddCheck, Placed, Refused
<1>2. CASE AddLockFails(x)
  BY <1>2 DEF AddLockFails, Placed, Refused
<1>3. CASE AddRefused(x)
  BY <1>3 DEF AddRefused, Placed, Refused
<1>4. CASE AddCount(x)
  BY <1>4 DEF AddCount, Placed, Refused
<1>5. CASE AddSignal(x)
  BY <1>5 DEF AddSignal, Placed, Refused
<1>6. CASE AddSignalFails(x)
  BY <1>6 DEF AddSignalFails, Placed, Refused
<1>7. CASE AddUnlock(x)
  BY <1>7 DEF AddUnlock, Placed, Refused
<1> QED BY <1>1, <1>2, <1>3, <1>4, <1>5, <1>6, <1>7 DEF AddNext

LEMMA AddBegins ==
  ASSUME Inv, Placed, NEW x \in Threads, NEW t \in Tasks, AddOverflow(x, t) \/ AddCall(x, t),
         Held' = Held
  PROVE  Placed' /\ (Refused => Refused')
<1> USE ThreadsAssumption, TasksAssumption
    DEF Inv, Types, Control, CallMoves, MayCall, Return, AddPending
<1>1. CASE AddOverflow(x, t)
  BY <1>1 DEF AddOverflow, Placed, Refused
<1>2. CASE AddCall(x, t)
  BY <1>2 DEF AddCall, Placed, Refused
<1> QED BY <1>1, <1>2

LEMMA PlacedStep ==
  ASSUME Inv, Apart, Placed, [Next]_vars
  PROVE  Apart' /\ Placed' /\ ("signal" \notin Failures /\ Refused => Refused')
<1> DEFINE Goal == Apart' /\ Placed' /\ ("signal" \notin Failures /\ Refused => Refused')
<1> USE ThreadsAssumption, TasksAssumption
<1>1. ASSUME NEW x \in Threads, AddFill(x) PROVE Goal
  <2>1. Held' = Held \cup {offered[x]} /\ Apart'
    BY <1>1, FillHolds DEF AddFill, CallMoves, Placed
  <2>2. /\ cpc[x] = "add_fill" /\ cpc' = [cpc EXCEPT ![x] = "add_count"]
        /\ cpc \in [Threads -> CallLabels] /\ offered[x] \in Tasks
        /\ outcome[offered[x]] = "offered"
        /\ UNCHANGED <<offered, ret, outcome>>
    BY <1>1 DEF AddFill, CallMoves, Inv, Types, Control, Placed, AddPending, historyVars
  <2>3. Placed'
    BY <2>1, <2>2 DEF Placed, AddPending
  <2>4. Refused => Refused'
    BY <2>1, <2>2 DEF Placed, Refused, AddPending
  <2> QED BY <2>1, <2>3, <2>4
<1>2. ASSUME NEW w \in Workers, WorkerTake(w) \/ WorkerFinish(w) PROVE Goal
  <2>1. Held' = Held /\ Apart'
    BY <1>2, TakeHolds, FinishHolds
  <2>2. Calm
    BY <1>2, <2>1 DEF Calm, WorkerTake, WorkerFinish, callVars, historyVars
  <2> QED BY <2>1, <2>2, CalmStep
<1>3. ASSUME UNCHANGED Seen, \A x \in Threads : ~AddFill(x) PROVE Goal
  <2>1. Held' = Held /\ Apart'
    BY <1>3, UnseenHolds
  <2> USE <2>1 DEF Calm, WorkerMoves, CallMoves, Return, workerRest, callRest, callVars, historyVars
  <2>2. ASSUME NEW w \in Workers, WorkerNext(w) \/ SpuriousWakeup(w) PROVE Calm
    BY <2>2 DEF WorkerNext, WorkerLock, WorkerWait, WorkerCheck, WorkerTake, WorkerCount,
                WorkerUnlock, WorkerFinish, WorkerStop, WorkerExit, SpuriousWakeup
  <2>3. ASSUME NEW x \in Threads, AddNext(x)
        PROVE  Placed' /\ ("signal" \notin Failures /\ Refused => Refused')
    BY <1>3, <2>3, AddStep
  <2>4. ASSUME NEW x \in Threads, UnusedCount(x) PROVE Calm
    BY <2>4 DEF UnusedCount, AddPending, Inv, Types
  <2>5. ASSUME NEW x \in Threads, DestroyNext(x) PROVE Calm
    BY <2>5 DEF DestroyNext, DestroyLock, DestroyLockFails, DestroyRefused, DestroyBody,
                Broadcast, BroadcastFails, Join, JoinSelf, JoinedAll, LastUnlock, FreeCheck,
                FreeLock, Free, AddPending, Inv, Types
  <2>6. ASSUME NEW x \in Threads,
               \/ AddInvalid(x) \/ UnusedInvalid(x) \/ UnusedCall(x) \/ DestroyCall(x) \/ Retire(x)
        PROVE  Calm
    BY <2>6 DEF AddInvalid, UnusedInvalid, UnusedCall, DestroyCall, Retire, MayCall, AddPending,
                Inv, Types
  <2>7. ASSUME NEW x \in Threads, NEW t \in Tasks, AddOverflow(x, t) \/ AddCall(x, t)
        PROVE  Placed' /\ (Refused => Refused')
    BY <2>7, AddBegins
  <2>8. ASSUME UNCHANGED vars PROVE Calm
    BY <2>8 DEF vars
  <2> QED BY <2>1, <2>2, <2>3, <2>4, <2>5, <2>6, <2>7, <2>8, CalmStep
          DEF Next, CallNext, BeginCall, Quiet, Threads
<1> QED BY <1>1, <1>2, <1>3, QueueStep

LEMMA EmptyAtFirst ==
  ASSUME Init
  PROVE  /\ Backlog = << >> /\ Length = 0 /\ Held = {}
         /\ Assigned = [w \in Workers |-> NoTask]
<1>1. Length = 0
  BY DEF Init, Length, Threads
<1>2. Backlog = << >> /\ Queued = {}
  BY <1>1 DEF Backlog, Queued
<1>3. Assigned = [w \in Workers |-> NoTask] /\ Running = {}
  BY DEF Init, Assigned, Running
<1> QED BY <1>1, <1>2, <1>3 DEF Held, Init

LEMMA PlacedInit == Init => Apart /\ Placed /\ Refused
<1> SUFFICES ASSUME Init PROVE Apart /\ Placed /\ Refused
  OBVIOUS
<1>1. Apart
  BY EmptyAtFirst DEF Apart, Held
<1>2. Placed /\ Refused
  BY EmptyAtFirst DEF Placed, Refused, Init, AddPending
<1> QED BY <1>1, <1>2

\* Every accepted task is in the ring, with one worker or finished, and only
\* once, whoever calls what and whatever fails: threadpool_add and
\* threadpool_run neither lose a task nor start one twice.
THEOREM TasksAreConserved == Spec => []TasksConserved
<1>1. Inv /\ Apart /\ Placed /\ [Next]_vars => Apart' /\ Placed'
  BY PlacedStep
<1>2. Apart /\ Placed => TasksConserved
  BY DEF Apart, Placed, Held, TasksConserved
<1> QED BY <1>1, <1>2, PlacedInit, Invariance, PTL DEF Spec

\* A task that threadpool_add refused, for whatever reason, is never run: its
\* caller may free the argument.  A pthread_cond_signal that fails is the
\* exception, for it is reported of a task that stays in the ring.
THEOREM RefusedTasksNeverRun == "signal" \notin Failures => (Spec => []RefusedNeverRun)
<1> SUFFICES ASSUME "signal" \notin Failures PROVE Spec => []RefusedNeverRun
  OBVIOUS
<1>1. Inv /\ Apart /\ Placed /\ Refused /\ [Next]_vars => Apart' /\ Placed' /\ Refused'
  BY PlacedStep
<1>2. Refused => RefusedNeverRun
  BY DEF Refused, Held, RefusedNeverRun
<1> QED BY <1>1, <1>2, PlacedInit, Invariance, PTL DEF Spec

-----------------------------------------------------------------------------
(* Refinement *)

LEMMA PromiseInit == Init => Promise!Init
BY EmptyAtFirst DEF Promise!Init, Init

LEMMA PromiseStep ==
  ASSUME Inv, Apart, Placed, [Next]_vars
  PROVE  [Promise!Next]_(Promise!vars)
<1> USE DEF Promise!Next, Promise!vars
<1>1. ASSUME NEW x \in Threads, AddFill(x) PROVE Promise!Next
  <2>1. Promise!Waiting = Queued /\ Promise!Running = Running /\ Len(Backlog) = Length
    BY BacklogType DEF Promise!Waiting, Queued, Promise!Running, Running
  <2>2. offered[x] \notin Held
    BY <1>1 DEF AddFill, CallMoves, Placed
  <2>3. shutdown' = shutdown
    BY <1>1 DEF AddFill, lifeVars
  <2>4. Promise!Submit(offered[x]) /\ offered[x] \in Tasks
    BY <1>1, <2>1, <2>2, <2>3, FillAppends DEF Promise!Submit, Held
  <2> QED BY <2>4
<1>2. ASSUME NEW w \in Workers, WorkerTake(w) PROVE Promise!Next
  <2>1. shutdown' = shutdown
    BY <1>2 DEF WorkerTake, lifeVars
  <2>2. Promise!Start(w)
    BY <1>2, <2>1, TakeStarts DEF Promise!Start
  <2> QED BY <2>2
<1>3. ASSUME NEW w \in Workers, WorkerFinish(w) PROVE Promise!Next
  <2>1. shutdown' = shutdown
    BY <1>3 DEF WorkerFinish, lifeVars
  <2>2. Promise!Finish(w)
    BY <1>3, <2>1, FinishRetires DEF Promise!Finish
  <2> QED BY <2>2
<1>4. ASSUME UNCHANGED Seen, NEW x \in Threads, DestroyBody(x) PROVE Promise!Next
  BY <1>4 DEF DestroyBody, Seen, Promise!Close
<1>5. ASSUME UNCHANGED Seen, shutdown' = shutdown PROVE UNCHANGED Promise!vars
  BY <1>5 DEF Seen
<1> QED BY <1>1, <1>2, <1>3, <1>4, <1>5, QueueStep

\* The pool is the bounded FIFO queue of TaskQueue: tasks are started in the
\* order threadpool_add queued them, never more than queue_size wait, and
\* after threadpool_destroy has set shutdown none is queued or started.
THEOREM PoolImplementsTaskQueue == Spec => ImplementsTaskQueue
<1>1. Inv /\ Apart /\ Placed /\ [Next]_vars => [Promise!Next]_(Promise!vars)
  BY PromiseStep
<1>2. Inv /\ Apart /\ Placed /\ [Next]_vars => Apart' /\ Placed'
  BY PlacedStep
<1> QED BY <1>1, <1>2, PlacedInit, PromiseInit, Invariance, PTL
        DEF Spec, ImplementsTaskQueue, Promise!Spec

-----------------------------------------------------------------------------
(* Free places *)

\* Whoever is in threadpool_add is a thread that submits.
Submitting == \A x \in Threads : cpc[x] \in AddPending => "add" \in Calls[x]

LEMMA CreditStep ==
  ASSUME Inv, Submitting, SoleSubmitterCredit, [Next]_vars
  PROVE  Submitting' /\ SoleSubmitterCredit'
<1> DEFINE Same ==
      /\ UNCHANGED <<credit, count>>
      /\ \A x \in Threads : cpc'[x] \in AddPending => cpc[x] \in AddPending
<1> DEFINE Goal == Submitting' /\ SoleSubmitterCredit'
<1> USE SizesAssumption, ThreadsAssumption
    DEF Inv, Types, Counted, WorkerMoves, CallMoves, workerRest, callRest, poolVars, callVars,
        historyVars, AddPending
<1>1. Same => Goal
  BY DEF Submitting, SoleSubmitterCredit
<1>2. ASSUME NEW w \in Workers, WorkerNext(w) \/ SpuriousWakeup(w) PROVE Goal
  <2>1. CASE WorkerCount(w)
    BY <2>1 DEF WorkerCount, Submitting, SoleSubmitterCredit
  <2>2. CASE ~WorkerCount(w)
    <3>1. Same
      BY <1>2, <2>2 DEF WorkerNext, WorkerLock, WorkerWait, WorkerCheck, WorkerTake,
                WorkerUnlock, WorkerFinish, WorkerStop, WorkerExit, SpuriousWakeup
    <3> QED BY <1>1, <3>1
  <2> QED BY <2>1, <2>2
<1>3. ASSUME NEW x \in Threads, AddCount(x) PROVE Goal
  <2>1. /\ count' = count + 1 /\ count < QueueSize /\ cpc[x] \in AddPending
        /\ credit' = [credit EXCEPT ![x] = IF @ > 0 THEN @ - 1 ELSE 0]
        /\ cpc' = [cpc EXCEPT ![x] = "add_signal"]
    BY <1>3 DEF AddCount
  <2>2. Submitting'
    BY <2>1 DEF Submitting
  <2>3. ASSUME NEW y \in Threads, \A z \in Threads : "add" \in Calls[z] => z = y
        PROVE  credit'[y] <= QueueSize - count'
    <3>1. x = y
      BY <2>1, <2>3 DEF Submitting
    <3>2. credit[y] <= QueueSize - count /\ credit[y] \in 0..QueueSize
      BY <2>3 DEF SoleSubmitterCredit
    <3> QED BY <2>1, <3>1, <3>2
  <2> QED BY <2>2, <2>3 DEF SoleSubmitterCredit
<1>4. ASSUME NEW x \in Threads, AddNext(x), ~AddCount(x) PROVE Goal
  <2>1. Same
    BY <1>4 DEF AddNext, AddLock, AddLockFails, AddRefused, AddCheck, AddFill,
                AddSignal, AddSignalFails, AddUnlock
  <2> QED BY <1>1, <2>1
<1>5. ASSUME NEW x \in Threads, UnusedCount(x) PROVE Goal
  <2>1. /\ credit' = [credit EXCEPT ![x] = QueueSize - count] /\ count' = count
        /\ cpc' = [cpc EXCEPT ![x] = "idle"]
    BY <1>5 DEF UnusedCount
  <2>2. Submitting'
    BY <2>1 DEF Submitting
  <2>3. SoleSubmitterCredit'
    BY <2>1 DEF SoleSubmitterCredit
  <2> QED BY <2>2, <2>3
<1>6. ASSUME NEW x \in Threads, DestroyNext(x) PROVE Goal
  <2>1. Same
    BY <1>6 DEF DestroyNext, DestroyLock, DestroyLockFails, DestroyRefused, DestroyBody,
                Broadcast, BroadcastFails, Join, JoinSelf, JoinedAll, LastUnlock, FreeCheck,
                FreeLock, Free
  <2> QED BY <1>1, <2>1
<1>7. ASSUME NEW x \in Threads,
             \/ AddInvalid(x) \/ \E t \in Tasks : AddOverflow(x, t)
             \/ UnusedInvalid(x) \/ UnusedCall(x) \/ DestroyCall(x) \/ Retire(x)
      PROVE  Goal
  <2>1. Same
    BY <1>7 DEF AddInvalid, AddOverflow, UnusedInvalid, UnusedCall, DestroyCall, Retire
  <2> QED BY <1>1, <2>1
<1>8. ASSUME NEW x \in Threads, NEW t \in Tasks, AddCall(x, t) PROVE Goal
  BY <1>8 DEF AddCall, MayCall, Submitting, SoleSubmitterCredit
<1>9. ASSUME UNCHANGED vars PROVE Goal
  <2>1. Same
    BY <1>9 DEF vars
  <2> QED BY <1>1, <2>1
<1> HIDE DEF Goal
<1>10. Goal
  BY <1>2, <1>3, <1>4, <1>5, <1>6, <1>7, <1>8, <1>9
     DEF Next, CallNext, BeginCall, Quiet, Threads
<1> QED BY <1>10 DEF Goal

\* If one thread alone submits, the free places threadpool_unused_queues told it
\* of stay free until it uses them, although count was read without the lock.
THEOREM SoleSubmitterIsServed == Spec => []SoleSubmitterCredit
<1>1. Init => Submitting /\ SoleSubmitterCredit
  BY SizesAssumption DEF Init, Submitting, SoleSubmitterCredit, AddPending
<1>2. Inv /\ Submitting /\ SoleSubmitterCredit /\ [Next]_vars
      => Submitting' /\ SoleSubmitterCredit'
  BY CreditStep
<1> QED BY <1>1, <1>2, Invariance, PTL DEF Spec

-----------------------------------------------------------------------------
(* The sample program *)

SampleTypes ==
  /\ mpc \in {"loop", "adding", "destroying", "ended"}
  /\ round \in 0..Rounds /\ closed \in 0..ThreadCount
  /\ argument \in [Tasks -> {"none", "allocated", "freed"}]

\* Where main is in the pool; it has destroyed the pool, and seen the end of
\* the workers, before it closes the first connection.
MainPlace ==
  /\ mpc = "loop" => cpc[main] = "idle"
  /\ mpc = "adding" => cpc[main] \in AddPending \cup {"idle"}
  /\ mpc \in {"destroying", "ended"} => cpc[main] \in DestroyLabels \cup {"retired"}
  /\ cpc[main] \in DestroyLabels => ret[main] = "success"
  /\ shutdown =>
       cpc[main] \in {"broadcast", "join", "last_unlock", "free_check", "free_lock", "free", "retired"}
  /\ cpc[main] = "retired" => \A w \in Workers : wpc[w] = "done"
  /\ closed > 0 \/ mpc = "ended" => cpc[main] = "retired" /\ mpc \in {"destroying", "ended"}

\* An argument is allocated from its submission to the end of its task.
Allocated ==
  /\ \A t \in Tasks : argument[t] = "allocated" <=> outcome[t] # "fresh" /\ t \notin finished
  /\ \A t \in Tasks : outcome[t] = "offered" => cpc[main] \in AddPending /\ offered[main] = t

MainIsAThread ==
  /\ main \in Threads /\ main \notin Workers
  /\ \A t \in 1..Rounds : t \in Tasks

LEMMA MainType == MainIsAThread
BY ThreadsAssumption, SampleAssumption DEF Threads, MainIsAThread

\* A step of the program is one of the pool.
LEMMA SampleStep ==
  ASSUME SampleTypes, [SampleNext]_allVars
  PROVE  [Next]_vars
<1> USE DEF poolState, vars
<1>1. CASE Submit
  <2>1. round + 1 \in Tasks
    BY <1>1, MainType, SampleAssumption DEF Submit, SampleTypes, MainIsAThread
  <2> QED BY <1>1, <2>1, MainType DEF Submit, Next, BeginCall, MainIsAThread
<1>2. CASE Added \/ CloseConnection \/ Return0
  BY <1>2 DEF Added, CloseConnection, Return0
<1>3. CASE LeaveLoop
  BY <1>3, MainType DEF LeaveLoop, Next, BeginCall, MainIsAThread
<1>4. CASE MainInCall
  BY <1>4, MainType DEF MainInCall, Next, CallNext, MainIsAThread
<1>5. ASSUME NEW w \in Workers, Worker(w) PROVE Next
  BY <1>5 DEF Worker, DoThreadTask, WorkerLoop, WorkerNext, Next
<1>6. CASE UNCHANGED allVars
  BY <1>6 DEF allVars
<1> QED BY <1>1, <1>2, <1>3, <1>4, <1>5, <1>6 DEF SampleNext, Main

LEMMA SampleTypesStep ==
  ASSUME SampleTypes, Inv, [SampleNext]_allVars
  PROVE  SampleTypes'
<1> USE SampleAssumption, SizesAssumption DEF SampleTypes
<1>1. CASE Submit \/ Added \/ LeaveLoop \/ CloseConnection \/ Return0 \/ MainInCall
  BY <1>1 DEF Submit, Added, LeaveLoop, CloseConnection, Return0, MainInCall
<1>2. ASSUME NEW w \in Workers, Worker(w) PROVE SampleTypes'
  BY <1>2 DEF Worker, DoThreadTask, WorkerLoop, Inv, Ring
<1>3. CASE UNCHANGED allVars
  BY <1>3 DEF allVars
<1> QED BY <1>1, <1>2, <1>3 DEF SampleNext, Main

LEMMA MainPlaceStep ==
  ASSUME Failures \subseteq {"signal"}, SampleTypes, MainPlace, Inv, [SampleNext]_allVars
  PROVE  MainPlace'
<1> USE MainType, SizesAssumption
    DEF SampleTypes, MainPlace, Inv, Types, MainIsAThread, CallMoves, WorkerMoves, Return,
        AddPending, DestroyLabels, DestroyFinds, lifeVars, workerVars, callVars, callRest, workerRest
<1>1. CASE Submit
  BY <1>1 DEF Submit, AddCall
<1>2. CASE Added
  BY <1>2 DEF Added, poolState
<1>3. CASE LeaveLoop
  BY <1>3 DEF LeaveLoop, DestroyCall
<1>4. CASE CloseConnection \/ Return0
  BY <1>4 DEF CloseConnection, Return0, poolState
<1>5. CASE MainInCall /\ AddNext(main)
  BY <1>5 DEF MainInCall, AddNext, AddLock, AddLockFails, AddRefused, AddCheck, AddFill, AddCount,
              AddSignal, AddSignalFails, AddUnlock, Asleep
<1>6. CASE MainInCall /\ DestroyNext(main)
  <2>1. CASE DestroyLock(main) \/ DestroyLockFails(main) \/ DestroyRefused(main)
             \/ DestroyBody(main) \/ BroadcastFails(main) \/ Join(main) \/ JoinSelf(main)
    BY <1>6, <2>1 DEF MainInCall, DestroyLock, DestroyLockFails, DestroyRefused, DestroyBody,
                      BroadcastFails, Join, JoinSelf, Workers
  <2>2. CASE Broadcast(main)
    BY <1>6, <2>2 DEF MainInCall, Broadcast, Asleep
  <2>3. CASE JoinedAll(main) \/ LastUnlock(main)
    BY <1>6, <2>3 DEF MainInCall, JoinedAll, LastUnlock
  <2>4. CASE FreeCheck(main) \/ FreeLock(main) \/ Free(main)
    BY <1>6, <2>4 DEF MainInCall, FreeCheck, FreeLock, Free, Joined
  <2> QED BY <1>6, <2>1, <2>2, <2>3, <2>4 DEF DestroyNext
<1>7. ASSUME NEW w \in Workers, Worker(w) PROVE MainPlace'
  BY <1>7 DEF Worker, DoThreadTask, WorkerLoop, WorkerNext, WorkerLock, WorkerWait, WorkerCheck,
              WorkerTake, WorkerCount, WorkerUnlock, WorkerFinish, WorkerStop, WorkerExit
<1>8. CASE UNCHANGED allVars
  BY <1>8 DEF allVars, poolState
<1> QED BY <1>1, <1>2, <1>3, <1>4, <1>5, <1>6, <1>7, <1>8 DEF SampleNext, Main, MainInCall

LEMMA AllocatedStep ==
  ASSUME SampleTypes, MainPlace, Allocated, Inv, Placed, [SampleNext]_allVars
  PROVE  Allocated'
<1> USE MainType, TasksAssumption, SampleAssumption
    DEF SampleTypes, Allocated, Inv, Types, MainIsAThread, CallMoves, WorkerMoves,
        AddPending, callVars, callRest, workerRest, historyVars
<1>1. CASE Submit
  <2>1. round + 1 \in Tasks /\ outcome[round + 1] = "fresh" /\ cpc[main] = "idle"
    BY <1>1 DEF Submit, AddCall, MayCall
  <2>2. round + 1 \notin finished
    BY <2>1 DEF Placed, Held
  <2> QED BY <1>1, <2>1, <2>2 DEF Submit, AddCall
<1>2. CASE Added \/ CloseConnection \/ Return0
  BY <1>2 DEF Added, CloseConnection, Return0, poolState
<1>3. CASE LeaveLoop
  BY <1>3 DEF LeaveLoop, DestroyCall, MayCall
<1>4. CASE MainInCall /\ AddNext(main)
  <2>1. CASE AddLockFails(main) \/ AddUnlock(main)
    BY <1>4, <2>1 DEF MainInCall, AddLockFails, AddUnlock, Placed, Control
  <2>2. CASE ~AddLockFails(main) /\ ~AddUnlock(main)
    BY <1>4, <2>2 DEF MainInCall, AddNext, AddLock, AddRefused, AddCheck, AddFill, AddCount,
                      AddSignal, AddSignalFails
  <2> QED BY <2>1, <2>2
<1>5. CASE MainInCall /\ DestroyNext(main)
  BY <1>5 DEF MainInCall, DestroyNext, DestroyLock, DestroyLockFails, DestroyRefused, DestroyBody,
              Broadcast, BroadcastFails, Join, JoinSelf, JoinedAll, LastUnlock, FreeCheck,
              FreeLock, Free
<1>6. ASSUME NEW w \in Workers, Worker(w) PROVE Allocated'
  <2>1. CASE DoThreadTask(w)
    <3>1. taskcpy[w].task \in Tasks
      BY <2>1 DEF DoThreadTask, WorkerFinish, Ring
    <3> QED BY <2>1, <3>1 DEF DoThreadTask, WorkerFinish
  <2>2. CASE WorkerLoop(w)
    BY <2>2 DEF WorkerLoop, WorkerNext, WorkerLock, WorkerWait, WorkerCheck, WorkerTake,
                WorkerCount, WorkerUnlock, WorkerFinish, WorkerStop, WorkerExit
  <2> QED BY <1>6, <2>1, <2>2 DEF Worker
<1>7. CASE UNCHANGED allVars
  BY <1>7 DEF allVars, poolState
<1> QED BY <1>1, <1>2, <1>3, <1>4, <1>5, <1>6, <1>7 DEF SampleNext, Main, MainInCall

SampleInv == SampleTypes /\ MainPlace /\ Allocated /\ Inv /\ Apart /\ Placed

LEMMA SampleInvariance == Failures \subseteq {"signal"} => (SampleSpec => []SampleInv)
<1> SUFFICES ASSUME Failures \subseteq {"signal"} PROVE SampleSpec => []SampleInv
  OBVIOUS
<1>1. SampleInit => SampleInv
  <2> SUFFICES ASSUME SampleInit PROVE SampleInv
    OBVIOUS
  <2>1. Inv /\ Apart /\ Placed
    BY InvInit, PlacedInit DEF SampleInit
  <2>2. SampleTypes /\ MainPlace /\ Allocated
    BY MainType, SampleAssumption, SizesAssumption
       DEF SampleInit, Init, SampleTypes, MainPlace, Allocated, MainIsAThread, DestroyLabels,
           DestroyFinds
  <2> QED BY <2>1, <2>2 DEF SampleInv
<1>2. SampleInv /\ [SampleNext]_allVars => SampleInv'
  <2> SUFFICES ASSUME SampleInv, [SampleNext]_allVars PROVE SampleInv'
    OBVIOUS
  <2>1. [Next]_vars
    BY SampleStep DEF SampleInv
  <2>2. Inv' /\ Apart' /\ Placed'
    BY <2>1, InvStep, PlacedStep DEF SampleInv
  <2>3. SampleTypes' /\ MainPlace' /\ Allocated'
    BY SampleTypesStep, MainPlaceStep, AllocatedStep DEF SampleInv
  <2> QED BY <2>2, <2>3 DEF SampleInv
<1> QED BY <1>1, <1>2, PTL DEF SampleSpec

\* While doThreadTask runs, its argument is allocated and the connection of its
\* worker is open, although main frees the connections and a failed submission
\* leaves main with an argument the pool may still run.
THEOREM TasksReadLiveMemory ==
  Failures \subseteq {"signal"} => (SampleSpec => []TaskReadsLiveMemory)
<1>1. SampleInv => TaskReadsLiveMemory
  <2> SUFFICES ASSUME SampleInv, NEW w \in Workers, wpc[w] = "run"
               PROVE  argument[taskcpy[w].task] = "allocated" /\ w > closed
    BY DEF TaskReadsLiveMemory
  <2> USE DEF SampleInv
  <2>1. Assigned[w] = taskcpy[w].task /\ taskcpy[w].task \in Tasks
    BY DEF Assigned, Inv, Ring
  <2>2. taskcpy[w].task \in Running
    BY <2>1, TasksAssumption DEF Running
  <2>3. taskcpy[w].task \notin finished /\ outcome[taskcpy[w].task] # "fresh"
    BY <2>1, <2>2 DEF Apart, Placed, Held
  <2>4. closed = 0
    BY DEF MainPlace, SampleTypes
  <2> QED BY <2>1, <2>3, <2>4, SizesAssumption DEF Allocated, Workers
<1> QED BY <1>1, SampleInvariance, PTL

\* When main returns, the arguments never freed are those of tasks that were
\* refused or still queued when the pool was shut down.
THEOREM OnlyUnstartedLeak ==
  Failures \subseteq {"signal"} => (SampleSpec => []LeaksOnlyUnstarted)
<1>1. SampleInv => LeaksOnlyUnstarted
  <2> SUFFICES ASSUME SampleInv, mpc = "ended", NEW t \in Tasks, argument[t] = "allocated",
                      outcome[t] # "rejected"
               PROVE  t \in Queued
    BY DEF LeaksOnlyUnstarted
  <2> USE DEF SampleInv
  <2>1. cpc[main] = "retired" /\ \A w \in Workers : wpc[w] = "done"
    BY DEF MainPlace
  <2>2. outcome[t] = "accepted" /\ t \notin finished
    BY <2>1 DEF Allocated, Inv, Types, AddPending
  <2>3. Running = {}
    BY <2>1 DEF Running, Assigned
  <2> QED BY <2>2, <2>3 DEF Placed, Held
<1> QED BY <1>1, SampleInvariance, PTL
=============================================================================
