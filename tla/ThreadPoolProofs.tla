-------------------------- MODULE ThreadPoolProofs --------------------------
(***************************************************************************)
(* Theorems about ThreadPool for any number of workers and of clients, any *)
(* queue size and any set of tasks, whoever calls what.                    *)
(*                                                                         *)
(* The invariant Inv holds whether or not calls race threadpool_destroy    *)
(* and whatever pthread call fails; from it follow the theorems on the     *)
(* ring, the counters, the task arguments and the shutdown.  The theorem   *)
(* on wakeups needs that pthread_cond_signal does not fail; the theorems   *)
(* on the lock and on the freed memory need an Orderly program.            *)
(***************************************************************************)
EXTENDS ThreadPool, FiniteSetTheorems, TLAPS

\* The types, without bounds on the counters.
Types ==
  /\ lock \in Threads \cup {NoThread}
  /\ head \in Slots /\ tail \in Slots
  /\ count \in Int
  /\ shutdown \in BOOLEAN
  /\ started \in Int
  /\ queues \in [Slots -> Slot]
  /\ mem \in {"live", "freed"}
  /\ wpc \in [Workers -> WorkerLabels]
  /\ taskcpy \in [Workers -> Slot]
  /\ cpc \in [Threads -> CallLabels]
  /\ offered \in [Threads -> Tasks \cup {NoTask}]
  /\ ret \in [Threads -> Codes]
  /\ joining \in [Threads -> 0..ThreadCount]
  /\ outcome \in [Tasks -> {"fresh", "offered", "accepted", "rejected"}]
  /\ credit \in [Threads -> Int]

\* A worker calls the pool only from its task; threadpool_add has a task.
AddPending ==
  {"add_lock", "add_body", "add_fill", "add_count", "add_signal", "add_unlock"}
Control ==
  /\ \A w \in Workers : cpc[w] # "idle" => wpc[w] = "run"
  /\ \A x \in Threads : cpc[x] \in AddPending => offered[x] \in Tasks

\* Until shutdown is set the lock excludes: the second unlock of destroy, the
\* one that might release the lock of another thread, comes only after it.
\* Once it is set nobody is, or comes, where the ring changes.
Locked ==
  /\ ~shutdown =>
       \A x \in Threads :
         /\ Owns(x) => lock = x
         /\ cpc[x] \notin {"broadcast", "join", "last_unlock", "free_check", "free_lock", "free"}
  /\ shutdown =>
       /\ \A w \in Workers : wpc[w] \notin {"take", "taken"}
       /\ \A x \in Threads : cpc[x] \notin {"add_fill", "add_count", "add_signal"}

\* What was tested under the lock still holds where it is used.
Counted ==
  /\ count \in 0..QueueSize
  /\ \A w \in Workers : wpc[w] \in {"take", "taken"} => count > 0
  /\ \A x \in Threads : cpc[x] \in {"add_fill", "add_count"} => count < QueueSize
  /\ \A x \in Threads : credit[x] \in 0..QueueSize

\* The ring holds tasks from head to tail, and so does what was taken from it.
Ring ==
  /\ tail = Place(head, Length)
  /\ \A i \in 0..(Length - 1) : queues[Place(head, i)].task \in Tasks
  /\ \A w \in Workers : wpc[w] \in {"taken", "unlock", "run"} => taskcpy[w].task \in Tasks
  /\ finished \subseteq Tasks

\* The first size bytes of a slot belong to its task.
HoldsArgument(s) == \A b \in Bytes : b <= s.size => s.bytes[b] = s.task
Arguments ==
  /\ \A i \in Slots : HoldsArgument(queues[i])
  /\ \A w \in Workers : HoldsArgument(taskcpy[w])

\* pool->started counts the workers that have not left their loop.
Active == {w \in Workers : wpc[w] \notin {"exit", "done"}}
Started == started = Cardinality(Active)

\* A thread whose joins went well so far has seen the end of those workers.
Joined ==
  \A x \in Threads :
    /\ cpc[x] \in {"destroy_lock", "destroy_body", "broadcast"} => ret[x] = "success"
    /\ cpc[x] = "join" =>
         \/ ret[x] = "run_failure"
         \/ ret[x] = "success" /\ \A i \in 1..joining[x] : wpc[i] = "done"
    /\ cpc[x] = "last_unlock" /\ ret[x] = "success" => \A w \in Workers : wpc[w] = "done"
    /\ cpc[x] \in DestroyFinds => \A w \in Workers : wpc[w] = "done"

\* The inductive invariant.
Inv ==
  /\ Types /\ Control /\ Locked /\ Counted
  /\ Ring /\ Arguments /\ Started /\ Joined

-----------------------------------------------------------------------------
(* The operators of the ring *)

\* threadpool_add leaves a well-formed slot ...
LEMMA FilledType ==
  ASSUME NEW old \in Slot, NEW t \in Tasks
  PROVE  Filled(old, t) \in Slot
BY TasksAssumption DEF Filled, Slot

\* ... whose argument bytes are those of the task, whatever was there before.
LEMMA FilledArgument ==
  ASSUME NEW old \in Slot, NEW t \in Tasks
  PROVE  HoldsArgument(Filled(old, t))
BY SizesAssumption, TasksAssumption DEF Filled, Slot, Bytes, HoldsArgument

LEMMA PlaceInSlots ==
  ASSUME NEW h \in Slots, NEW i \in 0..QueueSize
  PROVE  Place(h, i) \in Slots
BY SizesAssumption DEF Place, Slots

\* Stepping an index moves every place after it by one.
LEMMA PlaceStep ==
  ASSUME NEW h \in Slots, NEW i \in 0..(QueueSize - 1)
  PROVE  /\ Step(h) \in Slots
         /\ Place(Step(h), i) = Place(h, i + 1)
         /\ Step(Place(h, i)) = Place(h, i + 1)
BY SizesAssumption DEF Place, Step, Slots

\* The places of one turn of the ring are different slots.
LEMMA PlaceInjective ==
  ASSUME NEW h \in Slots, NEW i \in 0..(QueueSize - 1), NEW j \in 0..(QueueSize - 1),
         Place(h, i) = Place(h, j)
  PROVE  i = j
BY SizesAssumption DEF Place, Slots

-----------------------------------------------------------------------------
(* Every conjunct of the invariant is kept by every step. *)

LEMMA TypesStep ==
  Types /\ Control /\ [Next]_vars => Types'
<1> SUFFICES ASSUME Types, Control, [Next]_vars
             PROVE  Types'
  OBVIOUS
<1> USE SizesAssumption, ThreadsAssumption, TasksAssumption
    DEF Types, Control, WorkerMoves, CallMoves, Return, Lock, Unlock, workerRest, callRest,
        poolVars, lifeVars, workerVars, callVars, historyVars
<1>1. ASSUME NEW w \in Workers, WorkerLock(w) PROVE Types'
  BY <1>1 DEF WorkerLock, WorkerLabels, CallLabels, Codes, Threads
<1>2. ASSUME NEW w \in Workers, WorkerWait(w) PROVE Types'
  BY <1>2 DEF WorkerWait, WorkerLabels, CallLabels, Codes, Threads
<1>3. ASSUME NEW w \in Workers, WorkerCheck(w) PROVE Types'
  BY <1>3 DEF WorkerCheck, WorkerLabels, CallLabels, Codes, Threads
<1>4. ASSUME NEW w \in Workers, WorkerTake(w) PROVE Types'
  BY <1>4 DEF WorkerTake, Step, Slots, WorkerLabels, CallLabels, Codes, Threads
<1>5. ASSUME NEW w \in Workers, WorkerCount(w) PROVE Types'
  BY <1>5 DEF WorkerCount, WorkerLabels, CallLabels, Codes, Threads
<1>6. ASSUME NEW w \in Workers, WorkerUnlock(w) PROVE Types'
  BY <1>6 DEF WorkerUnlock, WorkerLabels, CallLabels, Codes, Threads
<1>7. ASSUME NEW w \in Workers, WorkerFinish(w) PROVE Types'
  BY <1>7 DEF WorkerFinish, WorkerLabels, CallLabels, Codes, Threads
<1>8. ASSUME NEW w \in Workers, WorkerStop(w) PROVE Types'
  BY <1>8 DEF WorkerStop, WorkerLabels, CallLabels, Codes, Threads
<1>9. ASSUME NEW w \in Workers, WorkerExit(w) PROVE Types'
  BY <1>9 DEF WorkerExit, WorkerLabels, CallLabels, Codes, Threads
<1>10. ASSUME NEW w \in Workers, SpuriousWakeup(w) PROVE Types'
  BY <1>10 DEF SpuriousWakeup, WorkerLabels, CallLabels, Codes, Threads
<1>11. ASSUME NEW x \in Threads, AddLock(x) PROVE Types'
  BY <1>11 DEF AddLock, WorkerLabels, CallLabels, Codes, Threads
<1>12. ASSUME NEW x \in Threads, AddLockFails(x) PROVE Types'
  BY <1>12 DEF AddLockFails, WorkerLabels, CallLabels, Codes, Threads
<1>13. ASSUME NEW x \in Threads, AddRefused(x) PROVE Types'
  BY <1>13 DEF AddRefused, WorkerLabels, CallLabels, Codes, Threads
<1>14. ASSUME NEW x \in Threads, AddCheck(x) PROVE Types'
  BY <1>14 DEF AddCheck, WorkerLabels, CallLabels, Codes, Threads
<1>15. ASSUME NEW x \in Threads, AddFill(x) PROVE Types'
  BY <1>15, FilledType DEF AddFill, Step, Slots, AddPending, WorkerLabels, CallLabels, Codes, Threads
<1>16. ASSUME NEW x \in Threads, AddCount(x) PROVE Types'
  BY <1>16 DEF AddCount, WorkerLabels, CallLabels, Codes, Threads
<1>17. ASSUME NEW x \in Threads, AddSignal(x) PROVE Types'
  BY <1>17 DEF AddSignal, Asleep, WorkerLabels, CallLabels, Codes, Threads
<1>18. ASSUME NEW x \in Threads, AddSignalFails(x) PROVE Types'
  BY <1>18 DEF AddSignalFails, WorkerLabels, CallLabels, Codes, Threads
<1>19. ASSUME NEW x \in Threads, AddUnlock(x) PROVE Types'
  BY <1>19 DEF AddUnlock, WorkerLabels, CallLabels, Codes, Threads
<1>20. ASSUME NEW x \in Threads, UnusedCount(x) PROVE Types'
  BY <1>20 DEF UnusedCount, WorkerLabels, CallLabels, Codes, Threads
<1>21. ASSUME NEW x \in Threads, DestroyLock(x) PROVE Types'
  BY <1>21 DEF DestroyLock, WorkerLabels, CallLabels, Codes, Threads
<1>22. ASSUME NEW x \in Threads, DestroyLockFails(x) PROVE Types'
  BY <1>22 DEF DestroyLockFails, WorkerLabels, CallLabels, Codes, Threads
<1>23. ASSUME NEW x \in Threads, DestroyRefused(x) PROVE Types'
  BY <1>23 DEF DestroyRefused, WorkerLabels, CallLabels, Codes, Threads
<1>24. ASSUME NEW x \in Threads, DestroyBody(x) PROVE Types'
  BY <1>24 DEF DestroyBody, WorkerLabels, CallLabels, Codes, Threads
<1>25. ASSUME NEW x \in Threads, Broadcast(x) PROVE Types'
  BY <1>25 DEF Broadcast, WorkerLabels, CallLabels, Codes, Threads
<1>26. ASSUME NEW x \in Threads, BroadcastFails(x) PROVE Types'
  BY <1>26 DEF BroadcastFails, WorkerLabels, CallLabels, Codes, Threads
<1>27. ASSUME NEW x \in Threads, Join(x) PROVE Types'
  BY <1>27 DEF Join, WorkerLabels, CallLabels, Codes, Threads
<1>28. ASSUME NEW x \in Threads, JoinSelf(x) PROVE Types'
  BY <1>28 DEF JoinSelf, WorkerLabels, CallLabels, Codes, Threads
<1>29. ASSUME NEW x \in Threads, JoinedAll(x) PROVE Types'
  BY <1>29 DEF JoinedAll, WorkerLabels, CallLabels, Codes, Threads
<1>30. ASSUME NEW x \in Threads, LastUnlock(x) PROVE Types'
  BY <1>30 DEF LastUnlock, WorkerLabels, CallLabels, Codes, Threads
<1>31. ASSUME NEW x \in Threads, FreeCheck(x) PROVE Types'
  BY <1>31 DEF FreeCheck, WorkerLabels, CallLabels, Codes, Threads
<1>32. ASSUME NEW x \in Threads, FreeLock(x) PROVE Types'
  BY <1>32 DEF FreeLock, WorkerLabels, CallLabels, Codes, Threads
<1>33. ASSUME NEW x \in Threads, Free(x) PROVE Types'
  BY <1>33 DEF Free, WorkerLabels, CallLabels, Codes, Threads
<1>34. ASSUME NEW x \in Threads, AddInvalid(x) PROVE Types'
  BY <1>34 DEF AddInvalid, WorkerLabels, CallLabels, Codes, Threads
<1>35. ASSUME NEW x \in Threads, NEW t \in Tasks, AddOverflow(x, t) PROVE Types'
  BY <1>35 DEF AddOverflow, WorkerLabels, CallLabels, Codes, Threads
<1>36. ASSUME NEW x \in Threads, NEW t \in Tasks, AddCall(x, t) PROVE Types'
  BY <1>36 DEF AddCall, WorkerLabels, CallLabels, Codes, Threads
<1>37. ASSUME NEW x \in Threads, UnusedInvalid(x) PROVE Types'
  BY <1>37 DEF UnusedInvalid, WorkerLabels, CallLabels, Codes, Threads
<1>38. ASSUME NEW x \in Threads, UnusedCall(x) PROVE Types'
  BY <1>38 DEF UnusedCall, WorkerLabels, CallLabels, Codes, Threads
<1>39. ASSUME NEW x \in Threads, DestroyCall(x) PROVE Types'
  BY <1>39 DEF DestroyCall, WorkerLabels, CallLabels, Codes, Threads
<1>40. ASSUME NEW c \in Clients, Retire(c) PROVE Types'
  BY <1>40 DEF Retire, WorkerLabels, CallLabels, Codes, Threads
<1>41. ASSUME UNCHANGED vars PROVE Types'
  BY <1>41 DEF vars, WorkerLabels, CallLabels, Codes, Threads
<1>q. QED
  BY <1>1, <1>2, <1>3, <1>4, <1>5, <1>6, <1>7, <1>8, <1>9, <1>10, <1>11, <1>12, <1>13, <1>14, <1>15, <1>16, <1>17, <1>18, <1>19, <1>20, <1>21, <1>22, <1>23, <1>24, <1>25, <1>26, <1>27, <1>28, <1>29, <1>30, <1>31, <1>32, <1>33, <1>34, <1>35, <1>36, <1>37, <1>38, <1>39, <1>40, <1>41 DEF Next, WorkerNext, CallNext, AddNext, DestroyNext, BeginCall, Quiet

LEMMA ControlStep ==
  Types /\ Control /\ [Next]_vars => Control'
<1> SUFFICES ASSUME Types, Control, [Next]_vars
             PROVE  Control'
  OBVIOUS
<1> USE SizesAssumption, ThreadsAssumption, TasksAssumption
    DEF Types, Control, WorkerMoves, CallMoves, Return, Lock, Unlock, workerRest, callRest,
        poolVars, lifeVars, workerVars, callVars, historyVars
<1>1. ASSUME NEW w \in Workers, WorkerLock(w) PROVE Control'
  BY <1>1 DEF WorkerLock, Threads, AddPending
<1>2. ASSUME NEW w \in Workers, WorkerWait(w) PROVE Control'
  BY <1>2 DEF WorkerWait, Threads, AddPending
<1>3. ASSUME NEW w \in Workers, WorkerCheck(w) PROVE Control'
  BY <1>3 DEF WorkerCheck, Threads, AddPending
<1>4. ASSUME NEW w \in Workers, WorkerTake(w) PROVE Control'
  BY <1>4 DEF WorkerTake, Threads, AddPending
<1>5. ASSUME NEW w \in Workers, WorkerCount(w) PROVE Control'
  BY <1>5 DEF WorkerCount, Threads, AddPending
<1>6. ASSUME NEW w \in Workers, WorkerUnlock(w) PROVE Control'
  BY <1>6 DEF WorkerUnlock, Threads, AddPending
<1>7. ASSUME NEW w \in Workers, WorkerFinish(w) PROVE Control'
  BY <1>7 DEF WorkerFinish, Threads, AddPending
<1>8. ASSUME NEW w \in Workers, WorkerStop(w) PROVE Control'
  BY <1>8 DEF WorkerStop, Threads, AddPending
<1>9. ASSUME NEW w \in Workers, WorkerExit(w) PROVE Control'
  BY <1>9 DEF WorkerExit, Threads, AddPending
<1>10. ASSUME NEW w \in Workers, SpuriousWakeup(w) PROVE Control'
  BY <1>10 DEF SpuriousWakeup, Threads, AddPending
<1>11. ASSUME NEW x \in Threads, AddLock(x) PROVE Control'
  BY <1>11 DEF AddLock, Threads, AddPending
<1>12. ASSUME NEW x \in Threads, AddLockFails(x) PROVE Control'
  BY <1>12 DEF AddLockFails, Threads, AddPending
<1>13. ASSUME NEW x \in Threads, AddRefused(x) PROVE Control'
  BY <1>13 DEF AddRefused, Threads, AddPending
<1>14. ASSUME NEW x \in Threads, AddCheck(x) PROVE Control'
  BY <1>14 DEF AddCheck, Threads, AddPending
<1>15. ASSUME NEW x \in Threads, AddFill(x) PROVE Control'
  BY <1>15 DEF AddFill, Threads, AddPending
<1>16. ASSUME NEW x \in Threads, AddCount(x) PROVE Control'
  BY <1>16 DEF AddCount, Threads, AddPending
<1>17. ASSUME NEW x \in Threads, AddSignal(x) PROVE Control'
  BY <1>17 DEF AddSignal, Asleep, Threads, AddPending
<1>18. ASSUME NEW x \in Threads, AddSignalFails(x) PROVE Control'
  BY <1>18 DEF AddSignalFails, Threads, AddPending
<1>19. ASSUME NEW x \in Threads, AddUnlock(x) PROVE Control'
  BY <1>19 DEF AddUnlock, Threads, AddPending
<1>20. ASSUME NEW x \in Threads, UnusedCount(x) PROVE Control'
  BY <1>20 DEF UnusedCount, Threads, AddPending
<1>21. ASSUME NEW x \in Threads, DestroyLock(x) PROVE Control'
  BY <1>21 DEF DestroyLock, Threads, AddPending
<1>22. ASSUME NEW x \in Threads, DestroyLockFails(x) PROVE Control'
  BY <1>22 DEF DestroyLockFails, Threads, AddPending
<1>23. ASSUME NEW x \in Threads, DestroyRefused(x) PROVE Control'
  BY <1>23 DEF DestroyRefused, Threads, AddPending
<1>24. ASSUME NEW x \in Threads, DestroyBody(x) PROVE Control'
  BY <1>24 DEF DestroyBody, Threads, AddPending
<1>25. ASSUME NEW x \in Threads, Broadcast(x) PROVE Control'
  BY <1>25 DEF Broadcast, Asleep, Threads, AddPending
<1>26. ASSUME NEW x \in Threads, BroadcastFails(x) PROVE Control'
  BY <1>26 DEF BroadcastFails, Threads, AddPending
<1>27. ASSUME NEW x \in Threads, Join(x) PROVE Control'
  BY <1>27 DEF Join, Threads, AddPending
<1>28. ASSUME NEW x \in Threads, JoinSelf(x) PROVE Control'
  BY <1>28 DEF JoinSelf, Threads, AddPending
<1>29. ASSUME NEW x \in Threads, JoinedAll(x) PROVE Control'
  BY <1>29 DEF JoinedAll, Threads, AddPending
<1>30. ASSUME NEW x \in Threads, LastUnlock(x) PROVE Control'
  BY <1>30 DEF LastUnlock, Threads, AddPending
<1>31. ASSUME NEW x \in Threads, FreeCheck(x) PROVE Control'
  BY <1>31 DEF FreeCheck, Threads, AddPending
<1>32. ASSUME NEW x \in Threads, FreeLock(x) PROVE Control'
  BY <1>32 DEF FreeLock, Threads, AddPending
<1>33. ASSUME NEW x \in Threads, Free(x) PROVE Control'
  BY <1>33 DEF Free, Threads, AddPending
<1>34. ASSUME NEW x \in Threads, AddInvalid(x) PROVE Control'
  BY <1>34 DEF AddInvalid, MayCall, Threads, AddPending
<1>35. ASSUME NEW x \in Threads, NEW t \in Tasks, AddOverflow(x, t) PROVE Control'
  BY <1>35 DEF AddOverflow, MayCall, Threads, AddPending
<1>36. ASSUME NEW x \in Threads, NEW t \in Tasks, AddCall(x, t) PROVE Control'
  BY <1>36 DEF AddCall, MayCall, Threads, AddPending
<1>37. ASSUME NEW x \in Threads, UnusedInvalid(x) PROVE Control'
  BY <1>37 DEF UnusedInvalid, MayCall, Threads, AddPending
<1>38. ASSUME NEW x \in Threads, UnusedCall(x) PROVE Control'
  BY <1>38 DEF UnusedCall, MayCall, Threads, AddPending
<1>39. ASSUME NEW x \in Threads, DestroyCall(x) PROVE Control'
  BY <1>39 DEF DestroyCall, MayCall, Threads, AddPending
<1>40. ASSUME NEW c \in Clients, Retire(c) PROVE Control'
  BY <1>40 DEF Retire, Threads, AddPending
<1>41. ASSUME UNCHANGED vars PROVE Control'
  BY <1>41 DEF vars, Threads, AddPending
<1>q. QED
  BY <1>1, <1>2, <1>3, <1>4, <1>5, <1>6, <1>7, <1>8, <1>9, <1>10, <1>11, <1>12, <1>13, <1>14, <1>15, <1>16, <1>17, <1>18, <1>19, <1>20, <1>21, <1>22, <1>23, <1>24, <1>25, <1>26, <1>27, <1>28, <1>29, <1>30, <1>31, <1>32, <1>33, <1>34, <1>35, <1>36, <1>37, <1>38, <1>39, <1>40, <1>41 DEF Next, WorkerNext, CallNext, AddNext, DestroyNext, BeginCall, Quiet

LEMMA LockedStep ==
  Types /\ Control /\ Locked /\ [Next]_vars => Locked'
<1> SUFFICES ASSUME Types, Control, Locked, [Next]_vars
             PROVE  Locked'
  OBVIOUS
<1> USE SizesAssumption, ThreadsAssumption, TasksAssumption
    DEF Types, Control, Locked, WorkerMoves, CallMoves, Return, Lock, Unlock, workerRest, callRest,
        poolVars, lifeVars, workerVars, callVars, historyVars
<1>1. ASSUME NEW w \in Workers, WorkerLock(w) PROVE Locked'
  BY <1>1 DEF WorkerLock, Threads, Owns, WorkerOwns, CallOwns
<1>2. ASSUME NEW w \in Workers, WorkerWait(w) PROVE Locked'
  BY <1>2 DEF WorkerWait, Threads, Owns, WorkerOwns, CallOwns
<1>3. ASSUME NEW w \in Workers, WorkerCheck(w) PROVE Locked'
  BY <1>3 DEF WorkerCheck, Threads, Owns, WorkerOwns, CallOwns
<1>4. ASSUME NEW w \in Workers, WorkerTake(w) PROVE Locked'
  BY <1>4 DEF WorkerTake, Threads, Owns, WorkerOwns, CallOwns
<1>5. ASSUME NEW w \in Workers, WorkerCount(w) PROVE Locked'
  BY <1>5 DEF WorkerCount, Threads, Owns, WorkerOwns, CallOwns
<1>6. ASSUME NEW w \in Workers, WorkerUnlock(w) PROVE Locked'
  BY <1>6 DEF WorkerUnlock, Threads, Owns, WorkerOwns, CallOwns
<1>7. ASSUME NEW w \in Workers, WorkerFinish(w) PROVE Locked'
  BY <1>7 DEF WorkerFinish, Threads, Owns, WorkerOwns, CallOwns
<1>8. ASSUME NEW w \in Workers, WorkerStop(w) PROVE Locked'
  BY <1>8 DEF WorkerStop, Threads, Owns, WorkerOwns, CallOwns
<1>9. ASSUME NEW w \in Workers, WorkerExit(w) PROVE Locked'
  BY <1>9 DEF WorkerExit, Threads, Owns, WorkerOwns, CallOwns
<1>10. ASSUME NEW w \in Workers, SpuriousWakeup(w) PROVE Locked'
  BY <1>10 DEF SpuriousWakeup, Threads, Owns, WorkerOwns, CallOwns
<1>11. ASSUME NEW x \in Threads, AddLock(x) PROVE Locked'
  BY <1>11 DEF AddLock, Threads, Owns, WorkerOwns, CallOwns
<1>12. ASSUME NEW x \in Threads, AddLockFails(x) PROVE Locked'
  BY <1>12 DEF AddLockFails, Threads, Owns, WorkerOwns, CallOwns
<1>13. ASSUME NEW x \in Threads, AddRefused(x) PROVE Locked'
  BY <1>13 DEF AddRefused, Threads, Owns, WorkerOwns, CallOwns
<1>14. ASSUME NEW x \in Threads, AddCheck(x) PROVE Locked'
  BY <1>14 DEF AddCheck, Threads, Owns, WorkerOwns, CallOwns
<1>15. ASSUME NEW x \in Threads, AddFill(x) PROVE Locked'
  BY <1>15 DEF AddFill, Threads, Owns, WorkerOwns, CallOwns
<1>16. ASSUME NEW x \in Threads, AddCount(x) PROVE Locked'
  BY <1>16 DEF AddCount, Threads, Owns, WorkerOwns, CallOwns
<1>17. ASSUME NEW x \in Threads, AddSignal(x) PROVE Locked'
  BY <1>17 DEF AddSignal, Asleep, Threads, Owns, WorkerOwns, CallOwns
<1>18. ASSUME NEW x \in Threads, AddSignalFails(x) PROVE Locked'
  BY <1>18 DEF AddSignalFails, Threads, Owns, WorkerOwns, CallOwns
<1>19. ASSUME NEW x \in Threads, AddUnlock(x) PROVE Locked'
  BY <1>19 DEF AddUnlock, Threads, Owns, WorkerOwns, CallOwns
<1>20. ASSUME NEW x \in Threads, UnusedCount(x) PROVE Locked'
  BY <1>20 DEF UnusedCount, Threads, Owns, WorkerOwns, CallOwns
<1>21. ASSUME NEW x \in Threads, DestroyLock(x) PROVE Locked'
  BY <1>21 DEF DestroyLock, Threads, Owns, WorkerOwns, CallOwns
<1>22. ASSUME NEW x \in Threads, DestroyLockFails(x) PROVE Locked'
  BY <1>22 DEF DestroyLockFails, Threads, Owns, WorkerOwns, CallOwns
<1>23. ASSUME NEW x \in Threads, DestroyRefused(x) PROVE Locked'
  BY <1>23 DEF DestroyRefused, Threads, Owns, WorkerOwns, CallOwns
<1>24. ASSUME NEW x \in Threads, DestroyBody(x) PROVE Locked'
  BY <1>24 DEF DestroyBody, Threads, Owns, WorkerOwns, CallOwns
<1>25. ASSUME NEW x \in Threads, Broadcast(x) PROVE Locked'
  BY <1>25 DEF Broadcast, Asleep, Threads, Owns, WorkerOwns, CallOwns
<1>26. ASSUME NEW x \in Threads, BroadcastFails(x) PROVE Locked'
  BY <1>26 DEF BroadcastFails, Threads, Owns, WorkerOwns, CallOwns
<1>27. ASSUME NEW x \in Threads, Join(x) PROVE Locked'
  BY <1>27 DEF Join, Threads, Owns, WorkerOwns, CallOwns
<1>28. ASSUME NEW x \in Threads, JoinSelf(x) PROVE Locked'
  BY <1>28 DEF JoinSelf, Threads, Owns, WorkerOwns, CallOwns
<1>29. ASSUME NEW x \in Threads, JoinedAll(x) PROVE Locked'
  BY <1>29 DEF JoinedAll, Threads, Owns, WorkerOwns, CallOwns
<1>30. ASSUME NEW x \in Threads, LastUnlock(x) PROVE Locked'
  BY <1>30 DEF LastUnlock, Threads, Owns, WorkerOwns, CallOwns
<1>31. ASSUME NEW x \in Threads, FreeCheck(x) PROVE Locked'
  BY <1>31 DEF FreeCheck, Threads, Owns, WorkerOwns, CallOwns
<1>32. ASSUME NEW x \in Threads, FreeLock(x) PROVE Locked'
  BY <1>32 DEF FreeLock, Threads, Owns, WorkerOwns, CallOwns
<1>33. ASSUME NEW x \in Threads, Free(x) PROVE Locked'
  BY <1>33 DEF Free, Threads, Owns, WorkerOwns, CallOwns
<1>34. ASSUME NEW x \in Threads, AddInvalid(x) PROVE Locked'
  BY <1>34 DEF AddInvalid, Threads, Owns, WorkerOwns, CallOwns
<1>35. ASSUME NEW x \in Threads, NEW t \in Tasks, AddOverflow(x, t) PROVE Locked'
  BY <1>35 DEF AddOverflow, Threads, Owns, WorkerOwns, CallOwns
<1>36. ASSUME NEW x \in Threads, NEW t \in Tasks, AddCall(x, t) PROVE Locked'
  BY <1>36 DEF AddCall, Threads, Owns, WorkerOwns, CallOwns
<1>37. ASSUME NEW x \in Threads, UnusedInvalid(x) PROVE Locked'
  BY <1>37 DEF UnusedInvalid, Threads, Owns, WorkerOwns, CallOwns
<1>38. ASSUME NEW x \in Threads, UnusedCall(x) PROVE Locked'
  BY <1>38 DEF UnusedCall, Threads, Owns, WorkerOwns, CallOwns
<1>39. ASSUME NEW x \in Threads, DestroyCall(x) PROVE Locked'
  BY <1>39 DEF DestroyCall, Threads, Owns, WorkerOwns, CallOwns
<1>40. ASSUME NEW c \in Clients, Retire(c) PROVE Locked'
  BY <1>40 DEF Retire, Threads, Owns, WorkerOwns, CallOwns
<1>41. ASSUME UNCHANGED vars PROVE Locked'
  BY <1>41 DEF vars, Threads, Owns, WorkerOwns, CallOwns
<1>q. QED
  BY <1>1, <1>2, <1>3, <1>4, <1>5, <1>6, <1>7, <1>8, <1>9, <1>10, <1>11, <1>12, <1>13, <1>14, <1>15, <1>16, <1>17, <1>18, <1>19, <1>20, <1>21, <1>22, <1>23, <1>24, <1>25, <1>26, <1>27, <1>28, <1>29, <1>30, <1>31, <1>32, <1>33, <1>34, <1>35, <1>36, <1>37, <1>38, <1>39, <1>40, <1>41 DEF Next, WorkerNext, CallNext, AddNext, DestroyNext, BeginCall, Quiet

LEMMA CountedStep ==
  Types /\ Control /\ Locked /\ Counted /\ [Next]_vars => Counted'
<1> SUFFICES ASSUME Types, Control, Locked, Counted, [Next]_vars
             PROVE  Counted'
  OBVIOUS
<1> USE SizesAssumption, ThreadsAssumption, TasksAssumption
    DEF Types, Control, Locked, Counted, WorkerMoves, CallMoves, Return, Lock, Unlock, workerRest, callRest,
        poolVars, lifeVars, workerVars, callVars, historyVars
<1>1. ASSUME NEW w \in Workers, WorkerLock(w) PROVE Counted'
  BY <1>1 DEF WorkerLock, Threads, Owns, WorkerOwns, CallOwns
<1>2. ASSUME NEW w \in Workers, WorkerWait(w) PROVE Counted'
  BY <1>2 DEF WorkerWait, Threads, Owns, WorkerOwns, CallOwns
<1>3. ASSUME NEW w \in Workers, WorkerCheck(w) PROVE Counted'
  BY <1>3 DEF WorkerCheck, Threads, Owns, WorkerOwns, CallOwns
<1>4. ASSUME NEW w \in Workers, WorkerTake(w) PROVE Counted'
  BY <1>4 DEF WorkerTake, Threads, Owns, WorkerOwns, CallOwns
<1>5. ASSUME NEW w \in Workers, WorkerCount(w) PROVE Counted'
  BY <1>5 DEF WorkerCount, Threads, Owns, WorkerOwns, CallOwns
<1>6. ASSUME NEW w \in Workers, WorkerUnlock(w) PROVE Counted'
  BY <1>6 DEF WorkerUnlock, Threads, Owns, WorkerOwns, CallOwns
<1>7. ASSUME NEW w \in Workers, WorkerFinish(w) PROVE Counted'
  BY <1>7 DEF WorkerFinish, Threads, Owns, WorkerOwns, CallOwns
<1>8. ASSUME NEW w \in Workers, WorkerStop(w) PROVE Counted'
  BY <1>8 DEF WorkerStop, Threads, Owns, WorkerOwns, CallOwns
<1>9. ASSUME NEW w \in Workers, WorkerExit(w) PROVE Counted'
  BY <1>9 DEF WorkerExit, Threads, Owns, WorkerOwns, CallOwns
<1>10. ASSUME NEW w \in Workers, SpuriousWakeup(w) PROVE Counted'
  BY <1>10 DEF SpuriousWakeup, Threads, Owns, WorkerOwns, CallOwns
<1>11. ASSUME NEW x \in Threads, AddLock(x) PROVE Counted'
  BY <1>11 DEF AddLock, Threads, Owns, WorkerOwns, CallOwns
<1>12. ASSUME NEW x \in Threads, AddLockFails(x) PROVE Counted'
  BY <1>12 DEF AddLockFails, Threads, Owns, WorkerOwns, CallOwns
<1>13. ASSUME NEW x \in Threads, AddRefused(x) PROVE Counted'
  BY <1>13 DEF AddRefused, Threads, Owns, WorkerOwns, CallOwns
<1>14. ASSUME NEW x \in Threads, AddCheck(x) PROVE Counted'
  BY <1>14 DEF AddCheck, Threads, Owns, WorkerOwns, CallOwns
<1>15. ASSUME NEW x \in Threads, AddFill(x) PROVE Counted'
  BY <1>15 DEF AddFill, Threads, Owns, WorkerOwns, CallOwns
<1>16. ASSUME NEW x \in Threads, AddCount(x) PROVE Counted'
  BY <1>16 DEF AddCount, Threads, Owns, WorkerOwns, CallOwns
<1>17. ASSUME NEW x \in Threads, AddSignal(x) PROVE Counted'
  BY <1>17 DEF AddSignal, Asleep, Threads, Owns, WorkerOwns, CallOwns
<1>18. ASSUME NEW x \in Threads, AddSignalFails(x) PROVE Counted'
  BY <1>18 DEF AddSignalFails, Threads, Owns, WorkerOwns, CallOwns
<1>19. ASSUME NEW x \in Threads, AddUnlock(x) PROVE Counted'
  BY <1>19 DEF AddUnlock, Threads, Owns, WorkerOwns, CallOwns
<1>20. ASSUME NEW x \in Threads, UnusedCount(x) PROVE Counted'
  BY <1>20 DEF UnusedCount, Threads, Owns, WorkerOwns, CallOwns
<1>21. ASSUME NEW x \in Threads, DestroyLock(x) PROVE Counted'
  BY <1>21 DEF DestroyLock, Threads, Owns, WorkerOwns, CallOwns
<1>22. ASSUME NEW x \in Threads, DestroyLockFails(x) PROVE Counted'
  BY <1>22 DEF DestroyLockFails, Threads, Owns, WorkerOwns, CallOwns
<1>23. ASSUME NEW x \in Threads, DestroyRefused(x) PROVE Counted'
  BY <1>23 DEF DestroyRefused, Threads, Owns, WorkerOwns, CallOwns
<1>24. ASSUME NEW x \in Threads, DestroyBody(x) PROVE Counted'
  BY <1>24 DEF DestroyBody, Threads, Owns, WorkerOwns, CallOwns
<1>25. ASSUME NEW x \in Threads, Broadcast(x) PROVE Counted'
  BY <1>25 DEF Broadcast, Asleep, Threads, Owns, WorkerOwns, CallOwns
<1>26. ASSUME NEW x \in Threads, BroadcastFails(x) PROVE Counted'
  BY <1>26 DEF BroadcastFails, Threads, Owns, WorkerOwns, CallOwns
<1>27. ASSUME NEW x \in Threads, Join(x) PROVE Counted'
  BY <1>27 DEF Join, Threads, Owns, WorkerOwns, CallOwns
<1>28. ASSUME NEW x \in Threads, JoinSelf(x) PROVE Counted'
  BY <1>28 DEF JoinSelf, Threads, Owns, WorkerOwns, CallOwns
<1>29. ASSUME NEW x \in Threads, JoinedAll(x) PROVE Counted'
  BY <1>29 DEF JoinedAll, Threads, Owns, WorkerOwns, CallOwns
<1>30. ASSUME NEW x \in Threads, LastUnlock(x) PROVE Counted'
  BY <1>30 DEF LastUnlock, Threads, Owns, WorkerOwns, CallOwns
<1>31. ASSUME NEW x \in Threads, FreeCheck(x) PROVE Counted'
  BY <1>31 DEF FreeCheck, Threads, Owns, WorkerOwns, CallOwns
<1>32. ASSUME NEW x \in Threads, FreeLock(x) PROVE Counted'
  BY <1>32 DEF FreeLock, Threads, Owns, WorkerOwns, CallOwns
<1>33. ASSUME NEW x \in Threads, Free(x) PROVE Counted'
  BY <1>33 DEF Free, Threads, Owns, WorkerOwns, CallOwns
<1>34. ASSUME NEW x \in Threads, AddInvalid(x) PROVE Counted'
  BY <1>34 DEF AddInvalid, Threads, Owns, WorkerOwns, CallOwns
<1>35. ASSUME NEW x \in Threads, NEW t \in Tasks, AddOverflow(x, t) PROVE Counted'
  BY <1>35 DEF AddOverflow, Threads, Owns, WorkerOwns, CallOwns
<1>36. ASSUME NEW x \in Threads, NEW t \in Tasks, AddCall(x, t) PROVE Counted'
  BY <1>36 DEF AddCall, Threads, Owns, WorkerOwns, CallOwns
<1>37. ASSUME NEW x \in Threads, UnusedInvalid(x) PROVE Counted'
  BY <1>37 DEF UnusedInvalid, Threads, Owns, WorkerOwns, CallOwns
<1>38. ASSUME NEW x \in Threads, UnusedCall(x) PROVE Counted'
  BY <1>38 DEF UnusedCall, Threads, Owns, WorkerOwns, CallOwns
<1>39. ASSUME NEW x \in Threads, DestroyCall(x) PROVE Counted'
  BY <1>39 DEF DestroyCall, Threads, Owns, WorkerOwns, CallOwns
<1>40. ASSUME NEW c \in Clients, Retire(c) PROVE Counted'
  BY <1>40 DEF Retire, Threads, Owns, WorkerOwns, CallOwns
<1>41. ASSUME UNCHANGED vars PROVE Counted'
  BY <1>41 DEF vars, Threads, Owns, WorkerOwns, CallOwns
<1>q. QED
  BY <1>1, <1>2, <1>3, <1>4, <1>5, <1>6, <1>7, <1>8, <1>9, <1>10, <1>11, <1>12, <1>13, <1>14, <1>15, <1>16, <1>17, <1>18, <1>19, <1>20, <1>21, <1>22, <1>23, <1>24, <1>25, <1>26, <1>27, <1>28, <1>29, <1>30, <1>31, <1>32, <1>33, <1>34, <1>35, <1>36, <1>37, <1>38, <1>39, <1>40, <1>41 DEF Next, WorkerNext, CallNext, AddNext, DestroyNext, BeginCall, Quiet

LEMMA RingStep ==
  Types /\ Control /\ Locked /\ Counted /\ Ring /\ [Next]_vars => Ring'
<1> SUFFICES ASSUME Types, Control, Locked, Counted, Ring, [Next]_vars
             PROVE  Ring'
  OBVIOUS
<1> USE SizesAssumption, ThreadsAssumption, TasksAssumption
    DEF Types, Control, Locked, Counted, Ring, Slots, WorkerMoves, CallMoves, Return, Lock, Unlock, workerRest, callRest,
        poolVars, lifeVars, workerVars, callVars, historyVars
<1>1. ASSUME NEW w \in Workers, WorkerLock(w) PROVE Ring'
  BY <1>1 DEF WorkerLock, Threads, Owns, WorkerOwns, CallOwns, Length, Place
<1>2. ASSUME NEW w \in Workers, WorkerWait(w) PROVE Ring'
  BY <1>2 DEF WorkerWait, Threads, Owns, WorkerOwns, CallOwns, Length, Place
<1>3. ASSUME NEW w \in Workers, WorkerCheck(w) PROVE Ring'
  BY <1>3 DEF WorkerCheck, Threads, Owns, WorkerOwns, CallOwns, Length, Place
<1>4. ASSUME NEW w \in Workers, WorkerTake(w) PROVE Ring'
  <2>1. Length = count /\ Length' = count - 1 /\ count \in 1..QueueSize
    <3>1. w \in Threads /\ lock = w /\ ~shutdown
      BY <1>4 DEF WorkerTake, Owns, WorkerOwns, Threads
    <3>2. \A y \in Threads : cpc[y] # "add_count"
      BY <1>4, <3>1 DEF WorkerTake, Owns, CallOwns
    <3>3. \A v \in Workers : wpc[v] # "taken"
      BY <1>4, <3>1 DEF WorkerTake, Owns, WorkerOwns, Threads
    <3>4. wpc'[w] = "taken" /\ count' = count /\ cpc' = cpc
      BY <1>4 DEF WorkerTake
    <3>5. count \in 1..QueueSize
      BY <1>4 DEF WorkerTake
    <3> QED BY <3>2, <3>3, <3>4, <3>5 DEF Length
  <2>2. head' = Step(head) /\ tail' = tail /\ queues' = queues /\ finished' = finished
    BY <1>4 DEF WorkerTake
  <2>3. \A i \in 0..(count - 1) : Place(head', i) = Place(head, i + 1)
    BY <2>1, <2>2, PlaceStep
  <2>4. tail' = Place(head, Length)'
    BY <2>1, <2>2, <2>3
  <2>5. \A i \in 0..(Length' - 1) : queues'[Place(head', i)].task \in Tasks
    BY <2>1, <2>2, <2>3
  <2>6. queues[head].task \in Tasks
    <3>1. head = Place(head, 0) /\ 0 \in 0..(Length - 1)
      BY <2>1 DEF Place
    <3> QED BY <3>1
  <2>7. \A v \in Workers : wpc'[v] \in {"taken", "unlock", "run"} => taskcpy'[v].task \in Tasks
    BY <1>4, <2>6 DEF WorkerTake
  <2> QED BY <2>2, <2>4, <2>5, <2>7
<1>5. ASSUME NEW w \in Workers, WorkerCount(w) PROVE Ring'
  BY <1>5 DEF WorkerCount, Threads, Owns, WorkerOwns, CallOwns, Length, Place
<1>6. ASSUME NEW w \in Workers, WorkerUnlock(w) PROVE Ring'
  BY <1>6 DEF WorkerUnlock, Threads, Owns, WorkerOwns, CallOwns, Length, Place
<1>7. ASSUME NEW w \in Workers, WorkerFinish(w) PROVE Ring'
  BY <1>7 DEF WorkerFinish, Threads, Owns, WorkerOwns, CallOwns, Length, Place
<1>8. ASSUME NEW w \in Workers, WorkerStop(w) PROVE Ring'
  BY <1>8 DEF WorkerStop, Threads, Owns, WorkerOwns, CallOwns, Length, Place
<1>9. ASSUME NEW w \in Workers, WorkerExit(w) PROVE Ring'
  BY <1>9 DEF WorkerExit, Threads, Owns, WorkerOwns, CallOwns, Length, Place
<1>10. ASSUME NEW w \in Workers, SpuriousWakeup(w) PROVE Ring'
  BY <1>10 DEF SpuriousWakeup, Threads, Owns, WorkerOwns, CallOwns, Length, Place
<1>11. ASSUME NEW x \in Threads, AddLock(x) PROVE Ring'
  BY <1>11 DEF AddLock, Threads, Owns, WorkerOwns, CallOwns, Length, Place
<1>12. ASSUME NEW x \in Threads, AddLockFails(x) PROVE Ring'
  BY <1>12 DEF AddLockFails, Threads, Owns, WorkerOwns, CallOwns, Length, Place
<1>13. ASSUME NEW x \in Threads, AddRefused(x) PROVE Ring'
  BY <1>13 DEF AddRefused, Threads, Owns, WorkerOwns, CallOwns, Length, Place
<1>14. ASSUME NEW x \in Threads, AddCheck(x) PROVE Ring'
  BY <1>14 DEF AddCheck, Threads, Owns, WorkerOwns, CallOwns, Length, Place
<1>15. ASSUME NEW x \in Threads, AddFill(x) PROVE Ring'
  <2>1. Length = count /\ Length' = count + 1 /\ count \in 0..(QueueSize - 1)
    <3>1. lock = x /\ ~shutdown
      BY <1>15 DEF AddFill, Owns, CallOwns
    <3>2. \A y \in Threads : cpc[y] # "add_count"
      BY <1>15, <3>1 DEF AddFill, Owns, CallOwns
    <3>3. \A w \in Workers : wpc[w] # "taken"
      BY <1>15, <3>1 DEF AddFill, Owns, WorkerOwns, Threads
    <3>4. cpc'[x] = "add_count" /\ count' = count
      BY <1>15 DEF AddFill
    <3> QED BY <1>15, <3>2, <3>3, <3>4 DEF AddFill, Length
  <2>2. /\ head' = head /\ tail' = Step(tail) /\ finished' = finished
        /\ wpc' = wpc /\ taskcpy' = taskcpy
        /\ queues' = [queues EXCEPT ![tail] = Filled(@, offered[x])]
    BY <1>15 DEF AddFill
  <2>3. tail' = Place(head, Length)'
    BY <2>1, <2>2, PlaceStep
  <2>4. queues'[tail].task \in Tasks
    BY <1>15, <2>2 DEF AddFill, Filled, AddPending
  <2>5. \A i \in 0..(count - 1) : queues'[Place(head, i)] = queues[Place(head, i)]
    <3>1. \A i \in 0..(count - 1) : Place(head, i) # tail
      BY <2>1, PlaceInjective
    <3> QED BY <2>1, <2>2, <3>1, PlaceInSlots
  <2>6. \A i \in 0..(Length' - 1) : queues'[Place(head', i)].task \in Tasks
    BY <2>1, <2>2, <2>4, <2>5
  <2> QED BY <2>2, <2>3, <2>6
<1>16. ASSUME NEW x \in Threads, AddCount(x) PROVE Ring'
  BY <1>16 DEF AddCount, Threads, Owns, WorkerOwns, CallOwns, Length, Place
<1>17. ASSUME NEW x \in Threads, AddSignal(x) PROVE Ring'
  BY <1>17 DEF AddSignal, Asleep, Threads, Owns, WorkerOwns, CallOwns, Length, Place
<1>18. ASSUME NEW x \in Threads, AddSignalFails(x) PROVE Ring'
  BY <1>18 DEF AddSignalFails, Threads, Owns, WorkerOwns, CallOwns, Length, Place
<1>19. ASSUME NEW x \in Threads, AddUnlock(x) PROVE Ring'
  BY <1>19 DEF AddUnlock, Threads, Owns, WorkerOwns, CallOwns, Length, Place
<1>20. ASSUME NEW x \in Threads, UnusedCount(x) PROVE Ring'
  BY <1>20 DEF UnusedCount, Threads, Owns, WorkerOwns, CallOwns, Length, Place
<1>21. ASSUME NEW x \in Threads, DestroyLock(x) PROVE Ring'
  BY <1>21 DEF DestroyLock, Threads, Owns, WorkerOwns, CallOwns, Length, Place
<1>22. ASSUME NEW x \in Threads, DestroyLockFails(x) PROVE Ring'
  BY <1>22 DEF DestroyLockFails, Threads, Owns, WorkerOwns, CallOwns, Length, Place
<1>23. ASSUME NEW x \in Threads, DestroyRefused(x) PROVE Ring'
  BY <1>23 DEF DestroyRefused, Threads, Owns, WorkerOwns, CallOwns, Length, Place
<1>24. ASSUME NEW x \in Threads, DestroyBody(x) PROVE Ring'
  BY <1>24 DEF DestroyBody, Threads, Owns, WorkerOwns, CallOwns, Length, Place
<1>25. ASSUME NEW x \in Threads, Broadcast(x) PROVE Ring'
  BY <1>25 DEF Broadcast, Asleep, Threads, Owns, WorkerOwns, CallOwns, Length, Place
<1>26. ASSUME NEW x \in Threads, BroadcastFails(x) PROVE Ring'
  BY <1>26 DEF BroadcastFails, Threads, Owns, WorkerOwns, CallOwns, Length, Place
<1>27. ASSUME NEW x \in Threads, Join(x) PROVE Ring'
  BY <1>27 DEF Join, Threads, Owns, WorkerOwns, CallOwns, Length, Place
<1>28. ASSUME NEW x \in Threads, JoinSelf(x) PROVE Ring'
  BY <1>28 DEF JoinSelf, Threads, Owns, WorkerOwns, CallOwns, Length, Place
<1>29. ASSUME NEW x \in Threads, JoinedAll(x) PROVE Ring'
  BY <1>29 DEF JoinedAll, Threads, Owns, WorkerOwns, CallOwns, Length, Place
<1>30. ASSUME NEW x \in Threads, LastUnlock(x) PROVE Ring'
  BY <1>30 DEF LastUnlock, Threads, Owns, WorkerOwns, CallOwns, Length, Place
<1>31. ASSUME NEW x \in Threads, FreeCheck(x) PROVE Ring'
  BY <1>31 DEF FreeCheck, Threads, Owns, WorkerOwns, CallOwns, Length, Place
<1>32. ASSUME NEW x \in Threads, FreeLock(x) PROVE Ring'
  BY <1>32 DEF FreeLock, Threads, Owns, WorkerOwns, CallOwns, Length, Place
<1>33. ASSUME NEW x \in Threads, Free(x) PROVE Ring'
  BY <1>33 DEF Free, Threads, Owns, WorkerOwns, CallOwns, Length, Place
<1>34. ASSUME NEW x \in Threads, AddInvalid(x) PROVE Ring'
  BY <1>34 DEF AddInvalid, Threads, Owns, WorkerOwns, CallOwns, Length, Place
<1>35. ASSUME NEW x \in Threads, NEW t \in Tasks, AddOverflow(x, t) PROVE Ring'
  BY <1>35 DEF AddOverflow, Threads, Owns, WorkerOwns, CallOwns, Length, Place
<1>36. ASSUME NEW x \in Threads, NEW t \in Tasks, AddCall(x, t) PROVE Ring'
  BY <1>36 DEF AddCall, Threads, Owns, WorkerOwns, CallOwns, Length, Place
<1>37. ASSUME NEW x \in Threads, UnusedInvalid(x) PROVE Ring'
  BY <1>37 DEF UnusedInvalid, Threads, Owns, WorkerOwns, CallOwns, Length, Place
<1>38. ASSUME NEW x \in Threads, UnusedCall(x) PROVE Ring'
  BY <1>38 DEF UnusedCall, Threads, Owns, WorkerOwns, CallOwns, Length, Place
<1>39. ASSUME NEW x \in Threads, DestroyCall(x) PROVE Ring'
  BY <1>39 DEF DestroyCall, Threads, Owns, WorkerOwns, CallOwns, Length, Place
<1>40. ASSUME NEW c \in Clients, Retire(c) PROVE Ring'
  BY <1>40 DEF Retire, Threads, Owns, WorkerOwns, CallOwns, Length, Place
<1>41. ASSUME UNCHANGED vars PROVE Ring'
  BY <1>41 DEF vars, Threads, Owns, WorkerOwns, CallOwns, Length, Place
<1>q. QED
  BY <1>1, <1>2, <1>3, <1>4, <1>5, <1>6, <1>7, <1>8, <1>9, <1>10, <1>11, <1>12, <1>13, <1>14, <1>15, <1>16, <1>17, <1>18, <1>19, <1>20, <1>21, <1>22, <1>23, <1>24, <1>25, <1>26, <1>27, <1>28, <1>29, <1>30, <1>31, <1>32, <1>33, <1>34, <1>35, <1>36, <1>37, <1>38, <1>39, <1>40, <1>41 DEF Next, WorkerNext, CallNext, AddNext, DestroyNext, BeginCall, Quiet

LEMMA ArgumentsStep ==
  Types /\ Control /\ Arguments /\ [Next]_vars => Arguments'
<1> SUFFICES ASSUME Types, Control, Arguments, [Next]_vars
             PROVE  Arguments'
  OBVIOUS
<1> USE SizesAssumption, ThreadsAssumption, TasksAssumption
    DEF Types, Control, Arguments, WorkerMoves, CallMoves, Return, Lock, Unlock, workerRest, callRest,
        poolVars, lifeVars, workerVars, callVars, historyVars
<1>1. ASSUME NEW w \in Workers, WorkerLock(w) PROVE Arguments'
  BY <1>1 DEF WorkerLock
<1>2. ASSUME NEW w \in Workers, WorkerWait(w) PROVE Arguments'
  BY <1>2 DEF WorkerWait
<1>3. ASSUME NEW w \in Workers, WorkerCheck(w) PROVE Arguments'
  BY <1>3 DEF WorkerCheck
<1>4. ASSUME NEW w \in Workers, WorkerTake(w) PROVE Arguments'
  BY <1>4 DEF WorkerTake
<1>5. ASSUME NEW w \in Workers, WorkerCount(w) PROVE Arguments'
  BY <1>5 DEF WorkerCount
<1>6. ASSUME NEW w \in Workers, WorkerUnlock(w) PROVE Arguments'
  BY <1>6 DEF WorkerUnlock
<1>7. ASSUME NEW w \in Workers, WorkerFinish(w) PROVE Arguments'
  BY <1>7 DEF WorkerFinish
<1>8. ASSUME NEW w \in Workers, WorkerStop(w) PROVE Arguments'
  BY <1>8 DEF WorkerStop
<1>9. ASSUME NEW w \in Workers, WorkerExit(w) PROVE Arguments'
  BY <1>9 DEF WorkerExit
<1>10. ASSUME NEW w \in Workers, SpuriousWakeup(w) PROVE Arguments'
  BY <1>10 DEF SpuriousWakeup
<1>11. ASSUME NEW x \in Threads, AddLock(x) PROVE Arguments'
  BY <1>11 DEF AddLock
<1>12. ASSUME NEW x \in Threads, AddLockFails(x) PROVE Arguments'
  BY <1>12 DEF AddLockFails
<1>13. ASSUME NEW x \in Threads, AddRefused(x) PROVE Arguments'
  BY <1>13 DEF AddRefused
<1>14. ASSUME NEW x \in Threads, AddCheck(x) PROVE Arguments'
  BY <1>14 DEF AddCheck
<1>15. ASSUME NEW x \in Threads, AddFill(x) PROVE Arguments'
  BY <1>15, FilledType, FilledArgument DEF AddFill, AddPending
<1>16. ASSUME NEW x \in Threads, AddCount(x) PROVE Arguments'
  BY <1>16 DEF AddCount
<1>17. ASSUME NEW x \in Threads, AddSignal(x) PROVE Arguments'
  BY <1>17 DEF AddSignal, Asleep
<1>18. ASSUME NEW x \in Threads, AddSignalFails(x) PROVE Arguments'
  BY <1>18 DEF AddSignalFails
<1>19. ASSUME NEW x \in Threads, AddUnlock(x) PROVE Arguments'
  BY <1>19 DEF AddUnlock
<1>20. ASSUME NEW x \in Threads, UnusedCount(x) PROVE Arguments'
  BY <1>20 DEF UnusedCount
<1>21. ASSUME NEW x \in Threads, DestroyLock(x) PROVE Arguments'
  BY <1>21 DEF DestroyLock
<1>22. ASSUME NEW x \in Threads, DestroyLockFails(x) PROVE Arguments'
  BY <1>22 DEF DestroyLockFails
<1>23. ASSUME NEW x \in Threads, DestroyRefused(x) PROVE Arguments'
  BY <1>23 DEF DestroyRefused
<1>24. ASSUME NEW x \in Threads, DestroyBody(x) PROVE Arguments'
  BY <1>24 DEF DestroyBody
<1>25. ASSUME NEW x \in Threads, Broadcast(x) PROVE Arguments'
  BY <1>25 DEF Broadcast, Asleep
<1>26. ASSUME NEW x \in Threads, BroadcastFails(x) PROVE Arguments'
  BY <1>26 DEF BroadcastFails
<1>27. ASSUME NEW x \in Threads, Join(x) PROVE Arguments'
  BY <1>27 DEF Join
<1>28. ASSUME NEW x \in Threads, JoinSelf(x) PROVE Arguments'
  BY <1>28 DEF JoinSelf
<1>29. ASSUME NEW x \in Threads, JoinedAll(x) PROVE Arguments'
  BY <1>29 DEF JoinedAll
<1>30. ASSUME NEW x \in Threads, LastUnlock(x) PROVE Arguments'
  BY <1>30 DEF LastUnlock
<1>31. ASSUME NEW x \in Threads, FreeCheck(x) PROVE Arguments'
  BY <1>31 DEF FreeCheck
<1>32. ASSUME NEW x \in Threads, FreeLock(x) PROVE Arguments'
  BY <1>32 DEF FreeLock
<1>33. ASSUME NEW x \in Threads, Free(x) PROVE Arguments'
  BY <1>33 DEF Free
<1>34. ASSUME NEW x \in Threads, AddInvalid(x) PROVE Arguments'
  BY <1>34 DEF AddInvalid
<1>35. ASSUME NEW x \in Threads, NEW t \in Tasks, AddOverflow(x, t) PROVE Arguments'
  BY <1>35 DEF AddOverflow
<1>36. ASSUME NEW x \in Threads, NEW t \in Tasks, AddCall(x, t) PROVE Arguments'
  BY <1>36 DEF AddCall
<1>37. ASSUME NEW x \in Threads, UnusedInvalid(x) PROVE Arguments'
  BY <1>37 DEF UnusedInvalid
<1>38. ASSUME NEW x \in Threads, UnusedCall(x) PROVE Arguments'
  BY <1>38 DEF UnusedCall
<1>39. ASSUME NEW x \in Threads, DestroyCall(x) PROVE Arguments'
  BY <1>39 DEF DestroyCall
<1>40. ASSUME NEW c \in Clients, Retire(c) PROVE Arguments'
  BY <1>40 DEF Retire
<1>41. ASSUME UNCHANGED vars PROVE Arguments'
  BY <1>41 DEF vars
<1>q. QED
  BY <1>1, <1>2, <1>3, <1>4, <1>5, <1>6, <1>7, <1>8, <1>9, <1>10, <1>11, <1>12, <1>13, <1>14, <1>15, <1>16, <1>17, <1>18, <1>19, <1>20, <1>21, <1>22, <1>23, <1>24, <1>25, <1>26, <1>27, <1>28, <1>29, <1>30, <1>31, <1>32, <1>33, <1>34, <1>35, <1>36, <1>37, <1>38, <1>39, <1>40, <1>41 DEF Next, WorkerNext, CallNext, AddNext, DestroyNext, BeginCall, Quiet

LEMMA StartedStep ==
  Types /\ Started /\ [Next]_vars => Started'
<1> SUFFICES ASSUME Types, Started, [Next]_vars
             PROVE  Started'
  OBVIOUS
<1> USE SizesAssumption, ThreadsAssumption, TasksAssumption
    DEF Types, Started, WorkerMoves, CallMoves, Return, Lock, Unlock, workerRest, callRest,
        poolVars, lifeVars, workerVars, callVars, historyVars
<1>1. ASSUME NEW w \in Workers, WorkerLock(w) PROVE Started'
  BY <1>1 DEF WorkerLock, Active
<1>2. ASSUME NEW w \in Workers, WorkerWait(w) PROVE Started'
  BY <1>2 DEF WorkerWait, Active
<1>3. ASSUME NEW w \in Workers, WorkerCheck(w) PROVE Started'
  BY <1>3 DEF WorkerCheck, Active
<1>4. ASSUME NEW w \in Workers, WorkerTake(w) PROVE Started'
  BY <1>4 DEF WorkerTake, Active
<1>5. ASSUME NEW w \in Workers, WorkerCount(w) PROVE Started'
  BY <1>5 DEF WorkerCount, Active
<1>6. ASSUME NEW w \in Workers, WorkerUnlock(w) PROVE Started'
  BY <1>6 DEF WorkerUnlock, Active
<1>7. ASSUME NEW w \in Workers, WorkerFinish(w) PROVE Started'
  BY <1>7 DEF WorkerFinish, Active
<1>8. ASSUME NEW w \in Workers, WorkerStop(w) PROVE Started'
  <2>1. w \in Active /\ Active' = Active \ {w}
    BY <1>8 DEF WorkerStop, Active
  <2>2. IsFiniteSet(Workers) /\ Active \subseteq Workers
    BY FS_Interval DEF Active, Workers
  <2>3. IsFiniteSet(Active)
    BY <2>2, FS_Subset
  <2>4. Cardinality(Active') = Cardinality(Active) - 1
    BY <2>1, <2>3, FS_RemoveElement
  <2> QED BY <1>8, <2>4 DEF WorkerStop
<1>9. ASSUME NEW w \in Workers, WorkerExit(w) PROVE Started'
  BY <1>9 DEF WorkerExit, Active
<1>10. ASSUME NEW w \in Workers, SpuriousWakeup(w) PROVE Started'
  BY <1>10 DEF SpuriousWakeup, Active
<1>11. ASSUME NEW x \in Threads, AddLock(x) PROVE Started'
  BY <1>11 DEF AddLock, Active
<1>12. ASSUME NEW x \in Threads, AddLockFails(x) PROVE Started'
  BY <1>12 DEF AddLockFails, Active
<1>13. ASSUME NEW x \in Threads, AddRefused(x) PROVE Started'
  BY <1>13 DEF AddRefused, Active
<1>14. ASSUME NEW x \in Threads, AddCheck(x) PROVE Started'
  BY <1>14 DEF AddCheck, Active
<1>15. ASSUME NEW x \in Threads, AddFill(x) PROVE Started'
  BY <1>15 DEF AddFill, Active
<1>16. ASSUME NEW x \in Threads, AddCount(x) PROVE Started'
  BY <1>16 DEF AddCount, Active
<1>17. ASSUME NEW x \in Threads, AddSignal(x) PROVE Started'
  BY <1>17 DEF AddSignal, Asleep, Active
<1>18. ASSUME NEW x \in Threads, AddSignalFails(x) PROVE Started'
  BY <1>18 DEF AddSignalFails, Active
<1>19. ASSUME NEW x \in Threads, AddUnlock(x) PROVE Started'
  BY <1>19 DEF AddUnlock, Active
<1>20. ASSUME NEW x \in Threads, UnusedCount(x) PROVE Started'
  BY <1>20 DEF UnusedCount, Active
<1>21. ASSUME NEW x \in Threads, DestroyLock(x) PROVE Started'
  BY <1>21 DEF DestroyLock, Active
<1>22. ASSUME NEW x \in Threads, DestroyLockFails(x) PROVE Started'
  BY <1>22 DEF DestroyLockFails, Active
<1>23. ASSUME NEW x \in Threads, DestroyRefused(x) PROVE Started'
  BY <1>23 DEF DestroyRefused, Active
<1>24. ASSUME NEW x \in Threads, DestroyBody(x) PROVE Started'
  BY <1>24 DEF DestroyBody, Active
<1>25. ASSUME NEW x \in Threads, Broadcast(x) PROVE Started'
  BY <1>25 DEF Broadcast, Asleep, Active
<1>26. ASSUME NEW x \in Threads, BroadcastFails(x) PROVE Started'
  BY <1>26 DEF BroadcastFails, Active
<1>27. ASSUME NEW x \in Threads, Join(x) PROVE Started'
  BY <1>27 DEF Join, Active
<1>28. ASSUME NEW x \in Threads, JoinSelf(x) PROVE Started'
  BY <1>28 DEF JoinSelf, Active
<1>29. ASSUME NEW x \in Threads, JoinedAll(x) PROVE Started'
  BY <1>29 DEF JoinedAll, Active
<1>30. ASSUME NEW x \in Threads, LastUnlock(x) PROVE Started'
  BY <1>30 DEF LastUnlock, Active
<1>31. ASSUME NEW x \in Threads, FreeCheck(x) PROVE Started'
  BY <1>31 DEF FreeCheck, Active
<1>32. ASSUME NEW x \in Threads, FreeLock(x) PROVE Started'
  BY <1>32 DEF FreeLock, Active
<1>33. ASSUME NEW x \in Threads, Free(x) PROVE Started'
  BY <1>33 DEF Free, Active
<1>34. ASSUME NEW x \in Threads, AddInvalid(x) PROVE Started'
  BY <1>34 DEF AddInvalid, Active
<1>35. ASSUME NEW x \in Threads, NEW t \in Tasks, AddOverflow(x, t) PROVE Started'
  BY <1>35 DEF AddOverflow, Active
<1>36. ASSUME NEW x \in Threads, NEW t \in Tasks, AddCall(x, t) PROVE Started'
  BY <1>36 DEF AddCall, Active
<1>37. ASSUME NEW x \in Threads, UnusedInvalid(x) PROVE Started'
  BY <1>37 DEF UnusedInvalid, Active
<1>38. ASSUME NEW x \in Threads, UnusedCall(x) PROVE Started'
  BY <1>38 DEF UnusedCall, Active
<1>39. ASSUME NEW x \in Threads, DestroyCall(x) PROVE Started'
  BY <1>39 DEF DestroyCall, Active
<1>40. ASSUME NEW c \in Clients, Retire(c) PROVE Started'
  BY <1>40 DEF Retire, Active
<1>41. ASSUME UNCHANGED vars PROVE Started'
  BY <1>41 DEF vars, Active
<1>q. QED
  BY <1>1, <1>2, <1>3, <1>4, <1>5, <1>6, <1>7, <1>8, <1>9, <1>10, <1>11, <1>12, <1>13, <1>14, <1>15, <1>16, <1>17, <1>18, <1>19, <1>20, <1>21, <1>22, <1>23, <1>24, <1>25, <1>26, <1>27, <1>28, <1>29, <1>30, <1>31, <1>32, <1>33, <1>34, <1>35, <1>36, <1>37, <1>38, <1>39, <1>40, <1>41 DEF Next, WorkerNext, CallNext, AddNext, DestroyNext, BeginCall, Quiet

LEMMA JoinedStep ==
  Types /\ Joined /\ [Next]_vars => Joined'
<1> SUFFICES ASSUME Types, Joined, [Next]_vars
             PROVE  Joined'
  OBVIOUS
<1> USE SizesAssumption, ThreadsAssumption, TasksAssumption
    DEF Types, Joined, WorkerMoves, CallMoves, Return, Lock, Unlock, workerRest, callRest,
        poolVars, lifeVars, workerVars, callVars, historyVars
<1>1. ASSUME NEW w \in Workers, WorkerLock(w) PROVE Joined'
  BY <1>1 DEF WorkerLock, Threads, Workers, DestroyFinds
<1>2. ASSUME NEW w \in Workers, WorkerWait(w) PROVE Joined'
  BY <1>2 DEF WorkerWait, Threads, Workers, DestroyFinds
<1>3. ASSUME NEW w \in Workers, WorkerCheck(w) PROVE Joined'
  BY <1>3 DEF WorkerCheck, Threads, Workers, DestroyFinds
<1>4. ASSUME NEW w \in Workers, WorkerTake(w) PROVE Joined'
  BY <1>4 DEF WorkerTake, Threads, Workers, DestroyFinds
<1>5. ASSUME NEW w \in Workers, WorkerCount(w) PROVE Joined'
  BY <1>5 DEF WorkerCount, Threads, Workers, DestroyFinds
<1>6. ASSUME NEW w \in Workers, WorkerUnlock(w) PROVE Joined'
  BY <1>6 DEF WorkerUnlock, Threads, Workers, DestroyFinds
<1>7. ASSUME NEW w \in Workers, WorkerFinish(w) PROVE Joined'
  BY <1>7 DEF WorkerFinish, Threads, Workers, DestroyFinds
<1>8. ASSUME NEW w \in Workers, WorkerStop(w) PROVE Joined'
  BY <1>8 DEF WorkerStop, Threads, Workers, DestroyFinds
<1>9. ASSUME NEW w \in Workers, WorkerExit(w) PROVE Joined'
  BY <1>9 DEF WorkerExit, Threads, Workers, DestroyFinds
<1>10. ASSUME NEW w \in Workers, SpuriousWakeup(w) PROVE Joined'
  BY <1>10 DEF SpuriousWakeup, Threads, Workers, DestroyFinds
<1>11. ASSUME NEW x \in Threads, AddLock(x) PROVE Joined'
  BY <1>11 DEF AddLock, Threads, Workers, DestroyFinds
<1>12. ASSUME NEW x \in Threads, AddLockFails(x) PROVE Joined'
  BY <1>12 DEF AddLockFails, Threads, Workers, DestroyFinds
<1>13. ASSUME NEW x \in Threads, AddRefused(x) PROVE Joined'
  BY <1>13 DEF AddRefused, Threads, Workers, DestroyFinds
<1>14. ASSUME NEW x \in Threads, AddCheck(x) PROVE Joined'
  BY <1>14 DEF AddCheck, Threads, Workers, DestroyFinds
<1>15. ASSUME NEW x \in Threads, AddFill(x) PROVE Joined'
  BY <1>15 DEF AddFill, Threads, Workers, DestroyFinds
<1>16. ASSUME NEW x \in Threads, AddCount(x) PROVE Joined'
  BY <1>16 DEF AddCount, Threads, Workers, DestroyFinds
<1>17. ASSUME NEW x \in Threads, AddSignal(x) PROVE Joined'
  BY <1>17 DEF AddSignal, Asleep, Threads, Workers, DestroyFinds
<1>18. ASSUME NEW x \in Threads, AddSignalFails(x) PROVE Joined'
  BY <1>18 DEF AddSignalFails, Threads, Workers, DestroyFinds
<1>19. ASSUME NEW x \in Threads, AddUnlock(x) PROVE Joined'
  BY <1>19 DEF AddUnlock, Threads, Workers, DestroyFinds
<1>20. ASSUME NEW x \in Threads, UnusedCount(x) PROVE Joined'
  BY <1>20 DEF UnusedCount, Threads, Workers, DestroyFinds
<1>21. ASSUME NEW x \in Threads, DestroyLock(x) PROVE Joined'
  BY <1>21 DEF DestroyLock, Threads, Workers, DestroyFinds
<1>22. ASSUME NEW x \in Threads, DestroyLockFails(x) PROVE Joined'
  BY <1>22 DEF DestroyLockFails, Threads, Workers, DestroyFinds
<1>23. ASSUME NEW x \in Threads, DestroyRefused(x) PROVE Joined'
  BY <1>23 DEF DestroyRefused, Threads, Workers, DestroyFinds
<1>24. ASSUME NEW x \in Threads, DestroyBody(x) PROVE Joined'
  BY <1>24 DEF DestroyBody, Threads, Workers, DestroyFinds
<1>25. ASSUME NEW x \in Threads, Broadcast(x) PROVE Joined'
  BY <1>25 DEF Broadcast, Asleep, Threads, Workers, DestroyFinds
<1>26. ASSUME NEW x \in Threads, BroadcastFails(x) PROVE Joined'
  BY <1>26 DEF BroadcastFails, Threads, Workers, DestroyFinds
<1>27. ASSUME NEW x \in Threads, Join(x) PROVE Joined'
  BY <1>27 DEF Join, Threads, Workers, DestroyFinds
<1>28. ASSUME NEW x \in Threads, JoinSelf(x) PROVE Joined'
  BY <1>28 DEF JoinSelf, Threads, Workers, DestroyFinds
<1>29. ASSUME NEW x \in Threads, JoinedAll(x) PROVE Joined'
  BY <1>29 DEF JoinedAll, Threads, Workers, DestroyFinds
<1>30. ASSUME NEW x \in Threads, LastUnlock(x) PROVE Joined'
  BY <1>30 DEF LastUnlock, Threads, Workers, DestroyFinds
<1>31. ASSUME NEW x \in Threads, FreeCheck(x) PROVE Joined'
  BY <1>31 DEF FreeCheck, Threads, Workers, DestroyFinds
<1>32. ASSUME NEW x \in Threads, FreeLock(x) PROVE Joined'
  BY <1>32 DEF FreeLock, Threads, Workers, DestroyFinds
<1>33. ASSUME NEW x \in Threads, Free(x) PROVE Joined'
  BY <1>33 DEF Free, Threads, Workers, DestroyFinds
<1>34. ASSUME NEW x \in Threads, AddInvalid(x) PROVE Joined'
  BY <1>34 DEF AddInvalid, MayCall, Threads, Workers, DestroyFinds
<1>35. ASSUME NEW x \in Threads, NEW t \in Tasks, AddOverflow(x, t) PROVE Joined'
  BY <1>35 DEF AddOverflow, MayCall, Threads, Workers, DestroyFinds
<1>36. ASSUME NEW x \in Threads, NEW t \in Tasks, AddCall(x, t) PROVE Joined'
  BY <1>36 DEF AddCall, MayCall, Threads, Workers, DestroyFinds
<1>37. ASSUME NEW x \in Threads, UnusedInvalid(x) PROVE Joined'
  BY <1>37 DEF UnusedInvalid, MayCall, Threads, Workers, DestroyFinds
<1>38. ASSUME NEW x \in Threads, UnusedCall(x) PROVE Joined'
  BY <1>38 DEF UnusedCall, MayCall, Threads, Workers, DestroyFinds
<1>39. ASSUME NEW x \in Threads, DestroyCall(x) PROVE Joined'
  BY <1>39 DEF DestroyCall, MayCall, Threads, Workers, DestroyFinds
<1>40. ASSUME NEW c \in Clients, Retire(c) PROVE Joined'
  BY <1>40 DEF Retire, Threads, Workers, DestroyFinds
<1>41. ASSUME UNCHANGED vars PROVE Joined'
  BY <1>41 DEF vars, Threads, Workers, DestroyFinds
<1>q. QED
  BY <1>1, <1>2, <1>3, <1>4, <1>5, <1>6, <1>7, <1>8, <1>9, <1>10, <1>11, <1>12, <1>13, <1>14, <1>15, <1>16, <1>17, <1>18, <1>19, <1>20, <1>21, <1>22, <1>23, <1>24, <1>25, <1>26, <1>27, <1>28, <1>29, <1>30, <1>31, <1>32, <1>33, <1>34, <1>35, <1>36, <1>37, <1>38, <1>39, <1>40, <1>41 DEF Next, WorkerNext, CallNext, AddNext, DestroyNext, BeginCall, Quiet

-----------------------------------------------------------------------------
(* The invariant, and what follows from it without further assumptions *)

LEMMA InvInit == Init => Inv
<1> SUFFICES ASSUME Init PROVE Inv
  OBVIOUS
<1> USE SizesAssumption, ThreadsAssumption, TasksAssumption DEF Init
<1>1. RawSlot \in Slot
  BY DEF RawSlot, Slot
<1>2. Types
  <2>1. queues \in [Slots -> Slot] /\ taskcpy \in [Workers -> Slot]
    BY <1>1
  <2>2. 0 \in Slots /\ 0 \in 0..ThreadCount
    BY DEF Slots
  <2>3. /\ wpc \in [Workers -> WorkerLabels] /\ cpc \in [Threads -> CallLabels]
        /\ ret \in [Threads -> Codes]
    BY DEF WorkerLabels, CallLabels, Codes
  <2>4. /\ offered \in [Threads -> Tasks \cup {NoTask}] /\ credit \in [Threads -> Int]
        /\ joining \in [Threads -> 0..ThreadCount]
        /\ outcome \in [Tasks -> {"fresh", "offered", "accepted", "rejected"}]
    BY <2>2
  <2>5. /\ lock \in Threads \cup {NoThread} /\ head \in Slots /\ tail \in Slots
        /\ count \in Int /\ started \in Int /\ mem \in {"live", "freed"}
    BY <2>2
  <2>6. shutdown \in BOOLEAN
    OBVIOUS
  <2> QED BY <2>1, <2>3, <2>4, <2>5, <2>6 DEF Types
<1>3. Control /\ Locked /\ Counted
  BY DEF Control, AddPending, Locked, Counted, Owns, WorkerOwns, CallOwns, Threads
<1>4. Ring
  BY DEF Ring, Length, Place, Threads
<1>5. Arguments
  BY DEF Arguments, HoldsArgument, RawSlot, Bytes
<1>6. Started
  <2>1. Active = 1..ThreadCount
    BY DEF Active, Workers
  <2> QED BY <2>1, FS_Interval DEF Started
<1>7. Joined
  BY DEF Joined, DestroyFinds
<1> QED BY <1>2, <1>3, <1>4, <1>5, <1>6, <1>7 DEF Inv

LEMMA InvStep == Inv /\ [Next]_vars => Inv'
BY TypesStep, ControlStep, LockedStep, CountedStep, RingStep, ArgumentsStep,
   StartedStep, JoinedStep DEF Inv

\* The invariant holds in every reachable state of every instance.
THEOREM Invariance == Spec => []Inv
BY InvInit, InvStep, PTL DEF Spec

LEMMA ActiveBounded ==
  /\ Cardinality(Active) \in 0..ThreadCount
  /\ Active = {} => Cardinality(Active) = 0
<1>1. IsFiniteSet(Workers) /\ Cardinality(Workers) = ThreadCount
  BY SizesAssumption, FS_Interval DEF Workers
<1>2. Active \subseteq Workers
  BY DEF Active
<1> QED BY <1>1, <1>2, FS_Subset, FS_CardinalityType, FS_EmptySet, SizesAssumption

\* Indices stay in the ring, count and started within their bounds, and every
\* variable has its type, whatever the threads of the program do.
THEOREM TypeCorrectness == Spec => []TypeOK
<1>1. Inv => TypeOK
  BY ActiveBounded, SizesAssumption DEF Inv, Types, Counted, Ring, Started, TypeOK
<1> QED BY <1>1, Invariance, PTL

\* head, tail and count of the ring agree in every state, so threadpool_add
\* overwrites no waiting task and no slot is taken twice.
THEOREM RingStaysConsistent == Spec => []RingConsistent
<1>1. Inv => RingConsistent
  BY SizesAssumption DEF Inv, Types, Control, Locked, Counted, Ring, RingConsistent, Length, Owns, CallOwns, WorkerOwns, Threads
<1> QED BY <1>1, Invariance, PTL

\* A task finds its own argument bytes, however often its slot and the copy of
\* its worker were used before.
THEOREM TasksSeeTheirArgument == Spec => []OwnArgument
<1>1. Inv => OwnArgument
  BY DEF Inv, Arguments, HoldsArgument, OwnArgument
<1> QED BY <1>1, Invariance, PTL

\* When the joins of threadpool_destroy went well, threadpool_free frees.
THEOREM SuccessfulDestroyFrees == Spec => []DestroyFreesPool
<1>1. Inv => DestroyFreesPool
  <2> SUFFICES ASSUME Inv, NEW x \in Threads, cpc[x] \in DestroyFinds
               PROVE  started = 0 /\ \A w \in Workers : wpc[w] = "done"
    BY DEF DestroyFreesPool
  <2>1. \A w \in Workers : wpc[w] = "done"
    BY DEF Inv, Joined
  <2>2. Active = {}
    BY <2>1 DEF Active
  <2> QED BY <2>1, <2>2, ActiveBounded DEF Inv, Started
<1> QED BY <1>1, Invariance, PTL

\* After shutdown = 1 the ring never changes again, also in programs whose
\* calls race threadpool_destroy and lose the lock to its second unlock.
THEOREM ShutdownIsFinal == Spec => ShutdownFreezesQueue
<1> DEFINE Frozen == shutdown => UNCHANGED <<poolVars, shutdown>>
<1>1. Inv /\ [Next]_vars => [Frozen]_vars
  <2> SUFFICES ASSUME Inv, Next, shutdown PROVE UNCHANGED <<poolVars, shutdown>>
    OBVIOUS
  <2> USE DEF Inv, Locked, poolVars, lifeVars, workerRest, callRest
  <2>1. ASSUME NEW w \in Workers, WorkerNext(w) \/ SpuriousWakeup(w)
        PROVE  UNCHANGED <<poolVars, shutdown>>
    BY <2>1 DEF WorkerNext, SpuriousWakeup, WorkerLock, WorkerWait, WorkerCheck, WorkerTake,
                WorkerCount, WorkerUnlock, WorkerFinish, WorkerStop, WorkerExit, WorkerMoves
  <2>2. ASSUME NEW x \in Threads, AddNext(x) \/ UnusedCount(x)
        PROVE  UNCHANGED <<poolVars, shutdown>>
    BY <2>2 DEF AddNext, AddLock, AddLockFails, AddRefused, AddCheck, AddFill, AddCount,
                AddSignal, AddSignalFails, AddUnlock, UnusedCount, CallMoves
  <2>3. ASSUME NEW x \in Threads, DestroyNext(x) PROVE UNCHANGED <<poolVars, shutdown>>
    BY <2>3 DEF DestroyNext, DestroyLock, DestroyLockFails, DestroyRefused, DestroyBody,
                Broadcast, BroadcastFails, Join, JoinSelf, JoinedAll, LastUnlock,
                FreeCheck, FreeLock, Free
  <2>4. ASSUME NEW x \in Threads, BeginCall(x) PROVE UNCHANGED <<poolVars, shutdown>>
    BY <2>4 DEF BeginCall, AddInvalid, AddOverflow, AddCall, UnusedInvalid, UnusedCall,
                DestroyCall
  <2>5. ASSUME NEW c \in Clients, Retire(c) PROVE UNCHANGED <<poolVars, shutdown>>
    BY <2>5 DEF Retire
  <2>6. ASSUME Quiet PROVE UNCHANGED <<poolVars, shutdown>>
    BY <2>6 DEF Quiet, vars
  <2> QED BY <2>1, <2>2, <2>3, <2>4, <2>5, <2>6 DEF Next, CallNext
<1> QED BY <1>1, Invariance, PTL DEF Spec, ShutdownFreezesQueue

-----------------------------------------------------------------------------
(* Wakeups *)

LEMMA NoLostWakeupStep ==
  Types /\ Control /\ NoLostWakeup /\ "signal" \notin Failures /\ [Next]_vars => NoLostWakeup'
<1> SUFFICES ASSUME Types, Control, NoLostWakeup, "signal" \notin Failures, [Next]_vars
             PROVE  NoLostWakeup'
  OBVIOUS
<1> USE SizesAssumption, ThreadsAssumption, TasksAssumption
    DEF Types, Control, WorkerMoves, CallMoves, Return, Lock, Unlock, workerRest, callRest,
        poolVars, lifeVars, workerVars, callVars, historyVars
<1> DEFINE Grows ==
      shutdown' \/ /\ ~shutdown /\ count' = count
                   /\ Asleep' \subseteq Asleep
                   /\ Coming \subseteq Coming'
<1>1. /\ IsFiniteSet(Coming) /\ Cardinality(Coming) \in Nat
      /\ IsFiniteSet(Coming') /\ Cardinality(Coming') \in Nat
  <2>1. IsFiniteSet(Threads)
    <3>1. IsFiniteSet(Workers)
      BY FS_Interval DEF Workers
    <3> QED BY <3>1, FS_Union DEF Threads
  <2>2. Coming \subseteq Threads /\ Coming' \subseteq Threads
    BY DEF Coming
  <2> QED BY <2>1, <2>2, FS_Subset, FS_CardinalityType
<1>2. ASSUME Grows PROVE NoLostWakeup'
  <2>1. Coming \subseteq Coming' => Cardinality(Coming) <= Cardinality(Coming')
    BY <1>1, FS_Subset
  <2> QED BY <1>1, <1>2, <2>1 DEF NoLostWakeup
<1>3. ASSUME NEW w \in Workers, WorkerLock(w) PROVE Grows
  BY <1>3 DEF WorkerLock, Coming, Asleep, Threads, Grows
<1>4. ASSUME NEW w \in Workers, WorkerWait(w) PROVE NoLostWakeup'
  <2>1. count' = 0
    BY <1>4 DEF WorkerWait
  <2> QED BY <1>1, <2>1 DEF NoLostWakeup
<1>5. ASSUME NEW w \in Workers, WorkerCheck(w) PROVE Grows
  BY <1>5 DEF WorkerCheck, Coming, Asleep, Threads, Grows
<1>6. ASSUME NEW w \in Workers, WorkerTake(w) PROVE Grows
  BY <1>6 DEF WorkerTake, Coming, Asleep, Threads, Grows
<1>7. ASSUME NEW w \in Workers, WorkerCount(w) PROVE NoLostWakeup'
  <2>1. w \in Coming /\ Coming' = Coming \ {w}
    BY <1>7 DEF WorkerCount, Coming, Threads
  <2>2. Cardinality(Coming') = Cardinality(Coming) - 1
    BY <1>1, <2>1, FS_RemoveElement
  <2>3. count' = count - 1 /\ shutdown' = shutdown /\ Asleep' = Asleep
    BY <1>7 DEF WorkerCount, Asleep
  <2> QED BY <1>1, <2>2, <2>3 DEF NoLostWakeup
<1>8. ASSUME NEW w \in Workers, WorkerUnlock(w) PROVE Grows
  BY <1>8 DEF WorkerUnlock, Coming, Asleep, Threads, Grows
<1>9. ASSUME NEW w \in Workers, WorkerFinish(w) PROVE Grows
  BY <1>9 DEF WorkerFinish, Coming, Asleep, Threads, Grows
<1>10. ASSUME NEW w \in Workers, WorkerStop(w) PROVE Grows
  BY <1>10 DEF WorkerStop, Coming, Asleep, Threads, Grows
<1>11. ASSUME NEW w \in Workers, WorkerExit(w) PROVE Grows
  BY <1>11 DEF WorkerExit, Coming, Asleep, Threads, Grows
<1>12. ASSUME NEW w \in Workers, SpuriousWakeup(w) PROVE Grows
  BY <1>12 DEF SpuriousWakeup, Coming, Asleep, Threads, Grows
<1>13. ASSUME NEW x \in Threads, AddLock(x) PROVE Grows
  BY <1>13 DEF AddLock, Coming, Asleep, Threads, Grows
<1>14. ASSUME NEW x \in Threads, AddLockFails(x) PROVE Grows
  BY <1>14 DEF AddLockFails, Coming, Asleep, Threads, Grows
<1>15. ASSUME NEW x \in Threads, AddRefused(x) PROVE Grows
  BY <1>15 DEF AddRefused, Coming, Asleep, Threads, Grows
<1>16. ASSUME NEW x \in Threads, AddCheck(x) PROVE Grows
  BY <1>16 DEF AddCheck, Coming, Asleep, Threads, Grows
<1>17. ASSUME NEW x \in Threads, AddFill(x) PROVE Grows
  BY <1>17 DEF AddFill, Coming, Asleep, Threads, Grows
<1>18. ASSUME NEW x \in Threads, AddCount(x) PROVE NoLostWakeup'
  <2>1. x \notin Coming /\ Coming' = Coming \cup {x}
    BY <1>18 DEF AddCount, Coming, Threads
  <2>2. Cardinality(Coming') = Cardinality(Coming) + 1
    BY <1>1, <2>1, FS_AddElement
  <2>3. count' = count + 1 /\ shutdown' = shutdown /\ Asleep' = Asleep
    BY <1>18 DEF AddCount, Asleep
  <2> QED BY <1>1, <2>2, <2>3 DEF NoLostWakeup
<1>19. ASSUME NEW x \in Threads, AddSignal(x) PROVE NoLostWakeup'
  <2>1. count' = count /\ shutdown' = shutdown
    BY <1>19 DEF AddSignal
  <2>2. CASE Asleep = {} /\ UNCHANGED wpc
    BY <2>2 DEF NoLostWakeup, Asleep
  <2>3. ASSUME NEW w \in Asleep, WorkerMoves(w, "asleep", "lock") PROVE NoLostWakeup'
    <3>1. w \in Threads /\ w # x /\ w \notin Coming /\ x \in Coming
      BY <1>19, <2>3 DEF AddSignal, Asleep, Coming, Threads
    <3>2. Coming' = (Coming \ {x}) \cup {w}
      BY <1>19, <2>3, <3>1 DEF AddSignal, Asleep, Coming, Threads
    <3> DEFINE Others == Coming \ {x}
    <3>3. IsFiniteSet(Others) /\ Cardinality(Others) = Cardinality(Coming) - 1
      BY <1>1, <3>1, FS_RemoveElement
    <3>4. w \notin Others /\ Coming' = Others \cup {w}
      BY <3>1, <3>2
    <3> HIDE DEF Others
    <3>5. Cardinality(Coming') = Cardinality(Coming)
      <4>1. Cardinality(Others \cup {w}) = Cardinality(Others) + 1
        BY <3>3, <3>4, FS_AddElement
      <4> QED BY <1>1, <3>3, <3>4, <4>1
    <3>6. Asleep # {}
      BY <2>3
    <3> QED BY <1>1, <2>1, <3>5, <3>6 DEF NoLostWakeup
  <2> QED BY <1>19, <2>2, <2>3 DEF AddSignal
<1>20. ASSUME NEW x \in Threads, AddSignalFails(x) PROVE Grows
  BY <1>20 DEF AddSignalFails, Coming, Asleep, Threads, Grows
<1>21. ASSUME NEW x \in Threads, AddUnlock(x) PROVE Grows
  BY <1>21 DEF AddUnlock, Coming, Asleep, Threads, Grows
<1>22. ASSUME NEW x \in Threads, UnusedCount(x) PROVE Grows
  BY <1>22 DEF UnusedCount, Coming, Asleep, Threads, Grows
<1>23. ASSUME NEW x \in Threads, DestroyLock(x) PROVE Grows
  BY <1>23 DEF DestroyLock, Coming, Asleep, Threads, Grows
<1>24. ASSUME NEW x \in Threads, DestroyLockFails(x) PROVE Grows
  BY <1>24 DEF DestroyLockFails, Coming, Asleep, Threads, Grows
<1>25. ASSUME NEW x \in Threads, DestroyRefused(x) PROVE Grows
  BY <1>25 DEF DestroyRefused, Coming, Asleep, Threads, Grows
<1>26. ASSUME NEW x \in Threads, DestroyBody(x) PROVE Grows
  BY <1>26 DEF DestroyBody, Coming, Asleep, Threads, Grows
<1>27. ASSUME NEW x \in Threads, Broadcast(x) PROVE Grows
  BY <1>27 DEF Broadcast, Coming, Asleep, Threads, Grows
<1>28. ASSUME NEW x \in Threads, BroadcastFails(x) PROVE Grows
  BY <1>28 DEF BroadcastFails, Coming, Asleep, Threads, Grows
<1>29. ASSUME NEW x \in Threads, Join(x) PROVE Grows
  BY <1>29 DEF Join, Coming, Asleep, Threads, Grows
<1>30. ASSUME NEW x \in Threads, JoinSelf(x) PROVE Grows
  BY <1>30 DEF JoinSelf, Coming, Asleep, Threads, Grows
<1>31. ASSUME NEW x \in Threads, JoinedAll(x) PROVE Grows
  BY <1>31 DEF JoinedAll, Coming, Asleep, Threads, Grows
<1>32. ASSUME NEW x \in Threads, LastUnlock(x) PROVE Grows
  BY <1>32 DEF LastUnlock, Coming, Asleep, Threads, Grows
<1>33. ASSUME NEW x \in Threads, FreeCheck(x) PROVE Grows
  BY <1>33 DEF FreeCheck, Coming, Asleep, Threads, Grows
<1>34. ASSUME NEW x \in Threads, FreeLock(x) PROVE Grows
  BY <1>34 DEF FreeLock, Coming, Asleep, Threads, Grows
<1>35. ASSUME NEW x \in Threads, Free(x) PROVE Grows
  BY <1>35 DEF Free, Coming, Asleep, Threads, Grows
<1>36. ASSUME NEW x \in Threads, AddInvalid(x) PROVE Grows
  BY <1>36 DEF AddInvalid, Coming, Asleep, Threads, Grows
<1>37. ASSUME NEW x \in Threads, NEW t \in Tasks, AddOverflow(x, t) PROVE Grows
  BY <1>37 DEF AddOverflow, Coming, Asleep, Threads, Grows
<1>38. ASSUME NEW x \in Threads, NEW t \in Tasks, AddCall(x, t) PROVE Grows
  BY <1>38 DEF AddCall, Coming, Asleep, Threads, Grows
<1>39. ASSUME NEW x \in Threads, UnusedInvalid(x) PROVE Grows
  BY <1>39 DEF UnusedInvalid, Coming, Asleep, Threads, Grows
<1>40. ASSUME NEW x \in Threads, UnusedCall(x) PROVE Grows
  BY <1>40 DEF UnusedCall, Coming, Asleep, Threads, Grows
<1>41. ASSUME NEW x \in Threads, DestroyCall(x) PROVE Grows
  BY <1>41 DEF DestroyCall, Coming, Asleep, Threads, Grows
<1>42. ASSUME NEW c \in Clients, Retire(c) PROVE Grows
  BY <1>42 DEF Retire, Coming, Asleep, Threads, Grows
<1>43. ASSUME UNCHANGED vars PROVE Grows
  BY <1>43 DEF vars, Coming, Asleep, Threads, Grows
<1>q. QED
  BY <1>2, <1>3, <1>4, <1>5, <1>6, <1>7, <1>8, <1>9, <1>10, <1>11, <1>12, <1>13, <1>14, <1>15, <1>16, <1>17, <1>18, <1>19, <1>20, <1>21, <1>22, <1>23, <1>24, <1>25, <1>26, <1>27, <1>28, <1>29, <1>30, <1>31, <1>32, <1>33, <1>34, <1>35, <1>36, <1>37, <1>38, <1>39, <1>40, <1>41, <1>42, <1>43 DEF Next, WorkerNext, CallNext, AddNext, DestroyNext, BeginCall, Quiet

\* No wakeup is lost: while a worker sleeps and the pool is not shutting down,
\* every waiting task has an awake worker coming or a signal about to be sent.
THEOREM WakeupsAreNotLost == "signal" \notin Failures => (Spec => []NoLostWakeup)
<1> SUFFICES ASSUME "signal" \notin Failures PROVE Spec => []NoLostWakeup
  OBVIOUS
<1>1. Init => NoLostWakeup
  BY DEF Init, NoLostWakeup, Asleep
<1>2. Inv /\ NoLostWakeup /\ [Next]_vars => NoLostWakeup'
  BY NoLostWakeupStep DEF Inv
<1> QED BY <1>1, <1>2, Invariance, PTL DEF Spec

-----------------------------------------------------------------------------
(* Orderly programs *)

\* No client calls the pool once another has begun to destroy it, and no task
\* destroys the pool it runs in.  The tasks may call all the rest at any time.
Orderly == Quiescent /\ \A w \in Workers : "destroy" \notin Calls[w]

DestroyLabels ==
  {"destroy_lock", "destroy_body", "broadcast", "join", "last_unlock"} \cup DestroyFinds

\* Whoever destroys the pool is the only client left.
Alone ==
  /\ \A w \in Workers : cpc[w] \notin DestroyLabels
  /\ \A c \in Clients :
       cpc[c] \in DestroyLabels =>
         /\ ret[c] \in {"success", "shutdown", "lock_failure"}
         /\ \A d \in Clients \ {c} : cpc[d] = "retired"

LEMMA AloneStep ==
  Types /\ Orderly /\ Alone /\ [Next]_vars => Alone'
<1> SUFFICES ASSUME Types, Orderly, Alone, [Next]_vars
             PROVE  Alone'
  OBVIOUS
<1> USE SizesAssumption, ThreadsAssumption, TasksAssumption
    DEF Types, Orderly, Alone, WorkerMoves, CallMoves, Return, Lock, Unlock, workerRest, callRest,
        poolVars, lifeVars, workerVars, callVars, historyVars
<1>1. ASSUME NEW w \in Workers, WorkerLock(w) PROVE Alone'
  BY <1>1 DEF WorkerLock, Threads, Workers, DestroyLabels, DestroyFinds
<1>2. ASSUME NEW w \in Workers, WorkerWait(w) PROVE Alone'
  BY <1>2 DEF WorkerWait, Threads, Workers, DestroyLabels, DestroyFinds
<1>3. ASSUME NEW w \in Workers, WorkerCheck(w) PROVE Alone'
  BY <1>3 DEF WorkerCheck, Threads, Workers, DestroyLabels, DestroyFinds
<1>4. ASSUME NEW w \in Workers, WorkerTake(w) PROVE Alone'
  BY <1>4 DEF WorkerTake, Threads, Workers, DestroyLabels, DestroyFinds
<1>5. ASSUME NEW w \in Workers, WorkerCount(w) PROVE Alone'
  BY <1>5 DEF WorkerCount, Threads, Workers, DestroyLabels, DestroyFinds
<1>6. ASSUME NEW w \in Workers, WorkerUnlock(w) PROVE Alone'
  BY <1>6 DEF WorkerUnlock, Threads, Workers, DestroyLabels, DestroyFinds
<1>7. ASSUME NEW w \in Workers, WorkerFinish(w) PROVE Alone'
  BY <1>7 DEF WorkerFinish, Threads, Workers, DestroyLabels, DestroyFinds
<1>8. ASSUME NEW w \in Workers, WorkerStop(w) PROVE Alone'
  BY <1>8 DEF WorkerStop, Threads, Workers, DestroyLabels, DestroyFinds
<1>9. ASSUME NEW w \in Workers, WorkerExit(w) PROVE Alone'
  BY <1>9 DEF WorkerExit, Threads, Workers, DestroyLabels, DestroyFinds
<1>10. ASSUME NEW w \in Workers, SpuriousWakeup(w) PROVE Alone'
  BY <1>10 DEF SpuriousWakeup, Threads, Workers, DestroyLabels, DestroyFinds
<1>11. ASSUME NEW x \in Threads, AddLock(x) PROVE Alone'
  BY <1>11 DEF AddLock, Threads, Workers, DestroyLabels, DestroyFinds
<1>12. ASSUME NEW x \in Threads, AddLockFails(x) PROVE Alone'
  BY <1>12 DEF AddLockFails, Threads, Workers, DestroyLabels, DestroyFinds
<1>13. ASSUME NEW x \in Threads, AddRefused(x) PROVE Alone'
  BY <1>13 DEF AddRefused, Threads, Workers, DestroyLabels, DestroyFinds
<1>14. ASSUME NEW x \in Threads, AddCheck(x) PROVE Alone'
  BY <1>14 DEF AddCheck, Threads, Workers, DestroyLabels, DestroyFinds
<1>15. ASSUME NEW x \in Threads, AddFill(x) PROVE Alone'
  BY <1>15 DEF AddFill, Threads, Workers, DestroyLabels, DestroyFinds
<1>16. ASSUME NEW x \in Threads, AddCount(x) PROVE Alone'
  BY <1>16 DEF AddCount, Threads, Workers, DestroyLabels, DestroyFinds
<1>17. ASSUME NEW x \in Threads, AddSignal(x) PROVE Alone'
  BY <1>17 DEF AddSignal, Threads, Workers, DestroyLabels, DestroyFinds
<1>18. ASSUME NEW x \in Threads, AddSignalFails(x) PROVE Alone'
  BY <1>18 DEF AddSignalFails, Threads, Workers, DestroyLabels, DestroyFinds
<1>19. ASSUME NEW x \in Threads, AddUnlock(x) PROVE Alone'
  BY <1>19 DEF AddUnlock, Threads, Workers, DestroyLabels, DestroyFinds
<1>20. ASSUME NEW x \in Threads, UnusedCount(x) PROVE Alone'
  BY <1>20 DEF UnusedCount, Threads, Workers, DestroyLabels, DestroyFinds
<1>21. ASSUME NEW x \in Threads, DestroyLock(x) PROVE Alone'
  BY <1>21 DEF DestroyLock, Threads, Workers, DestroyLabels, DestroyFinds
<1>22. ASSUME NEW x \in Threads, DestroyLockFails(x) PROVE Alone'
  BY <1>22 DEF DestroyLockFails, Threads, Workers, DestroyLabels, DestroyFinds
<1>23. ASSUME NEW x \in Threads, DestroyRefused(x) PROVE Alone'
  BY <1>23 DEF DestroyRefused, Threads, Workers, DestroyLabels, DestroyFinds
<1>24. ASSUME NEW x \in Threads, DestroyBody(x) PROVE Alone'
  BY <1>24 DEF DestroyBody, Threads, Workers, DestroyLabels, DestroyFinds
<1>25. ASSUME NEW x \in Threads, Broadcast(x) PROVE Alone'
  BY <1>25 DEF Broadcast, Threads, Workers, DestroyLabels, DestroyFinds
<1>26. ASSUME NEW x \in Threads, BroadcastFails(x) PROVE Alone'
  BY <1>26 DEF BroadcastFails, Threads, Workers, DestroyLabels, DestroyFinds
<1>27. ASSUME NEW x \in Threads, Join(x) PROVE Alone'
  BY <1>27 DEF Join, Threads, Workers, DestroyLabels, DestroyFinds
<1>28. ASSUME NEW x \in Threads, JoinSelf(x) PROVE Alone'
  BY <1>28 DEF JoinSelf, Threads, Workers, DestroyLabels, DestroyFinds
<1>29. ASSUME NEW x \in Threads, JoinedAll(x) PROVE Alone'
  BY <1>29 DEF JoinedAll, Threads, Workers, DestroyLabels, DestroyFinds
<1>30. ASSUME NEW x \in Threads, LastUnlock(x) PROVE Alone'
  BY <1>30 DEF LastUnlock, Threads, Workers, DestroyLabels, DestroyFinds
<1>31. ASSUME NEW x \in Threads, FreeCheck(x) PROVE Alone'
  BY <1>31 DEF FreeCheck, Threads, Workers, DestroyLabels, DestroyFinds
<1>32. ASSUME NEW x \in Threads, FreeLock(x) PROVE Alone'
  BY <1>32 DEF FreeLock, Threads, Workers, DestroyLabels, DestroyFinds
<1>33. ASSUME NEW x \in Threads, Free(x) PROVE Alone'
  BY <1>33 DEF Free, Threads, Workers, DestroyLabels, DestroyFinds
<1>34. ASSUME NEW x \in Threads, AddInvalid(x) PROVE Alone'
  BY <1>34 DEF AddInvalid, MayCall, Threads, Workers, DestroyLabels, DestroyFinds
<1>35. ASSUME NEW x \in Threads, NEW t \in Tasks, AddOverflow(x, t) PROVE Alone'
  BY <1>35 DEF AddOverflow, MayCall, Threads, Workers, DestroyLabels, DestroyFinds
<1>36. ASSUME NEW x \in Threads, NEW t \in Tasks, AddCall(x, t) PROVE Alone'
  BY <1>36 DEF AddCall, MayCall, Threads, Workers, DestroyLabels, DestroyFinds
<1>37. ASSUME NEW x \in Threads, UnusedInvalid(x) PROVE Alone'
  BY <1>37 DEF UnusedInvalid, MayCall, Threads, Workers, DestroyLabels, DestroyFinds
<1>38. ASSUME NEW x \in Threads, UnusedCall(x) PROVE Alone'
  BY <1>38 DEF UnusedCall, MayCall, Threads, Workers, DestroyLabels, DestroyFinds
<1>39. ASSUME NEW x \in Threads, DestroyCall(x) PROVE Alone'
  BY <1>39 DEF DestroyCall, MayCall, Threads, Workers, DestroyLabels, DestroyFinds
<1>40. ASSUME NEW c \in Clients, Retire(c) PROVE Alone'
  BY <1>40 DEF Retire, Threads, Workers, DestroyLabels, DestroyFinds
<1>41. ASSUME UNCHANGED vars PROVE Alone'
  BY <1>41 DEF vars, Threads, Workers, DestroyLabels, DestroyFinds
<1>q. QED
  BY <1>1, <1>2, <1>3, <1>4, <1>5, <1>6, <1>7, <1>8, <1>9, <1>10, <1>11, <1>12, <1>13, <1>14, <1>15, <1>16, <1>17, <1>18, <1>19, <1>20, <1>21, <1>22, <1>23, <1>24, <1>25, <1>26, <1>27, <1>28, <1>29, <1>30, <1>31, <1>32, <1>33, <1>34, <1>35, <1>36, <1>37, <1>38, <1>39, <1>40, <1>41 DEF Next, WorkerNext, CallNext, AddNext, DestroyNext, BeginCall, Quiet

LEMMA MutualExclusionStep ==
  Types /\ Control /\ Joined /\ Alone /\ MutualExclusion /\ [Next]_vars => MutualExclusion'
<1> SUFFICES ASSUME Types, Control, Joined, Alone, MutualExclusion, [Next]_vars
             PROVE  MutualExclusion'
  OBVIOUS
<1> USE SizesAssumption, ThreadsAssumption, TasksAssumption
    DEF Types, Control, MutualExclusion, WorkerMoves, CallMoves, Return, Lock, Unlock, workerRest, callRest,
        poolVars, lifeVars, workerVars, callVars, historyVars
<1>1. ASSUME NEW w \in Workers, WorkerLock(w) PROVE MutualExclusion'
  BY <1>1 DEF WorkerLock, Threads, Owns, WorkerOwns, CallOwns
<1>2. ASSUME NEW w \in Workers, WorkerWait(w) PROVE MutualExclusion'
  BY <1>2 DEF WorkerWait, Threads, Owns, WorkerOwns, CallOwns
<1>3. ASSUME NEW w \in Workers, WorkerCheck(w) PROVE MutualExclusion'
  BY <1>3 DEF WorkerCheck, Threads, Owns, WorkerOwns, CallOwns
<1>4. ASSUME NEW w \in Workers, WorkerTake(w) PROVE MutualExclusion'
  BY <1>4 DEF WorkerTake, Threads, Owns, WorkerOwns, CallOwns
<1>5. ASSUME NEW w \in Workers, WorkerCount(w) PROVE MutualExclusion'
  BY <1>5 DEF WorkerCount, Threads, Owns, WorkerOwns, CallOwns
<1>6. ASSUME NEW w \in Workers, WorkerUnlock(w) PROVE MutualExclusion'
  BY <1>6 DEF WorkerUnlock, Threads, Owns, WorkerOwns, CallOwns
<1>7. ASSUME NEW w \in Workers, WorkerFinish(w) PROVE MutualExclusion'
  BY <1>7 DEF WorkerFinish, Threads, Owns, WorkerOwns, CallOwns
<1>8. ASSUME NEW w \in Workers, WorkerStop(w) PROVE MutualExclusion'
  BY <1>8 DEF WorkerStop, Threads, Owns, WorkerOwns, CallOwns
<1>9. ASSUME NEW w \in Workers, WorkerExit(w) PROVE MutualExclusion'
  BY <1>9 DEF WorkerExit, Threads, Owns, WorkerOwns, CallOwns
<1>10. ASSUME NEW w \in Workers, SpuriousWakeup(w) PROVE MutualExclusion'
  BY <1>10 DEF SpuriousWakeup, Threads, Owns, WorkerOwns, CallOwns
<1>11. ASSUME NEW x \in Threads, AddLock(x) PROVE MutualExclusion'
  BY <1>11 DEF AddLock, Threads, Owns, WorkerOwns, CallOwns
<1>12. ASSUME NEW x \in Threads, AddLockFails(x) PROVE MutualExclusion'
  BY <1>12 DEF AddLockFails, Threads, Owns, WorkerOwns, CallOwns
<1>13. ASSUME NEW x \in Threads, AddRefused(x) PROVE MutualExclusion'
  BY <1>13 DEF AddRefused, Threads, Owns, WorkerOwns, CallOwns
<1>14. ASSUME NEW x \in Threads, AddCheck(x) PROVE MutualExclusion'
  BY <1>14 DEF AddCheck, Threads, Owns, WorkerOwns, CallOwns
<1>15. ASSUME NEW x \in Threads, AddFill(x) PROVE MutualExclusion'
  BY <1>15 DEF AddFill, Threads, Owns, WorkerOwns, CallOwns
<1>16. ASSUME NEW x \in Threads, AddCount(x) PROVE MutualExclusion'
  BY <1>16 DEF AddCount, Threads, Owns, WorkerOwns, CallOwns
<1>17. ASSUME NEW x \in Threads, AddSignal(x) PROVE MutualExclusion'
  BY <1>17 DEF AddSignal, Asleep, Threads, Owns, WorkerOwns, CallOwns
<1>18. ASSUME NEW x \in Threads, AddSignalFails(x) PROVE MutualExclusion'
  BY <1>18 DEF AddSignalFails, Threads, Owns, WorkerOwns, CallOwns
<1>19. ASSUME NEW x \in Threads, AddUnlock(x) PROVE MutualExclusion'
  BY <1>19 DEF AddUnlock, Threads, Owns, WorkerOwns, CallOwns
<1>20. ASSUME NEW x \in Threads, UnusedCount(x) PROVE MutualExclusion'
  BY <1>20 DEF UnusedCount, Threads, Owns, WorkerOwns, CallOwns
<1>21. ASSUME NEW x \in Threads, DestroyLock(x) PROVE MutualExclusion'
  BY <1>21 DEF DestroyLock, Threads, Owns, WorkerOwns, CallOwns
<1>22. ASSUME NEW x \in Threads, DestroyLockFails(x) PROVE MutualExclusion'
  BY <1>22 DEF DestroyLockFails, Threads, Owns, WorkerOwns, CallOwns
<1>23. ASSUME NEW x \in Threads, DestroyRefused(x) PROVE MutualExclusion'
  BY <1>23 DEF DestroyRefused, Threads, Owns, WorkerOwns, CallOwns
<1>24. ASSUME NEW x \in Threads, DestroyBody(x) PROVE MutualExclusion'
  BY <1>24 DEF DestroyBody, Threads, Owns, WorkerOwns, CallOwns
<1>25. ASSUME NEW x \in Threads, Broadcast(x) PROVE MutualExclusion'
  BY <1>25 DEF Broadcast, Asleep, Threads, Owns, WorkerOwns, CallOwns
<1>26. ASSUME NEW x \in Threads, BroadcastFails(x) PROVE MutualExclusion'
  BY <1>26 DEF BroadcastFails, Threads, Owns, WorkerOwns, CallOwns
<1>27. ASSUME NEW x \in Threads, Join(x) PROVE MutualExclusion'
  BY <1>27 DEF Join, Threads, Owns, WorkerOwns, CallOwns
<1>28. ASSUME NEW x \in Threads, JoinSelf(x) PROVE MutualExclusion'
  BY <1>28 DEF JoinSelf, Threads, Owns, WorkerOwns, CallOwns
<1>29. ASSUME NEW x \in Threads, JoinedAll(x) PROVE MutualExclusion'
  BY <1>29 DEF JoinedAll, Joined, Threads, Owns, WorkerOwns, CallOwns
<1>30. ASSUME NEW x \in Threads, LastUnlock(x) PROVE MutualExclusion'
  BY <1>30 DEF LastUnlock, Joined, Alone, DestroyLabels, Threads, Owns, WorkerOwns, CallOwns
<1>31. ASSUME NEW x \in Threads, FreeCheck(x) PROVE MutualExclusion'
  BY <1>31 DEF FreeCheck, Threads, Owns, WorkerOwns, CallOwns
<1>32. ASSUME NEW x \in Threads, FreeLock(x) PROVE MutualExclusion'
  BY <1>32 DEF FreeLock, Threads, Owns, WorkerOwns, CallOwns
<1>33. ASSUME NEW x \in Threads, Free(x) PROVE MutualExclusion'
  BY <1>33 DEF Free, Threads, Owns, WorkerOwns, CallOwns
<1>34. ASSUME NEW x \in Threads, AddInvalid(x) PROVE MutualExclusion'
  BY <1>34 DEF AddInvalid, Threads, Owns, WorkerOwns, CallOwns
<1>35. ASSUME NEW x \in Threads, NEW t \in Tasks, AddOverflow(x, t) PROVE MutualExclusion'
  BY <1>35 DEF AddOverflow, Threads, Owns, WorkerOwns, CallOwns
<1>36. ASSUME NEW x \in Threads, NEW t \in Tasks, AddCall(x, t) PROVE MutualExclusion'
  BY <1>36 DEF AddCall, Threads, Owns, WorkerOwns, CallOwns
<1>37. ASSUME NEW x \in Threads, UnusedInvalid(x) PROVE MutualExclusion'
  BY <1>37 DEF UnusedInvalid, Threads, Owns, WorkerOwns, CallOwns
<1>38. ASSUME NEW x \in Threads, UnusedCall(x) PROVE MutualExclusion'
  BY <1>38 DEF UnusedCall, Threads, Owns, WorkerOwns, CallOwns
<1>39. ASSUME NEW x \in Threads, DestroyCall(x) PROVE MutualExclusion'
  BY <1>39 DEF DestroyCall, Threads, Owns, WorkerOwns, CallOwns
<1>40. ASSUME NEW c \in Clients, Retire(c) PROVE MutualExclusion'
  BY <1>40 DEF Retire, Threads, Owns, WorkerOwns, CallOwns
<1>41. ASSUME UNCHANGED vars PROVE MutualExclusion'
  BY <1>41 DEF vars, Threads, Owns, WorkerOwns, CallOwns
<1>q. QED
  BY <1>1, <1>2, <1>3, <1>4, <1>5, <1>6, <1>7, <1>8, <1>9, <1>10, <1>11, <1>12, <1>13, <1>14, <1>15, <1>16, <1>17, <1>18, <1>19, <1>20, <1>21, <1>22, <1>23, <1>24, <1>25, <1>26, <1>27, <1>28, <1>29, <1>30, <1>31, <1>32, <1>33, <1>34, <1>35, <1>36, <1>37, <1>38, <1>39, <1>40, <1>41 DEF Next, WorkerNext, CallNext, AddNext, DestroyNext, BeginCall, Quiet

LEMMA NoUseAfterFreeStep ==
  Types /\ Control /\ Joined /\ Alone /\ NoUseAfterFree /\ [Next]_vars => NoUseAfterFree'
<1> SUFFICES ASSUME Types, Control, Joined, Alone, NoUseAfterFree, [Next]_vars
             PROVE  NoUseAfterFree'
  OBVIOUS
<1> USE SizesAssumption, ThreadsAssumption, TasksAssumption
    DEF Types, Control, NoUseAfterFree, WorkerMoves, CallMoves, Return, Lock, Unlock, workerRest, callRest,
        poolVars, lifeVars, workerVars, callVars, historyVars
<1>1. ASSUME NEW w \in Workers, WorkerLock(w) PROVE NoUseAfterFree'
  BY <1>1 DEF WorkerLock, Threads
<1>2. ASSUME NEW w \in Workers, WorkerWait(w) PROVE NoUseAfterFree'
  BY <1>2 DEF WorkerWait, Threads
<1>3. ASSUME NEW w \in Workers, WorkerCheck(w) PROVE NoUseAfterFree'
  BY <1>3 DEF WorkerCheck, Threads
<1>4. ASSUME NEW w \in Workers, WorkerTake(w) PROVE NoUseAfterFree'
  BY <1>4 DEF WorkerTake, Threads
<1>5. ASSUME NEW w \in Workers, WorkerCount(w) PROVE NoUseAfterFree'
  BY <1>5 DEF WorkerCount, Threads
<1>6. ASSUME NEW w \in Workers, WorkerUnlock(w) PROVE NoUseAfterFree'
  BY <1>6 DEF WorkerUnlock, Threads
<1>7. ASSUME NEW w \in Workers, WorkerFinish(w) PROVE NoUseAfterFree'
  BY <1>7 DEF WorkerFinish, Threads
<1>8. ASSUME NEW w \in Workers, WorkerStop(w) PROVE NoUseAfterFree'
  BY <1>8 DEF WorkerStop, Threads
<1>9. ASSUME NEW w \in Workers, WorkerExit(w) PROVE NoUseAfterFree'
  BY <1>9 DEF WorkerExit, Threads
<1>10. ASSUME NEW w \in Workers, SpuriousWakeup(w) PROVE NoUseAfterFree'
  BY <1>10 DEF SpuriousWakeup, Threads
<1>11. ASSUME NEW x \in Threads, AddLock(x) PROVE NoUseAfterFree'
  BY <1>11 DEF AddLock, Threads
<1>12. ASSUME NEW x \in Threads, AddLockFails(x) PROVE NoUseAfterFree'
  BY <1>12 DEF AddLockFails, Threads
<1>13. ASSUME NEW x \in Threads, AddRefused(x) PROVE NoUseAfterFree'
  BY <1>13 DEF AddRefused, Threads
<1>14. ASSUME NEW x \in Threads, AddCheck(x) PROVE NoUseAfterFree'
  BY <1>14 DEF AddCheck, Threads
<1>15. ASSUME NEW x \in Threads, AddFill(x) PROVE NoUseAfterFree'
  BY <1>15 DEF AddFill, Threads
<1>16. ASSUME NEW x \in Threads, AddCount(x) PROVE NoUseAfterFree'
  BY <1>16 DEF AddCount, Threads
<1>17. ASSUME NEW x \in Threads, AddSignal(x) PROVE NoUseAfterFree'
  BY <1>17 DEF AddSignal, Asleep, Threads
<1>18. ASSUME NEW x \in Threads, AddSignalFails(x) PROVE NoUseAfterFree'
  BY <1>18 DEF AddSignalFails, Threads
<1>19. ASSUME NEW x \in Threads, AddUnlock(x) PROVE NoUseAfterFree'
  BY <1>19 DEF AddUnlock, Threads
<1>20. ASSUME NEW x \in Threads, UnusedCount(x) PROVE NoUseAfterFree'
  BY <1>20 DEF UnusedCount, Threads
<1>21. ASSUME NEW x \in Threads, DestroyLock(x) PROVE NoUseAfterFree'
  BY <1>21 DEF DestroyLock, Threads
<1>22. ASSUME NEW x \in Threads, DestroyLockFails(x) PROVE NoUseAfterFree'
  BY <1>22 DEF DestroyLockFails, Threads
<1>23. ASSUME NEW x \in Threads, DestroyRefused(x) PROVE NoUseAfterFree'
  BY <1>23 DEF DestroyRefused, Threads
<1>24. ASSUME NEW x \in Threads, DestroyBody(x) PROVE NoUseAfterFree'
  BY <1>24 DEF DestroyBody, Threads
<1>25. ASSUME NEW x \in Threads, Broadcast(x) PROVE NoUseAfterFree'
  BY <1>25 DEF Broadcast, Asleep, Threads
<1>26. ASSUME NEW x \in Threads, BroadcastFails(x) PROVE NoUseAfterFree'
  BY <1>26 DEF BroadcastFails, Threads
<1>27. ASSUME NEW x \in Threads, Join(x) PROVE NoUseAfterFree'
  BY <1>27 DEF Join, Threads
<1>28. ASSUME NEW x \in Threads, JoinSelf(x) PROVE NoUseAfterFree'
  BY <1>28 DEF JoinSelf, Threads
<1>29. ASSUME NEW x \in Threads, JoinedAll(x) PROVE NoUseAfterFree'
  BY <1>29 DEF JoinedAll, Threads
<1>30. ASSUME NEW x \in Threads, LastUnlock(x) PROVE NoUseAfterFree'
  BY <1>30 DEF LastUnlock, Threads
<1>31. ASSUME NEW x \in Threads, FreeCheck(x) PROVE NoUseAfterFree'
  BY <1>31 DEF FreeCheck, Threads
<1>32. ASSUME NEW x \in Threads, FreeLock(x) PROVE NoUseAfterFree'
  BY <1>32 DEF FreeLock, Threads
<1>33. ASSUME NEW x \in Threads, Free(x) PROVE NoUseAfterFree'
  BY <1>33 DEF Free, Joined, Alone, DestroyLabels, DestroyFinds, Threads
<1>34. ASSUME NEW x \in Threads, AddInvalid(x) PROVE NoUseAfterFree'
  BY <1>34 DEF AddInvalid, MayCall, Threads
<1>35. ASSUME NEW x \in Threads, NEW t \in Tasks, AddOverflow(x, t) PROVE NoUseAfterFree'
  BY <1>35 DEF AddOverflow, MayCall, Threads
<1>36. ASSUME NEW x \in Threads, NEW t \in Tasks, AddCall(x, t) PROVE NoUseAfterFree'
  BY <1>36 DEF AddCall, MayCall, Threads
<1>37. ASSUME NEW x \in Threads, UnusedInvalid(x) PROVE NoUseAfterFree'
  BY <1>37 DEF UnusedInvalid, MayCall, Threads
<1>38. ASSUME NEW x \in Threads, UnusedCall(x) PROVE NoUseAfterFree'
  BY <1>38 DEF UnusedCall, MayCall, Threads
<1>39. ASSUME NEW x \in Threads, DestroyCall(x) PROVE NoUseAfterFree'
  BY <1>39 DEF DestroyCall, MayCall, Threads
<1>40. ASSUME NEW c \in Clients, Retire(c) PROVE NoUseAfterFree'
  BY <1>40 DEF Retire, Threads
<1>41. ASSUME UNCHANGED vars PROVE NoUseAfterFree'
  BY <1>41 DEF vars, Threads
<1>q. QED
  BY <1>1, <1>2, <1>3, <1>4, <1>5, <1>6, <1>7, <1>8, <1>9, <1>10, <1>11, <1>12, <1>13, <1>14, <1>15, <1>16, <1>17, <1>18, <1>19, <1>20, <1>21, <1>22, <1>23, <1>24, <1>25, <1>26, <1>27, <1>28, <1>29, <1>30, <1>31, <1>32, <1>33, <1>34, <1>35, <1>36, <1>37, <1>38, <1>39, <1>40, <1>41 DEF Next, WorkerNext, CallNext, AddNext, DestroyNext, BeginCall, Quiet

LEMMA OrderlyInvariance ==
  Orderly => (Spec => [](Inv /\ Alone /\ MutualExclusion /\ NoUseAfterFree))
<1> SUFFICES ASSUME Orderly
             PROVE  Spec => [](Inv /\ Alone /\ MutualExclusion /\ NoUseAfterFree)
  OBVIOUS
<1>1. Init => Alone /\ MutualExclusion /\ NoUseAfterFree
  BY DEF Init, Alone, MutualExclusion, NoUseAfterFree, DestroyLabels, DestroyFinds,
         Owns, WorkerOwns, CallOwns, Threads
<1>2. /\ Inv /\ Alone /\ MutualExclusion /\ NoUseAfterFree
      /\ [Next]_vars
      => (Alone /\ MutualExclusion /\ NoUseAfterFree)'
  BY AloneStep, MutualExclusionStep, NoUseAfterFreeStep DEF Inv
<1> QED BY <1>1, <1>2, Invariance, PTL DEF Spec

\* In an orderly program a thread inside a critical section holds the lock, up
\* to the free: the unlock that destroy does without holding it harms nobody.
THEOREM LockExcludes == Orderly => (Spec => []MutualExclusion)
BY OrderlyInvariance, PTL

\* In an orderly program nobody is inside the pool once it is freed, although
\* tasks may submit tasks and ask for free places until their worker is joined.
THEOREM FreedPoolIsLeftAlone == Orderly => (Spec => []NoUseAfterFree)
BY OrderlyInvariance, PTL
=============================================================================
