------------------------------ MODULE Barrier ------------------------------
(***************************************************************************)
(* A barrier: threads count down under the barrier's MCS lock and wait on  *)
(* its semaphore; the last to arrive keeps the lock, moved into the        *)
(* barrier, posts the semaphore, and the last to leave releases the lock.  *)
(***************************************************************************)
EXTENDS McsLock

CONSTANTS
  Height,     \* nInitialBarrierHeight; more threads than that may come
  Waits       \* how many of its calls a thread waits in, before it destroys

ASSUME BarrierAssumption == Height \in Nat \ {0} /\ Waits \in [Threads -> Nat]

\* How many calls of pthread_barrier_wait a thread has begun, and ended.
Begun(t) == IF calls[t] < Waits[t] THEN calls[t] ELSE Waits[t]
Waiting(t) == op[t] = "barrier_wait" /\ Inside(t)
Ended(t) == Begun(t) - IF Waiting(t) THEN 1 ELSE 0

\* The first n[t] of the calls of each thread t.
CallsUpTo(n) == UNION {{t} \X (1..n[t]) : t \in Threads}

\* The barrier is destroyed when nobody will come to wait any more; those
\* who have come may still be asleep, or on their way out.
BarrierCalls(t) ==
  IF calls[t] < Waits[t] THEN Call(t, "barrier", "barrier_wait")
  ELSE /\ \A u \in Threads : Begun(u) = Waits[u] /\ ~In(u, "barrier_wait", "enter")
       /\ Call(t, "barrier", "barrier_destroy")

VARIABLES
  current,     \* nCurrentBarrierHeight
  breeched,    \* the value of semBarrierBreeched
  barrier,     \* the barrier: "valid", "invalid" (for the calls) or "freed"
  serials      \* how many calls returned PTHREAD_BARRIER_SERIAL_THREAD

barrierVars == <<current, breeched, barrier, serials>>

\* pthread_barrier_init with count Height, for a count that is not 0.
pthread_barrier_init ==
  current = Height /\ breeched = 0 /\ barrier = "valid" /\ serials = 0

BarrierEnter(t) ==
  /\ In(t, "barrier_wait", "enter")
  /\ IF barrier # "valid"
     THEN Return(t, "EINVAL") /\ UNCHANGED mcsVars
     ELSE Goto(t, "arriving") /\ ptw32_mcs_lock_acquire(Node(t))
  /\ UNCHANGED barrierVars

\* A faulty version: the last to arrive releases the lock as well.
BarrierArriveNoTransfer(t) ==
  /\ In(t, "barrier_wait", "arriving") /\ Acquired(Node(t))
  /\ current' = current - 1
  /\ Goto(t, IF current' = 0 THEN "posting" ELSE "sleeping")
  /\ ptw32_mcs_lock_release(Node(t))
  /\ UNCHANGED <<breeched, barrier, serials>>

\* The last to arrive transfers its node, the others release the lock.
BarrierArrive(t) ==
  /\ In(t, "barrier_wait", "arriving") /\ Acquired(Node(t))
  /\ current' = current - 1
  /\ IF current' = 0
     THEN Goto(t, "posting") /\ ptw32_mcs_node_transfer(Proxy, Node(t))
     ELSE Goto(t, "sleeping") /\ ptw32_mcs_lock_release(Node(t))
  /\ UNCHANGED <<breeched, barrier, serials>>

BarrierPost(t) ==
  /\ In(t, "barrier_wait", "posting") /\ at[Node(t)] = "out"
  /\ breeched' = breeched + Height - 1
  /\ Goto(t, "leaving") /\ UNCHANGED <<mcsVars, current, barrier, serials>>

\* ptw32_semwait.
BarrierSleep(t) ==
  /\ In(t, "barrier_wait", "sleeping") /\ at[Node(t)] = "out" /\ breeched > 0
  /\ breeched' = breeched - 1
  /\ Goto(t, "leaving") /\ UNCHANGED <<mcsVars, current, barrier, serials>>

\* The last to cross releases the lock on behalf of the last that arrived.
BarrierLeave(t) ==
  /\ In(t, "barrier_wait", "leaving")
  /\ current' = current + 1
  /\ IF current' = Height
     THEN /\ ptw32_mcs_lock_release(Proxy) /\ Goto(t, "opening")
          /\ serials' = serials + 1
     ELSE Return(t, "0") /\ UNCHANGED <<mcsVars, serials>>
  /\ UNCHANGED <<breeched, barrier>>

BarrierOpened(t) ==
  /\ In(t, "barrier_wait", "opening") /\ at[Proxy] = "out"
  /\ Return(t, "SERIAL") /\ UNCHANGED <<mcsVars, barrierVars>>

pthread_barrier_wait(t) ==
  \/ BarrierEnter(t) \/ BarrierArrive(t) \/ BarrierPost(t)
  \/ BarrierSleep(t) \/ BarrierLeave(t) \/ BarrierOpened(t)

\* pthread_barrier_destroy up to its release of the lock.
BarrierDestroy(t) ==
  /\ In(t, "barrier_destroy", "enter")
  /\ CASE barrier # "valid" -> Return(t, "EINVAL") /\ UNCHANGED <<mcsVars, barrier>>
       [] barrier = "valid" /\ tail # NoNode ->
            Return(t, "EBUSY") /\ UNCHANGED <<mcsVars, barrier>>
       [] OTHER ->
            /\ ptw32_mcs_lock_try_acquire(Node(t))
            /\ Goto(t, IF current < Height THEN "busy" ELSE "destroy")
            /\ barrier' = IF current < Height THEN barrier ELSE "invalid"
  /\ UNCHANGED <<current, breeched, serials>>

BarrierRelease(t) ==
  /\ op[t] = "barrier_destroy"
  /\ \/ /\ pc[t] \in {"busy", "destroy"} /\ ptw32_mcs_lock_release(Node(t))
        /\ Goto(t, IF pc[t] = "busy" THEN "stays" ELSE "free")
        /\ UNCHANGED barrier
     \/ /\ pc[t] = "stays" /\ at[Node(t)] = "out"
        /\ Return(t, "EBUSY") /\ UNCHANGED <<mcsVars, barrier>>
     \/ /\ pc[t] = "free" /\ at[Node(t)] = "out"
        /\ barrier' = "freed"
        /\ Return(t, "0") /\ UNCHANGED mcsVars
  /\ UNCHANGED <<current, breeched, serials>>

pthread_barrier_destroy(t) == BarrierDestroy(t) \/ BarrierRelease(t)

\* No wait returns before as many have begun as make its round complete, one
\* of each round is the serial one, also when threads come for the next round
\* while the last one leaves; and a barrier that pthread_barrier_destroy has
\* freed is not used by anyone: it may be called as soon as a thread returns
\* from the last round, while the others are still on their way out.
BarrierInStep ==
  LET begun == Cardinality(CallsUpTo([t \in Threads |-> Begun(t)]))
      ended == Cardinality(CallsUpTo([t \in Threads |-> Ended(t)]))
  IN object = "barrier" =>
       /\ ended <= (begun \div Height) * Height
       /\ ended < (serials + 1) * Height /\ serials * Height <= begun
       /\ barrier = "freed" => \A t \in Threads : Waiting(t) => pc[t] = "opening" /\ at[Proxy] = "out"
=============================================================================
