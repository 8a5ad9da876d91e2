------------------------------ MODULE McsLock ------------------------------
(***************************************************************************)
(* ptw32_MCS_lock.c: a lock is a pointer to the last node of a queue, and  *)
(* each node is a local variable of the function that takes the lock.  A   *)
(* thread blocks on a flag of its node; a flag is 0, -1 ("set") or the     *)
(* handle of an event ("event", and "signalled" once the event is set).    *)
(***************************************************************************)
EXTENDS Calls

CONSTANTS
  ReuseFrames,   \* whether the nodes of a thread's calls share their memory
  Frames,        \* how many of them a thread has
  Proxy          \* the node in the barrier itself

\* The node of the call that thread t is in.
Node(t) == <<t, IF ReuseFrames THEN 1 ELSE calls[t]>>
Nodes == {<<t, k>> : t \in Threads, k \in 1..Frames} \cup {Proxy}
NoNode == <<NoThread, 0>>

ASSUME McsAssumption ==
  /\ ReuseFrames \in BOOLEAN /\ Frames \in Nat
  /\ Proxy \notin Threads \X (0..Frames) /\ Proxy # NoNode
  /\ {"mcs", "once", "barrier"} \subseteq DOMAIN MaxCalls
  /\ ~ReuseFrames => \A o \in {"mcs", "once", "barrier"}, t \in Threads : MaxCalls[o][t] <= Frames

VARIABLES
  tail,     \* the lock
  next,     \* node->next
  flag,     \* node->nextFlag and node->readyFlag
  at,       \* how far the functions below are with each node
  pred,     \* the node it found in the lock
  order     \* the nodes that joined and have not released, in order

mcsVars == <<tail, next, flag, at, pred, order>>

McsInit ==
  /\ tail = NoNode /\ order = <<>>
  /\ next = [n \in Nodes |-> NoNode]
  /\ flag = [n \in Nodes |-> [next |-> "zero", ready |-> "zero"]]
  /\ at = [n \in Nodes |-> "out"]
  /\ pred = [n \in Nodes |-> NoNode]

\* A faulty version: an event stored meanwhile is not set.
FlagSetNoEvent(f) == IF f = "zero" THEN "set" ELSE f

\* The flag after ptw32_mcs_flag_set.
FlagSet(f) == CASE f = "zero" -> "set" [] f = "event" -> "signalled" [] OTHER -> f

\* ptw32_mcs_flag_wait on flag f of node n, which then goes on at l.  That it
\* reads the flag before the exchange makes no difference.
FlagWait(n, f, l) ==
  /\ at[n] = f
  /\ IF flag[n][f] = "zero"
     THEN flag' = [flag EXCEPT ![n][f] = "event"] /\ UNCHANGED at
     ELSE flag[n][f] # "event" /\ at' = [at EXCEPT ![n] = l] /\ UNCHANGED flag
  /\ UNCHANGED <<tail, next, pred, order>>

\* ptw32_mcs_lock_acquire up to the exchange; the rest is in McsStep.
ptw32_mcs_lock_acquire(n) ==
  /\ at[n] = "out"
  /\ next' = [next EXCEPT ![n] = NoNode]
  /\ flag' = [flag EXCEPT ![n] = [next |-> "zero", ready |-> "zero"]]
  /\ tail' = n /\ pred' = [pred EXCEPT ![n] = tail]
  /\ at' = [at EXCEPT ![n] = IF tail = NoNode THEN "held" ELSE "linking"]
  /\ order' = Append(order, n)

Acquired(n) == at[n] = "held"

Link(n) ==
  /\ at[n] = "linking"
  /\ next' = [next EXCEPT ![pred[n]] = n]
  /\ at' = [at EXCEPT ![n] = "telling"]
  /\ UNCHANGED <<tail, flag, pred, order>>

Tell(n) ==
  /\ at[n] = "telling"
  /\ flag' = [flag EXCEPT ![pred[n]].next = FlagSet(@)]
  /\ at' = [at EXCEPT ![n] = "ready"]
  /\ UNCHANGED <<tail, next, pred, order>>

ptw32_mcs_lock_try_acquire(n) ==
  /\ at[n] = "out" /\ tail = NoNode
  /\ ptw32_mcs_lock_acquire(n)

\* ptw32_mcs_lock_release: node->next is read, ...
ptw32_mcs_lock_release(n) ==
  /\ at[n] = "held"
  /\ at' = [at EXCEPT ![n] = IF next[n] = NoNode THEN "swap" ELSE "pass"]
  /\ UNCHANGED <<tail, next, flag, pred, order>>

\* ... the lock is freed if the node is still the last, ...
Swap(n) ==
  /\ at[n] = "swap"
  /\ IF tail = n
     THEN tail' = NoNode /\ at' = [at EXCEPT ![n] = "out"] /\ order' = Tail(order)
     ELSE at' = [at EXCEPT ![n] = "next"] /\ UNCHANGED <<tail, order>>
  /\ UNCHANGED <<next, flag, pred>>

\* ... and passed to the next node otherwise, which must be known by then: what
\* follows a write through a null pointer is not modelled.
Pass(n) ==
  /\ at[n] = "pass" /\ next[n] # NoNode
  /\ flag' = [flag EXCEPT ![next[n]].ready = FlagSet(@)]
  /\ at' = [at EXCEPT ![n] = "out"] /\ order' = Tail(order)
  /\ UNCHANGED <<tail, next, pred>>

\* ptw32_mcs_node_transfer: node m takes the place of n.
ptw32_mcs_node_transfer(m, n) ==
  /\ at[n] = "held" /\ at[m] = "out"
  /\ flag' = [flag EXCEPT ![m] = [next |-> "zero", ready |-> "zero"]]
  /\ next' = [next EXCEPT ![m] = NoNode]
  /\ IF tail = n
     THEN /\ tail' = m /\ at' = [at EXCEPT ![n] = "out", ![m] = "held"]
          /\ order' = <<m>> \o Tail(order)
     ELSE at' = [at EXCEPT ![n] = "moving"] /\ UNCHANGED <<tail, order>>
  /\ UNCHANGED pred

\* Its loop, for a node that has joined behind n.
Move(m, n) ==
  /\ at[n] = "moving" /\ next[n] # NoNode
  /\ next' = [next EXCEPT ![m] = next[n]]
  /\ at' = [at EXCEPT ![n] = "out", ![m] = "held"]
  /\ order' = <<m>> \o Tail(order)
  /\ UNCHANGED <<tail, flag, pred>>

\* The steps of the thread that works on node n.
McsStep(n) ==
  \/ Link(n) \/ Tell(n) \/ FlagWait(n, "ready", "held")
  \/ Swap(n) \/ FlagWait(n, "next", "pass") \/ Pass(n)
  \/ Move(Proxy, n)

\* A lock of the library's own, which each call takes and releases.
McsCall(t) ==
  /\ op[t] = "mcs"
  /\ \/ pc[t] = "enter" /\ ptw32_mcs_lock_acquire(Node(t)) /\ Goto(t, "locking")
     \/ pc[t] = "locking" /\ ptw32_mcs_lock_release(Node(t)) /\ Goto(t, "unlocking")
     \/ pc[t] = "unlocking" /\ at[Node(t)] = "out" /\ Return(t, "0") /\ UNCHANGED mcsVars

\* The lock as FifoLock sees it.
Lock == INSTANCE FifoLock WITH
  queue <- order,
  holders <- {n \in Nodes : at[n] \in {"held", "swap", "next", "pass", "moving"}}

\* Who passes the lock on knows to whom: node->next is no null pointer after the
\* wait for a successor "to link to us".
NextIsKnown == \A n \in Nodes : at[n] = "pass" => next[n] # NoNode
=============================================================================
