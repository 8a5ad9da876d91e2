------------------------------ MODULE FifoLock ------------------------------
(***************************************************************************)
(* What ptw32_MCS_lock.c promises: the lock goes to the nodes in the order *)
(* in which they joined its queue, to one at a time, and is handed on      *)
(* whenever it is released.                                                *)
(***************************************************************************)
EXTENDS Sequences

CONSTANT Nodes

VARIABLES
  queue,     \* the nodes that joined and have not released the lock
  holders    \* those that have been told that they hold it

vars == <<queue, holders>>

Init == queue = <<>> /\ holders = {}

\* A node that finds the queue empty holds the lock at once.
Join(n) ==
  /\ \A i \in DOMAIN queue : queue[i] # n
  /\ queue' = Append(queue, n)
  /\ holders' = IF queue = <<>> THEN {n} ELSE holders

Grant ==
  /\ queue # <<>> /\ holders = {}
  /\ holders' = {Head(queue)}
  /\ UNCHANGED queue

Release ==
  /\ queue # <<>> /\ holders = {Head(queue)}
  /\ queue' = Tail(queue) /\ holders' = {}

\* The holder puts another node in its place.
Transfer(n) ==
  /\ queue # <<>> /\ holders = {Head(queue)}
  /\ \A i \in DOMAIN queue : queue[i] # n
  /\ queue' = <<n>> \o Tail(queue) /\ holders' = {n}

Next == Grant \/ Release \/ \E n \in Nodes : Join(n) \/ Transfer(n)

\* What it promises without the last, and with it.
SafeSpec == Init /\ [][Next]_vars
Spec == SafeSpec /\ WF_vars(Grant)
=============================================================================
