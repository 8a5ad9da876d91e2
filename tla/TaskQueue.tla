------------------------------ MODULE TaskQueue ------------------------------
(***************************************************************************)
(* What a thread pool promises to the program that uses it, with no lock,  *)
(* no ring buffer and no sleeping worker: a bounded FIFO of tasks, workers *)
(* that take the oldest one and run it to its end, and a close after which *)
(* nothing is submitted and nothing more is started.                       *)
(*                                                                         *)
(* Module ThreadPool is checked to implement this specification.           *)
(***************************************************************************)
EXTENDS Naturals, Sequences

CONSTANTS
  Tasks,      \* the tasks a program may submit
  Workers,    \* the threads that run them
  Capacity,   \* how many tasks may wait
  NoTask      \* "this worker runs nothing", not a task

VARIABLES
  queue,      \* the waiting tasks, the oldest first
  running,    \* what each worker runs
  finished,   \* the tasks that have returned
  closed      \* no task is submitted or started any more

vars == <<queue, running, finished, closed>>

Waiting == {queue[i] : i \in 1..Len(queue)}
Running == {running[w] : w \in Workers} \ {NoTask}

Init ==
  /\ queue = <<>>
  /\ running = [w \in Workers |-> NoTask]
  /\ finished = {}
  /\ closed = FALSE

\* A task is submitted at most once: it is new when it enters the queue.
Submit(t) ==
  /\ ~closed
  /\ Len(queue) < Capacity
  /\ t \notin Waiting \cup Running \cup finished
  /\ queue' = Append(queue, t)
  /\ UNCHANGED <<running, finished, closed>>

Start(w) ==
  /\ ~closed
  /\ queue # <<>>
  /\ running[w] = NoTask
  /\ running' = [running EXCEPT ![w] = Head(queue)]
  /\ queue' = Tail(queue)
  /\ UNCHANGED <<finished, closed>>

Finish(w) ==
  /\ running[w] # NoTask
  /\ finished' = finished \cup {running[w]}
  /\ running' = [running EXCEPT ![w] = NoTask]
  /\ UNCHANGED <<queue, closed>>

Close ==
  /\ ~closed
  /\ closed' = TRUE
  /\ UNCHANGED <<queue, running, finished>>

Next ==
  \/ \E t \in Tasks : Submit(t)
  \/ \E w \in Workers : Start(w) \/ Finish(w)
  \/ Close

Spec == Init /\ [][Next]_vars
=============================================================================
