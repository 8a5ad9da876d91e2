------------------------------- MODULE Calls -------------------------------
(***************************************************************************)
(* Threads of a program that calls pthreads-w32: where each is in its      *)
(* current call, and the mutexes and semaphores that the library's own     *)
(* objects are built from, as modules Mutex and Semaphore show them to be. *)
(* In a behaviour the program uses one kind of object.                     *)
(***************************************************************************)
EXTENDS Integers, Sequences, FiniteSets

CONSTANTS
  Threads,     \* the threads of the program
  MaxCalls,    \* how many calls of an object each of them makes
  NoThread     \* stands for no thread

ASSUME CallsAssumption ==
  /\ \A o \in DOMAIN MaxCalls : MaxCalls[o] \in [Threads -> Nat]
  /\ NoThread \notin Threads

VARIABLES
  object,      \* the kind of object the program uses
  pc,          \* where each thread is: "idle", "exited", or in a call
  op,          \* the function that it is in
  calls,       \* how many calls it has begun
  holds,       \* how often it holds the object, by what its calls returned
  cancelled    \* the threads with a cancellation pending

callVars == <<object, pc, op, calls, holds, cancelled>>

CallsInit(objects) ==
  /\ object \in objects
  /\ pc = [t \in Threads |-> "idle"] /\ op = [t \in Threads |-> "none"]
  /\ calls = [t \in Threads |-> 0] /\ holds = [t \in Threads |-> 0]
  /\ cancelled = {}

In(t, f, l) == op[t] = f /\ pc[t] = l
Idle(t) == pc[t] = "idle"
Inside(t) == pc[t] \notin {"idle", "exited"}

\* What the program has to see to: nobody else is in a call, or nobody is at
\* the start of one that must not meet any other call.
Quiet(t) == \A u \in Threads \ {t} : ~Inside(u)
Undisturbed ==
  {"spin_destroy", "spin_unlock", "mutex_destroy", "cond_destroy", "rwlock_destroy", "sem_destroy"}
Open(t) == \A u \in Threads \ {t} : ~(pc[u] = "enter" /\ op[u] \in Undisturbed /\ holds[u] = 0)

\* Thread t calls function f of object o; Call counts the call, Again is for
\* what the program still has to do after its last one, such as an unlock.
Again(t, o, f) ==
  /\ object = o /\ Idle(t)
  /\ pc' = [pc EXCEPT ![t] = "enter"] /\ op' = [op EXCEPT ![t] = f]
  /\ UNCHANGED <<object, calls, holds, cancelled>>

Call(t, o, f) ==
  /\ object = o /\ Idle(t) /\ calls[t] < MaxCalls[o][t]
  /\ pc' = [pc EXCEPT ![t] = "enter"] /\ op' = [op EXCEPT ![t] = f]
  /\ calls' = [calls EXCEPT ![t] = @ + 1]
  /\ UNCHANGED <<object, holds, cancelled>>

Goto(t, l) ==
  pc' = [pc EXCEPT ![t] = l] /\ UNCHANGED <<object, op, calls, holds, cancelled>>

\* The call returns, and t holds the object h times more.  What it returns,
\* r, is named for the reader: the program may go on in any way.
ReturnHolding(t, r, h) ==
  /\ pc' = [pc EXCEPT ![t] = "idle"] /\ op' = [op EXCEPT ![t] = "none"]
  /\ holds' = [holds EXCEPT ![t] = @ + h]
  /\ UNCHANGED <<object, calls, cancelled>>

Return(t, r) == ReturnHolding(t, r, 0)

\* The thread ends inside its call, with the cancellation delivered.
Exit(t) ==
  /\ pc' = [pc EXCEPT ![t] = "exited"] /\ cancelled' = cancelled \ {t}
  /\ UNCHANGED <<object, op, calls, holds>>

\* pthread_cancel(t) of a thread with deferred cancellation.
Cancel(t) ==
  /\ t \notin cancelled /\ pc[t] # "exited"
  /\ cancelled' = cancelled \cup {t}
  /\ UNCHANGED <<object, pc, op, calls, holds>>

\* No two threads hold a spin lock or a mutex at once: not when both find the
\* static initializer, or a waiter is woken while others come, or an owner ends.
OneHolder ==
  object \in {"spin", "mutex"} =>
    \A t, u \in Threads : holds[t] > 0 /\ holds[u] > 0 => t = u
=============================================================================
