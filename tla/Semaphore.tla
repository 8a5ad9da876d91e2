----------------------------- MODULE Semaphore -----------------------------
(***************************************************************************)
(* POSIX semaphores over Win32 ones: value counts the permits, or below 0  *)
(* the threads that have to wait; the Win32 semaphore carries a token for  *)
(* each waiter that was posted.  What a call does with the mutex s->lock   *)
(* held is one step.                                                       *)
(***************************************************************************)
EXTENDS Calls

CONSTANTS
  SEM_VALUE_MAX,
  InitValues,    \* the values that semaphores are initialised with
  PostCounts,    \* the counts that are posted at once
  Cancellable    \* the functions in which threads of the program get cancelled

ASSUME SemAssumption ==
  SEM_VALUE_MAX \in Nat /\ InitValues \subseteq Nat /\ PostCounts \subseteq Int

VARIABLES
  sem,        \* *sem: "valid" or "null"
  value,      \* s->value
  kernel,     \* the count of s->sem
  permits     \* permits posted and not taken by a call that returned

semVars == <<sem, value, kernel, permits>>

Least(a, b) == IF a < b THEN a ELSE b

SemInit == sem = "null" /\ value = 0 /\ kernel = 0 /\ permits = 0

\* With pshared, a value, and memory and handles to be had or not.
sem_init(t) ==
  /\ In(t, "sem_init", "enter")
  /\ \/ Return(t, "EPERM") /\ UNCHANGED semVars
     \/ \E r \in {"ENOMEM", "ENOSPC"} : Return(t, r) /\ UNCHANGED semVars
     \/ \E v \in InitValues :
          IF v > SEM_VALUE_MAX
          THEN Return(t, "EINVAL") /\ UNCHANGED semVars
          ELSE /\ sem' = "valid" /\ value' = v /\ kernel' = 0 /\ permits' = v
               /\ Return(t, "0")

SemWaits == {"sem_wait", "sem_timedwait", "ptw32_semwait"}

\* sem_wait, sem_timedwait and ptw32_semwait up to where they block.
SemDown(t) ==
  /\ op[t] \in SemWaits /\ pc[t] = "enter" /\ ~(op[t] \in Cancellable /\ t \in cancelled)
  /\ IF sem = "null"
     THEN Return(t, "EINVAL") /\ UNCHANGED semVars
     ELSE /\ value' = value - 1
          /\ IF value > 0
             THEN Return(t, "0") /\ permits' = permits - 1
             ELSE Goto(t, "blocked") /\ UNCHANGED permits
          /\ UNCHANGED <<sem, kernel>>

\* pthread_testcancel at the start of sem_wait and sem_timedwait.
SemTestCancel(t) ==
  /\ op[t] \in SemWaits \ {"ptw32_semwait"} /\ pc[t] = "enter" /\ t \in cancelled
  /\ op[t] \in Cancellable
  /\ Exit(t) /\ UNCHANGED semVars

\* The wait for s->sem ends with a token, by the timeout or by cancellation.
SemWoken(t) ==
  /\ op[t] \in SemWaits /\ pc[t] = "blocked" /\ kernel > 0
  /\ kernel' = kernel - 1 /\ permits' = permits - 1
  /\ Return(t, "0") /\ UNCHANGED <<sem, value>>

SemGivesUp(t) ==
  /\ pc[t] = "blocked"
  /\ \/ op[t] = "sem_timedwait" /\ kernel = 0 /\ Goto(t, "timedout")
     \/ op[t] \in Cancellable /\ t \in cancelled /\ kernel = 0 /\ Goto(t, "dying")
  /\ UNCHANGED semVars

\* A faulty version: a post that came meanwhile is not consumed.
TimedwaitCleanupBlind(t) ==
  /\ op[t] = "sem_timedwait" /\ pc[t] \in {"timedout", "dying"}
  /\ value' = value + 1 /\ UNCHANGED <<kernel, permits>>
  /\ IF pc[t] = "dying" THEN Exit(t) ELSE Return(t, "ETIMEDOUT")
  /\ UNCHANGED sem

\* ptw32_sem_timedwait_cleanup: a post that came meanwhile is consumed.
ptw32_sem_timedwait_cleanup(t) ==
  /\ op[t] = "sem_timedwait" /\ pc[t] \in {"timedout", "dying"}
  /\ IF kernel > 0
     THEN kernel' = kernel - 1 /\ permits' = permits - 1 /\ UNCHANGED value
     ELSE value' = value + 1 /\ UNCHANGED <<kernel, permits>>
  /\ IF pc[t] = "dying" THEN Exit(t) ELSE Return(t, IF kernel > 0 THEN "0" ELSE "ETIMEDOUT")
  /\ UNCHANGED sem

\* ptw32_sem_wait_cleanup: its argument is s, and the test for a destroyed
\* semaphore, *((sem_t *) sem) != NULL, reads the first member of *s, value.
ptw32_sem_wait_cleanup(t) ==
  /\ In(t, "sem_wait", "dying")
  /\ IF value = 0
     THEN UNCHANGED <<value, kernel, permits>>
     ELSE IF kernel > 0
          THEN kernel' = kernel - 1 /\ permits' = permits - 1 /\ UNCHANGED value
          ELSE value' = value + 1 /\ UNCHANGED <<kernel, permits>>
  /\ Exit(t) /\ UNCHANGED sem

sem_trywait(t) ==
  /\ In(t, "sem_trywait", "enter")
  /\ CASE sem = "null" -> Return(t, "EINVAL") /\ UNCHANGED semVars
       [] sem = "valid" /\ value > 0 ->
            /\ value' = value - 1 /\ permits' = permits - 1
            /\ Return(t, "0") /\ UNCHANGED <<sem, kernel>>
       [] OTHER -> Return(t, "EAGAIN") /\ UNCHANGED semVars

\* sem_post and sem_post_multiple: as many waiters as there are get a token.
SemUp(t, count) ==
  CASE sem = "null" -> Return(t, "EINVAL") /\ UNCHANGED semVars
    [] sem = "valid" /\ value > SEM_VALUE_MAX - count ->
         Return(t, "ERANGE") /\ UNCHANGED semVars
    [] OTHER ->
         /\ value' = value + count /\ permits' = permits + count
         /\ kernel' = kernel + IF value < 0 THEN Least(-value, count) ELSE 0
         /\ Return(t, "0") /\ UNCHANGED sem

sem_post(t) == In(t, "sem_post", "enter") /\ SemUp(t, 1)

sem_post_multiple(t) ==
  /\ In(t, "sem_post_multiple", "enter")
  /\ \E count \in PostCounts :
       IF count <= 0 THEN Return(t, "EINVAL") /\ UNCHANGED semVars ELSE SemUp(t, count)

sem_getvalue(t) ==
  /\ In(t, "sem_getvalue", "enter")
  /\ Return(t, IF sem = "null" THEN "EINVAL" ELSE "0") /\ UNCHANGED semVars

sem_destroy(t) ==
  /\ In(t, "sem_destroy", "enter")
  /\ CASE sem = "null" -> Return(t, "EINVAL") /\ UNCHANGED semVars
       [] sem = "valid" /\ value < 0 -> Return(t, "EBUSY") /\ UNCHANGED semVars
       [] OTHER -> /\ sem' = "null" /\ value' = SEM_VALUE_MAX
                   /\ Return(t, "0") /\ UNCHANGED <<kernel, permits>>

SemWait(t) == SemDown(t) \/ SemTestCancel(t) \/ SemWoken(t) \/ SemGivesUp(t)
sem_wait(t) == op[t] = "sem_wait" /\ (SemWait(t) \/ ptw32_sem_wait_cleanup(t))
sem_timedwait(t) == op[t] = "sem_timedwait" /\ (SemWait(t) \/ ptw32_sem_timedwait_cleanup(t))
ptw32_semwait(t) == op[t] = "ptw32_semwait" /\ SemWait(t)

SemNext(t) ==
  \/ sem_init(t) \/ sem_wait(t) \/ sem_timedwait(t) \/ ptw32_semwait(t) \/ sem_trywait(t)
  \/ sem_post(t) \/ sem_post_multiple(t) \/ sem_getvalue(t) \/ sem_destroy(t)

\* A post does not come between the end of a cancelled sem_wait and its
\* cleanup handler, which would lose it.
PostApart(t) ==
  op[t] \in {"sem_post", "sem_post_multiple"} => \A u \in Threads : ~In(u, "sem_wait", "dying")

\* init is called when there is no semaphore, destroy when every other
\* thread in a call is blocked and has not been posted.
SemCalls(t) ==
  /\ Open(t)
  /\ \/ sem = "null" /\ Quiet(t) /\ Call(t, "semaphore", "sem_init")
     \/ \E f \in SemWaits \cup {"sem_trywait", "sem_post", "sem_post_multiple", "sem_getvalue"} :
          (sem = "valid" \/ f = "sem_trywait") /\ Call(t, "semaphore", f)
     \/ /\ (\A u \in Threads \ {t} : Inside(u) => pc[u] = "blocked") /\ kernel = 0
        /\ Call(t, "semaphore", "sem_destroy")

\* The threads that have counted themselves as waiting and have not left.
Waiters == {t \in Threads : op[t] \in SemWaits /\ pc[t] \in {"blocked", "timedout", "dying"}}

\* value is the permits less the threads waiting for one, and the Win32
\* semaphore has a token for exactly the waiters that a post has reached:
\* no post is lost or counted twice when it meets a timeout, a cancellation
\* or another post before the waiter has come to its wait or left it.
SemBalance ==
  object = "semaphore" /\ sem = "valid" =>
    /\ value = permits - Cardinality(Waiters)
    /\ kernel = Cardinality(Waiters) + Least(value, 0)
    /\ permits >= 0
=============================================================================
