-------------------------------- MODULE Once --------------------------------
(***************************************************************************)
(* pthread_once: the flag once_control->done, set by the thread that ran   *)
(* init_routine while it held the control's MCS lock.  A thread cancelled  *)
(* in init_routine releases the lock in a cleanup handler.                 *)
(***************************************************************************)
EXTENDS McsLock

VARIABLES
  done,     \* once_control->done
  inits     \* how often init_routine has run to its end

onceVars == <<done, inits>>

OnceInit == done = FALSE /\ inits = 0

OnceRead(t) ==
  /\ In(t, "once", "enter")
  /\ IF done
     THEN Return(t, "0") /\ UNCHANGED mcsVars
     ELSE Goto(t, "locking") /\ ptw32_mcs_lock_acquire(Node(t))
  /\ UNCHANGED onceVars

\* A faulty version: done is not read again under the lock.
OnceCheckNot(t) ==
  /\ In(t, "once", "locking") /\ Acquired(Node(t))
  /\ Goto(t, "init")
  /\ UNCHANGED <<mcsVars, onceVars>>

\* done is read again under the lock.
OnceCheck(t) ==
  /\ In(t, "once", "locking") /\ Acquired(Node(t))
  /\ Goto(t, IF done THEN "unlock" ELSE "init")
  /\ UNCHANGED <<mcsVars, onceVars>>

OnceRun(t) ==
  /\ In(t, "once", "init")
  /\ done' = TRUE /\ inits' = inits + 1
  /\ Goto(t, "unlock") /\ UNCHANGED mcsVars

\* init_routine reaches a cancellation point.
OnceCancelled(t) ==
  /\ In(t, "once", "init") /\ t \in cancelled
  /\ Goto(t, "cleanup") /\ UNCHANGED <<mcsVars, onceVars>>

OnceUnlock(t) ==
  /\ op[t] = "once" /\ pc[t] \in {"unlock", "cleanup"}
  /\ ptw32_mcs_lock_release(Node(t))
  /\ Goto(t, IF pc[t] = "unlock" THEN "unlocking" ELSE "dying")
  /\ UNCHANGED onceVars

OnceReturn(t) ==
  /\ op[t] = "once" /\ pc[t] \in {"unlocking", "dying"} /\ at[Node(t)] = "out"
  /\ IF pc[t] = "unlocking" THEN Return(t, "0") ELSE Exit(t)
  /\ UNCHANGED <<mcsVars, onceVars>>

pthread_once(t) ==
  \/ OnceRead(t) \/ OnceCheck(t) \/ OnceRun(t)
  \/ OnceCancelled(t) \/ OnceUnlock(t) \/ OnceReturn(t)

\* When a call of pthread_once has returned, init_routine has run to its end,
\* once, and nobody is in it: neither a second thread that came early, nor
\* the one that took over from a cancelled thread, runs it again.
OnceComplete ==
  /\ inits <= 1
  /\ \A t \in Threads : object = "once" /\ Idle(t) /\ calls[t] > 0 =>
       inits = 1 /\ \A u \in Threads : ~In(u, "once", "init")
=============================================================================
