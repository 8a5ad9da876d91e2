------------------------------- MODULE RwLock -------------------------------
(***************************************************************************)
(* Read/write locks: readers count in under mtxExclusiveAccess and count   *)
(* out under mtxSharedAccessCompleted; a writer takes both mutexes, makes  *)
(* the second count negative, waits until the readers have counted it up   *)
(* to 0, and keeps both mutexes while it writes.                           *)
(***************************************************************************)
EXTENDS Calls

CONSTANT SharedMax     \* INT_MAX

VARIABLES
  rwlock,        \* *rwlock: "static", "null" or "valid"
  shared,        \* nSharedAccessCount
  exclusive,     \* nExclusiveAccessCount
  completed,     \* nCompletedSharedAccessCount
  exMutex,       \* the thread that holds mtxExclusiveAccess
  shMutex        \* the thread that holds mtxSharedAccessCompleted

rwVars == <<rwlock, shared, exclusive, completed, exMutex, shMutex>>

RwInit ==
  /\ rwlock \in {"static", "valid"}
  /\ shared = 0 /\ exclusive = 0 /\ completed = 0
  /\ exMutex = NoThread /\ shMutex = NoThread

Reads == {"rdlock", "tryrdlock", "timedrdlock"}
Writes == {"wrlock", "trywrlock", "timedwrlock"}

\* A mutex that is not free makes try calls return and timed ones time out.
GivesUp(t) ==
  \/ op[t] \in {"tryrdlock", "trywrlock"} /\ Return(t, "EBUSY")
  \/ op[t] \in {"timedrdlock", "timedwrlock"} /\ Return(t, "ETIMEDOUT")

pthread_rwlock_init(t) ==
  /\ In(t, "rwlock_init", "enter")
  /\ \/ /\ rwlock' = "valid" /\ shared' = 0 /\ exclusive' = 0 /\ completed' = 0
        /\ Return(t, "0")
     \/ \E r \in {"EINVAL", "ENOMEM"} :
          rwlock' = "null" /\ Return(t, r) /\ UNCHANGED <<shared, exclusive, completed>>
  /\ UNCHANGED <<exMutex, shMutex>>

RwEnter(t) ==
  /\ op[t] \in Reads \cup Writes /\ pc[t] = "enter"
  /\ CASE rwlock = "null" -> Return(t, "EINVAL")
       [] rwlock = "static" -> Goto(t, "needInit")
       [] OTHER -> Goto(t, "count")
  /\ UNCHANGED rwVars

\* Under ptw32_rwlock_test_init_lock; a failed pthread_rwlock_init stores NULL.
ptw32_rwlock_check_need_init(t) ==
  /\ op[t] \in Reads \cup Writes /\ pc[t] = "needInit"
  /\ \/ rwlock = "static" /\ rwlock' = "valid" /\ Goto(t, "count")
     \/ rwlock = "static" /\ rwlock' = "null" /\ Return(t, "ENOMEM")
     \/ rwlock = "null" /\ Return(t, "EINVAL") /\ UNCHANGED rwlock
     \/ rwlock = "valid" /\ Goto(t, "count") /\ UNCHANGED rwlock
  /\ UNCHANGED <<shared, exclusive, completed, exMutex, shMutex>>

\* A reader counts in.  Once in SharedMax times the completed reads are
\* taken off, under both mutexes (the timeout of the second is left out).
CountIn(t) ==
  /\ exMutex = NoThread
  /\ IF shared + 1 = SharedMax
     THEN /\ shMutex = NoThread
          /\ shared' = shared + 1 - completed /\ completed' = 0
     ELSE shared' = shared + 1 /\ UNCHANGED completed
  /\ ReturnHolding(t, "0", 1)
  /\ UNCHANGED <<rwlock, exclusive, exMutex, shMutex>>

pthread_rwlock_rdlock(t) == In(t, "rdlock", "count") /\ CountIn(t)

pthread_rwlock_tryrdlock(t) ==
  /\ In(t, "tryrdlock", "count")
  /\ CountIn(t) \/ (exMutex # NoThread /\ GivesUp(t) /\ UNCHANGED rwVars)

pthread_rwlock_timedrdlock(t) ==
  /\ In(t, "timedrdlock", "count")
  /\ CountIn(t) \/ (exMutex # NoThread /\ GivesUp(t) /\ UNCHANGED rwVars)

WriteExclusive(t) ==
  /\ op[t] \in Writes /\ pc[t] = "count"
  /\ IF exMutex = NoThread THEN exMutex' = t /\ Goto(t, "complete")
     ELSE GivesUp(t) /\ UNCHANGED exMutex
  /\ UNCHANGED <<rwlock, shared, exclusive, completed, shMutex>>

\* The writer has both mutexes, and counts itself.
Write(t) ==
  /\ exclusive' = exclusive + 1 /\ shMutex' = t
  /\ ReturnHolding(t, "0", 2) /\ UNCHANGED <<rwlock, exMutex>>

\* With mtxSharedAccessCompleted: the readers that are still there.
WriteCompleted(t) ==
  /\ op[t] \in Writes /\ pc[t] = "complete"
  /\ \/ /\ shMutex # NoThread /\ GivesUp(t)
        /\ exMutex' = NoThread /\ UNCHANGED <<rwlock, shared, exclusive, completed, shMutex>>
     \/ /\ shMutex = NoThread
        /\ shared' = shared - completed
        /\ CASE shared' = 0 -> Write(t) /\ completed' = 0
             [] shared' > 0 /\ op[t] = "trywrlock" ->
                  /\ completed' = 0 /\ exMutex' = NoThread
                  /\ Return(t, "EBUSY") /\ UNCHANGED <<rwlock, exclusive, shMutex>>
             [] OTHER ->
                  /\ completed' = -shared' /\ Goto(t, "waiting")
                  /\ UNCHANGED <<rwlock, exclusive, exMutex, shMutex>>

pthread_rwlock_trywrlock(t) == op[t] = "trywrlock" /\ (WriteExclusive(t) \/ WriteCompleted(t))

\* A faulty version: any wakeup is taken for the end of the reads.
WriteWokenAnyhow(t) ==
  /\ op[t] \in Writes /\ pc[t] = "waiting" /\ shMutex = NoThread
  /\ Write(t) /\ shared' = 0 /\ UNCHANGED completed

\* pthread_cond_wait has returned, with the mutex.
WriteWoken(t) ==
  /\ op[t] \in Writes /\ pc[t] = "waiting" /\ shMutex = NoThread /\ completed >= 0
  /\ Write(t) /\ shared' = 0 /\ UNCHANGED completed

\* It timed out or the thread is cancelled: the readers count as before.
ptw32_rwlock_cancelwrwait(t) ==
  /\ op[t] \in Writes /\ pc[t] = "waiting" /\ shMutex = NoThread
  /\ shared' = -completed /\ completed' = 0
  /\ exMutex' = NoThread
  /\ \/ op[t] = "timedwrlock" /\ Return(t, "ETIMEDOUT")
     \/ t \in cancelled /\ Exit(t)
  /\ UNCHANGED <<rwlock, exclusive, shMutex>>

pthread_rwlock_wrlock(t) ==
  /\ op[t] = "wrlock"
  /\ WriteExclusive(t) \/ WriteCompleted(t) \/ WriteWoken(t) \/ ptw32_rwlock_cancelwrwait(t)

pthread_rwlock_timedwrlock(t) ==
  /\ op[t] = "timedwrlock"
  /\ WriteExclusive(t) \/ WriteCompleted(t) \/ WriteWoken(t) \/ ptw32_rwlock_cancelwrwait(t)

\* Whose lock it is, is read before any mutex is taken.
pthread_rwlock_unlock(t) ==
  /\ op[t] = "rwlock_unlock"
  /\ \/ /\ pc[t] = "enter" /\ rwlock # "valid"
        /\ Return(t, IF rwlock = "static" THEN "0" ELSE "EINVAL") /\ UNCHANGED rwVars
     \/ /\ pc[t] = "enter" /\ rwlock = "valid" /\ exclusive = 0
        /\ Goto(t, "complete") /\ UNCHANGED rwVars
     \/ /\ pc[t] = "complete" /\ shMutex = NoThread
        /\ completed' = completed + 1 /\ ReturnHolding(t, "0", -1)
        /\ UNCHANGED <<rwlock, shared, exclusive, exMutex, shMutex>>
     \/ /\ pc[t] = "enter" /\ rwlock = "valid" /\ exclusive > 0
        /\ exclusive' = exclusive - 1 /\ shMutex' = NoThread /\ exMutex' = NoThread
        /\ ReturnHolding(t, "0", -2) /\ UNCHANGED <<rwlock, shared, completed>>

\* With a writer it waits for it to unlock.
pthread_rwlock_destroy(t) ==
  /\ op[t] = "rwlock_destroy"
  /\ \/ /\ pc[t] = "enter" /\ rwlock = "null"
        /\ Return(t, "EINVAL") /\ UNCHANGED rwlock
     \/ /\ pc[t] = "enter" /\ rwlock = "valid" /\ exMutex = NoThread /\ shMutex = NoThread
        /\ IF exclusive > 0 \/ shared > completed
           THEN Return(t, "EBUSY") /\ UNCHANGED rwlock
           ELSE rwlock' = "null" /\ Return(t, "0")
     \/ /\ pc[t] = "enter" /\ rwlock = "static"
        /\ Goto(t, "static") /\ UNCHANGED rwlock
     \/ /\ pc[t] = "static"
        /\ IF rwlock = "static" THEN rwlock' = "null" /\ Return(t, "0")
           ELSE Return(t, "EBUSY") /\ UNCHANGED rwlock
  /\ UNCHANGED <<shared, exclusive, completed, exMutex, shMutex>>

RwNext(t) ==
  object = "rwlock" /\
  ( \/ pthread_rwlock_init(t) \/ RwEnter(t) \/ ptw32_rwlock_check_need_init(t)
    \/ pthread_rwlock_rdlock(t) \/ pthread_rwlock_tryrdlock(t) \/ pthread_rwlock_timedrdlock(t)
    \/ pthread_rwlock_wrlock(t) \/ pthread_rwlock_trywrlock(t) \/ pthread_rwlock_timedwrlock(t)
    \/ pthread_rwlock_unlock(t) \/ pthread_rwlock_destroy(t) )

RwUnlockCall(t) == holds[t] > 0 /\ Again(t, "rwlock", "rwlock_unlock")

RwCalls(t) ==
  /\ Open(t)
  /\ \/ \E f \in Reads \cup Writes : holds[t] = 0 /\ Call(t, "rwlock", f)
     \/ RwUnlockCall(t)
     \/ rwlock = "null" /\ Quiet(t) /\ Call(t, "rwlock", "rwlock_init")
     \/ /\ Quiet(t) /\ holds[t] = 0 /\ exclusive = 0
        /\ Call(t, "rwlock", "rwlock_destroy")

\* A thread that holds the lock for writing holds it alone, whatever readers
\* counted out, writers gave up or were cancelled while it waited, and the
\* lock is not destroyed under a thread that holds it.
WriterAlone ==
  object = "rwlock" =>
    /\ \A t \in Threads : holds[t] = 2 => \A u \in Threads \ {t} : holds[u] = 0
    /\ rwlock = "null" => \A t \in Threads : holds[t] = 0
=============================================================================
