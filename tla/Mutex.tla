------------------------------- MODULE Mutex -------------------------------
(***************************************************************************)
(* Mutexes: lock_idx is 0 (free), 1 (held) or -1 (held, and somebody may   *)
(* wait for the auto-reset event).  All kinds but the normal one know      *)
(* their owner; the robust ones are in a list of their owner and are       *)
(* handed on when it ends.  One interlocked operation is one step.         *)
(***************************************************************************)
EXTENDS Calls

CONSTANT Kinds       \* the pairs <<kind, robust>> the program creates

ASSUME MutexAssumption == Kinds \subseteq {"normal", "recursive", "errorcheck"} \X BOOLEAN

VARIABLES
  mutex,       \* *mutex: "static", "null" or "valid"
  mx,          \* the mutex structure
  orphaned,    \* history: its owner has ended, and nobody was told since
  racing       \* history: see Racing

mutexVars == <<mutex, mx, orphaned>>
lockVars == <<mutexVars, racing>>

\* pthread_mutex_init of a mutex of kind k.
NewMutex(k) ==
  [kind |-> k[1], robust |-> k[2], idx |-> 0, event |-> FALSE, owner |-> NoThread,
   count |-> 0, state |-> "consistent", listed |-> NoThread]

\* Robust mutexes have no static initializer.
MutexInit ==
  /\ \E k \in Kinds : mx = NewMutex(k)
  /\ mutex \in IF mx.robust THEN {"valid"} ELSE {"static", "valid"}
  /\ orphaned = FALSE /\ racing = {}

Acquiring == {"mutex_lock", "mutex_timedlock", "mutex_trylock"}
Normal == mx.kind = "normal"

\* ptw32_robust_mutex_add, and ownerThread and recursive_count.
Owned(m, t) ==
  [m EXCEPT !.owner = IF m.kind = "normal" /\ ~m.robust THEN @ ELSE t,
            !.count = IF m.kind = "normal" THEN @ ELSE 1,
            !.listed = IF m.robust THEN t ELSE @]

\* The call returns r with the mutex locked; pthread_mutex_timedlock does not
\* record the owner of a robust normal mutex that it finds free.
Own(t, m, r) ==
  /\ mx' = Owned(m, t)
  /\ orphaned' = (orphaned /\ r # "EOWNERDEAD")
  /\ ReturnHolding(t, r, 1)

OwnUnlisted(t, m) ==
  mx' = m /\ ReturnHolding(t, "0", 1) /\ UNCHANGED orphaned

MutexEnter(t) ==
  /\ op[t] \in Acquiring /\ pc[t] = "enter"
  /\ CASE mutex = "null" -> Return(t, "EINVAL")
       [] mutex = "static" -> Goto(t, "needInit")
       [] OTHER -> IF mx.robust /\ mx.state = "notrecoverable"
                   THEN Return(t, "ENOTRECOVERABLE") ELSE Goto(t, "start")
  /\ UNCHANGED mutexVars

\* A faulty version: a mutex that another thread has initialised is so again.
MutexNeedInitNoRecheck(t) ==
  /\ op[t] \in Acquiring /\ pc[t] = "needInit"
  /\ mutex' = "valid" /\ mx' = NewMutex(<<mx.kind, mx.robust>>)
  /\ Goto(t, "start") /\ UNCHANGED orphaned

\* Under ptw32_mutex_test_init_lock; a failed pthread_mutex_init stores NULL.
ptw32_mutex_check_need_init(t) ==
  /\ op[t] \in Acquiring /\ pc[t] = "needInit"
  /\ \/ /\ mutex = "static"
        /\ \/ mutex' = "valid" /\ Goto(t, "start")
           \/ mutex' = "null" /\ \E r \in {"ENOMEM", "ENOSPC"} : Return(t, r)
     \/ mutex = "null" /\ Return(t, "EINVAL") /\ UNCHANGED mutex
     \/ mutex = "valid" /\ Goto(t, "start") /\ UNCHANGED mutex
  /\ UNCHANGED <<mx, orphaned>>

\* The first interlocked operation of a call on a normal mutex, ...
LockNormal(t) ==
  /\ op[t] \in Acquiring \ {"mutex_trylock"} /\ pc[t] = "start" /\ Normal
  /\ LET m == [mx EXCEPT !.idx = 1] IN
     IF mx.idx = 0
     THEN IF mx.robust /\ op[t] = "mutex_timedlock" THEN OwnUnlisted(t, m) ELSE Own(t, m, "0")
     ELSE mx' = m /\ Goto(t, IF mx.robust THEN "inherit" ELSE "loop") /\ UNCHANGED orphaned
  /\ UNCHANGED mutex

\* ... and on one that has an owner.
LockOwned(t) ==
  /\ op[t] \in Acquiring \ {"mutex_trylock"} /\ pc[t] = "start" /\ ~Normal
  /\ CASE mx.idx = 0 -> Own(t, [mx EXCEPT !.idx = 1], "0")
       [] mx.idx # 0 /\ mx.owner = t /\ mx.kind = "recursive" ->
            mx' = [mx EXCEPT !.count = @ + 1] /\ ReturnHolding(t, "0", 1) /\ UNCHANGED orphaned
       [] mx.idx # 0 /\ mx.owner = t /\ mx.kind # "recursive" ->
            Return(t, "EDEADLK") /\ UNCHANGED <<mx, orphaned>>
       [] OTHER -> Goto(t, IF mx.robust THEN "inherit" ELSE "loop") /\ UNCHANGED <<mx, orphaned>>
  /\ UNCHANGED mutex

\* ptw32_robust_mutex_inherit: the state that the owner's end left is taken.
Inherit(t) ==
  /\ op[t] \in Acquiring /\ pc[t] = "inherit"
  /\ CASE mx.state = "dead" -> Own(t, [mx EXCEPT !.state = "inconsistent"], "EOWNERDEAD")
       [] mx.state = "notrecoverable" ->
            \* timedlock of the kinds with an owner comes by its last check
            /\ mx' = IF op[t] = "mutex_timedlock" /\ ~Normal THEN [mx EXCEPT !.event = TRUE] ELSE mx
            /\ Return(t, "ENOTRECOVERABLE") /\ UNCHANGED orphaned
       [] OTHER -> IF op[t] = "mutex_trylock"
                   THEN Return(t, "EBUSY") /\ UNCHANGED <<mx, orphaned>>
                   ELSE Goto(t, "loop") /\ UNCHANGED <<mx, orphaned>>
  /\ UNCHANGED mutex

\* A faulty version: a waiter leaves lock_idx as it is.
LockLoopKeepsIdx(t) ==
  /\ op[t] \in Acquiring /\ pc[t] = "loop"
  /\ IF mx.idx = 0 THEN Own(t, [mx EXCEPT !.idx = 1], "0")
     ELSE Goto(t, "wait") /\ UNCHANGED <<mx, orphaned>>
  /\ UNCHANGED mutex

LockLoop(t) ==
  /\ op[t] \in Acquiring /\ pc[t] = "loop"
  /\ LET m == [mx EXCEPT !.idx = -1] IN
     IF mx.idx = 0
     THEN IF mx.robust /\ op[t] = "mutex_timedlock" /\ ~Normal /\ mx.state = "notrecoverable"
          THEN /\ mx' = [m EXCEPT !.event = TRUE]
               /\ Return(t, "ENOTRECOVERABLE") /\ UNCHANGED orphaned
          ELSE Own(t, m, "0")
     ELSE mx' = m /\ Goto(t, "wait") /\ UNCHANGED orphaned
  /\ UNCHANGED mutex

\* The wait for the event, with the timeout of pthread_mutex_timedlock.
LockWait(t) ==
  /\ op[t] \in Acquiring /\ pc[t] = "wait"
  /\ IF mx.event
     THEN /\ mx' = [mx EXCEPT !.event = FALSE]
          /\ Goto(t, CASE ~mx.robust -> "loop"
                       [] mx.robust /\ op[t] = "mutex_timedlock" /\ ~Normal -> "inherit"
                       [] OTHER -> "recheck")
     ELSE op[t] = "mutex_timedlock" /\ Return(t, "ETIMEDOUT") /\ UNCHANGED mx
  /\ UNCHANGED <<mutex, orphaned>>

\* A robust mutex that was given up: the next waiter is woken too.
LockRecheck(t) ==
  /\ op[t] \in Acquiring /\ pc[t] = "recheck"
  /\ IF mx.state = "notrecoverable"
     THEN mx' = [mx EXCEPT !.event = TRUE] /\ Return(t, "ENOTRECOVERABLE")
     ELSE Goto(t, "inherit") /\ UNCHANGED mx
  /\ UNCHANGED <<mutex, orphaned>>

TryOnce(t) ==
  /\ In(t, "mutex_trylock", "start")
  /\ CASE mx.idx = 0 -> Own(t, [mx EXCEPT !.idx = 1], "0")
       [] mx.idx # 0 /\ mx.owner = t /\ mx.kind = "recursive" ->
            mx' = [mx EXCEPT !.count = @ + 1] /\ ReturnHolding(t, "0", 1) /\ UNCHANGED orphaned
       [] OTHER -> IF mx.robust
                   THEN Goto(t, "inherit") /\ UNCHANGED <<mx, orphaned>>
                   ELSE Return(t, "EBUSY") /\ UNCHANGED <<mx, orphaned>>
  /\ UNCHANGED mutex

\* pthread_mutex_unlock up to its exchange of lock_idx: the owner check, a
\* robust mutex that was not made consistent, recursive_count, the list.
Unlock(t) ==
  /\ In(t, "mutex_unlock", "enter")
  /\ LET owned == mx.robust \/ ~Normal
         m == IF mx.robust /\ mx.state = "inconsistent"
              THEN [mx EXCEPT !.state = "notrecoverable"] ELSE mx
     IN CASE owned /\ mx.owner # t -> Return(t, "EPERM") /\ UNCHANGED mx
          [] owned /\ mx.owner = t /\ mx.kind = "recursive" /\ mx.count > 1 ->
               mx' = [m EXCEPT !.count = @ - 1] /\ ReturnHolding(t, "0", -1)
          [] OTHER ->
               /\ mx' = [m EXCEPT !.owner = NoThread, !.listed = NoThread,
                                  !.count = IF mx.kind = "recursive" THEN 0 ELSE @]
               /\ Goto(t, "exchange")
  /\ UNCHANGED <<mutex, orphaned>>

UnlockExchange(t) ==
  /\ In(t, "mutex_unlock", "exchange")
  /\ mx' = [mx EXCEPT !.idx = 0]
  /\ IF mx.idx < 0
     THEN /\ pc' = [pc EXCEPT ![t] = "signal"] /\ holds' = [holds EXCEPT ![t] = @ - 1]
          /\ UNCHANGED <<object, op, calls, cancelled>>
     ELSE ReturnHolding(t, "0", -1)
  /\ UNCHANGED <<mutex, orphaned>>

UnlockSignal(t) ==
  /\ In(t, "mutex_unlock", "signal")
  /\ mx' = [mx EXCEPT !.event = TRUE]
  /\ Return(t, "0") /\ UNCHANGED <<mutex, orphaned>>

pthread_mutex_consistent(t) ==
  /\ In(t, "mutex_consistent", "enter")
  /\ IF mx.robust /\ mx.state = "inconsistent"
     THEN mx' = [mx EXCEPT !.state = "consistent"] /\ Return(t, "0")
     ELSE Return(t, "EINVAL") /\ UNCHANGED mx
  /\ UNCHANGED <<mutex, orphaned>>

\* A faulty version: a robust mutex is unlocked.
DetachUnlocks(t) ==
  /\ In(t, "exit", "enter")
  /\ mx' = IF mx.listed = t THEN [mx EXCEPT !.listed = NoThread, !.idx = 0] ELSE mx
  /\ orphaned' = (orphaned \/ holds[t] > 0)
  /\ pc' = [pc EXCEPT ![t] = IF mx.listed = t THEN "signal" ELSE "exited"]
  /\ holds' = [holds EXCEPT ![t] = 0]
  /\ UNCHANGED <<mutex, object, op, calls, cancelled>>

\* pthread_win32_thread_detach_np: a thread that ends hands its robust mutex on.
Detach(t) ==
  /\ In(t, "exit", "enter")
  /\ mx' = IF mx.listed = t THEN [mx EXCEPT !.listed = NoThread, !.state = "dead"] ELSE mx
  /\ orphaned' = (orphaned \/ holds[t] > 0)
  /\ pc' = [pc EXCEPT ![t] = IF mx.listed = t THEN "signal" ELSE "exited"]
  /\ holds' = [holds EXCEPT ![t] = 0]
  /\ UNCHANGED <<mutex, object, op, calls, cancelled>>

DetachSignal(t) ==
  /\ In(t, "exit", "signal")
  /\ mx' = [mx EXCEPT !.event = TRUE]
  /\ Goto(t, "exited") /\ UNCHANGED <<mutex, orphaned>>

\* pthread_mutex_destroy: trylock decides.  A recursive mutex that the caller
\* has locked before is kept, a robust one of that kind is not.
pthread_mutex_destroy(t) ==
  /\ op[t] = "mutex_destroy"
  /\ \/ /\ pc[t] = "enter" /\ mutex = "static"
        /\ Goto(t, "static") /\ UNCHANGED mutexVars
     \/ /\ pc[t] = "static"
        /\ IF mutex = "static" THEN mutex' = "null" /\ Return(t, "0")
           ELSE Return(t, "EBUSY") /\ UNCHANGED mutex
        /\ UNCHANGED <<mx, orphaned>>
     \/ /\ pc[t] = "enter" /\ mutex = "valid"
        /\ CASE \/ mx.idx = 0
                \/ mx.robust /\ mx.state = "notrecoverable"
                \/ mx.robust /\ mx.kind = "recursive" /\ mx.owner = t ->
                  mutex' = "null" /\ Return(t, "0") /\ UNCHANGED <<mx, orphaned>>
             [] mx.idx # 0 /\ mx.robust /\ mx.state = "dead" ->
                  Own(t, [mx EXCEPT !.state = "inconsistent"], "EOWNERDEAD") /\ UNCHANGED mutex
             [] OTHER -> Return(t, "EBUSY") /\ UNCHANGED mutexVars

LockStep(t) ==
  \/ MutexEnter(t) \/ ptw32_mutex_check_need_init(t) \/ LockNormal(t) \/ LockOwned(t)
  \/ Inherit(t) \/ LockLoop(t) \/ LockWait(t) \/ LockRecheck(t)
pthread_mutex_lock(t) == op[t] = "mutex_lock" /\ LockStep(t)
pthread_mutex_timedlock(t) == op[t] = "mutex_timedlock" /\ LockStep(t)
pthread_mutex_trylock(t) == op[t] = "mutex_trylock" /\ (LockStep(t) \/ TryOnce(t))
pthread_mutex_unlock(t) == Unlock(t) \/ UnlockExchange(t) \/ UnlockSignal(t)

\* The threads that have the mutex, or will not look at its state again before
\* they try to get it.
PastTheCheck ==
  {t \in Threads : holds[t] > 0 \/ (op[t] \in Acquiring /\ pc[t] \in {"start", "loop"})}

\* Those of them that were so when the mutex was given up, if it has been.
Racing == racing' = {t \in PastTheCheck' : mx.state = "notrecoverable" => t \in racing}

MutexNext(t) ==
  /\ \/ pthread_mutex_lock(t) \/ pthread_mutex_timedlock(t) \/ pthread_mutex_trylock(t)
     \/ pthread_mutex_unlock(t) \/ pthread_mutex_consistent(t)
     \/ Detach(t) \/ DetachSignal(t) \/ pthread_mutex_destroy(t)
  /\ Racing

MutexUnlockCall(t) == mutex = "valid" /\ holds[t] > 0 /\ Again(t, "mutex", "mutex_unlock")

MutexCalls(t) ==
  /\ Open(t)
  /\ \/ /\ ~(mx.kind = "normal" /\ holds[t] > 0)
        /\ \E f \in Acquiring :
             /\ mutex # "null" \/ f = "mutex_lock"
             /\ Call(t, "mutex", f)
     \/ MutexUnlockCall(t)
     \/ mx.robust /\ holds[t] > 0 /\ Call(t, "mutex", "mutex_consistent")
     \/ (mx.robust \/ holds[t] = 0) /\ Call(t, "mutex", "exit")
     \/ Quiet(t) /\ mutex # "null" /\ holds[t] = 0 /\ Call(t, "mutex", "mutex_destroy")

\* A robust mutex whose owner ended is not locked by anyone again before
\* somebody has been told so by EOWNERDEAD: a thread that slept through the
\* owner's end, or came later, never gets it with 0.  And once it has been
\* unlocked without having been made consistent, no thread gets it but those that
\* had passed their last look at its state before.
OrphanReported ==
  /\ orphaned => \A t \in Threads : holds[t] = 0
  /\ mx.state = "notrecoverable" => \A t \in Threads : holds[t] > 0 => t \in racing
=============================================================================
