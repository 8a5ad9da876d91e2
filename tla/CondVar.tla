------------------------------ MODULE CondVar ------------------------------
(***************************************************************************)
(* Condition variables: a gate (semBlockLock) that a signal closes until   *)
(* the waiters it woke have left, a semaphore that the waiters sleep on    *)
(* (semBlockQueue), and counters under the gate and mtxUnblockLock.  The   *)
(* threads are consumers and producers of items, under a mutex of theirs.  *)
(***************************************************************************)
EXTENDS Calls

CONSTANT GoneLimit     \* INT_MAX / 2

VARIABLES
  cond,         \* *cond: "static", "null" or "valid"
  blocked,      \* nWaitersBlocked
  toUnblock,    \* nWaitersToUnblock
  gone,         \* nWaitersGone
  gate,         \* the value of semBlockLock
  unblocker,    \* the thread that holds mtxUnblockLock
  queue,        \* the value of semBlockQueue
  list,         \* the thread that holds ptw32_cond_list_lock
  issue,        \* nSignalsToIssue
  outer,        \* the thread that holds the program's mutex
  items,        \* what the program's threads wait for
  swallowed,    \* history: posts of semBlockQueue that went to threads that were
                \* being cancelled, since there last was no item
  gateLost      \* history: the post of semBlockLock went to such a thread

cv == <<cond, blocked, toUnblock, gone, gate, unblocker, queue, list, issue>>
condVars == <<cv, outer, items, swallowed, gateLost>>

CondInit ==
  /\ cond \in {"static", "valid"}
  /\ blocked = 0 /\ toUnblock = 0 /\ gone = 0 /\ gate = 1 /\ queue = 0
  /\ unblocker = NoThread /\ list = NoThread /\ outer = NoThread
  /\ issue = [t \in Threads |-> 0] /\ items = 0
  /\ swallowed = 0 /\ gateLost = FALSE

CondWaits == {"cond_wait", "cond_timedwait"}

\* The call goes on at l with what has become of it, "failed" for a timeout
\* or an error and "dying" for a cancellation.
Turn(t, f, l) ==
  /\ op' = [op EXCEPT ![t] = f] /\ pc' = [pc EXCEPT ![t] = l]
  /\ UNCHANGED <<object, calls, holds, cancelled>>

\* In the state it leaves; a failure (ENOSYS, ENOMEM, ENOSPC) stores NULL.
NewCond(ok) ==
  /\ list = NoThread
  /\ cond' = IF ok THEN "valid" ELSE "null"
  /\ blocked' = 0 /\ toUnblock' = 0 /\ gone' = 0 /\ gate' = 1 /\ queue' = 0
  /\ UNCHANGED <<unblocker, list, issue>>

pthread_cond_init(t) ==
  /\ In(t, "cond_init", "enter")
  /\ \E ok \in BOOLEAN : NewCond(ok)
  /\ Return(t, "0") /\ UNCHANGED <<outer, items>>

\* A faulty version: the program's mutex is released at the start.
WaitEnterUnlocks(t) ==
  /\ op[t] \in CondWaits /\ pc[t] = "enter"
  /\ CASE cond = "null" -> Turn(t, "failed", "test") /\ UNCHANGED outer
       [] cond = "static" -> Goto(t, "needInit") /\ UNCHANGED outer
       [] OTHER -> Goto(t, "gate") /\ outer' = NoThread
  /\ UNCHANGED <<cv, items>>

\* pthread_cond_wait and pthread_cond_timedwait.
WaitEnter(t) ==
  /\ op[t] \in CondWaits /\ pc[t] = "enter"
  /\ CASE cond = "null" -> Turn(t, "failed", "test")
       [] cond = "static" -> Goto(t, "needInit")
       [] OTHER -> Goto(t, "gate")
  /\ UNCHANGED <<cv, outer, items>>

\* Under ptw32_cond_test_init_lock.
ptw32_cond_check_need_init(t) ==
  /\ op[t] \in CondWaits /\ pc[t] = "needInit"
  /\ \/ cond = "static" /\ NewCond(TRUE) /\ Goto(t, "gate")
     \/ cond = "static" /\ NewCond(FALSE) /\ Turn(t, "failed", "test")
     \/ cond = "null" /\ Turn(t, "failed", "test") /\ UNCHANGED cv
     \/ cond = "valid" /\ Goto(t, "gate") /\ UNCHANGED cv
  /\ UNCHANGED <<outer, items>>

\* sem_wait: a cancellation ends it at its start, or while it waits; ...
WaitGate(t) ==
  /\ op[t] \in CondWaits /\ pc[t] = "gate"
  /\ \/ /\ gate > 0
        /\ gate' = gate - 1 /\ blocked' = blocked + 1
        /\ Goto(t, "entered")
     \/ /\ t \in cancelled /\ UNCHANGED <<gate, blocked>>
        /\ Turn(t, "dying", "test") \/ (gate = 0 /\ Turn(t, "dying", "gate"))
  /\ UNCHANGED <<cond, toUnblock, gone, unblocker, queue, list, issue, outer, items>>

\* ... then ptw32_sem_wait_cleanup takes a post that has come meanwhile, unless
\* nobody else waits (see Semaphore), and the thread ends all the same.
GateCancelled(t) ==
  /\ In(t, "dying", "gate")
  /\ \/ gate > 0 /\ (\E u \in Threads \ {t} : pc[u] = "gate") /\ gate' = gate - 1
     \/ UNCHANGED gate
  /\ Turn(t, "dying", "test")
  /\ UNCHANGED <<cond, blocked, toUnblock, gone, unblocker, queue, list, issue, outer, items>>

WaitEntered(t) ==
  /\ op[t] \in CondWaits /\ pc[t] = "entered"
  /\ gate' = gate + 1 /\ Goto(t, "unlock")
  /\ UNCHANGED <<cond, blocked, toUnblock, gone, unblocker, queue, list, issue, outer, items>>

WaitUnlock(t) ==
  /\ op[t] \in CondWaits /\ pc[t] = "unlock"
  /\ outer' = NoThread /\ Goto(t, "asleep")
  /\ UNCHANGED <<cv, items>>

\* sem_timedwait: a token or the timeout ends it, and a cancellation, at its start
\* or while it waits.  A token that comes after the timeout is taken in its cleanup
\* handler, and the call does not fail: as if it had come before.
WaitAsleep(t) ==
  /\ op[t] \in CondWaits /\ pc[t] = "asleep"
  /\ \/ queue > 0 /\ queue' = queue - 1 /\ Goto(t, "cleanup")
     \/ /\ queue = 0 /\ op[t] = "cond_timedwait"
        /\ Turn(t, "failed", "cleanup") /\ UNCHANGED queue
     \/ /\ t \in cancelled /\ UNCHANGED queue
        /\ Turn(t, "dying", "cleanup") \/ (queue = 0 /\ Turn(t, "dying", "asleep"))
  /\ UNCHANGED <<cond, blocked, toUnblock, gone, gate, unblocker, list, issue, outer, items>>

\* ptw32_sem_timedwait_cleanup: so is one that comes after a cancellation, and the
\* thread ends all the same.
AsleepCancelled(t) ==
  /\ In(t, "dying", "asleep")
  /\ queue' = IF queue > 0 THEN queue - 1 ELSE queue
  /\ Turn(t, "dying", "cleanup")
  /\ UNCHANGED <<cond, blocked, toUnblock, gone, gate, unblocker, list, issue, outer, items>>

\* ptw32_cond_wait_cleanup: what it does under mtxUnblockLock, ...
CleanupCount(t) ==
  /\ pc[t] = "cleanup" /\ unblocker = NoThread
  /\ IF toUnblock # 0
     THEN /\ toUnblock' = toUnblock - 1
          /\ Goto(t, IF toUnblock = 1 THEN "reopen" ELSE "relock")
          /\ UNCHANGED <<gone, unblocker>>
     ELSE /\ gone' = gone + 1
          /\ unblocker' = IF gone' = GoneLimit THEN t ELSE NoThread
          /\ Goto(t, IF gone' = GoneLimit THEN "trim" ELSE "relock")
          /\ UNCHANGED toUnblock
  /\ UNCHANGED <<cond, blocked, gate, queue, list, issue, outer, items>>

\* ... with the gate taken when there are many gone to be forgotten, ...
CleanupTrim(t) ==
  /\ pc[t] = "trim" /\ gate > 0
  /\ blocked' = blocked - gone /\ gone' = 0 /\ unblocker' = NoThread
  /\ Goto(t, "relock")
  /\ UNCHANGED <<cond, toUnblock, gate, queue, list, issue, outer, items>>

\* ... the gate opened by the last of the woken, ...
CleanupReopen(t) ==
  /\ pc[t] = "reopen"
  /\ gate' = gate + 1 /\ Goto(t, "relock")
  /\ UNCHANGED <<cond, blocked, toUnblock, gone, unblocker, queue, list, issue, outer, items>>

\* ... and the program's mutex.
CleanupRelock(t) ==
  /\ pc[t] = "relock" /\ outer = NoThread
  /\ outer' = t /\ Goto(t, "test")
  /\ UNCHANGED <<cv, items>>

\* The program's loop around its wait, which ends as well when it destroys
\* the variable, and its own cleanup handler.
Retest(t) ==
  /\ pc[t] = "test"
  /\ IF op[t] \in CondWaits /\ items = 0 /\ cond = "valid" /\ \A u \in Threads : op[u] # "cond_destroy"
     THEN Goto(t, "enter") /\ UNCHANGED <<outer, items>>
     ELSE /\ IF op[t] = "dying" THEN Exit(t) ELSE Return(t, "0")
          /\ outer' = NoThread
          /\ items' = IF op[t] = "dying" \/ items = 0 THEN items ELSE items - 1
  /\ UNCHANGED cv

Signals == {"cond_signal", "cond_broadcast", "timechange"}

\* pthread_timechange_handler_np broadcasts with the list of variables locked.
TimechangeLock(t) ==
  /\ In(t, "timechange", "enter") /\ list = NoThread
  /\ IF cond = "valid" THEN list' = t /\ Goto(t, "unblock")
     ELSE Return(t, "0") /\ UNCHANGED list
  /\ UNCHANGED <<cond, blocked, toUnblock, gone, gate, unblocker, queue, issue, outer, items>>

Signalled(t) ==
  /\ list' = IF op[t] = "timechange" THEN NoThread ELSE list
  /\ Return(t, "0")

\* ptw32_cond_unblock: with the gate closed already, more waiters are moved; ...
SignalLock(t) ==
  /\ op[t] \in Signals /\ pc[t] = IF op[t] = "timechange" THEN "unblock" ELSE "enter"
  /\ IF cond # "valid"
     THEN Signalled(t) /\ UNCHANGED <<toUnblock, blocked, issue, unblocker>>
     ELSE /\ unblocker = NoThread
          /\ CASE toUnblock # 0 /\ blocked > 0 ->
                    LET n == IF op[t] = "cond_signal" THEN 1 ELSE blocked IN
                    /\ toUnblock' = toUnblock + n /\ blocked' = blocked - n
                    /\ issue' = [issue EXCEPT ![t] = n]
                    /\ Goto(t, "post") /\ UNCHANGED <<unblocker, list>>
               [] toUnblock = 0 /\ blocked > gone ->
                    /\ unblocker' = t
                    /\ Goto(t, "close") /\ UNCHANGED <<toUnblock, blocked, issue, list>>
               [] OTHER -> Signalled(t) /\ UNCHANGED <<toUnblock, blocked, issue, unblocker>>
  /\ UNCHANGED <<cond, gone, gate, queue, outer, items>>

\* A faulty version: those gone are still counted.
SignalCloseKeepsGone(t) ==
  /\ pc[t] = "close" /\ gate > 0
  /\ LET n == IF op[t] = "cond_signal" THEN 1 ELSE blocked IN
     /\ toUnblock' = n /\ blocked' = blocked - n
     /\ issue' = [issue EXCEPT ![t] = n]
  /\ gone' = 0 /\ gate' = gate - 1 /\ unblocker' = NoThread
  /\ Goto(t, "post")
  /\ UNCHANGED <<cond, queue, list, outer, items>>

\* ... otherwise the gate is closed first.
SignalClose(t) ==
  /\ pc[t] = "close" /\ gate > 0
  /\ LET n == IF op[t] = "cond_signal" THEN 1 ELSE blocked - gone IN
     /\ toUnblock' = n /\ blocked' = blocked - gone - n
     /\ issue' = [issue EXCEPT ![t] = n]
  /\ gone' = 0 /\ gate' = gate - 1 /\ unblocker' = NoThread
  /\ Goto(t, "post")
  /\ UNCHANGED <<cond, queue, list, outer, items>>

\* A faulty version: a broadcast posts once.
SignalPostOne(t) ==
  /\ op[t] \in Signals /\ pc[t] = "post"
  /\ queue' = queue + 1 /\ issue' = [issue EXCEPT ![t] = 0]
  /\ Signalled(t)
  /\ UNCHANGED <<cond, blocked, toUnblock, gone, gate, unblocker, outer, items>>

SignalPost(t) ==
  /\ op[t] \in Signals /\ pc[t] = "post"
  /\ queue' = queue + issue[t] /\ issue' = [issue EXCEPT ![t] = 0]
  /\ Signalled(t)
  /\ UNCHANGED <<cond, blocked, toUnblock, gone, gate, unblocker, outer, items>>

\* pthread_cond_destroy: the gate makes it wait for those woken before.
pthread_cond_destroy(t) ==
  /\ op[t] = "cond_destroy"
  /\ \/ /\ pc[t] = "enter" /\ cond = "valid" /\ list = NoThread
        /\ list' = t /\ Goto(t, "closing") /\ UNCHANGED cond
     \/ /\ pc[t] = "closing" /\ gate > 0
        /\ list' = NoThread
        /\ IF unblocker # NoThread \/ blocked > gone
           THEN Return(t, "EBUSY") /\ UNCHANGED cond
           ELSE Return(t, "0") /\ cond' = "null"
     \/ /\ pc[t] = "enter" /\ cond = "static"
        /\ Goto(t, "static") /\ UNCHANGED <<list, cond>>
     \/ /\ pc[t] = "static"
        /\ IF cond = "static" THEN cond' = "null" /\ Return(t, "0")
           ELSE Return(t, "EBUSY") /\ UNCHANGED cond
        /\ UNCHANGED list
  /\ UNCHANGED <<blocked, toUnblock, gone, gate, unblocker, queue, issue, outer, items>>

ptw32_cond_wait_cleanup(t) == CleanupCount(t) \/ CleanupTrim(t) \/ CleanupReopen(t) \/ CleanupRelock(t)
ptw32_cond_timedwait(t) ==
  \/ WaitEnter(t) \/ ptw32_cond_check_need_init(t) \/ WaitGate(t) \/ WaitEntered(t)
  \/ WaitUnlock(t) \/ WaitAsleep(t)
ptw32_cond_cancelled(t) == GateCancelled(t) \/ AsleepCancelled(t)
pthread_cond_wait(t) == op[t] = "cond_wait" /\ ptw32_cond_timedwait(t)
pthread_cond_timedwait(t) == op[t] = "cond_timedwait" /\ ptw32_cond_timedwait(t)

ptw32_cond_unblock(t) == SignalLock(t) \/ SignalClose(t) \/ SignalPost(t)
pthread_cond_signal(t) == op[t] = "cond_signal" /\ ptw32_cond_unblock(t)
pthread_cond_broadcast(t) == op[t] = "cond_broadcast" /\ ptw32_cond_unblock(t)
pthread_timechange_handler_np(t) == TimechangeLock(t) \/ (op[t] = "timechange" /\ ptw32_cond_unblock(t))

\* What the cancelled threads have taken in a step of t.
Lost(t) ==
  /\ swallowed' =
       IF items' = 0 THEN 0 ELSE swallowed + (IF In(t, "dying", "asleep") THEN queue - queue' ELSE 0)
  /\ gateLost' = (gateLost \/ (In(t, "dying", "gate") /\ gate' < gate))

CondNext(t) ==
  /\ object = "cond"
  /\ \/ pthread_cond_init(t) \/ pthread_cond_wait(t) \/ pthread_cond_timedwait(t)
     \/ ptw32_cond_cancelled(t) \/ ptw32_cond_wait_cleanup(t) \/ Retest(t)
     \/ pthread_cond_signal(t) \/ pthread_cond_broadcast(t)
     \/ pthread_timechange_handler_np(t) \/ pthread_cond_destroy(t)
  /\ Lost(t)

\* The program takes an item or waits for one, puts one and signals, and
\* destroys the variable when the others have been woken or are asleep.
CondCalls(t) ==
  /\ Open(t) /\ \A u \in Threads : ~In(u, "cond_destroy", "closing")
  /\ \/ /\ outer = NoThread /\ items = 0
        /\ \E f \in CondWaits : Call(t, "cond", f)
        /\ outer' = t /\ UNCHANGED items
     \/ /\ object = "cond" /\ Idle(t) /\ outer = NoThread /\ items > 0
        /\ items' = items - 1 /\ UNCHANGED <<callVars, outer>>
     \/ /\ outer = NoThread
        /\ \E f \in {"cond_signal", "cond_broadcast"} : Call(t, "cond", f)
        /\ items' = items + 1 /\ UNCHANGED outer
     \/ /\ \/ Call(t, "cond", "timechange")
           \/ cond = "null" /\ Quiet(t) /\ Call(t, "cond", "cond_init")
           \/ /\ outer = NoThread /\ cond # "null"
              /\ \A u \in Threads \ {t} : Inside(u) =>
                   pc[u] \in {"asleep", "cleanup", "trim", "reopen", "relock"}
              /\ Call(t, "cond", "cond_destroy")
        /\ UNCHANGED <<outer, items>>
  /\ UNCHANGED cv /\ Lost(t)

\* The threads that have come through the gate and not counted themselves out.
Within == {t \in Threads : pc[t] \in {"entered", "unlock", "asleep", "cleanup"}}

\* The counters agree with the threads that wait: none is forgotten or
\* counted out twice when it leaves by a timeout or a cancellation while a
\* signal is being given; the gate is open unless woken threads are still on
\* their way, or a thread that was cancelled at the gate has taken its post; and
\* a variable that was destroyed has nobody in it.
CondBalance ==
  object = "cond" =>
    /\ blocked + toUnblock - gone = Cardinality(Within)
    /\ blocked >= 0 /\ gone >= 0 /\ gate \in {0, 1}
    /\ gate = 0 => gateLost \/ toUnblock > 0 \/ \E t \in Threads : pc[t] \in {"entered", "reopen"}
    /\ cond # "valid" => Within = {} /\ \A t \in Threads : pc[t] \notin {"reopen", "trim", "close"}

\* Nobody is left asleep, with an item to be had and all others at rest, unless a
\* thread that was being cancelled has taken a post for each of the items.
NobodySleepsOnWork ==
  LET Sleeps(t) == op[t] \in CondWaits /\ pc[t] = "asleep" IN
  object = "cond" /\ items > swallowed /\ queue = 0 =>
    \/ \E t \in Threads : Inside(t) /\ ~Sleeps(t)
    \/ \A t \in Threads : ~Inside(t)
=============================================================================
