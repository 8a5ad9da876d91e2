------------------------------ MODULE Threads ------------------------------
(***************************************************************************)
(* The life of a thread: its structure, taken from and put back in a queue *)
(* of used ones (a handle is a structure and the number of its use), start *)
(* and end, cancellation, pthread_join and pthread_detach.  What is done   *)
(* under ptw32_thread_reuse_lock or a stateLock is one step.               *)
(***************************************************************************)
EXTENDS Calls

CONSTANTS
  Structs,
  NoStruct,
  Main,          \* the thread that the process begins with
  AtOnce,        \* the threads that there can be at once
  EarlyCancel    \* whether threads are cancelled before they have started

ASSUME StructsAssumption == NoStruct \notin Structs /\ Main \in Threads /\ AtOnce \subseteq Threads

\* The order of enum PThreadState, without Suspended.
Initial == 0
Running == 1
CancelPending == 3
Canceling == 4
Exiting == 5
Last == 6
Reuse == 7

VARIABLES
  st,            \* the structures
  reuse,         \* ptw32_threadReuseTop to ptw32_threadReuseBottom
  fresh,         \* those that were not allocated yet
  self,          \* the value of ptw32_selfThreadKey
  os,            \* each thread: "none", "started", "running" or "ended"
  arg,           \* the handle that a call or the start of a thread is about
  given,         \* the handles that the program has been given
  joinable,      \* those of threads it can still join or detach
  process        \* "up", or "down" when the library has terminated

threadVars == <<st, reuse, fresh, self, os, arg, given, joinable, process>>
others == <<given, joinable, process>>

Cleared(n) ==
  [x |-> n, state |-> Reuse, detached |-> FALSE, enabled |-> TRUE, async |-> FALSE,
   event |-> FALSE, threadH |-> NoThread, implicit |-> FALSE]

ThreadsInit ==
  /\ st = [s \in Structs |-> Cleared(0)] /\ reuse = <<>> /\ fresh = Structs
  /\ self = [t \in Threads |-> NoStruct] /\ arg = [t \in Threads |-> <<NoStruct, 0>>]
  /\ os = [t \in Threads |-> IF t = Main THEN "running" ELSE "none"]
  /\ given = {} /\ joinable = {} /\ process = "up"

Handle(s) == <<s, st[s].x>>
Current(h) == st[h[1]].x = h[2]
Mine(t) == st[self[t]]

\* ptw32_threadReusePop, or else calloc: the structure a new thread gets.
Popped == IF reuse # <<>> THEN {Head(reuse)} ELSE IF fresh = {} THEN {} ELSE {CHOOSE s \in fresh : TRUE}
Rest == IF reuse # <<>> THEN Tail(reuse) ELSE <<>>

\* ptw32_threadReusePush onto q.
ptw32_threadReusePush(s, q) ==
  /\ st' = [st EXCEPT ![s] = Cleared(@.x + 1)]
  /\ reuse' = Append(q, s)

\* Copies the structure first: its handles are closed after it was pushed.
ptw32_threadDestroy(s) == ptw32_threadReusePush(s, reuse)

\* ptw32_new of s for thread t; a structure whose event cannot be created
\* goes to the other end of the queue.
ptw32_new(s, t, detached, implicit) ==
  /\ fresh' = fresh \ {s} /\ reuse' = Rest
  /\ st' = [st EXCEPT ![s] = [Cleared(@.x) EXCEPT
                !.state = Initial, !.threadH = t, !.detached = detached, !.implicit = implicit]]
NewFails(s) == fresh' = fresh \ {s} /\ ptw32_threadReusePush(s, Rest)

Needing == {"join", "cancel", "setcancelstate", "setcanceltype", "testcancel", "delay"}

\* pthread_self in a thread that pthread_create did not make.
pthread_self(t) ==
  /\ self[t] = NoStruct
  /\ op[t] \in Needing /\ pc[t] = IF op[t] \in {"join", "cancel"} THEN "self" ELSE "enter"
  /\ \/ \E s \in Popped :
          \/ /\ ptw32_new(s, t, TRUE, TRUE)
             /\ self' = [self EXCEPT ![t] = s] /\ UNCHANGED callVars
          \/ NewFails(s) /\ Return(t, "ENOENT") /\ UNCHANGED self
     \/ /\ reuse = <<>> /\ Return(t, "ENOMEM")
        /\ UNCHANGED <<st, reuse, fresh, self>>
  /\ UNCHANGED <<os, arg, others>>

\* One thread that a Windows handle does not name any more.
FreeThread ==
  LET free == {u \in AtOnce : os[u] \in {"none", "ended"} /\ \A s \in Structs : st[s].threadH # u} IN
  IF free = {} THEN {} ELSE {CHOOSE u \in free : TRUE}

\* Nobody holds the stateLock of s between two steps.
Unlocked(s) == \A u \in Threads : ~(In(u, "cancel", "pending") /\ arg[u][1] = s)

\* pthread_create: the thread may run, and end, before the call returns.
pthread_create(t) ==
  /\ In(t, "create", "enter")
  /\ \/ \E s \in Popped :
          \/ \E u \in FreeThread, d \in BOOLEAN :
               /\ ptw32_new(s, u, d, FALSE)
               /\ os' = [os EXCEPT ![u] = "started"]
               /\ arg' = [arg EXCEPT ![t] = Handle(s), ![u] = Handle(s)]
               /\ Goto(t, "return")
               /\ joinable' = IF d THEN joinable ELSE joinable \cup {Handle(s)}
          \/ NewFails(s) /\ Return(t, "EAGAIN") /\ UNCHANGED <<os, arg, joinable>>
     \/ /\ reuse = <<>> /\ Return(t, "EAGAIN")
        /\ UNCHANGED <<st, reuse, fresh, os, arg, joinable>>
  /\ UNCHANGED <<self, given, process>>

CreateReturn(t) ==
  /\ In(t, "create", "return") /\ Return(t, "0")
  /\ given' = given \cup {arg[t]}
  /\ UNCHANGED <<st, reuse, fresh, self, os, arg, joinable, process>>

\* ptw32_threadStart up to the start routine.
ptw32_threadStart(t) ==
  /\ os[t] = "started" /\ Unlocked(arg[t][1]) /\ os' = [os EXCEPT ![t] = "running"]
  /\ self' = [self EXCEPT ![t] = arg[t][1]]
  /\ st' = [st EXCEPT ![arg[t][1]].state = Running]
  /\ pc' = [pc EXCEPT ![t] = "idle"] /\ op' = [op EXCEPT ![t] = "none"]
  /\ UNCHANGED <<object, calls, holds, cancelled, reuse, fresh, arg, others>>

\* The start routine returns, ...
StartReturns(t) ==
  /\ process = "up" /\ os[t] = "running" /\ Idle(t) /\ self[t] # NoStruct /\ ~Mine(t).implicit /\ holds[t] = 0
  /\ st' = [st EXCEPT ![self[t]].state = Exiting]
  /\ op' = [op EXCEPT ![t] = "end"] /\ pc' = [pc EXCEPT ![t] = "destructors"]
  /\ UNCHANGED <<object, calls, holds, cancelled, reuse, fresh, self, os, arg, others>>

\* ... or ptw32_throw goes back to ptw32_threadStart; it runs the cleanup
\* handlers, but not those of an implicit thread.
ptw32_throw(t) ==
  /\ \/ pc[t] = "throw"
     \/ In(t, "exit", "enter") /\ self[t] # NoStruct
  /\ st' = [st EXCEPT ![self[t]].state = Exiting]
  /\ op' = [op EXCEPT ![t] = "end"] /\ pc' = [pc EXCEPT ![t] = "destructors"]
  /\ holds' = [holds EXCEPT ![t] = IF Mine(t).implicit THEN @ ELSE 0]
  /\ UNCHANGED <<object, calls, cancelled, reuse, fresh, self, os, arg, others>>

\* pthread_exit in a thread that pthreads-w32 does not know.
pthread_exit(t) ==
  /\ In(t, "exit", "enter") /\ self[t] = NoStruct
  /\ os' = [os EXCEPT ![t] = "ended"] /\ Goto(t, "exited")
  /\ UNCHANGED <<st, reuse, fresh, self, arg, others>>

\* pthread_win32_thread_detach_np, by DllMain: the destructors (module Keys)
\* and the last state, ...
DetachLast(t) ==
  /\ In(t, "end", "destructors") /\ Unlocked(self[t])
  /\ st' = [st EXCEPT ![self[t]].state = Last]
  /\ Goto(t, "last")
  /\ UNCHANGED <<reuse, fresh, self, os, arg, others>>

\* ... and the structure, unless somebody is to join the thread, ...
DetachDestroy(t) ==
  /\ In(t, "end", "last")
  /\ IF Mine(t).detached
     THEN ptw32_threadDestroy(self[t]) /\ self' = [self EXCEPT ![t] = NoStruct]
     ELSE UNCHANGED <<st, reuse, self>>
  /\ Goto(t, "gone")
  /\ UNCHANGED <<fresh, os, arg, others>>

\* ... before Windows signals its handle.
ThreadEnds(t) ==
  /\ In(t, "end", "gone")
  /\ os' = [os EXCEPT ![t] = "ended"] /\ self' = [self EXCEPT ![t] = NoStruct]
  /\ Goto(t, "exited")
  /\ UNCHANGED <<st, reuse, fresh, arg, others>>

\* pthread_join: the check, ...
JoinCheck(t) ==
  /\ In(t, "join", "enter")
  /\ LET h == arg[t] IN
     CASE ~Current(h) -> Return(t, "ESRCH")
       [] Current(h) /\ st[h[1]].detached -> Return(t, "EINVAL")
       [] OTHER -> Goto(t, "self")
  /\ UNCHANGED threadVars

\* A faulty version: a thread that joins itself waits.
JoinSelfWaits(t) ==
  /\ In(t, "join", "self") /\ self[t] # NoStruct
  /\ Goto(t, IF Mine(t).enabled THEN "cancelable" ELSE "wait")
  /\ UNCHANGED threadVars

JoinSelf(t) ==
  /\ In(t, "join", "self") /\ self[t] # NoStruct
  /\ IF Handle(self[t]) = arg[t] THEN Return(t, "EDEADLK")
     ELSE Goto(t, IF Mine(t).enabled THEN "cancelable" ELSE "wait")
  /\ UNCHANGED threadVars

\* ... and pthreadCancelableWait, which ends by a cancellation if the thread
\* it waits for has not ended.
pthreadCancelableWait(t) ==
  /\ op[t] = "join" /\ pc[t] \in {"cancelable", "wait"}
  /\ IF os[st[arg[t][1]].threadH] = "ended"
     THEN /\ op' = [op EXCEPT ![t] = "detach"] /\ pc' = [pc EXCEPT ![t] = "enter"]
          /\ joinable' = joinable \ {arg[t]}
          /\ UNCHANGED <<object, calls, holds, cancelled, st>>
     ELSE /\ pc[t] = "cancelable" /\ Mine(t).event /\ Unlocked(self[t]) /\ UNCHANGED joinable
          /\ IF Mine(t).state < Canceling
             THEN /\ st' = [st EXCEPT ![self[t]].event = FALSE, ![self[t]].enabled = FALSE,
                                      ![self[t]].state = Canceling]
                  /\ Goto(t, "throw")
             ELSE st' = [st EXCEPT ![self[t]].event = FALSE] /\ Return(t, "ESRCH")
  /\ UNCHANGED <<reuse, fresh, self, os, arg, given, process>>

\* A faulty version: a thread that has ended is left to itself.
DetachNeverDestroys(t) ==
  /\ In(t, "detach", "enter")
  /\ IF Current(arg[t]) THEN st' = [st EXCEPT ![arg[t][1]].detached = TRUE] ELSE UNCHANGED st
  /\ Return(t, "0")
  /\ UNCHANGED <<reuse, fresh, self, os, arg, others>>

\* pthread_detach, the last step of a join too.
pthread_detach(t) ==
  /\ In(t, "detach", "enter") /\ Unlocked(arg[t][1])
  /\ LET s == arg[t][1] IN
     CASE ~Current(arg[t]) -> Return(t, "ESRCH") /\ UNCHANGED st
       [] Current(arg[t]) /\ st[s].detached -> Return(t, "EINVAL") /\ UNCHANGED st
       [] OTHER -> IF st[s].state # Last
                   THEN st' = [st EXCEPT ![s].detached = TRUE] /\ Return(t, "0")
                   ELSE Goto(t, "destroy") /\ UNCHANGED st
  /\ UNCHANGED <<reuse, fresh, self, os, arg, others>>

DetachWait(t) ==
  /\ In(t, "detach", "destroy") /\ os[st[arg[t][1]].threadH] = "ended"
  /\ ptw32_threadDestroy(arg[t][1]) /\ Return(t, "0")
  /\ UNCHANGED <<fresh, self, os, arg, others>>

\* pthread_kill with signal 0, and the first part of pthread_cancel.
pthread_kill(t) ==
  /\ op[t] \in {"kill", "cancel"} /\ pc[t] = "enter"
  /\ IF ~Current(arg[t]) \/ st[arg[t][1]].threadH = NoThread THEN Return(t, "ESRCH")
     ELSE IF op[t] = "kill" THEN Return(t, "0") ELSE Goto(t, "self")
  /\ UNCHANGED threadVars

\* pthread_cancel: asynchronously at once, ...
Cancelling(s) == st' = [st EXCEPT ![s].state = Canceling, ![s].enabled = FALSE]
CancelAsync(t) ==
  /\ In(t, "cancel", "self") /\ self[t] # NoStruct /\ Unlocked(arg[t][1])
  /\ LET s == arg[t][1] IN
     /\ st[s].async /\ st[s].enabled /\ st[s].state < Canceling
     /\ Cancelling(s)
     /\ IF s = self[t] THEN Goto(t, "throw")
        ELSE /\ pc' = [pc EXCEPT ![t] = "idle", ![st[s].threadH] = "throw"]
             /\ op' = [op EXCEPT ![t] = "none"]
             /\ UNCHANGED <<object, calls, holds, cancelled>>
  /\ UNCHANGED <<reuse, fresh, self, os, arg, others>>

\* ... or by the event.  The state that was looked at is written after it
\* may have changed: a thread that ends does not take its stateLock.
CancelLook(t) ==
  /\ In(t, "cancel", "self") /\ self[t] # NoStruct /\ Unlocked(arg[t][1])
  /\ LET s == st[arg[t][1]] IN
     /\ ~(s.async /\ s.enabled /\ s.state < Canceling)
     /\ CASE s.state < CancelPending -> Goto(t, "pending")
          [] s.state = CancelPending -> Return(t, "0")
          [] OTHER -> Return(t, "ESRCH")
  /\ UNCHANGED threadVars

CancelPend(t) ==
  /\ In(t, "cancel", "pending")
  /\ st' = [st EXCEPT ![arg[t][1]].state = CancelPending, ![arg[t][1]].event = TRUE]
  /\ Return(t, "0")
  /\ UNCHANGED <<reuse, fresh, self, os, arg, others>>

\* The event ends the thread when cancellation becomes asynchronous.
Enabled(t, s) ==
  IF s.enabled /\ s.async /\ s.event
  THEN /\ st' = [st EXCEPT ![self[t]] =
                   [s EXCEPT !.state = Canceling, !.enabled = FALSE, !.event = FALSE]]
       /\ Goto(t, "throw")
  ELSE st' = [st EXCEPT ![self[t]] = s] /\ Return(t, "0")

pthread_setcancelstate(t) ==
  /\ In(t, "setcancelstate", "enter") /\ self[t] # NoStruct /\ Unlocked(self[t])
  /\ \E e \in BOOLEAN :
       IF e THEN Enabled(t, [Mine(t) EXCEPT !.enabled = e])
       ELSE st' = [st EXCEPT ![self[t]].enabled = e] /\ Return(t, "0")
  /\ UNCHANGED <<reuse, fresh, self, os, arg, others>>

pthread_setcanceltype(t) ==
  /\ In(t, "setcanceltype", "enter") /\ self[t] # NoStruct /\ Unlocked(self[t])
  /\ \E a \in BOOLEAN :
       IF a THEN Enabled(t, [Mine(t) EXCEPT !.async = a])
       ELSE st' = [st EXCEPT ![self[t]].async = a] /\ Return(t, "0")
  /\ UNCHANGED <<reuse, fresh, self, os, arg, others>>

pthread_testcancel(t) ==
  /\ In(t, "testcancel", "enter") /\ self[t] # NoStruct /\ Unlocked(self[t])
  /\ IF Mine(t).state = CancelPending /\ Mine(t).enabled
     THEN /\ st' = [st EXCEPT ![self[t]].event = FALSE, ![self[t]].state = Canceling,
                              ![self[t]].enabled = FALSE]
          /\ Goto(t, "throw")
     ELSE Return(t, "0") /\ UNCHANGED st
  /\ UNCHANGED <<reuse, fresh, self, os, arg, others>>

\* Leaves the event set.
pthread_delay_np(t) ==
  /\ op[t] = "delay" /\ self[t] # NoStruct
  /\ \/ /\ pc[t] = "enter" /\ Mine(t).enabled
        /\ Goto(t, "delay") /\ UNCHANGED st
     \/ /\ pc[t] = IF Mine(t).enabled THEN "delay" ELSE "enter"
        /\ ~(Mine(t).enabled /\ Mine(t).event)
        /\ Return(t, "0") /\ UNCHANGED st
     \/ /\ pc[t] = "delay" /\ Mine(t).event /\ Unlocked(self[t])
        /\ IF Mine(t).state < Canceling THEN Cancelling(self[t]) /\ Goto(t, "throw")
           ELSE Return(t, "ESRCH") /\ UNCHANGED st
  /\ UNCHANGED <<reuse, fresh, self, os, arg, others>>

\* ptw32_push_cleanup and ptw32_pop_cleanup: holds counts the handlers.
ptw32_push_cleanup(t) == In(t, "push", "enter") /\ ReturnHolding(t, "0", 1) /\ UNCHANGED threadVars
ptw32_pop_cleanup(t) == In(t, "pop", "enter") /\ ReturnHolding(t, "0", -1) /\ UNCHANGED threadVars

\* pthread_win32_process_detach_np: the caller's structure, and
\* ptw32_processTerminate the queue of used ones.
pthread_win32_process_detach_np(t) ==
  /\ In(t, "process_detach", "enter")
  /\ process' = "down" /\ reuse' = <<>>
  /\ fresh' = fresh \cup {reuse[i] : i \in DOMAIN reuse}
                    \cup (IF self[t] # NoStruct /\ Mine(t).detached THEN {self[t]} ELSE {})
  /\ self' = [self EXCEPT ![t] = NoStruct]
  /\ Return(t, "0")
  /\ UNCHANGED <<st, os, arg, given, joinable>>

pthread_join(t) == JoinCheck(t) \/ JoinSelf(t) \/ pthreadCancelableWait(t)
pthread_cancel(t) == CancelAsync(t) \/ CancelLook(t) \/ CancelPend(t)
pthread_win32_thread_detach_np(t) == DetachLast(t) \/ DetachDestroy(t)

ThreadsNext(t) ==
  object = "threads" /\
  ( \/ pthread_self(t) \/ pthread_create(t) \/ CreateReturn(t) \/ ptw32_threadStart(t)
    \/ ptw32_throw(t) \/ pthread_exit(t) \/ pthread_win32_thread_detach_np(t) \/ ThreadEnds(t)
    \/ pthread_join(t) \/ pthread_detach(t) \/ DetachWait(t) \/ pthread_kill(t) \/ pthread_cancel(t)
    \/ pthread_setcancelstate(t) \/ pthread_setcanceltype(t) \/ pthread_testcancel(t) \/ pthread_delay_np(t)
    \/ ptw32_push_cleanup(t) \/ ptw32_pop_cleanup(t) \/ pthread_win32_process_detach_np(t) )

PopCall(t) == holds[t] > 0 /\ os[t] = "running" /\ Again(t, "threads", "pop") /\ UNCHANGED threadVars

About(h) == {u \in Threads : Inside(u) /\ arg[u] = h /\ op[u] \in {"join", "detach", "cancel"}}
Async(t) == self[t] # NoStruct /\ Mine(t).async /\ Mine(t).enabled

\* The program joins or detaches a thread once, the main thread does the
\* joining and can be cancelled there, and it uses the handle of a thread that
\* is gone all the same.  A
\* thread that can be cancelled at any point calls nothing else.
ThreadsCalls(t) ==
  /\ process = "up" /\ os[t] = "running"
  /\ \/ /\ \/ \E f \in {"setcancelstate", "setcanceltype", "testcancel"} : Call(t, "threads", f)
           \/ (self[t] # NoStruct => About(Handle(self[t])) = {}) /\ Call(t, "threads", "exit")
        /\ UNCHANGED <<arg, joinable, process>>
     \/ /\ ~Async(t)
        /\ \/ \E f \in {"create", "delay", "push"} : Call(t, "threads", f)
           \/ /\ t = Main /\ \A u \in Threads \ {t} : os[u] \in {"none", "ended"}
              /\ Call(t, "threads", "process_detach")
        /\ UNCHANGED <<arg, joinable, process>>
     \/ /\ ~Async(t)
        /\ \E h \in given :
             /\ arg' = [arg EXCEPT ![t] = h]
             /\ \/ /\ h \in joinable /\ About(h) = {}
                   /\ \/ /\ t = Main \/ self[t] = h[1]
                         /\ Call(t, "threads", "join") /\ UNCHANGED joinable
                      \/ Call(t, "threads", "detach") /\ joinable' = joinable \ {h}
                      \/ /\ EarlyCancel \/ os[st[h[1]].threadH] # "started"
                         /\ Call(t, "threads", "cancel") /\ UNCHANGED joinable
                \/ /\ h \notin joinable /\ UNCHANGED joinable
                   /\ ~Current(h) \/ st[h[1]].state = Reuse
                   /\ \E f \in {"join", "detach", "kill", "cancel"} : Call(t, "threads", f)
        /\ UNCHANGED process
     \/ /\ ~Async(t) /\ Inside(Main) /\ op[Main] = "join" /\ self[Main] # NoStruct
        /\ LET h == Handle(self[Main]) IN
           About(h) = {} /\ arg' = [arg EXCEPT ![t] = h]
        /\ Call(t, "threads", "cancel") /\ UNCHANGED <<joinable, process>>
  /\ UNCHANGED <<st, reuse, fresh, self, os, given>>

InUse(s) == s \notin fresh /\ \A i \in DOMAIN reuse : reuse[i] # s

\* A structure is in the queue once or in use by one thread; a handle stays
\* good until its thread is joined or detached, and is never given to another
\* thread; a structure that no thread, handle or call needs any more is in the
\* queue.
StructsInStep ==
  (object = "threads" /\ process = "up") =>
    /\ \A i, j \in DOMAIN reuse : i # j => reuse[i] # reuse[j]
    /\ \A h \in joinable : Current(h) /\ InUse(h[1])
    /\ \A t \in Threads : In(t, "create", "return") => arg[t] \notin given
    /\ \A t \in Threads : self[t] # NoStruct => InUse(self[t]) /\ Mine(t).threadH = t
    /\ \A s \in Structs : InUse(s) =>
         \/ Handle(s) \in joinable
         \/ \E t \in Threads : self[t] = s
         \/ \E t \in Threads : os[t] = "started" /\ arg[t] = Handle(s)
         \/ \E t \in Threads : Inside(t) /\ arg[t] = Handle(s)
=============================================================================
