------------------------------- MODULE Attrs -------------------------------
(***************************************************************************)
(* The attribute objects of pthreads-w32 and the priorities of threads.    *)
(* A program has one attribute object, of the kind it chose, and calls its *)
(* functions in any order, also when the object could not be made or is    *)
(* destroyed.  It creates threads, which set each other's priority.        *)
(***************************************************************************)
EXTENDS Integers, Sequences, FiniteSets

CONSTANTS
  AttrKinds,     \* the kinds of objects: among thread, mutex, cond, rwlock, barrier
  Tasks,         \* the threads of the program
  First,         \* the one that creates the others
  Priorities,    \* the priorities that calls ask for
  StackSizes,    \* and the stack sizes
  Null           \* no object, no thread, no value

ASSUME AttrsAssumption ==
  /\ First \in Tasks /\ Null \notin Tasks /\ Null \notin Int
  /\ Priorities \subseteq Int /\ StackSizes \subseteq Nat

VARIABLES
  kind,            \* the kind of the attribute object
  attr,            \* *attr
  asked,           \* history: the values that calls which returned 0 were given
  told,            \* history: the field and the value the last call read
  sched_priority,  \* the priority recorded for each thread; Null: no thread
  priority,        \* the priority Windows has for it
  threadLock,      \* the thread that holds the threadLock of each
  setting,         \* what a thread inside ptw32_setthreadpriority has to record
  concurrency      \* ptw32_concurrency

attrVars == <<kind, attr, asked, told>>
schedVars == <<sched_priority, priority, threadLock, setting, concurrency>>
attrsVars == <<attrVars, schedVars>>

\* Values of winbase.h.
IDLE == -15
LOWEST == -2
NORMAL == 0
HIGHEST == 2
TIME_CRITICAL == 15
WinPriorities == {IDLE, TIME_CRITICAL} \cup LOWEST..HIGHEST

Policies == {"OTHER", "FIFO", "RR", "none"}    \* "none" is none of the others
PTHREAD_STACK_MIN == 1

-----------------------------------------------------------------------------
(* The scheduler *)

sched_get_priority_min(policy) == IF policy = "none" THEN -1 ELSE IDLE
sched_get_priority_max(policy) == IF policy = "none" THEN -1 ELSE TIME_CRITICAL
InRange(policy, prio) ==
  prio \in sched_get_priority_min(policy) .. sched_get_priority_max(policy)

\* The values between those that Windows knows are moved to the nearest inner one.
Adjusted(prio) ==
  IF prio \in (IDLE + 1)..(LOWEST - 1) THEN LOWEST
  ELSE IF prio \in (HIGHEST + 1)..(TIME_CRITICAL - 1) THEN HIGHEST ELSE prio

\* SetThreadPriority, which may fail.
SetThreadPriority(u, prio, ok) ==
  /\ ok => prio \in WinPriorities
  /\ priority' = IF ok THEN [priority EXCEPT ![u] = prio] ELSE priority

\* Faulty, not used here: ptw32_setthreadpriority, but the lock is not waited for.
SetthreadpriorityUnlocked(t, u, prio) ==
  /\ prio \in IDLE..TIME_CRITICAL
  /\ priority' = [priority EXCEPT ![u] =
       IF prio \in WinPriorities THEN prio ELSE IF prio < LOWEST THEN LOWEST ELSE HIGHEST]
  /\ setting' = [setting EXCEPT ![t] = <<u, prio>>]
  /\ threadLock' = [threadLock EXCEPT ![u] = t]
  /\ UNCHANGED <<sched_priority, concurrency>>

\* Thread t sets the priority of u under u's threadLock, and records it as it
\* was given, not as it was adjusted, in a second step.
ptw32_setthreadpriority(t, u, prio) ==
  /\ InRange("OTHER", prio) /\ threadLock[u] = Null
  /\ threadLock' = [threadLock EXCEPT ![u] = t]
  /\ \E ok \in BOOLEAN :
       /\ SetThreadPriority(u, Adjusted(prio), ok)
       /\ setting' = [setting EXCEPT ![t] = <<u, IF ok THEN prio ELSE Null>>]
  /\ UNCHANGED <<sched_priority, concurrency>>

Recorded(t) ==
  LET u == setting[t][1]  prio == setting[t][2] IN
  /\ setting[t] # Null
  /\ sched_priority' =
       IF prio = Null THEN sched_priority ELSE [sched_priority EXCEPT ![u] = prio]
  /\ threadLock' = [threadLock EXCEPT ![u] = Null]
  /\ setting' = [setting EXCEPT ![t] = Null]
  /\ UNCHANGED <<priority, concurrency>>

\* Any other policy, and a priority out of range, is refused.
pthread_setschedparam(t, u, policy, prio) ==
  /\ setting[t] = Null /\ sched_priority[u] # Null
  /\ policy = "OTHER" /\ ptw32_setthreadpriority(t, u, prio)

\* Thread t creates u with the attributes.  Windows starts it with the normal
\* priority, suspended; the result of ptw32_setthreadpriority is ignored.
CreateWith(t, u) ==
  LET prio ==
    IF attr = Null THEN NORMAL
    ELSE IF attr.inheritsched = "INHERIT" THEN sched_priority[t] ELSE attr.sched_priority
  IN
  /\ kind = "thread" /\ setting[t] = Null
  /\ sched_priority[t] # Null /\ sched_priority[u] = Null
  /\ \E ok \in BOOLEAN :
       LET set == attr # Null /\ InRange("OTHER", prio) /\ ok IN
       /\ sched_priority' = [sched_priority EXCEPT ![u] = IF set THEN prio ELSE NORMAL]
       /\ priority' = [priority EXCEPT ![u] = IF set THEN Adjusted(prio) ELSE NORMAL]
  /\ UNCHANGED <<threadLock, setting, concurrency>>

\* The first thread is not the library's: pthread_self takes over its priority.
SelfPriority(p) == [t \in Tasks |-> IF t = First THEN p ELSE Null]

pthread_setconcurrency(level) ==
  /\ concurrency' = IF level < 0 THEN concurrency ELSE level
  /\ UNCHANGED <<sched_priority, priority, threadLock, setting>>

-----------------------------------------------------------------------------
(* Attribute objects *)

Of(k) == kind = k /\ UNCHANGED <<kind, schedVars>>

\* A call that asked for v in field f returns r; one that reads nothing returns r.
Asked(f, v, r) ==
  asked' = (IF r = "0" THEN [asked EXCEPT ![f] = v] ELSE asked) /\ told' = Null
Returns(r) == told' = Null /\ UNCHANGED <<attr, asked>>

\* Field f of the object is set to v, or the call is refused with err.
Store(ok, f, v, err) ==
  /\ attr' = IF ok THEN [attr EXCEPT ![f] = v] ELSE attr
  /\ Asked(f, v, IF ok THEN "0" ELSE err)

Get(f) ==
  /\ told' = IF attr # Null THEN <<f, attr[f]>> ELSE Null
  /\ UNCHANGED <<attr, asked>>

\* A program makes an object where it has none.
Make(r) ==
  /\ attr = Null
  /\ attr' \in {r, Null}    \* with no memory it is NULL, and the result ENOMEM
  /\ asked' = attr' /\ told' = Null
Destroy ==
  /\ attr' = Null            \* EINVAL if it was
  /\ asked' = Null /\ told' = Null

\* pthread.h defines _POSIX_THREAD_PROCESS_SHARED, as -1, so that the branch for
\* ENOSYS is not compiled: the value is stored, and only the init functions refuse it.
SetPshared(v) == Store(attr # Null /\ v \in {"PRIVATE", "SHARED"}, "pshared", v, "EINVAL")

ptw32_is_attr == attr # Null

pthread_attr_init ==
  /\ Of("thread")
  /\ Make([detachstate |-> "JOINABLE", inheritsched |-> "EXPLICIT", scope |-> "SYSTEM",
           sched_priority |-> NORMAL, stacksize |-> 0, stackaddr |-> Null])
pthread_attr_destroy == Of("thread") /\ Destroy
pthread_attr_setdetachstate(v) ==
  /\ Of("thread")
  /\ Store(ptw32_is_attr /\ v \in {"JOINABLE", "DETACHED"}, "detachstate", v, "EINVAL")
pthread_attr_setinheritsched(v) ==
  /\ Of("thread")
  /\ Store(ptw32_is_attr /\ v \in {"INHERIT", "EXPLICIT"}, "inheritsched", v, "EINVAL")
pthread_attr_setschedparam(v) ==
  Of("thread") /\ Store(ptw32_is_attr /\ InRange("OTHER", v), "sched_priority", v, "EINVAL")
\* The one policy there is is not stored.
pthread_attr_setschedpolicy(v) ==
  /\ Of("thread")
  /\ Returns(IF ~ptw32_is_attr THEN "EINVAL" ELSE IF v # "OTHER" THEN "ENOTSUP" ELSE "0")
\* The functions for the scope do not look whether there is an object.
pthread_attr_setscope(v) ==
  /\ Of("thread") /\ attr # Null
  /\ Store(v = "SYSTEM", "scope", v, IF v = "PROCESS" THEN "ENOTSUP" ELSE "EINVAL")
pthread_attr_setstackaddr(v) ==
  Of("thread") /\ Store(ptw32_is_attr, "stackaddr", v, "EINVAL")
pthread_attr_setstacksize(v) ==
  Of("thread") /\ Store(v >= PTHREAD_STACK_MIN /\ ptw32_is_attr, "stacksize", v, "EINVAL")

pthread_attr_getdetachstate == Of("thread") /\ Get("detachstate")
pthread_attr_getinheritsched == Of("thread") /\ Get("inheritsched")
pthread_attr_getschedparam == Of("thread") /\ Get("sched_priority")
pthread_attr_getschedpolicy ==
  Of("thread") /\ Returns(IF ptw32_is_attr THEN "0" ELSE "EINVAL")
pthread_attr_getscope == Of("thread") /\ attr # Null /\ Get("scope")
pthread_attr_getstackaddr == Of("thread") /\ Get("stackaddr")
pthread_attr_getstacksize == Of("thread") /\ Get("stacksize")

\* Faulty, not used here: pthread_mutexattr_setpshared takes back a value that the
\* init functions would refuse, and still returns 0.
SetpsharedDropped(v) ==
  /\ attr # Null /\ v \in {"PRIVATE", "SHARED"}
  /\ Of("mutex") /\ attr' = [attr EXCEPT !.pshared = "PRIVATE"]
  /\ Asked("pshared", v, "0")

pthread_mutexattr_init ==
  Of("mutex") /\ Make([pshared |-> "PRIVATE", kind |-> "NORMAL", robustness |-> "STALLED"])
pthread_mutexattr_destroy == Of("mutex") /\ Destroy
pthread_mutexattr_setpshared(v) == Of("mutex") /\ SetPshared(v)
pthread_mutexattr_settype(v) ==
  /\ Of("mutex")
  /\ Store(attr # Null /\ v \in {"NORMAL", "RECURSIVE", "ERRORCHECK"}, "kind", v, "EINVAL")
pthread_mutexattr_setrobust(v) ==
  /\ Of("mutex")
  /\ Store(attr # Null /\ v \in {"STALLED", "ROBUST"}, "robustness", v, "EINVAL")
pthread_mutexattr_getpshared == Of("mutex") /\ Get("pshared")
pthread_mutexattr_gettype == Of("mutex") /\ Get("kind")
pthread_mutexattr_getrobust == Of("mutex") /\ Get("robustness")

pthread_condattr_init == Of("cond") /\ Make([pshared |-> "PRIVATE"])
pthread_condattr_destroy == Of("cond") /\ Destroy
pthread_condattr_setpshared(v) == Of("cond") /\ SetPshared(v)
pthread_condattr_getpshared == Of("cond") /\ Get("pshared")

pthread_rwlockattr_init == Of("rwlock") /\ Make([pshared |-> "PRIVATE"])
pthread_rwlockattr_destroy == Of("rwlock") /\ Destroy
pthread_rwlockattr_setpshared(v) == Of("rwlock") /\ SetPshared(v)
pthread_rwlockattr_getpshared == Of("rwlock") /\ Get("pshared")

pthread_barrierattr_init == Of("barrier") /\ Make([pshared |-> "PRIVATE"])
pthread_barrierattr_destroy == Of("barrier") /\ Destroy
pthread_barrierattr_setpshared(v) == Of("barrier") /\ SetPshared(v)
pthread_barrierattr_getpshared == Of("barrier") /\ Get("pshared")

-----------------------------------------------------------------------------
(* The program *)

AttrsInit ==
  /\ kind \in AttrKinds /\ attr = Null /\ asked = Null /\ told = Null
  /\ \E p \in (IF kind = "thread" THEN {NORMAL, HIGHEST} ELSE {NORMAL}) :
       sched_priority = SelfPriority(p) /\ priority = SelfPriority(p)
  /\ threadLock = [t \in Tasks |-> Null] /\ setting = [t \in Tasks |-> Null]
  /\ concurrency = 0

ThreadAttrNext ==
  \/ pthread_attr_init \/ pthread_attr_destroy
  \/ \E v \in {"JOINABLE", "DETACHED", "none"} : pthread_attr_setdetachstate(v)
  \/ \E v \in {"INHERIT", "EXPLICIT", "none"} : pthread_attr_setinheritsched(v)
  \/ \E v \in Priorities : pthread_attr_setschedparam(v)
  \/ \E v \in Policies : pthread_attr_setschedpolicy(v)
  \/ \E v \in {"SYSTEM", "PROCESS", "none"} : pthread_attr_setscope(v)
  \/ pthread_attr_setstackaddr("address")
  \/ \E v \in StackSizes : pthread_attr_setstacksize(v)
  \/ pthread_attr_getdetachstate \/ pthread_attr_getinheritsched
  \/ pthread_attr_getschedparam \/ pthread_attr_getschedpolicy
  \/ pthread_attr_getscope \/ pthread_attr_getstackaddr \/ pthread_attr_getstacksize

MutexAttrNext ==
  \/ pthread_mutexattr_init \/ pthread_mutexattr_destroy
  \/ \E v \in {"NORMAL", "RECURSIVE", "ERRORCHECK", "none"} : pthread_mutexattr_settype(v)
  \/ \E v \in {"STALLED", "ROBUST", "none"} : pthread_mutexattr_setrobust(v)
  \/ pthread_mutexattr_getpshared \/ pthread_mutexattr_gettype \/ pthread_mutexattr_getrobust

ObjectAttrNext ==
  \/ pthread_condattr_init \/ pthread_condattr_destroy \/ pthread_condattr_getpshared
  \/ pthread_rwlockattr_init \/ pthread_rwlockattr_destroy \/ pthread_rwlockattr_getpshared
  \/ pthread_barrierattr_init \/ pthread_barrierattr_destroy \/ pthread_barrierattr_getpshared
  \/ \E v \in {"PRIVATE", "SHARED", "none"} :
       \/ pthread_mutexattr_setpshared(v) \/ pthread_condattr_setpshared(v)
       \/ pthread_rwlockattr_setpshared(v) \/ pthread_barrierattr_setpshared(v)

SchedNext ==
  /\ \E t \in Tasks :
       \/ Recorded(t)
       \/ \E u \in Tasks : CreateWith(t, u)
       \/ /\ kind = "thread"
          /\ \E u \in Tasks, policy \in Policies, prio \in Priorities :
               sched_priority[t] # Null /\ pthread_setschedparam(t, u, policy, prio)
       \/ \E level \in {-1, 0, 2} : kind # "thread" /\ pthread_setconcurrency(level)
  /\ UNCHANGED attrVars

AttrsNext == ThreadAttrNext \/ MutexAttrNext \/ ObjectAttrNext \/ SchedNext

AttrsSpec == AttrsInit /\ [][AttrsNext]_attrsVars

-----------------------------------------------------------------------------
(* Properties *)

\* What the functions say of an attribute object is what was asked for in the
\* last call that they accepted, whatever calls were refused in between; and
\* the priority and the stack size that pthread_create takes from it are ones that
\* ptw32_setthreadpriority and _beginthreadex take.
AttrAsAsked ==
  /\ told # Null => asked[told[1]] = told[2]
  /\ kind = "thread" /\ attr # Null =>
       /\ InRange("OTHER", attr.sched_priority)
       /\ attr.stacksize = 0 \/ attr.stacksize >= PTHREAD_STACK_MIN

\* Windows ranks the threads as pthread_getschedparam does, whichever threads
\* set whose priority at a time and whichever of the calls of Windows fail.
PriorityKept ==
  \A t, u \in Tasks :
    LET Settled(v) == sched_priority[v] # Null /\ threadLock[v] = Null IN
    Settled(t) /\ Settled(u) =>
      /\ sched_priority[t] <= sched_priority[u] => priority[t] <= priority[u]
      /\ sched_priority[t] \in WinPriorities => priority[t] = sched_priority[t]
=============================================================================
