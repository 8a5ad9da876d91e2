----------------------------- MODULE DataProofs -----------------------------
(***************************************************************************)
(* Theorems about the sequential parts that MCData checks: the attribute   *)
(* objects and the priorities of threads, for any threads, any values a    *)
(* program asks for, and any order of its calls; the bytes of the ring,    *)
(* for rings and task_args of any size whose offsets an int holds; the     *)
(* string buffer, for blocks and texts of any size; and the waits and the  *)
(* printed dates, for any times.                                           *)
(***************************************************************************)
EXTENDS PoolLayout, Attrs, CstrBuf, Clock, SequenceTheorems, WellFoundedInduction, TLAPS

-----------------------------------------------------------------------------
(* Attribute objects *)

ThreadAttr ==
  [detachstate : {"JOINABLE", "DETACHED"}, inheritsched : {"INHERIT", "EXPLICIT"},
   scope : {"SYSTEM"}, sched_priority : IDLE..TIME_CRITICAL,
   stacksize : {0} \cup {n \in Nat : n >= PTHREAD_STACK_MIN}, stackaddr : {Null, "address"}]
MutexAttr ==
  [pshared : {"PRIVATE", "SHARED"}, kind : {"NORMAL", "RECURSIVE", "ERRORCHECK"},
   robustness : {"STALLED", "ROBUST"}]
SharedAttr == [pshared : {"PRIVATE", "SHARED"}]

\* What an object of each kind holds; there is none of another kind.
AttrTypes ==
  attr # Null =>
    \/ kind = "thread" /\ attr \in ThreadAttr
    \/ kind = "mutex" /\ attr \in MutexAttr
    \/ kind \in {"cond", "rwlock", "barrier"} /\ attr \in SharedAttr

\* The program was told what it asked for: each field is stored as it came.
AskedIsStored ==
  /\ attr # Null => asked = attr
  /\ told # Null => asked[told[1]] = told[2]

LEMMA AttrStep ==
  ASSUME AttrTypes, AskedIsStored, [AttrsNext]_attrsVars
  PROVE  AttrTypes' /\ AskedIsStored'
<1> USE AttrsAssumption
    DEF AttrTypes, AskedIsStored, Of, Make, Destroy, Store, Asked, Returns, Get, ptw32_is_attr
<1>1. CASE ThreadAttrNext
  <2>1. CASE pthread_attr_init \/ pthread_attr_destroy
    BY <2>1 DEF pthread_attr_init, pthread_attr_destroy, ThreadAttr, IDLE, TIME_CRITICAL, NORMAL
  <2>2. ASSUME NEW v, pthread_attr_setdetachstate(v) PROVE AttrTypes' /\ AskedIsStored'
    BY <2>2 DEF pthread_attr_setdetachstate, ThreadAttr
  <2>3. ASSUME NEW v, pthread_attr_setinheritsched(v) PROVE AttrTypes' /\ AskedIsStored'
    BY <2>3 DEF pthread_attr_setinheritsched, ThreadAttr
  <2>4. ASSUME NEW v \in Priorities, pthread_attr_setschedparam(v)
        PROVE  AttrTypes' /\ AskedIsStored'
    BY <2>4 DEF pthread_attr_setschedparam, ThreadAttr, InRange, sched_get_priority_min,
                sched_get_priority_max
  <2>5. ASSUME NEW v, pthread_attr_setschedpolicy(v) PROVE AttrTypes' /\ AskedIsStored'
    BY <2>5 DEF pthread_attr_setschedpolicy
  <2>6. ASSUME NEW v, pthread_attr_setscope(v) PROVE AttrTypes' /\ AskedIsStored'
    BY <2>6 DEF pthread_attr_setscope, ThreadAttr
  <2>7. CASE pthread_attr_setstackaddr("address")
    BY <2>7 DEF pthread_attr_setstackaddr, ThreadAttr
  <2>8. ASSUME NEW v \in StackSizes, pthread_attr_setstacksize(v)
        PROVE  AttrTypes' /\ AskedIsStored'
    BY <2>8 DEF pthread_attr_setstacksize, ThreadAttr
  <2>9. CASE \/ pthread_attr_getdetachstate \/ pthread_attr_getinheritsched
             \/ pthread_attr_getschedparam \/ pthread_attr_getschedpolicy
             \/ pthread_attr_getscope \/ pthread_attr_getstackaddr \/ pthread_attr_getstacksize
    BY <2>9 DEF pthread_attr_getdetachstate, pthread_attr_getinheritsched,
                pthread_attr_getschedparam, pthread_attr_getschedpolicy, pthread_attr_getscope,
                pthread_attr_getstackaddr, pthread_attr_getstacksize
  <2> QED BY <1>1, <2>1, <2>2, <2>3, <2>4, <2>5, <2>6, <2>7, <2>8, <2>9 DEF ThreadAttrNext
<1>2. CASE MutexAttrNext
  <2>1. CASE pthread_mutexattr_init \/ pthread_mutexattr_destroy
    BY <2>1 DEF pthread_mutexattr_init, pthread_mutexattr_destroy, MutexAttr
  <2>2. ASSUME NEW v, pthread_mutexattr_settype(v) PROVE AttrTypes' /\ AskedIsStored'
    BY <2>2 DEF pthread_mutexattr_settype, MutexAttr
  <2>3. ASSUME NEW v, pthread_mutexattr_setrobust(v) PROVE AttrTypes' /\ AskedIsStored'
    BY <2>3 DEF pthread_mutexattr_setrobust, MutexAttr
  <2>4. CASE pthread_mutexattr_getpshared \/ pthread_mutexattr_gettype
             \/ pthread_mutexattr_getrobust
    BY <2>4 DEF pthread_mutexattr_getpshared, pthread_mutexattr_gettype,
                pthread_mutexattr_getrobust
  <2> QED BY <1>2, <2>1, <2>2, <2>3, <2>4 DEF MutexAttrNext
<1>3. CASE ObjectAttrNext
  <2>1. CASE \/ pthread_condattr_init \/ pthread_condattr_destroy \/ pthread_condattr_getpshared
             \/ pthread_rwlockattr_init \/ pthread_rwlockattr_destroy
             \/ pthread_rwlockattr_getpshared \/ pthread_barrierattr_init
             \/ pthread_barrierattr_destroy \/ pthread_barrierattr_getpshared
    BY <2>1 DEF pthread_condattr_init, pthread_condattr_destroy, pthread_condattr_getpshared,
                pthread_rwlockattr_init, pthread_rwlockattr_destroy,
                pthread_rwlockattr_getpshared, pthread_barrierattr_init,
                pthread_barrierattr_destroy, pthread_barrierattr_getpshared, SharedAttr
  <2>2. ASSUME NEW v, pthread_mutexattr_setpshared(v) PROVE AttrTypes' /\ AskedIsStored'
    BY <2>2 DEF pthread_mutexattr_setpshared, SetPshared, MutexAttr
  <2>3. ASSUME NEW v, \/ pthread_condattr_setpshared(v) \/ pthread_rwlockattr_setpshared(v)
                      \/ pthread_barrierattr_setpshared(v)
        PROVE  AttrTypes' /\ AskedIsStored'
    BY <2>3 DEF pthread_condattr_setpshared, pthread_rwlockattr_setpshared,
                pthread_barrierattr_setpshared, SetPshared, SharedAttr
  <2> QED BY <1>3, <2>1, <2>2, <2>3 DEF ObjectAttrNext
<1>4. CASE SchedNext
  BY <1>4 DEF SchedNext, attrVars
<1>5. CASE UNCHANGED attrsVars
  BY <1>5 DEF attrsVars, attrVars
<1> QED BY <1>1, <1>2, <1>3, <1>4, <1>5 DEF AttrsNext

\* An attribute object says what was last asked for and accepted, whatever was
\* refused since, and its priority and stack size are ones pthread_create can use.
THEOREM AttrKeepsWhatWasAsked == AttrsSpec => []AttrAsAsked
<1>1. AttrsInit => AttrTypes /\ AskedIsStored
  BY DEF AttrsInit, AttrTypes, AskedIsStored
<1>2. AttrTypes /\ AskedIsStored /\ [AttrsNext]_attrsVars => AttrTypes' /\ AskedIsStored'
  BY AttrStep
<1>3. AttrTypes /\ AskedIsStored => AttrAsAsked
  BY DEF AttrTypes, AskedIsStored, AttrAsAsked, ThreadAttr, MutexAttr, SharedAttr, InRange,
         sched_get_priority_min, sched_get_priority_max
<1> QED BY <1>1, <1>2, <1>3, PTL DEF AttrsSpec

-----------------------------------------------------------------------------
(* Priorities *)

Ranks == IDLE..TIME_CRITICAL

SchedTypes ==
  /\ sched_priority \in [Tasks -> Ranks \cup {Null}]
  /\ priority \in [Tasks -> Ranks \cup {Null}]
  /\ threadLock \in [Tasks -> Tasks \cup {Null}]
  /\ DOMAIN setting = Tasks

\* A thread that is changing the priority of another holds its lock, and Windows
\* is ahead of the record; between the calls the two agree.
Agreed ==
  /\ \A t \in Tasks :
       setting[t] # Null =>
         \E u \in Tasks, p \in Ranks \cup {Null} :
           /\ setting[t] = <<u, p>>
           /\ threadLock[u] = t /\ sched_priority[u] # Null
           /\ priority[u] = Adjusted(IF p = Null THEN sched_priority[u] ELSE p)
  /\ \A u \in Tasks :
       sched_priority[u] # Null /\ threadLock[u] = Null =>
         priority[u] = Adjusted(sched_priority[u])

LEMMA AdjustedRank ==
  /\ \A p \in Ranks : Adjusted(p) \in Ranks /\ Adjusted(p) \in WinPriorities
  /\ \A p \in WinPriorities : Adjusted(p) = p
  /\ \A p, q \in Ranks : p <= q => Adjusted(p) <= Adjusted(q)
  /\ NORMAL \in Ranks /\ Adjusted(NORMAL) = NORMAL
  /\ Null \notin Ranks
BY AttrsAssumption
   DEF Adjusted, Ranks, WinPriorities, IDLE, LOWEST, NORMAL, HIGHEST, TIME_CRITICAL

LEMMA SetStep ==
  ASSUME SchedTypes, Agreed, NEW t \in Tasks, NEW u \in Tasks, NEW policy, NEW prio,
         pthread_setschedparam(t, u, policy, prio)
  PROVE  SchedTypes' /\ Agreed'
<1>1. prio \in Ranks
  BY DEF pthread_setschedparam, ptw32_setthreadpriority, InRange, sched_get_priority_min,
         sched_get_priority_max, Ranks
<1>2. PICK ok \in BOOLEAN :
        /\ priority' = IF ok THEN [priority EXCEPT ![u] = Adjusted(prio)] ELSE priority
        /\ setting' = [setting EXCEPT ![t] = <<u, IF ok THEN prio ELSE Null>>]
  BY DEF pthread_setschedparam, ptw32_setthreadpriority, SetThreadPriority
<1>3. /\ setting[t] = Null /\ sched_priority[u] # Null /\ threadLock[u] = Null
      /\ threadLock' = [threadLock EXCEPT ![u] = t] /\ sched_priority' = sched_priority
  BY DEF pthread_setschedparam, ptw32_setthreadpriority
<1>4. SchedTypes'
  BY <1>1, <1>2, <1>3, AdjustedRank DEF SchedTypes
<1>5. ASSUME NEW v \in Tasks, setting'[v] # Null
      PROVE  \E w \in Tasks, p \in Ranks \cup {Null} :
               /\ setting'[v] = <<w, p>>
               /\ threadLock'[w] = v /\ sched_priority'[w] # Null
               /\ priority'[w] = Adjusted(IF p = Null THEN sched_priority'[w] ELSE p)
  <2>1. CASE v = t
    <3> DEFINE p == IF ok THEN prio ELSE Null
    <3>1. setting'[t] = <<u, p>> /\ threadLock'[u] = t /\ p \in Ranks \cup {Null}
      BY <1>1, <1>2, <1>3 DEF SchedTypes
    <3>2. priority'[u] = Adjusted(IF p = Null THEN sched_priority'[u] ELSE p)
      BY <1>1, <1>2, <1>3, AdjustedRank DEF SchedTypes, Agreed
    <3> QED BY <2>1, <1>3, <3>1, <3>2
  <2>2. CASE v # t
    <3>1. PICK w \in Tasks, p \in Ranks \cup {Null} :
            /\ setting[v] = <<w, p>>
            /\ threadLock[w] = v /\ sched_priority[w] # Null
            /\ priority[w] = Adjusted(IF p = Null THEN sched_priority[w] ELSE p)
      BY <1>2, <1>5, <2>2 DEF SchedTypes, Agreed
    <3>2. w # u
      BY <1>3, <3>1, AttrsAssumption
    <3> QED BY <1>2, <1>3, <2>2, <3>1, <3>2 DEF SchedTypes
  <2> QED BY <2>1, <2>2
<1>6. ASSUME NEW v \in Tasks, sched_priority'[v] # Null, threadLock'[v] = Null
      PROVE  priority'[v] = Adjusted(sched_priority'[v])
  <2>1. v # u
    BY <1>3, <1>6, AttrsAssumption DEF SchedTypes
  <2> QED BY <1>2, <1>3, <1>6, <2>1 DEF SchedTypes, Agreed
<1> QED BY <1>4, <1>5, <1>6 DEF Agreed

LEMMA RecordStep ==
  ASSUME SchedTypes, Agreed, NEW t \in Tasks, Recorded(t)
  PROVE  SchedTypes' /\ Agreed'
<1>1. PICK u \in Tasks, p \in Ranks \cup {Null} :
        /\ setting[t] = <<u, p>>
        /\ threadLock[u] = t /\ sched_priority[u] # Null
        /\ priority[u] = Adjusted(IF p = Null THEN sched_priority[u] ELSE p)
  BY DEF Recorded, Agreed
<1>2. /\ setting[t] # Null /\ setting' = [setting EXCEPT ![t] = Null]
      /\ sched_priority' = IF p = Null THEN sched_priority ELSE [sched_priority EXCEPT ![u] = p]
      /\ threadLock' = [threadLock EXCEPT ![u] = Null] /\ priority' = priority
  BY <1>1 DEF Recorded
<1>3. SchedTypes'
  BY <1>1, <1>2 DEF SchedTypes
<1>4. ASSUME NEW v \in Tasks, setting'[v] # Null
      PROVE  \E w \in Tasks, q \in Ranks \cup {Null} :
               /\ setting'[v] = <<w, q>>
               /\ threadLock'[w] = v /\ sched_priority'[w] # Null
               /\ priority'[w] = Adjusted(IF q = Null THEN sched_priority'[w] ELSE q)
  <2>1. v # t
    BY <1>2, <1>4 DEF SchedTypes
  <2>2. PICK w \in Tasks, q \in Ranks \cup {Null} :
          /\ setting[v] = <<w, q>>
          /\ threadLock[w] = v /\ sched_priority[w] # Null
          /\ priority[w] = Adjusted(IF q = Null THEN sched_priority[w] ELSE q)
    BY <1>2, <1>4, <2>1 DEF SchedTypes, Agreed
  <2>3. w # u
    BY <1>1, <2>1, <2>2
  <2> QED BY <1>2, <2>1, <2>2, <2>3 DEF SchedTypes
<1>5. ASSUME NEW v \in Tasks, sched_priority'[v] # Null, threadLock'[v] = Null
      PROVE  priority'[v] = Adjusted(sched_priority'[v])
  <2>1. CASE v = u
    BY <1>1, <1>2, <2>1 DEF SchedTypes
  <2>2. CASE v # u
    BY <1>2, <1>5, <2>2 DEF SchedTypes, Agreed
  <2> QED BY <2>1, <2>2
<1> QED BY <1>3, <1>4, <1>5 DEF Agreed

LEMMA CreateStep ==
  ASSUME SchedTypes, Agreed, NEW t \in Tasks, NEW u \in Tasks, CreateWith(t, u)
  PROVE  SchedTypes' /\ Agreed'
<1>1. PICK p \in Ranks :
        /\ sched_priority' = [sched_priority EXCEPT ![u] = p]
        /\ priority' = [priority EXCEPT ![u] = Adjusted(p)]
        /\ sched_priority[u] = Null
        /\ UNCHANGED <<threadLock, setting>>
  <2> DEFINE prio ==
        IF attr = Null THEN NORMAL
        ELSE IF attr.inheritsched = "INHERIT" THEN sched_priority[t] ELSE attr.sched_priority
  <2>1. PICK ok \in BOOLEAN :
          LET set == attr # Null /\ InRange("OTHER", prio) /\ ok IN
          /\ sched_priority' = [sched_priority EXCEPT ![u] = IF set THEN prio ELSE NORMAL]
          /\ priority' = [priority EXCEPT ![u] = IF set THEN Adjusted(prio) ELSE NORMAL]
    BY DEF CreateWith
  <2> DEFINE p == IF attr # Null /\ InRange("OTHER", prio) /\ ok THEN prio ELSE NORMAL
  <2> HIDE DEF prio
  <2>2. p \in Ranks
    BY AdjustedRank DEF InRange, sched_get_priority_min, sched_get_priority_max, Ranks
  <2>3. /\ sched_priority' = [sched_priority EXCEPT ![u] = p]
        /\ priority' = [priority EXCEPT ![u] = Adjusted(p)]
    BY <2>1, AdjustedRank
  <2>4. sched_priority[u] = Null /\ UNCHANGED <<threadLock, setting>>
    BY DEF CreateWith
  <2> QED BY <2>2, <2>3, <2>4
<1>2. SchedTypes'
  BY <1>1, AdjustedRank DEF SchedTypes
<1>3. Agreed'
  BY <1>1, AdjustedRank DEF SchedTypes, Agreed
<1> QED BY <1>2, <1>3

LEMMA SchedStep ==
  ASSUME SchedTypes, Agreed, [AttrsNext]_attrsVars
  PROVE  SchedTypes' /\ Agreed'
<1> DEFINE Same == UNCHANGED <<sched_priority, priority, threadLock, setting>>
<1>1. Same => SchedTypes' /\ Agreed'
  BY DEF SchedTypes, Agreed
<1>2. CASE ThreadAttrNext \/ MutexAttrNext \/ ObjectAttrNext
  <2>1. UNCHANGED schedVars
    BY <1>2 DEF ThreadAttrNext, MutexAttrNext, ObjectAttrNext, Of, pthread_attr_init,
      pthread_attr_destroy, pthread_attr_setdetachstate, pthread_attr_setinheritsched,
      pthread_attr_setschedparam, pthread_attr_setschedpolicy, pthread_attr_setscope,
      pthread_attr_setstackaddr, pthread_attr_setstacksize, pthread_attr_getdetachstate,
      pthread_attr_getinheritsched, pthread_attr_getschedparam, pthread_attr_getschedpolicy,
      pthread_attr_getscope, pthread_attr_getstackaddr, pthread_attr_getstacksize,
      pthread_mutexattr_init, pthread_mutexattr_destroy, pthread_mutexattr_setpshared,
      pthread_mutexattr_settype, pthread_mutexattr_setrobust, pthread_mutexattr_getpshared,
      pthread_mutexattr_gettype, pthread_mutexattr_getrobust, pthread_condattr_init,
      pthread_condattr_destroy, pthread_condattr_setpshared, pthread_condattr_getpshared,
      pthread_rwlockattr_init, pthread_rwlockattr_destroy, pthread_rwlockattr_setpshared,
      pthread_rwlockattr_getpshared, pthread_barrierattr_init, pthread_barrierattr_destroy,
      pthread_barrierattr_setpshared, pthread_barrierattr_getpshared
  <2> QED BY <1>1, <2>1 DEF schedVars
<1>3. CASE SchedNext
  BY <1>1, <1>3, SetStep, RecordStep, CreateStep DEF SchedNext, pthread_setconcurrency
<1>4. CASE UNCHANGED attrsVars
  BY <1>1, <1>4 DEF attrsVars, schedVars
<1> QED BY <1>2, <1>3, <1>4 DEF AttrsNext

\* Windows ranks the threads as pthread_getschedparam does, whoever changes whose
\* priority at the same time and whichever calls of Windows fail: the record is
\* written under the same lock, and only after SetThreadPriority succeeded.
THEOREM PrioritiesAgree == AttrsSpec => []PriorityKept
<1>1. AttrsInit => SchedTypes /\ Agreed
  <2> SUFFICES ASSUME AttrsInit PROVE SchedTypes /\ Agreed
    OBVIOUS
  <2>1. PICK p \in {NORMAL, HIGHEST} :
          sched_priority = SelfPriority(p) /\ priority = SelfPriority(p)
    BY DEF AttrsInit
  <2>2. p \in Ranks /\ Adjusted(p) = p
    BY <2>1, AdjustedRank DEF Ranks, WinPriorities, IDLE, LOWEST, NORMAL, HIGHEST, TIME_CRITICAL
  <2>3. threadLock = [t \in Tasks |-> Null] /\ setting = [t \in Tasks |-> Null]
    BY DEF AttrsInit
  <2> QED BY <2>1, <2>2, <2>3 DEF SchedTypes, Agreed, SelfPriority
<1>2. SchedTypes /\ Agreed /\ [AttrsNext]_attrsVars => SchedTypes' /\ Agreed'
  BY SchedStep
<1>3. SchedTypes /\ Agreed => PriorityKept
  BY AdjustedRank DEF SchedTypes, Agreed, PriorityKept
<1> QED BY <1>1, <1>2, <1>3, PTL DEF AttrsSpec

-----------------------------------------------------------------------------
(* The bytes of the ring *)

\* The last slot of every ring begins where an int can say so.
OffsetsFit == \A qs \in QueueSizes, tas \in TaskArgSizes : (qs - 1) * (TaskHeader + tas) <= MaxInt

\* The slot of the i-th task of the queue, as QueuedIntact finds it.
Slot(i) == IF head + i - 1 < queue_size THEN head + i - 1 ELSE head + i - 1 - queue_size

Stores == [task : 1..TaskIds, arg_size : 0..task_arg_size]

LayoutTypes ==
  /\ queue_size \in QueueSizes /\ task_arg_size \in TaskArgSizes
  /\ head \in 0..(queue_size - 1) /\ tail \in 0..(queue_size - 1)
  /\ queue \in Seq(Stores) /\ Len(queue) <= queue_size
  /\ task \in 1..TaskIds
  /\ DOMAIN block = BlockBytes

\* The next task goes behind the last one: tail is its slot.
TailBehind == tail = IF head + Len(queue) < queue_size THEN head + Len(queue) ELSE head + Len(queue) - queue_size

Intact(i) == \A b \in 0..(TaskHeader + queue[i].arg_size - 1) : block[Slot(i) * TaskSize + b] = queue[i].task

LayoutInv == LayoutTypes /\ TailBehind /\ \A i \in 1..Len(queue) : Intact(i)

LEMMA Sizes ==
  ASSUME queue_size \in QueueSizes, task_arg_size \in TaskArgSizes
  PROVE  /\ queue_size \in Nat \ {0} /\ task_arg_size \in Nat /\ TaskSize \in Nat \ {0}
         /\ TaskHeader \in Nat \ {0} /\ TaskIds \in Nat \ {0} /\ MaxInt \in Nat
BY LayoutAssumption DEF TaskSize

\* Where an int is wide enough a slot is found where it should be: behind the
\* ones before it, and all of it in the block.
LEMMA SlotFound ==
  ASSUME OffsetsFit, queue_size \in QueueSizes, task_arg_size \in TaskArgSizes, NEW s \in 0..(queue_size - 1)
  PROVE  /\ TaskAt(s) = s * TaskSize /\ s * TaskSize \in Nat
         /\ s * TaskSize + TaskSize <= RingSize(queue_size, task_arg_size)
<1> DEFINE q == queue_size - 1
           z == TaskSize
<1>1. queue_size \in Nat \ {0} /\ z \in Nat \ {0} /\ MaxInt \in Nat
  BY Sizes
<1>2. q \in Nat /\ s \in Nat /\ s <= q
  BY <1>1
<1>3. q * z <= MaxInt
  BY DEF OffsetsFit, TaskSize
<1> HIDE DEF q, z
<1>4. s * z \in Nat /\ s * z <= q * z /\ q * z \in Nat
  <2>1. (q - s) * z \in Nat
    BY <1>1, <1>2
  <2>2. (q - s) * z = q * z - s * z /\ s * z \in Nat /\ q * z \in Nat
    BY <1>1, <1>2
  <2> QED BY <2>1, <2>2
<1>5. AsInt(s * z) = s * z
  <2>1. PICK x \in Nat : x = s * z
    BY <1>4
  <2>2. x <= MaxInt
    BY <1>1, <1>3, <1>4, <2>1
  <2>3. (x + MaxInt + 1) % (2 * (MaxInt + 1)) = x + MaxInt + 1
    <3>1. x + MaxInt + 1 \in 0..(2 * (MaxInt + 1) - 1)
      BY <1>1, <2>2
    <3> QED BY <1>1, <3>1
  <2> QED BY <1>1, <2>1, <2>3 DEF AsInt
<1>6. s * z + z <= q * z + z
  BY <1>1, <1>2, <1>4
<1>7. q * z + z = RingSize(queue_size, task_arg_size)
  <2>1. RingSize(queue_size, task_arg_size) = z * queue_size
    BY DEF RingSize, z, TaskSize
  <2>2. z * queue_size = q * z + z
    BY <1>1 DEF q
  <2> QED BY <2>1, <2>2
<1> QED BY <1>4, <1>5, <1>6, <1>7 DEF TaskAt, z

\* Two slots have no byte in common.
LEMMA SlotsApart ==
  ASSUME NEW s \in Nat, NEW u \in Nat, s # u, NEW z \in Nat \ {0}, NEW a \in 0..(z - 1), NEW b \in 0..(z - 1)
  PROVE  s * z + a # u * z + b
<1>1. CASE s < u
  <2>1. (u - s - 1) * z \in Nat
    BY <1>1
  <2>2. (u - s - 1) * z = u * z - s * z - z
    OBVIOUS
  <2> QED BY <2>1, <2>2
<1>2. CASE u < s
  <2>1. (s - u - 1) * z \in Nat
    BY <1>2
  <2>2. (s - u - 1) * z = s * z - u * z - z
    OBVIOUS
  <2> QED BY <2>1, <2>2
<1> QED BY <1>1, <1>2

LEMMA Wraps ==
  ASSUME NEW q \in Nat \ {0}, NEW x \in Nat, x < 2 * q
  PROVE  x % q = IF x < q THEN x ELSE x - q
<1>1. CASE x < q
  BY <1>1
<1>2. CASE x >= q
  <2> DEFINE d == x \div q
             r == x % q
  <2>1. r \in 0..(q - 1) /\ d \in Int /\ x = q * d + r
    <3>1. r \in 0..(q - 1) /\ d \in Int
      OBVIOUS
    <3>2. r = x - q * d
      BY SMTT(30)
    <3>3. q * d \in Int
      <4> d \in Int
        BY <3>1
      <4> HIDE DEF d
      <4> QED OBVIOUS
    <3> HIDE DEF d, r
    <3> QED BY <3>1, <3>2, <3>3
  <2> HIDE DEF d, r
  <2>2. d = 1
    <3>1. CASE d <= 0
      <4>1. q * (0 - d) >= 0 /\ q * (0 - d) = 0 - q * d
        BY <2>1, <3>1
      <4> QED BY <1>2, <2>1, <4>1
    <3>2. CASE d >= 2
      <4>1. q * (d - 2) >= 0 /\ q * (d - 2) = q * d - 2 * q
        BY <2>1, <3>2
      <4> QED BY <1>2, <2>1, <4>1
    <3> QED BY <2>1, <3>1, <3>2
  <2>3. r = x - q
    BY <2>1, <2>2
  <2> QED BY <1>2, <2>3 DEF r
<1> QED BY <1>1, <1>2

LEMMA LayoutInit == Init => LayoutInv
<1> SUFFICES ASSUME Init PROVE LayoutInv
  OBVIOUS
<1>1. queue_size \in Nat \ {0} /\ TaskIds \in Nat \ {0}
  BY Sizes DEF Init
<1>2. LayoutTypes
  BY <1>1 DEF Init, LayoutTypes, BlockBytes
<1> QED BY <1>1, <1>2 DEF Init, LayoutInv, TailBehind, Intact

\* The tasks of the queue are in slots of the ring, and in different ones.
LEMMA QueueSlots ==
  ASSUME LayoutTypes, TailBehind, NEW i \in 1..queue_size
  PROVE  /\ Slot(i) \in 0..(queue_size - 1)
         /\ i <= Len(queue) /\ Len(queue) < queue_size => Slot(i) # tail
         /\ Slot(i) = (head + i - 1) % queue_size
<1>1. queue_size \in Nat \ {0} /\ Len(queue) \in Nat
  BY Sizes DEF LayoutTypes
<1>2. head + i - 1 \in Nat /\ head + i - 1 < 2 * queue_size
  BY <1>1 DEF LayoutTypes
<1>3. Slot(i) = (head + i - 1) % queue_size
  <2> DEFINE x == head + i - 1
  <2>1. x \in Nat /\ x < 2 * queue_size /\ Slot(i) = IF x < queue_size THEN x ELSE x - queue_size
    BY <1>1, <1>2 DEF Slot, LayoutTypes
  <2> HIDE DEF x
  <2>2. Slot(i) = x % queue_size
    BY <1>1, <2>1, Wraps
  <2> QED BY <2>2 DEF x
<1> QED BY <1>1, <1>2, <1>3 DEF LayoutTypes, TailBehind, Slot

\* What is written does not reach into another slot, nor beyond the block.
LEMMA WrittenBytes ==
  ASSUME OffsetsFit, LayoutTypes, NEW s \in 0..(queue_size - 1), NEW n \in 0..task_arg_size,
         NEW b \in 0..(TaskHeader + n - 1)
  PROVE  s * TaskSize + b \in BlockBytes /\ b \in 0..(TaskSize - 1)
<1>1. /\ queue_size \in Nat \ {0} /\ task_arg_size \in Nat /\ TaskSize \in Nat \ {0}
      /\ TaskHeader \in Nat \ {0}
  BY Sizes DEF LayoutTypes
<1>2. s * TaskSize \in Nat /\ s * TaskSize + TaskSize <= RingSize(queue_size, task_arg_size)
  BY SlotFound DEF LayoutTypes
<1>3. b \in 0..(TaskSize - 1)
  BY <1>1 DEF TaskSize
<1>4. RingSize(queue_size, task_arg_size) \in Nat
  BY <1>1 DEF RingSize
<1> DEFINE x == s * TaskSize
<1> HIDE DEF x
<1>5. x + b \in 0..(RingSize(queue_size, task_arg_size) - 1)
  <2>1. x \in Nat /\ x + TaskSize <= RingSize(queue_size, task_arg_size)
    BY <1>2 DEF x
  <2> QED BY <1>1, <1>3, <1>4, <2>1
<1> QED BY <1>3, <1>5 DEF x, BlockBytes

\* A task is written to the slot behind the others, and leaves them alone.
LEMMA AddLayout ==
  ASSUME OffsetsFit, LayoutInv, NEW arg_size \in ArgSizes, Add(arg_size)
  PROVE  LayoutInv'
<1> DEFINE new == [task |-> task, arg_size |-> Stored(arg_size)]
<1>1. /\ queue_size \in Nat \ {0} /\ task_arg_size \in Nat /\ TaskSize \in Nat \ {0}
      /\ TaskHeader \in Nat \ {0} /\ TaskIds \in Nat \ {0}
  BY Sizes DEF LayoutInv, LayoutTypes
<1>2. Stored(arg_size) \in 0..task_arg_size
  BY <1>1, LayoutAssumption DEF Add, Fits, Stored
<1>3. /\ queue' = Append(queue, new) /\ Len(queue') = Len(queue) + 1 /\ Len(queue) < queue_size
      /\ \A i \in 1..Len(queue) : queue'[i] = queue[i]
      /\ queue'[Len(queue) + 1] = new /\ Len(queue) \in Nat
  BY <1>1 DEF Add, LayoutInv, LayoutTypes
<1>4. UNCHANGED <<queue_size, task_arg_size, head>>
  BY DEF Add
<1>5. LayoutTypes'
  <2>1. new \in Stores
    BY <1>2 DEF Stores, LayoutInv, LayoutTypes
  <2>2. queue' \in Seq(Stores)
    BY <1>3, <2>1 DEF LayoutInv, LayoutTypes
  <2>3. (task % TaskIds) + 1 \in 1..TaskIds
    BY <1>1 DEF LayoutInv, LayoutTypes
  <2> QED BY <1>1, <1>3, <1>4, <2>2, <2>3 DEF Add, LayoutInv, LayoutTypes, Stores, Step, BlockBytes
<1>6. TailBehind'
  <2>1. head \in 0..(queue_size - 1) /\ tail \in 0..(queue_size - 1)
    BY DEF LayoutInv, LayoutTypes
  <2>2. tail' = IF tail + 1 = queue_size THEN 0 ELSE tail + 1
    BY DEF Add, Step
  <2>3. tail = IF head + Len(queue) < queue_size THEN head + Len(queue) ELSE head + Len(queue) - queue_size
    BY DEF LayoutInv, TailBehind
  <2>4. tail' = IF head + Len(queue') < queue_size THEN head + Len(queue') ELSE head + Len(queue') - queue_size
    BY <1>1, <1>3, <2>1, <2>2, <2>3
  <2> QED BY <1>4, <2>4 DEF TailBehind
<1>7. ASSUME NEW i \in 1..Len(queue') PROVE Intact(i)'
  <2> SUFFICES ASSUME NEW b \in 0..(TaskHeader + queue'[i].arg_size - 1)
               PROVE  block'[Slot(i) * TaskSize + b] = queue'[i].task
    BY <1>4 DEF Intact, Slot, TaskSize
  <2>1. TaskAt(tail) = tail * TaskSize /\ tail * TaskSize \in Nat
    BY SlotFound DEF LayoutInv, LayoutTypes
  <2>2. /\ DOMAIN block = BlockBytes
        /\ block' = [c \in DOMAIN block |-> IF c \in Written(arg_size) THEN task ELSE block[c]]
    BY DEF Add, LayoutInv, LayoutTypes
  <2>3. i \in 1..queue_size /\ Slot(i) \in 0..(queue_size - 1)
    BY <1>1, <1>3, QueueSlots DEF LayoutInv
  <2>4. CASE i <= Len(queue)
    <3>1. /\ queue[i] \in Stores /\ queue'[i] = queue[i]
      BY <1>3, <2>4 DEF LayoutInv, LayoutTypes
    <3>2. /\ queue[i].arg_size \in 0..task_arg_size
          /\ b \in 0..(TaskHeader + queue[i].arg_size - 1)
      BY <3>1 DEF Stores
    <3>3. Slot(i) # tail
      BY <1>3, <2>3, <2>4, QueueSlots DEF LayoutInv
    <3>4. Slot(i) * TaskSize + b \in BlockBytes /\ b \in 0..(TaskSize - 1)
      BY <2>3, <3>2, WrittenBytes DEF LayoutInv
    <3>5. Slot(i) * TaskSize + b \notin Written(arg_size)
      <4> SUFFICES ASSUME Slot(i) * TaskSize + b \in Written(arg_size) PROVE FALSE
        OBVIOUS
      <4> DEFINE x == Slot(i) * TaskSize + b
                 y == tail * TaskSize
      <4>1. x \in y..(y + TaskHeader + Stored(arg_size) - 1) /\ y \in Nat
        BY <2>1 DEF Written
      <4>2. x - y \in 0..(TaskHeader + Stored(arg_size) - 1) /\ x \in Int
        <5> HIDE DEF x, y
        <5> QED BY <1>1, <1>2, <4>1
      <4>3. x - y \in 0..(TaskSize - 1)
        <5> HIDE DEF x, y
        <5> QED BY <1>1, <1>2, <4>2 DEF TaskSize
      <4>4. tail \in Nat /\ Slot(i) \in Nat
        BY <1>1, <2>3 DEF LayoutInv, LayoutTypes
      <4>5. x # y + (x - y)
        BY <1>1, <3>3, <3>4, <4>3, <4>4, SlotsApart
      <4>6. x = y + (x - y)
        <5> HIDE DEF x, y
        <5> QED BY <4>1, <4>2
      <4> QED BY <4>5, <4>6
    <3>6. block[Slot(i) * TaskSize + b] = queue[i].task
      BY <1>3, <2>4, <3>2 DEF LayoutInv, Intact
    <3> QED BY <2>2, <3>1, <3>4, <3>5, <3>6
  <2>5. CASE i = Len(queue) + 1
    <3>1. Slot(i) = tail
      BY <1>1, <1>3, <2>5 DEF LayoutInv, LayoutTypes, TailBehind, Slot
    <3>2. queue'[i] = new /\ b \in 0..(TaskHeader + Stored(arg_size) - 1)
      BY <1>3, <2>5
    <3>3. tail * TaskSize + b \in BlockBytes
      BY <1>2, <2>3, <3>1, <3>2, WrittenBytes DEF LayoutInv
    <3>4. tail * TaskSize + b \in Written(arg_size)
      <4> DEFINE y == tail * TaskSize
      <4>1. y \in Nat /\ TaskAt(tail) = y
        BY <2>1
      <4> HIDE DEF y
      <4>2. y + b \in y..(y + TaskHeader + Stored(arg_size) - 1)
        BY <1>1, <1>2, <3>2, <4>1
      <4> QED BY <4>1, <4>2 DEF Written, y
    <3> QED BY <2>2, <3>1, <3>2, <3>3, <3>4
  <2> QED BY <1>3, <2>4, <2>5
<1> QED BY <1>5, <1>6, <1>7 DEF LayoutInv

\* The task at head leaves, and the others move up.
LEMMA TakeLayout == ASSUME LayoutInv, Take PROVE LayoutInv'
<1>1. queue_size \in Nat \ {0} /\ task_arg_size \in Nat
  BY Sizes DEF LayoutInv, LayoutTypes
<1>2. queue # <<>> /\ queue \in Seq(Stores)
  BY DEF Take, LayoutInv, LayoutTypes
<1>3. /\ queue' = Tail(queue) /\ Len(queue') = Len(queue) - 1 /\ Len(queue) \in Nat \ {0}
      /\ queue' \in Seq(Stores) /\ \A i \in 1..Len(queue') : queue'[i] = queue[i + 1]
  BY <1>2 DEF Take
<1>4. head' = (IF head + 1 = queue_size THEN 0 ELSE head + 1)
      /\ UNCHANGED <<queue_size, task_arg_size, tail, block, task>>
  BY DEF Take, Step
<1>5. LayoutTypes'
  <2>1. Stores' = Stores
    BY <1>4 DEF Stores
  <2> QED BY <1>1, <1>3, <1>4, <2>1 DEF LayoutInv, LayoutTypes, BlockBytes
<1>6. TailBehind'
  BY <1>1, <1>3, <1>4 DEF LayoutInv, LayoutTypes, TailBehind
<1>7. ASSUME NEW i \in 1..Len(queue') PROVE Intact(i)'
  <2>1. Slot(i)' = Slot(i + 1)
    BY <1>1, <1>3, <1>4 DEF LayoutInv, LayoutTypes, Slot
  <2>2. Intact(i + 1) /\ queue'[i] = queue[i + 1]
    BY <1>3 DEF LayoutInv
  <2> QED BY <1>4, <2>1, <2>2 DEF Intact, TaskSize
<1> QED BY <1>5, <1>6, <1>7 DEF LayoutInv

LEMMA LayoutStep == OffsetsFit /\ LayoutInv /\ [Next]_vars => LayoutInv'
<1> SUFFICES ASSUME OffsetsFit, LayoutInv, [Next]_vars PROVE LayoutInv'
  OBVIOUS
<1>1. CASE UNCHANGED vars
  BY <1>1 DEF vars, LayoutInv, LayoutTypes, TailBehind, Intact, Slot, TaskSize, Stores, BlockBytes
<1> QED BY <1>1, AddLayout, TakeLayout DEF Next

LEMMA LayoutInvariance == ASSUME OffsetsFit PROVE Spec => []LayoutInv
<1>1. LayoutInv /\ [Next]_vars => LayoutInv'
  BY LayoutStep
<1> QED BY <1>1, LayoutInit, PTL DEF Spec

\* threadpool_add writes to the block of the ring only, and threadpool_run
\* copies from it only, in rings whose offsets an int holds.
THEOREM AccessStaysInBlock == ASSUME OffsetsFit PROVE Spec => []AccessInBlock
<1>1. LayoutInv => AccessInBlock
  <2> SUFFICES ASSUME LayoutInv PROVE AccessInBlock
    OBVIOUS
  <2>1. /\ queue_size \in Nat \ {0} /\ task_arg_size \in Nat /\ TaskSize \in Nat \ {0}
        /\ TaskHeader \in Nat \ {0} /\ RingSize(queue_size, task_arg_size) \in Nat
    BY Sizes DEF LayoutInv, LayoutTypes, RingSize
  <2>2. ASSUME NEW s \in {head, tail}, NEW n \in 0..task_arg_size
        PROVE  TaskAt(s) .. (TaskAt(s) + TaskHeader + n - 1) \subseteq BlockBytes
    <3>1. /\ TaskAt(s) \in Nat
          /\ TaskAt(s) + TaskSize <= RingSize(queue_size, task_arg_size)
      BY SlotFound DEF LayoutInv, LayoutTypes
    <3>2. TaskHeader + n <= TaskSize
      BY <2>1 DEF TaskSize
    <3> QED BY <2>1, <3>1, <3>2 DEF BlockBytes
  <2>3. ASSUME NEW arg_size \in ArgSizes, Fits(arg_size) PROVE Stored(arg_size) \in 0..task_arg_size
    BY <2>1, <2>3, LayoutAssumption DEF Fits, Stored
  <2>4. TaskAt(head) + TaskSize - 1 = TaskAt(head) + TaskHeader + task_arg_size - 1
    <3>1. TaskAt(head) \in Int
      BY <2>1, SlotFound DEF LayoutInv, LayoutTypes
    <3> QED BY <2>1, <3>1 DEF TaskSize
  <2>5. Copied \subseteq BlockBytes
    BY <2>1, <2>2, <2>4 DEF Copied
  <2>6. \A arg_size \in ArgSizes : Fits(arg_size) => Written(arg_size) \subseteq BlockBytes
    BY <2>2, <2>3 DEF Written
  <2> QED BY <2>5, <2>6 DEF AccessInBlock
<1> QED BY <1>1, LayoutInvariance, PTL

\* A queued task keeps its header and its task_arg until it is taken, in rings
\* whose offsets an int holds.
THEOREM QueuedStayIntact == ASSUME OffsetsFit PROVE Spec => []QueuedIntact
<1>1. LayoutInv => QueuedIntact
  <2> SUFFICES ASSUME LayoutInv, NEW i \in 1..Len(queue)
               PROVE  Intact(i) /\ Slot(i) = (head + i - 1) % queue_size
    BY DEF QueuedIntact, Intact
  <2>1. i \in 1..queue_size
    BY Sizes DEF LayoutInv, LayoutTypes
  <2> QED BY <2>1, QueueSlots DEF LayoutInv
<1> QED BY <1>1, LayoutInvariance, PTL

-----------------------------------------------------------------------------
(* The string buffer *)

Byte == Chars \cup {NUL, Unset}

\* The buffer holds the text s, whatever follows it in the block.
Holding(b, s) ==
  /\ \E n \in 1..MaxBlock : b \in Block(n)
  /\ b.len = Len(s)
  /\ \A i \in 1..Len(s) : b.str[i - 1] = s[i]

\* It holds s, and a NUL ends it.
HoldsEnded(b, s) == Holding(b, s) /\ b.str[b.len] = NUL

BufInv ==
  /\ text \in Seq(Chars) /\ Len(text) <= MaxLen /\ pushed \in BOOLEAN
  /\ csb = NoBuffer => text = <<>>
  /\ csb # NoBuffer => IF pushed THEN Holding(csb, text) ELSE HoldsEnded(csb, text)

LEMMA Bufs == \A b, s : Holding(b, s) => b # NoBuffer
BY CstrBufAssumption DEF Holding

LEMMA Aligned ==
  ASSUME NEW n \in Nat
  PROVE  /\ cstrbuf_alignsize(n) \in Nat
         /\ n < cstrbuf_alignsize(n) /\ cstrbuf_alignsize(n) <= n + BlockSize
<1> DEFINE q == (n + BlockSize) \div BlockSize
           m == (n + BlockSize) % BlockSize
<1>1. BlockSize \in Nat /\ BlockSize > 0 BY CstrBufAssumption
<1>2. n + BlockSize = BlockSize * q + m /\ q \in Nat /\ m \in 0..(BlockSize - 1)
  BY <1>1
<1>3. q * BlockSize = BlockSize * q
  BY <1>1, <1>2
<1>4. cstrbuf_alignsize(n) = n + BlockSize - m
  BY <1>1, <1>2, <1>3 DEF cstrbuf_alignsize
<1> QED BY <1>1, <1>2, <1>4

LEMMA TextsAre ==
  ASSUME NEW s \in Texts PROVE s \in Seq(Chars) /\ Len(s) \in 0..MaxLen
<1>1. PICK n \in 0..MaxPiece : s \in [1..n -> Chars] BY DEF Texts
<1>2. n \in Nat /\ n <= MaxLen BY CstrBufAssumption
<1>3. s \in Seq(Chars) BY <1>1, <1>2, SeqDef
<1>4. Len(s) = n BY <1>1, <1>2, <1>3
<1> QED BY <1>2, <1>3, <1>4

\* s is copied to the places from at on, where it has room.
LEMMA CopiedBytes ==
  ASSUME NEW n \in Nat, NEW str \in [0..(n - 1) -> Byte], NEW at \in Nat,
         NEW s \in Seq(Byte), at + Len(s) <= n
  PROVE  /\ memcpy(str, at, s) \in [0..(n - 1) -> Byte]
         /\ \A i \in 0..(n - 1) : memcpy(str, at, s)[i] =
              IF i >= at /\ i < at + Len(s) THEN s[i - at + 1] ELSE str[i]
<1> DEFINE to == at..(at + Len(s) - 1)
<1>1. (DOMAIN str) \cup to = 0..(n - 1) OBVIOUS
<1>2. memcpy(str, at, s)
        = [i \in 0..(n - 1) |-> IF i \in to THEN s[i - at + 1] ELSE str[i]]
  BY <1>1 DEF memcpy
<1>3. \A i \in to : i - at + 1 \in 1..Len(s) /\ s[i - at + 1] \in Byte
  BY ElementOfSeq
<1>4. \A i \in 0..(n - 1) : i \in to <=> i >= at /\ i < at + Len(s)
  OBVIOUS
<1> HIDE DEF to
<1> QED BY <1>2, <1>3, <1>4

\* One byte is written.
LEMMA BytePut ==
  ASSUME NEW n \in Nat, NEW str \in [0..(n - 1) -> Byte], NEW at \in 0..(n - 1), NEW c \in Byte
  PROVE  /\ memcpy(str, at, <<c>>) \in [0..(n - 1) -> Byte]
         /\ memcpy(str, at, <<c>>)[at] = c
         /\ \A i \in 0..(n - 1) : i # at => memcpy(str, at, <<c>>)[i] = str[i]
<1> DEFINE s == <<c>>
<1>1. s \in Seq(Byte) /\ Len(s) = 1 /\ s[1] = c OBVIOUS
<1>2. at \in Nat /\ at + 1 <= n OBVIOUS
<1> HIDE DEF s
<1>3. /\ memcpy(str, at, s) \in [0..(n - 1) -> Byte]
      /\ \A i \in 0..(n - 1) : memcpy(str, at, s)[i] =
           IF i >= at /\ i < at + 1 THEN s[i - at + 1] ELSE str[i]
  <2>1. at + Len(s) <= n BY <1>1, <1>2
  <2>2. /\ memcpy(str, at, s) \in [0..(n - 1) -> Byte]
        /\ \A i \in 0..(n - 1) : memcpy(str, at, s)[i] =
             IF i >= at /\ i < at + Len(s) THEN s[i - at + 1] ELSE str[i]
    BY <1>1, <1>2, <2>1, CopiedBytes
  <2> QED BY <1>1, <2>2
<1>4. memcpy(str, at, s)[at] = c
  <2>1. at - at + 1 = 1 OBVIOUS
  <2> QED BY <1>1, <1>2, <1>3, <2>1
<1>5. \A i \in 0..(n - 1) : i # at => memcpy(str, at, s)[i] = str[i]
  BY <1>2, <1>3
<1> QED BY <1>3, <1>4, <1>5 DEF s

\* r is the n bytes of str with s written from at on, and a NUL behind it, where
\* both have room.
Prints(r, n, str, at, s) ==
  /\ r \in [0..(n - 1) -> Byte]
  /\ \A i \in 0..(at - 1) : r[i] = str[i]
  /\ at + Len(s) < n =>
       /\ \A i \in 1..Len(s) : r[at + i - 1] = s[i]
       /\ r[at + Len(s)] = NUL

\* memcpy of a text with its NUL does so.
LEMMA CopiedEnded ==
  ASSUME NEW n \in Nat, NEW str \in [0..(n - 1) -> Byte], NEW at \in Nat,
         NEW s \in Seq(Chars), at + Len(s) < n,
         NEW r, r = memcpy(str, at, Append(s, NUL))
  PROVE  Prints(r, n, str, at, s)
<1> DEFINE whole == Append(s, NUL)
           k == Len(s)
<1>1. k \in Nat /\ at + k + 1 <= n OBVIOUS
<1>2. s \in Seq(Byte) BY SeqMonotonic, Chars \subseteq Byte DEF Byte
<1>3. /\ whole \in Seq(Byte) /\ Len(whole) = k + 1
      /\ \A i \in 1..k : whole[i] = s[i]
      /\ whole[k + 1] = NUL
  <2>1. NUL \in Byte BY DEF Byte
  <2> QED BY <1>2, <2>1, AppendProperties
<1>4. r = memcpy(str, at, whole) OBVIOUS
<1> HIDE DEF whole, k
<1>5. at + Len(whole) <= n /\ at + Len(whole) = at + k + 1 BY <1>1, <1>3
<1>6. /\ memcpy(str, at, whole) \in [0..(n - 1) -> Byte]
      /\ \A i \in 0..(n - 1) : memcpy(str, at, whole)[i] =
           IF i >= at /\ i < at + Len(whole) THEN whole[i - at + 1] ELSE str[i]
  BY <1>3, <1>5, CopiedBytes
<1>7. /\ r \in [0..(n - 1) -> Byte]
      /\ \A i \in 0..(n - 1) : r[i] =
           IF i >= at /\ i < at + k + 1 THEN whole[i - at + 1] ELSE str[i]
  BY <1>4, <1>5, <1>6
<1>8. \A i \in 0..(at - 1) : r[i] = str[i] BY <1>1, <1>7
<1>9. ASSUME NEW i \in 1..k PROVE r[at + i - 1] = s[i]
  <2> DEFINE j == at + i - 1
  <2>1. j \in 0..(n - 1) /\ j >= at /\ j < at + k + 1 /\ j - at + 1 = i BY <1>1
  <2> HIDE DEF j
  <2>2. r[j] = whole[j - at + 1] BY <1>7, <2>1
  <2>3. r[j] = s[i] BY <1>3, <2>1, <2>2
  <2> QED BY <2>3 DEF j
<1>10. r[at + k] = NUL
  <2> DEFINE i == at + k
  <2>1. i \in 0..(n - 1) /\ i >= at /\ i < at + k + 1 /\ i - at + 1 = k + 1 BY <1>1
  <2> HIDE DEF i
  <2>2. r[i] = whole[i - at + 1] BY <1>7, <2>1
  <2>3. r[i] = NUL BY <1>3, <2>1, <2>2
  <2> QED BY <2>3 DEF i
<1> QED BY <1>7, <1>8, <1>9, <1>10 DEF Prints, k

\* vsnprintf does, where it is told the room there is.
LEMMA Printed ==
  ASSUME NEW n \in Nat, NEW str \in [0..(n - 1) -> Byte], NEW at \in Nat,
         NEW s \in Seq(Chars), at < n, NEW size \in Int, size = n - at,
         NEW r, r = vsnprintf(str, at, size, s)
  PROVE  Prints(r, n, str, at, s)
<1> DEFINE k == IF Len(s) < size THEN Len(s) ELSE size - 1
           piece == SubSeq(s, 1, k)
<1>1. k \in 0..Len(s) /\ at + k < n /\ (at + Len(s) < n => k = Len(s)) OBVIOUS
<1>2. piece \in Seq(Chars) /\ Len(piece) = k /\ \A i \in 1..k : piece[i] = s[i]
  <2>1. piece \in Seq(Chars) BY <1>1, SubSeqProperties
  <2> QED BY <1>1, <2>1, SubSeqProperties
<1>3. r = memcpy(str, at, Append(piece, NUL)) BY DEF vsnprintf
<1> HIDE DEF k, piece
<1>4. at + Len(piece) < n BY <1>1, <1>2
<1>5. Prints(r, n, str, at, piece) BY <1>2, <1>3, <1>4, CopiedEnded, Zenon
<1> QED BY <1>1, <1>2, <1>4, <1>5 DEF Prints

\* A block with s at its start, and its length in the header, holds s.
LEMMA Filled ==
  ASSUME NEW n \in 1..MaxBlock, NEW f \in [0..(n - 1) -> Byte], NEW s \in Seq(Chars),
         Len(s) < n, \A i \in 1..Len(s) : f[i - 1] = s[i],
         NEW b, b = [maxsz |-> n, len |-> Len(s), str |-> f]
  PROVE  Holding(b, s) /\ (f[Len(s)] = NUL => HoldsEnded(b, s))
<1>1. n \in Int /\ Len(s) \in 0..(n - 1) BY CstrBufAssumption DEF MaxBlock
<1>2. b \in Block(n) BY <1>1 DEF Block, Byte
<1> QED BY <1>2 DEF Holding, HoldsEnded

\* What a buffer that holds s is made of.
LEMMA Header ==
  ASSUME NEW b, NEW s \in Seq(Chars), Holding(b, s)
  PROVE  /\ b.maxsz \in 1..MaxBlock /\ b.maxsz \in Nat /\ b.maxsz > 0
         /\ b.len = Len(s) /\ b.len \in Nat /\ b.len < b.maxsz
         /\ b.str \in [0..(b.maxsz - 1) -> Byte]
         /\ \A i \in 1..Len(s) : b.str[i - 1] = s[i]
<1>1. PICK n \in 1..MaxBlock : b \in Block(n) BY DEF Holding
<1>2. n \in Nat /\ n > 0 BY CstrBufAssumption DEF MaxBlock
<1>3. b = [maxsz |-> n, len |-> b.len, str |-> b.str] /\ b.maxsz = n
  BY <1>1 DEF Block
<1>4. b.str \in [0..(n - 1) -> Byte] /\ b.len \in 0..(n - 1)
  BY <1>1 DEF Block, Byte
<1> QED BY <1>2, <1>3, <1>4 DEF Holding

\* The calls write the length and the bytes.
LEMMA WrittenBack ==
  ASSUME NEW b, NEW s, Holding(b, s), NEW l, NEW f
  PROVE  [b EXCEPT !.len = l, !.str = f] = [maxsz |-> b.maxsz, len |-> l, str |-> f]
<1>1. PICK n \in 1..MaxBlock : b \in Block(n) BY DEF Holding
<1>2. PICK x, y : b = [maxsz |-> n, len |-> x, str |-> y] BY <1>1 DEF Block
<1>3. [b EXCEPT !.len = l] = [maxsz |-> n, len |-> l, str |-> y] BY <1>2
<1>4. [[maxsz |-> n, len |-> l, str |-> y] EXCEPT !.str = f]
        = [maxsz |-> n, len |-> l, str |-> f]
  OBVIOUS
<1>5. [b EXCEPT !.len = l, !.str = f] = [[b EXCEPT !.len = l] EXCEPT !.str = f]
  BY Zenon
<1>6. b.maxsz = n BY <1>2
<1> QED BY <1>3, <1>4, <1>5, <1>6

LEMMA Made ==
  ASSUME NEW s \in Seq(Chars), Len(s) <= MaxLen, NEW maxsz \in 0..(MaxLen + 1)
  PROVE  /\ HoldsEnded(cstrbufNew(maxsz, s), s)
         /\ maxsz # 0 => cstrbufNew(maxsz, s).maxsz > maxsz
<1> DEFINE wanted == IF maxsz <= Len(s) THEN Len(s) + 1 ELSE maxsz
           size == IF maxsz = 0 THEN Len(s) + 1 ELSE cstrbuf_alignsize(wanted)
           zeros == [i \in 0..(size - 1) |-> NUL]
           f == memcpy(zeros, 0, s)
           b == cstrbufNew(maxsz, s)
<1>1. MaxLen \in Nat /\ BlockSize \in Nat /\ MaxBlock = MaxLen + 1 + BlockSize
  BY CstrBufAssumption DEF MaxBlock
<1>2. wanted \in Nat /\ wanted <= MaxLen + 1 /\ wanted > Len(s) /\ wanted >= maxsz
  BY <1>1
<1> HIDE DEF wanted
<1>3. size \in 1..MaxBlock /\ Len(s) < size /\ (maxsz # 0 => size > maxsz)
  <2>1. CASE maxsz = 0 BY <1>1, <2>1
  <2>2. CASE maxsz # 0
    <3>1. size = cstrbuf_alignsize(wanted) BY <2>2
    <3>2. size \in Nat /\ wanted < size /\ size <= wanted + BlockSize BY <1>2, <3>1, Aligned
    <3> HIDE DEF size
    <3>3. Len(s) \in Nat OBVIOUS
    <3> QED BY <1>1, <1>2, <3>2, <3>3
  <2> QED BY <2>1, <2>2
<1>4. b = [maxsz |-> size, len |-> Len(s), str |-> f]
  BY DEF cstrbufNew, wanted
<1> HIDE DEF size, b
<1>5. size \in Nat /\ s \in Seq(Byte)
  BY <1>1, <1>3, SeqMonotonic, Chars \subseteq Byte DEF Byte
<1>6. zeros \in [0..(size - 1) -> Byte]
  BY DEF Byte
<1>7. \A i \in 0..(size - 1) : zeros[i] = NUL OBVIOUS
<1> HIDE DEF zeros
<1>8. /\ f \in [0..(size - 1) -> Byte]
      /\ \A i \in 0..(size - 1) : f[i] =
           IF i >= 0 /\ i < 0 + Len(s) THEN s[i - 0 + 1] ELSE zeros[i]
  BY <1>3, <1>5, <1>6, CopiedBytes
<1> HIDE DEF f
<1>9. \A i \in 1..Len(s) : f[i - 1] = s[i]
  <2> TAKE i \in 1..Len(s)
  <2>1. i - 1 \in 0..(size - 1) /\ i - 1 >= 0 /\ i - 1 < 0 + Len(s) /\ i - 1 - 0 + 1 = i
    BY <1>3, <1>5
  <2> QED BY <1>8, <2>1
<1>10. f[Len(s)] = NUL
  BY <1>3, <1>5, <1>7, <1>8
<1>11. HoldsEnded(b, s)
  BY <1>3, <1>4, <1>8, <1>9, <1>10, Filled
<1> QED BY <1>3, <1>4, <1>11 DEF b

\* The text t of the buffer, s behind it.
LEMMA Joined ==
  ASSUME NEW t \in Seq(Chars), NEW s \in Seq(Chars), NEW f,
         \A i \in 1..Len(t) : f[i - 1] = t[i],
         \A i \in 1..Len(s) : f[Len(t) + i - 1] = s[i]
  PROVE  /\ t \o s \in Seq(Chars) /\ Len(t \o s) = Len(t) + Len(s)
         /\ \A i \in 1..Len(t \o s) : f[i - 1] = (t \o s)[i]
<1>1. /\ t \o s \in Seq(Chars) /\ Len(t \o s) = Len(t) + Len(s)
      /\ \A i \in 1..Len(t \o s) : (t \o s)[i] = IF i <= Len(t) THEN t[i] ELSE s[i - Len(t)]
  BY ConcatProperties
<1>2. ASSUME NEW i \in 1..(Len(t) + Len(s)), i > Len(t) PROVE f[i - 1] = s[i - Len(t)]
  <2>1. i - Len(t) \in 1..Len(s) /\ Len(t) + (i - Len(t)) - 1 = i - 1 BY <1>2
  <2> QED BY <2>1
<1> QED BY <1>1, <1>2

LEMMA CatToNone ==
  ASSUME NEW s \in Seq(Chars), Len(s) <= MaxLen
  PROVE  HoldsEnded(cstrbufCat(NoBuffer, s), s)
<1> DEFINE new == cstrbufNew(Len(s) + 1, <<>>)
           f == vsnprintf(new.str, 0, new.maxsz, s)
           b == cstrbufCat(NoBuffer, s)
<1>1. Len(s) \in Nat /\ MaxLen \in Nat /\ Len(s) + 1 \in 0..(MaxLen + 1)
  BY CstrBufAssumption
<1>2. <<>> \in Seq(Chars) /\ Len(<<>>) = 0 OBVIOUS
<1>3. HoldsEnded(new, <<>>) /\ new.maxsz > Len(s) + 1
  <2>1. Len(s) + 1 # 0 /\ Len(<<>>) <= MaxLen BY <1>1
  <2> QED BY <1>1, <1>2, <2>1, Made
<1>4. b = [new EXCEPT !.len = Len(s), !.str = f]
  BY DEF cstrbufCat
<1> HIDE DEF new, b
<1>5. Holding(new, <<>>) BY <1>3 DEF HoldsEnded
<1>6. /\ new.maxsz \in 1..MaxBlock /\ new.maxsz \in Nat /\ new.maxsz > 0
      /\ new.str \in [0..(new.maxsz - 1) -> Byte]
      /\ b = [maxsz |-> new.maxsz, len |-> Len(s), str |-> f]
  BY <1>2, <1>4, <1>5, Header, WrittenBack
<1>7. new.maxsz - 0 = new.maxsz /\ Len(s) < new.maxsz BY <1>1, <1>3, <1>6
<1>8. /\ f \in [0..(new.maxsz - 1) -> Byte]
      /\ \A i \in 1..Len(s) : f[0 + i - 1] = s[i]
      /\ f[0 + Len(s)] = NUL
  <2> DEFINE room == new.maxsz
  <2>1. room = new.maxsz - 0 /\ room \in Int BY <1>6
  <2>2. f = vsnprintf(new.str, 0, room, s) OBVIOUS
  <2>3. /\ 0 \in Nat /\ new.maxsz \in Nat /\ new.str \in [0..(new.maxsz - 1) -> Byte]
        /\ 0 < new.maxsz
    BY <1>6
  <2> HIDE DEF room, f
  <2>4. Prints(f, new.maxsz, new.str, 0, s)
    BY <2>1, <2>2, <2>3, Printed, Zenon
  <2>5. 0 + Len(s) < new.maxsz BY <1>1, <1>7
  <2> QED BY <2>4, <2>5 DEF Prints
<1> HIDE DEF f
<1>9. (\A i \in 1..Len(s) : f[i - 1] = s[i]) /\ f[Len(s)] = NUL
  BY <1>1, <1>8
<1> QED BY <1>6, <1>7, <1>8, <1>9, Filled DEF b

LEMMA CatToText ==
  ASSUME NEW d, NEW t \in Seq(Chars), Holding(d, t), NEW s \in Seq(Chars),
         Len(t) + Len(s) <= MaxLen
  PROVE  HoldsEnded(cstrbufCat(d, s), t \o s)
<1> DEFINE b == cstrbufCat(d, s)
           m == d.maxsz
           tried == vsnprintf(d.str, d.len, m - d.len, s)
           size == cstrbuf_alignsize(d.len + Len(s) + 1)
           grown == [i \in 0..(size - 1) |-> IF i < m THEN tried[i] ELSE Unset]
           kept == memcpy(tried, d.len + Len(s), <<NUL>>)
           again == vsnprintf(grown, d.len, size - d.len, s)
<1>1. /\ m \in 1..MaxBlock /\ m \in Nat /\ m > 0
      /\ d.len = Len(t) /\ d.len \in Nat /\ d.len < m
      /\ d.str \in [0..(m - 1) -> Byte]
      /\ \A i \in 1..Len(t) : d.str[i - 1] = t[i]
  BY Header
<1>2. b = [maxsz |-> IF d.len + Len(s) < m THEN m ELSE size, len |-> d.len + Len(s),
           str |-> IF d.len + Len(s) < m THEN kept ELSE again]
  <2>1. d # NoBuffer BY Bufs
  <2>2. b = IF d.len + Len(s) < m
            THEN [d EXCEPT !.len = d.len + Len(s), !.str = kept]
            ELSE [maxsz |-> size, len |-> d.len + Len(s), str |-> again]
    BY <2>1 DEF cstrbufCat, HasRoom
  <2>3. [d EXCEPT !.len = d.len + Len(s), !.str = kept]
          = [maxsz |-> m, len |-> d.len + Len(s), str |-> kept]
    BY WrittenBack
  <2> QED BY <2>2, <2>3
<1> HIDE DEF m, b
<1>3. /\ tried \in [0..(m - 1) -> Byte]
      /\ \A i \in 0..(d.len - 1) : tried[i] = d.str[i]
      /\ d.len + Len(s) < m =>
           /\ \A i \in 1..Len(s) : tried[d.len + i - 1] = s[i]
           /\ tried[d.len + Len(s)] = NUL
  <2> DEFINE room == m - d.len
  <2>1. room = m - d.len /\ room \in Int BY <1>1
  <2>2. tried = vsnprintf(d.str, d.len, room, s) OBVIOUS
  <2>3. /\ d.len \in Nat /\ m \in Nat /\ d.str \in [0..(m - 1) -> Byte]
        /\ d.len < m
    BY <1>1
  <2> HIDE DEF room, tried
  <2>4. Prints(tried, m, d.str, d.len, s) BY <2>1, <2>2, <2>3, Printed, Zenon
  <2> QED BY <2>4 DEF Prints
<1> HIDE DEF tried
<1>4. Len(s) \in Nat OBVIOUS
<1>5. \A i \in 1..Len(t) : tried[i - 1] = t[i]
  <2>1. SUFFICES ASSUME NEW i \in 1..Len(t) PROVE tried[i - 1] = t[i]
    OBVIOUS
  <2>2. i - 1 \in 0..(d.len - 1) BY <1>1
  <2>3. tried[i - 1] = d.str[i - 1] BY <1>3, <2>2
  <2>4. d.str[i - 1] = t[i] BY <1>1, <2>1
  <2> QED BY <2>3, <2>4
<1>6. CASE d.len + Len(s) < m
  <2>1. NUL \in Byte /\ d.len + Len(s) \in 0..(m - 1) BY <1>1, <1>4, <1>6 DEF Byte
  <2>2. /\ kept \in [0..(m - 1) -> Byte]
        /\ kept[d.len + Len(s)] = NUL
        /\ \A i \in 0..(m - 1) : i # d.len + Len(s) => kept[i] = tried[i]
    BY <1>1, <1>3, <2>1, BytePut
  <2> HIDE DEF kept
  <2>3. \A i \in 0..(d.len + Len(s) - 1) : kept[i] = tried[i]
    BY <1>1, <1>4, <1>6, <2>2
  <2>4. kept[d.len + Len(s)] = NUL
    BY <2>2
  <2>5. \A i \in 1..Len(t) : kept[i - 1] = t[i]
    BY <1>1, <1>4, <1>5, <2>3
  <2>6. \A i \in 1..Len(s) : kept[Len(t) + i - 1] = s[i]
    <3> TAKE i \in 1..Len(s)
    <3>1. d.len + i - 1 \in 0..(d.len + Len(s) - 1) BY <1>1, <1>4
    <3>2. kept[d.len + i - 1] = s[i] BY <1>3, <1>6, <2>3, <3>1
    <3> QED BY <1>1, <3>2
  <2>7. /\ t \o s \in Seq(Chars) /\ Len(t \o s) = Len(t) + Len(s)
        /\ \A i \in 1..Len(t \o s) : kept[i - 1] = (t \o s)[i]
    BY <2>5, <2>6, Joined
  <2>8. b = [maxsz |-> m, len |-> Len(t \o s), str |-> kept]
    BY <1>1, <1>2, <1>6, <2>7
  <2> QED BY <1>1, <1>6, <2>2, <2>4, <2>7, <2>8, Filled DEF b
<1>7. CASE ~ d.len + Len(s) < m
  <2>1. /\ size \in Nat /\ d.len + Len(s) + 1 < size /\ size \in 1..MaxBlock
        /\ m < size
    <3> DEFINE least == d.len + Len(s) + 1
    <3>1. least \in Nat /\ m < least + 1 BY <1>1, <1>4, <1>7
    <3>2. least <= MaxLen + 1 BY <1>1, <1>4, CstrBufAssumption
    <3>3. size = cstrbuf_alignsize(least) OBVIOUS
    <3> HIDE DEF least, size
    <3>4. size \in Nat /\ least < size /\ size <= least + BlockSize BY <3>1, <3>3, Aligned
    <3>5. size \in 1..MaxBlock /\ m < size
      BY <1>1, <3>1, <3>2, <3>4, CstrBufAssumption DEF MaxBlock
    <3> QED BY <3>4, <3>5 DEF least
  <2> HIDE DEF size
  <2>2. grown \in [0..(size - 1) -> Byte] /\ \A i \in 0..(m - 1) : grown[i] = tried[i]
    BY <1>1, <1>3, <2>1 DEF Byte
  <2> HIDE DEF grown
  <2>3. /\ again \in [0..(size - 1) -> Byte]
        /\ \A i \in 0..(d.len - 1) : again[i] = grown[i]
        /\ \A i \in 1..Len(s) : again[d.len + i - 1] = s[i]
        /\ again[d.len + Len(s)] = NUL
    <3> DEFINE room == size - d.len
    <3>1. room = size - d.len /\ room \in Int BY <1>1, <2>1
    <3>2. again = vsnprintf(grown, d.len, room, s) OBVIOUS
    <3>3. d.len < size /\ d.len + Len(s) < size /\ d.len \in Nat BY <1>1, <1>4, <2>1
    <3> HIDE DEF room, again
    <3>4. Prints(again, size, grown, d.len, s)
      BY <2>1, <2>2, <3>1, <3>2, <3>3, Printed, Zenon
    <3> QED BY <3>3, <3>4 DEF Prints
  <2> HIDE DEF again
  <2>4. \A i \in 1..Len(t) : again[i - 1] = t[i]
    <3> TAKE i \in 1..Len(t)
    <3>1. i - 1 \in 0..(d.len - 1) /\ i - 1 \in 0..(m - 1) BY <1>1
    <3> QED BY <1>5, <2>2, <2>3, <3>1
  <2>5. /\ t \o s \in Seq(Chars) /\ Len(t \o s) = Len(t) + Len(s)
        /\ \A i \in 1..Len(t \o s) : again[i - 1] = (t \o s)[i]
    <3>1. \A i \in 1..Len(s) : again[Len(t) + i - 1] = s[i] BY <1>1, <2>3
    <3> QED BY <2>4, <3>1, Joined
  <2>6. b = [maxsz |-> size, len |-> Len(t \o s), str |-> again]
    BY <1>1, <1>2, <1>7, <2>5
  <2>7. Len(t \o s) < size BY <1>1, <1>4, <2>1, <2>5
  <2> QED BY <1>1, <2>1, <2>3, <2>5, <2>6, <2>7, Filled DEF b
<1> QED BY <1>6, <1>7

-----------------------------------------------------------------------------
(* What is read back *)

LEMMA Contents ==
  ASSUME NEW b, NEW s \in Seq(Chars), Holding(b, s)
  PROVE  Content(b) = s
<1>1. b # NoBuffer BY Bufs
<1>2. b.len = Len(s) /\ \A i \in 1..Len(s) : b.str[i - 1] = s[i] BY Header
<1>3. Content(b) = [i \in 1..Len(s) |-> s[i]] BY <1>1, <1>2 DEF Content
<1>4. s = [i \in 1..Len(s) |-> s[i]] BY LenProperties
<1> QED BY <1>3, <1>4

\* The first NUL ends the C string.
LEMMA CStrings ==
  ASSUME NEW b, NEW m \in Nat, b.str \in [0..(m - 1) -> Byte], NEW s \in Seq(Chars),
         Len(s) < m, \A i \in 1..Len(s) : b.str[i - 1] = s[i], b.str[Len(s)] = NUL
  PROVE  CString(b) = s
<1> DEFINE ends == {i \in DOMAIN b.str : b.str[i] = NUL}
           n == CHOOSE i \in ends : \A j \in ends : i <= j
<1>1. DOMAIN b.str = 0..(m - 1) /\ Len(s) \in Nat OBVIOUS
<1>2. Len(s) \in ends BY <1>1
<1>3. ASSUME NEW j \in ends PROVE Len(s) <= j
  <2>1. j \in 0..(m - 1) /\ b.str[j] = NUL BY <1>1
  <2>2. ASSUME j < Len(s) PROVE FALSE
    <3>1. j + 1 \in 1..Len(s) /\ j + 1 - 1 = j BY <1>1, <2>1, <2>2
    <3>2. b.str[j] = s[j + 1] /\ s[j + 1] \in Chars BY <3>1, ElementOfSeq
    <3> QED BY <2>1, <3>2, CstrBufAssumption
  <2> QED BY <1>1, <2>1, <2>2
<1>4. ends \subseteq Int BY <1>1
<1> HIDE DEF ends
<1>5. n \in ends /\ \A j \in ends : n <= j BY <1>2, <1>3
<1>6. CString(b) = [i \in 1..n |-> b.str[i - 1]] BY DEF CString, ends
<1> HIDE DEF n
<1>7. n = Len(s)
  <2>1. n \in Int /\ Len(s) \in Int BY <1>1, <1>4, <1>5
  <2>2. n <= Len(s) /\ Len(s) <= n BY <1>2, <1>3, <1>5
  <2> QED BY <2>1, <2>2
<1>8. s = [i \in 1..Len(s) |-> s[i]] BY LenProperties
<1> QED BY <1>6, <1>7, <1>8

LEMMA EndedReads ==
  ASSUME NEW b, NEW s \in Seq(Chars), HoldsEnded(b, s)
  PROVE  CString(b) = s
<1>1. Holding(b, s) BY DEF HoldsEnded
<1> QED BY <1>1, Header, CStrings DEF HoldsEnded

-----------------------------------------------------------------------------
(* The calls *)

\* cstrbufCat whatever the program has.
LEMMA Cat ==
  ASSUME BufInv, NEW s \in Seq(Chars), Len(text) + Len(s) <= MaxLen
  PROVE  HoldsEnded(cstrbufCat(csb, s), text \o s)
<1>1. CASE csb = NoBuffer
  <2>1. text = <<>> /\ text \o s = s BY <1>1 DEF BufInv
  <2>2. Len(s) <= MaxLen BY <2>1
  <2> QED BY <1>1, <2>1, <2>2, CatToNone
<1>2. CASE csb # NoBuffer
  <2>1. Holding(csb, text) /\ text \in Seq(Chars) BY <1>2 DEF BufInv, HoldsEnded
  <2> QED BY <2>1, CatToText
<1> QED BY <1>1, <1>2

LEMMA Concat ==
  ASSUME BufInv, NEW s \in Seq(Chars), Len(text) + Len(s) <= MaxLen
  PROVE  HoldsEnded(cstrbufConcat(csb, cstrbufNew(0, s)), text \o s)
<1>1. text \in Seq(Chars) /\ Len(text) \in Nat /\ Len(s) \in Nat /\ MaxLen \in Nat
  BY CstrBufAssumption DEF BufInv
<1>2. Len(s) <= MaxLen /\ Len(text) <= MaxLen /\ 0 \in 0..(MaxLen + 1) BY <1>1
<1>3. Content(csb) = text
  <2>1. CASE csb = NoBuffer BY <2>1 DEF BufInv, Content
  <2>2. CASE csb # NoBuffer
    <3>1. Holding(csb, text) BY <2>2 DEF BufInv, HoldsEnded
    <3> QED BY <1>1, <3>1, Contents
  <2> QED BY <2>1, <2>2
<1>4. Content(cstrbufNew(0, s)) = s
  <2>1. Holding(cstrbufNew(0, s), s) BY <1>2, Made DEF HoldsEnded
  <2> QED BY <2>1, Contents
<1>5. Holding(cstrbufCat(NoBuffer, text), text) BY <1>1, <1>2, CatToNone DEF HoldsEnded
<1>6. HoldsEnded(cstrbufCat(cstrbufCat(NoBuffer, text), s), text \o s)
  BY <1>1, <1>5, CatToText
<1> QED BY <1>3, <1>4, <1>6 DEF cstrbufConcat

LEMMA Trunc ==
  ASSUME NEW b, NEW t \in Seq(Chars), Holding(b, t), NEW len \in Nat, len < Len(t)
  PROVE  HoldsEnded(cstrbufTrunc(b, len), SubSeq(t, 1, len))
<1> DEFINE s == SubSeq(t, 1, len)
           f == memcpy(b.str, len, <<NUL>>)
<1>1. s \in Seq(Chars) /\ Len(s) = len /\ \A i \in 1..len : s[i] = t[i]
  <2>1. s \in Seq(Chars) BY SubSeqProperties
  <2> QED BY <2>1, SubSeqProperties
<1>2. /\ b.maxsz \in 1..MaxBlock /\ b.maxsz \in Nat /\ b.len = Len(t) /\ b.len < b.maxsz
      /\ b.str \in [0..(b.maxsz - 1) -> Byte]
      /\ \A i \in 1..Len(t) : b.str[i - 1] = t[i]
  BY Header
<1>3. cstrbufTrunc(b, len) = [maxsz |-> b.maxsz, len |-> len, str |-> f]
  <2>1. cstrbufTrunc(b, len) = [b EXCEPT !.len = len, !.str = f] BY <1>2 DEF cstrbufTrunc
  <2> QED BY <2>1, WrittenBack
<1>4. len \in 0..(b.maxsz - 1) /\ NUL \in Byte BY <1>2 DEF Byte
<1>5. /\ f \in [0..(b.maxsz - 1) -> Byte] /\ f[len] = NUL
      /\ \A i \in 0..(b.maxsz - 1) : i # len => f[i] = b.str[i]
  BY <1>2, <1>4, BytePut
<1> HIDE DEF s, f
<1>6. \A i \in 1..len : f[i - 1] = s[i]
  <2> TAKE i \in 1..len
  <2>1. i - 1 \in 0..(b.maxsz - 1) /\ i - 1 # len /\ i \in 1..Len(t) BY <1>2
  <2> QED BY <1>1, <1>2, <1>5, <2>1
<1>7. Len(s) < b.maxsz BY <1>1, <1>2
<1>8. HoldsEnded(cstrbufTrunc(b, len), s)
  BY <1>1, <1>2, <1>3, <1>5, <1>6, <1>7, Filled
<1> QED BY <1>8 DEF s

LEMMA Dup ==
  ASSUME NEW b, NEW t \in Seq(Chars), b # NoBuffer => Holding(b, t),
         NEW s \in Seq(Chars), Len(s) <= MaxLen
  PROVE  HoldsEnded(cstrbufDup(b, s), s)
<1>1. CASE b # NoBuffer /\ b.maxsz > Len(s)
  <2> DEFINE f == memcpy(b.str, 0, Append(s, NUL))
  <2>1. Holding(b, t) BY <1>1
  <2>2. /\ b.maxsz \in 1..MaxBlock /\ b.maxsz \in Nat
        /\ b.str \in [0..(b.maxsz - 1) -> Byte]
    BY <2>1, Header
  <2>3. cstrbufDup(b, s) = [maxsz |-> b.maxsz, len |-> Len(s), str |-> f]
    <3>1. cstrbufDup(b, s) = [b EXCEPT !.len = Len(s), !.str = f] BY <1>1 DEF cstrbufDup
    <3> QED BY <2>1, <3>1, WrittenBack
  <2>4. f = memcpy(b.str, 0, Append(s, NUL)) /\ 0 \in Nat OBVIOUS
  <2>5. 0 + Len(s) < b.maxsz /\ Len(s) \in Nat /\ Len(s) < b.maxsz BY <1>1, <2>2
  <2> HIDE DEF f
  <2>6. Prints(f, b.maxsz, b.str, 0, s) BY <2>2, <2>4, <2>5, CopiedEnded, Zenon
  <2>7. /\ f \in [0..(b.maxsz - 1) -> Byte] /\ f[Len(s)] = NUL
        /\ \A i \in 1..Len(s) : f[i - 1] = s[i]
    BY <2>5, <2>6 DEF Prints
  <2> QED BY <2>2, <2>3, <2>5, <2>7, Filled
<1>2. CASE ~(b # NoBuffer /\ b.maxsz > Len(s))
  <2>1. cstrbufDup(b, s) = cstrbufNew(0, s) BY <1>2 DEF cstrbufDup
  <2>2. 0 \in 0..(MaxLen + 1) BY CstrBufAssumption
  <2> QED BY <2>1, <2>2, Made
<1> QED BY <1>1, <1>2

\* The start and the end of the text stay, and substr is between them.
LEMMA Sub ==
  ASSUME NEW t \in Seq(Chars), NEW start \in 0..Len(t), NEW length \in 0..(Len(t) - start),
         NEW s \in Seq(Chars), Len(t) - length + Len(s) <= MaxLen
  PROVE  /\ HoldsEnded(cstrbufSub(t, start, length, s),
                       SubSeq(t, 1, start) \o s \o SubSeq(t, start + length + 1, Len(t)))
         /\ Len(SubSeq(t, 1, start) \o s \o SubSeq(t, start + length + 1, Len(t)))
              = Len(t) - length + Len(s)
<1> DEFINE front == SubSeq(t, 1, start)
           end == SubSeq(t, start + length + 1, Len(t))
           n == Len(t) - length + Len(s)
           new == cstrbufNew(n + 1, front)
           rest == s \o end
           f == memcpy(new.str, start, s \o end \o <<NUL>>)
           b == cstrbufSub(t, start, length, s)
<1>1. Len(t) \in Nat /\ Len(s) \in Nat /\ MaxLen \in Nat /\ n \in Nat /\ start <= n
  BY CstrBufAssumption
<1>2. front \in Seq(Chars) /\ Len(front) = start
  <2>1. front \in Seq(Chars) BY SubSeqProperties
  <2> QED BY <2>1, SubSeqProperties
<1>3. end \in Seq(Chars) /\ Len(end) = Len(t) - start - length
  <2>1. start + length + 1 \in 1..(Len(t) + 1) BY <1>1
  <2>2. end \in Seq(Chars) BY <2>1, SubSeqProperties
  <2> QED BY <1>1, <2>1, <2>2, SubSeqProperties
<1>4. b = [new EXCEPT !.len = n, !.str = f]
  BY DEF cstrbufSub
<1> HIDE DEF front, end, b
<1>5. rest \in Seq(Chars) /\ Len(rest) = Len(s) + Len(end)
  BY <1>3, ConcatProperties
<1>6. s \o end \o <<NUL>> = Append(rest, NUL)
  BY <1>3, <1>5, AppendIsConcat
<1>7. front \o rest = front \o s \o end
  <2>1. /\ front \in Seq(Chars) /\ s \in Seq(Chars) /\ end \in Seq(Chars)
    BY <1>2, <1>3
  <2>2. (front \o s) \o end = front \o (s \o end) 
    BY <2>1, ConcatAssociative, SMTT(60)
  <2> QED BY <2>2
<1> HIDE DEF rest
<1>8. start + Len(rest) = n BY <1>1, <1>3, <1>5
<1>9. HoldsEnded(new, front) /\ new.maxsz > n + 1
  <2>1. n + 1 \in 0..(MaxLen + 1) /\ n + 1 # 0 BY <1>1
  <2>2. Len(front) <= MaxLen BY <1>1, <1>2
  <2> HIDE DEF n
  <2> QED BY <1>2, <2>1, <2>2, Made
<1> HIDE DEF new, n
<1>10. Holding(new, front) BY <1>9 DEF HoldsEnded
<1>11. /\ new.maxsz \in 1..MaxBlock /\ new.maxsz \in Nat
       /\ new.str \in [0..(new.maxsz - 1) -> Byte]
       /\ \A i \in 1..start : new.str[i - 1] = front[i]
       /\ b = [maxsz |-> new.maxsz, len |-> n, str |-> f]
  BY <1>2, <1>4, <1>10, Header, WrittenBack
<1>12. f = memcpy(new.str, start, Append(rest, NUL)) BY <1>6
<1> HIDE DEF f
<1>13. start + Len(rest) < new.maxsz /\ start \in Nat BY <1>1, <1>8, <1>9, <1>11
<1>14. Prints(f, new.maxsz, new.str, start, rest)
  BY <1>5, <1>11, <1>12, <1>13, CopiedEnded, Zenon
<1>15. /\ f \in [0..(new.maxsz - 1) -> Byte] /\ f[n] = NUL
       /\ \A i \in 0..(start - 1) : f[i] = new.str[i]
       /\ \A i \in 1..Len(rest) : f[start + i - 1] = rest[i]
  BY <1>8, <1>13, <1>14 DEF Prints
<1>16. \A i \in 1..Len(front) : f[i - 1] = front[i]
  <2> TAKE i \in 1..Len(front)
  <2>1. i - 1 \in 0..(start - 1) /\ i \in 1..start BY <1>2, <1>13
  <2> QED BY <1>11, <1>15, <2>1
<1>17. \A i \in 1..Len(rest) : f[Len(front) + i - 1] = rest[i] BY <1>2, <1>15
<1>18. /\ front \o rest \in Seq(Chars) /\ Len(front \o rest) = n
       /\ \A i \in 1..Len(front \o rest) : f[i - 1] = (front \o rest)[i]
  <2>1. Len(front) + Len(rest) = n BY <1>2, <1>8
  <2>2. /\ front \o rest \in Seq(Chars) /\ Len(front \o rest) = Len(front) + Len(rest)
        /\ \A i \in 1..Len(front \o rest) : f[i - 1] = (front \o rest)[i]
    <3>1. front \in Seq(Chars) /\ rest \in Seq(Chars) BY <1>2, <1>5
    <3> QED BY <3>1, <1>16, <1>17, Joined
  <2> QED BY <2>1, <2>2
<1>19. HoldsEnded(b, front \o rest)
  <2>1. n < new.maxsz BY <1>8, <1>13
  <2> QED BY <1>11, <1>15, <1>18, <2>1, Filled
<1> QED BY <1>7, <1>18, <1>19 DEF b, front, end, n

LEMMA PushBack ==
  ASSUME NEW b, NEW t \in Seq(Chars), Holding(b, t), HasRoom(b, 1), NEW ch \in Chars
  PROVE  Holding(cstrbufPushBack(b, ch), Append(t, ch))
<1> DEFINE f == memcpy(b.str, b.len, <<ch>>)
           s == Append(t, ch)
<1>1. /\ b.maxsz \in 1..MaxBlock /\ b.maxsz \in Nat
      /\ b.len = Len(t) /\ b.len \in Nat /\ b.len + 1 < b.maxsz
      /\ b.str \in [0..(b.maxsz - 1) -> Byte]
      /\ \A i \in 1..Len(t) : b.str[i - 1] = t[i]
  BY Header DEF HasRoom
<1>2. /\ s \in Seq(Chars) /\ Len(s) = Len(t) + 1 /\ s[Len(t) + 1] = ch
      /\ \A i \in 1..Len(t) : s[i] = t[i]
  BY AppendProperties
<1>3. cstrbufPushBack(b, ch) = [maxsz |-> b.maxsz, len |-> Len(s), str |-> f]
  <2>1. b # NoBuffer BY Bufs
  <2>2. cstrbufPushBack(b, ch) = [b EXCEPT !.len = b.len + 1, !.str = f]
    BY <2>1 DEF cstrbufPushBack
  <2>3. b.len + 1 = Len(s) BY <1>1, <1>2
  <2> QED BY <2>2, <2>3, WrittenBack
<1>4. b.len \in 0..(b.maxsz - 1) /\ ch \in Byte BY <1>1 DEF Byte
<1>5. /\ f \in [0..(b.maxsz - 1) -> Byte] /\ f[b.len] = ch
      /\ \A i \in 0..(b.maxsz - 1) : i # b.len => f[i] = b.str[i]
  <2> DEFINE at == b.len
  <2>1. at \in 0..(b.maxsz - 1) BY <1>4
  <2> HIDE DEF at
  <2>2. /\ memcpy(b.str, at, <<ch>>) \in [0..(b.maxsz - 1) -> Byte]
        /\ memcpy(b.str, at, <<ch>>)[at] = ch
        /\ \A i \in 0..(b.maxsz - 1) : i # at => memcpy(b.str, at, <<ch>>)[i] = b.str[i]
    BY <1>1, <1>4, <2>1, BytePut
  <2> QED BY <2>2 DEF at
<1> HIDE DEF f, s
<1>6. \A i \in 1..Len(s) : f[i - 1] = s[i]
  <2> TAKE i \in 1..Len(s)
  <2>1. CASE i \in 1..Len(t)
    <3>1. i - 1 \in 0..(b.maxsz - 1) /\ i - 1 # b.len BY <1>1, <2>1
    <3> QED BY <1>1, <1>2, <1>5, <2>1, <3>1
  <2>2. CASE i = Len(t) + 1
    <3>1. i - 1 = b.len BY <1>1, <2>2
    <3> QED BY <1>2, <1>5, <2>2, <3>1
  <2> QED BY <1>1, <1>2, <2>1, <2>2
<1>7. Len(s) < b.maxsz BY <1>1, <1>2
<1>8. Holding(cstrbufPushBack(b, ch), s)
  BY <1>1, <1>2, <1>3, <1>5, <1>6, <1>7, Filled
<1> QED BY <1>8 DEF s

\* There is a last one among places of a text.
LEMMA LastOne ==
  ASSUME NEW n \in Nat, NEW at \in SUBSET (1..n), at # {}
  PROVE  \E x \in at : \A y \in at : y <= x
<1> DEFINE R == OpToRel(<, Nat)
           back == {n - x : x \in at}
<1>1. back \subseteq Nat /\ back # {}
  <2>1. \A x \in at : x \in Int /\ n - x \in Nat OBVIOUS
  <2>2. \A x \in at : n - x \in back OBVIOUS
  <2>3. back \subseteq Nat BY <2>1
  <2> HIDE DEF back
  <2> QED BY <2>2, <2>3
<1>2. PICK d \in back : \A e \in back : <<e, d>> \notin R
  <2> HIDE DEF back
  <2> QED BY <1>1, NatLessThanWellFounded, WFMin
<1>3. \A e \in back : ~(e < d)
  BY <1>1, <1>2 DEF OpToRel
<1>4. PICK x \in at : d = n - x BY <1>2
<1>5. ASSUME NEW y \in at PROVE y <= x
  <2>1. ~(n - y < n - x) BY <1>3, <1>4
  <2>2. x \in Int /\ y \in Int OBVIOUS
  <2> QED BY <2>1, <2>2
<1> QED BY <1>5

\* The text is cut off before its last separator.
LEMMA Abspath ==
  ASSUME NEW b, NEW t \in Seq(Chars), HoldsEnded(b, t)
  PROVE  LET s == IF Contains(t, Separator)
                  THEN SubSeq(t, 1, SelectLastInSeq(t, LAMBDA c : c = Separator) - 1) ELSE t
         IN  s \in Seq(Chars) /\ Len(s) <= Len(t) /\ HoldsEnded(get_proc_abspath(b), s)
<1> DEFINE at == {i \in 1..Len(t) : t[i] = Separator}
           last == CHOOSE i \in at : \A j \in at : j <= i
           cut == [b EXCEPT !.str[last - 1] = NUL]
           s == SubSeq(t, 1, last - 1)
<1>1. CString(b) = t BY EndedReads
<1>2. get_proc_abspath(b) = IF at = {} THEN b ELSE [cut EXCEPT !.len = Len(CString(cut))]
  BY <1>1 DEF get_proc_abspath
<1>3. Contains(t, Separator) <=> at # {} BY DEF Contains
<1>4. CASE at = {}
  <2>1. ~Contains(t, Separator) BY <1>3, <1>4
  <2>2. get_proc_abspath(b) = b BY <1>2, <1>4
  <2>3. Len(t) <= Len(t) OBVIOUS
  <2> QED BY <2>1, <2>2, <2>3
<1>5. CASE at # {}
  <2>1. last \in at /\ \A j \in at : j <= last
    <3>1. Len(t) \in Nat /\ at \in SUBSET (1..Len(t)) OBVIOUS
    <3> HIDE DEF at
    <3>2. \E i \in at : \A j \in at : j <= i BY <1>5, <3>1, LastOne
    <3> QED BY <3>2
  <2>2. SelectLastInSeq(t, LAMBDA c : c = Separator) = last
    <3>1. SelectLastInSeq(t, LAMBDA c : c = Separator) = Max(at)
      BY <1>5 DEF SelectLastInSeq
    <3>2. Max(at) \in at /\ \A j \in at : Max(at) >= j
      <4>1. \E i \in at : \A j \in at : i >= j BY <2>1
      <4> HIDE DEF at
      <4> QED BY <4>1 DEF Max
    <3>3. at \subseteq Int OBVIOUS
    <3> HIDE DEF at, last
    <3>4. Max(at) = last
      <4>1. Max(at) \in Int /\ last \in Int BY <2>1, <3>2, <3>3
      <4>2. Max(at) <= last /\ Max(at) >= last BY <2>1, <3>2
      <4> QED BY <4>1, <4>2
    <3> QED BY <3>1, <3>4
  <2>3. last \in 1..Len(t) BY <2>1
  <2> HIDE DEF last
  <2>4. Holding(b, t) BY DEF HoldsEnded
  <2>5. /\ b.maxsz \in 1..MaxBlock /\ b.maxsz \in Nat /\ b.len = Len(t) /\ b.len < b.maxsz
        /\ b.str \in [0..(b.maxsz - 1) -> Byte]
        /\ \A i \in 1..Len(t) : b.str[i - 1] = t[i]
    BY <2>4, Header
  <2> DEFINE f == [b.str EXCEPT ![last - 1] = NUL]
  <2>6. /\ s \in Seq(Chars) /\ Len(s) = last - 1 /\ \A i \in 1..(last - 1) : s[i] = t[i]
    <3>1. s \in Seq(Chars) BY <2>3, SubSeqProperties
    <3> QED BY <2>3, <3>1, SubSeqProperties
  <2>7. /\ f \in [0..(b.maxsz - 1) -> Byte] /\ f[last - 1] = NUL
        /\ \A i \in 1..(last - 1) : f[i - 1] = s[i]
    <3>1. last - 1 \in 0..(b.maxsz - 1) /\ NUL \in Byte BY <2>3, <2>5 DEF Byte
    <3>2. /\ f \in [0..(b.maxsz - 1) -> Byte] /\ f[last - 1] = NUL
          /\ \A i \in 0..(b.maxsz - 1) : i # last - 1 => f[i] = b.str[i]
      BY <2>5, <3>1
    <3>3. ASSUME NEW i \in 1..(last - 1) PROVE f[i - 1] = s[i]
      <4>1. i - 1 \in 0..(b.maxsz - 1) /\ i - 1 # last - 1 /\ i \in 1..Len(t)
        BY <2>3, <2>5
      <4>2. f[i - 1] = b.str[i - 1] /\ b.str[i - 1] = t[i] BY <2>5, <3>2, <4>1
      <4> QED BY <2>6, <4>2
    <3> QED BY <3>2, <3>3
  <2>8. cut = [maxsz |-> b.maxsz, len |-> b.len, str |-> f]
    <3>1. PICK n \in 1..MaxBlock : b \in Block(n) BY <2>4 DEF Holding
    <3>2. PICK x, y : b = [maxsz |-> n, len |-> x, str |-> y] BY <3>1 DEF Block
    <3> QED BY <3>2
  <2> HIDE DEF f, cut, s
  <2>9. CString(cut) = s
    <3>1. cut.str = f BY <2>8
    <3>2. Len(s) < b.maxsz BY <2>3, <2>5, <2>6
    <3> QED BY <2>5, <2>6, <2>7, <3>1, <3>2, CStrings
  <2>10. get_proc_abspath(b) = [maxsz |-> b.maxsz, len |-> Len(s), str |-> f]
    BY <1>2, <1>5, <2>8, <2>9
  <2>11. HoldsEnded(get_proc_abspath(b), s)
    <3>1. Len(s) < b.maxsz BY <2>3, <2>5, <2>6
    <3> QED BY <2>5, <2>6, <2>7, <2>10, <3>1, Filled
  <2>12. Len(s) <= Len(t) BY <2>3, <2>6
  <2> QED BY <1>3, <1>5, <2>2, <2>6, <2>11, <2>12 DEF s
<1> QED BY <1>4, <1>5

LEMMA BufStep ==
  ASSUME BufInv, [CsbNext]_csbVars
  PROVE  BufInv'
<1> DEFINE Becoming(s) == s \in Seq(Chars) /\ Len(s) <= MaxLen /\ text' = s
<1>len. MaxLen \in Nat /\ text \in Seq(Chars) /\ Len(text) \in Nat /\ Len(text) <= MaxLen
  BY CstrBufAssumption DEF BufInv
<1>ended. ASSUME NEW s, Becoming(s), HoldsEnded(csb', s), pushed' = FALSE PROVE BufInv'
  BY <1>ended, Bufs DEF BufInv, HoldsEnded
<1>now. csb # NoBuffer => Holding(csb, text) /\ (~pushed => HoldsEnded(csb, text))
  BY DEF BufInv, HoldsEnded
<1>1. CASE CsbNew
  <2>1. PICK s \in Texts, maxsz \in 0..MaxLen :
          csb' = cstrbufNew(maxsz, s) /\ text' = s /\ pushed' = FALSE
    BY <1>1 DEF CsbNew, Becomes, Ended
  <2>2. s \in Seq(Chars) /\ Len(s) <= MaxLen BY <1>len, TextsAre
  <2>3. maxsz \in 0..(MaxLen + 1) BY <1>len
  <2> QED BY <1>ended, <2>1, <2>2, <2>3, Made
<1>2. CASE CsbFree
  <2>1. csb' = NoBuffer /\ text' = <<>> /\ pushed' = FALSE
    BY <1>2 DEF CsbFree, Becomes, Ended
  <2>2. text' \in Seq(Chars) /\ Len(text') <= MaxLen BY <1>len, <2>1
  <2>3. pushed' \in BOOLEAN BY <2>1
  <2> QED BY <2>1, <2>2, <2>3, Zenon DEF BufInv
<1>3. CASE CsbCat
  <2>1. PICK s \in Texts : /\ Len(text) + Len(s) <= MaxLen
                           /\ csb' = cstrbufCat(csb, s) /\ text' = text \o s /\ pushed' = FALSE
    BY <1>3 DEF CsbCat, Becomes, Ended
  <2>2. s \in Seq(Chars) /\ text \o s \in Seq(Chars) /\ Len(text \o s) = Len(text) + Len(s)
    BY <1>len, TextsAre, ConcatProperties
  <2> QED BY <1>ended, <2>1, <2>2, Cat
<1>4. CASE CsbConcat
  <2>1. PICK s \in Texts : /\ Len(text) + Len(s) <= MaxLen
                           /\ csb' = cstrbufConcat(csb, cstrbufNew(0, s))
                           /\ text' = text \o s /\ pushed' = FALSE
    BY <1>4 DEF CsbConcat, Becomes, Ended
  <2>2. s \in Seq(Chars) /\ text \o s \in Seq(Chars) /\ Len(text \o s) = Len(text) + Len(s)
    BY <1>len, TextsAre, ConcatProperties
  <2> QED BY <1>ended, <2>1, <2>2, Concat
<1>5. CASE CsbTrunc
  <2>1. PICK len \in 0..MaxLen :
          /\ csb # NoBuffer /\ csb' = cstrbufTrunc(csb, len)
          /\ text' = IF len < Len(text) THEN SubSeq(text, 1, len) ELSE text
          /\ pushed' = (pushed /\ len >= Len(text))
    BY <1>5 DEF CsbTrunc, Becomes
  <2>2. Holding(csb, text) /\ len \in Nat BY <1>len, <1>now, <2>1
  <2>3. CASE len < Len(text)
    <3>1. SubSeq(text, 1, len) \in Seq(Chars) BY <1>len, <2>2, <2>3, SubSeqProperties
    <3>2. Len(SubSeq(text, 1, len)) = len BY <1>len, <2>2, <2>3, SubSeqProperties
    <3>3. HoldsEnded(csb', SubSeq(text, 1, len)) BY <1>len, <2>1, <2>2, <2>3, Trunc
    <3>4. pushed' = FALSE
      <4>1. ~(len >= Len(text)) BY <1>len, <2>2, <2>3
      <4> QED BY <2>1, <4>1, Zenon
    <3>5. text' = SubSeq(text, 1, len) /\ len <= MaxLen BY <1>len, <2>1, <2>3
    <3>6. Len(SubSeq(text, 1, len)) <= MaxLen BY <3>2, <3>5
    <3> QED BY <1>ended, <3>1, <3>3, <3>4, <3>5, <3>6
  <2>4. CASE ~(len < Len(text))
    <3>1. csb' = csb
      <4>1. csb.len = Len(text) BY <2>2 DEF Holding
      <4> QED BY <1>len, <2>1, <2>2, <2>4, <4>1 DEF cstrbufTrunc
    <3>2. text' = text /\ pushed' = pushed
      BY <1>len, <2>1, <2>2, <2>4 DEF BufInv
    <3> QED BY <3>1, <3>2 DEF BufInv, Holding, HoldsEnded
  <2> QED BY <2>3, <2>4
<1>6. CASE CsbDup
  <2>1. PICK s \in Texts : csb' = cstrbufDup(csb, s) /\ text' = s /\ pushed' = FALSE
    BY <1>6 DEF CsbDup, Becomes, Ended
  <2>2. s \in Seq(Chars) /\ Len(s) <= MaxLen BY <1>len, TextsAre
  <2> QED BY <1>len, <1>ended, <1>now, <2>1, <2>2, Dup
<1>7. CASE CsbSub
  <2>1. PICK startindex \in 0..Len(text) : \E length \in 0..(Len(text) - startindex), s \in Texts :
          /\ Len(text) - length + Len(s) <= MaxLen
          /\ csb' = cstrbufSub(text, startindex, length, s)
          /\ text' = SubSeq(text, 1, startindex) \o s
                       \o SubSeq(text, startindex + length + 1, Len(text))
          /\ pushed' = FALSE
    BY <1>7 DEF CsbSub, Becomes, Ended
  <2>2. PICK length \in 0..(Len(text) - startindex), s \in Texts :
          /\ Len(text) - length + Len(s) <= MaxLen
          /\ csb' = cstrbufSub(text, startindex, length, s)
          /\ text' = SubSeq(text, 1, startindex) \o s
                       \o SubSeq(text, startindex + length + 1, Len(text))
          /\ pushed' = FALSE
    BY <2>1
  <2>3. s \in Seq(Chars) BY TextsAre
  <2>4. /\ HoldsEnded(csb', text')
        /\ Len(text') <= MaxLen
    BY <1>len, <2>2, <2>3, Sub
  <2>5. text' \in Seq(Chars)
    <3>1. SubSeq(text, 1, startindex) \in Seq(Chars) BY <1>len, SubSeqProperties
    <3>2. startindex + length + 1 \in 1..(Len(text) + 1) BY <1>len
    <3>3. SubSeq(text, startindex + length + 1, Len(text)) \in Seq(Chars)
      BY <1>len, <3>2, SubSeqProperties
    <3> QED BY <2>2, <2>3, <3>1, <3>3, ConcatProperties
  <2> QED BY <1>ended, <2>2, <2>4, <2>5
<1>8. CASE CsbPushBack
  <2>1. PICK ch \in Chars :
          /\ Len(text) < MaxLen
          /\ csb' = cstrbufPushBack(csb, ch) /\ text' = Append(text, ch)
          /\ pushed' = (csb # NoBuffer /\ HasRoom(csb, 1))
    BY <1>8 DEF CsbPushBack, Becomes
  <2>2. text' \in Seq(Chars) /\ Len(text') = Len(text) + 1
    BY <1>len, <2>1, AppendProperties
  <2>3. Len(text') <= MaxLen BY <1>len, <2>1, <2>2
  <2>4. CASE csb # NoBuffer /\ HasRoom(csb, 1)
    <3>1. Holding(csb', text') BY <1>len, <1>now, <2>1, <2>4, PushBack
    <3>2. csb' # NoBuffer BY <3>1, Bufs
    <3> QED BY <2>1, <2>2, <2>3, <2>4, <3>1, <3>2 DEF BufInv, Holding
  <2>5. CASE ~(csb # NoBuffer /\ HasRoom(csb, 1))
    <3>1. csb' = cstrbufCat(csb, <<ch>>) BY <2>1, <2>5 DEF cstrbufPushBack
    <3>2. <<ch>> \in Seq(Chars) /\ Len(<<ch>>) = 1 OBVIOUS
    <3>3. text \o <<ch>> = text' BY <1>len, <2>1, AppendIsConcat
    <3>4. Len(text) + Len(<<ch>>) <= MaxLen BY <1>len, <2>1, <3>2
    <3>5. HoldsEnded(csb', text') BY <3>1, <3>2, <3>3, <3>4, Cat
    <3> QED BY <1>ended, <2>1, <2>2, <2>3, <2>5, <3>5
  <2> QED BY <2>4, <2>5
<1>9. CASE CsbAbspath
  <2> DEFINE s == IF Contains(text, Separator)
                  THEN SubSeq(text, 1, SelectLastInSeq(text, LAMBDA c : c = Separator) - 1)
                  ELSE text
  <2>1. csb # NoBuffer /\ ~pushed /\ csb' = get_proc_abspath(csb) /\ text' = s /\ pushed' = FALSE
    BY <1>9 DEF CsbAbspath, BufInv
  <2>2. HoldsEnded(csb, text) BY <1>now, <2>1
  <2>3. s \in Seq(Chars) /\ Len(s) <= Len(text) /\ HoldsEnded(get_proc_abspath(csb), s)
    BY <1>len, <2>2, Abspath
  <2> HIDE DEF s
  <2>4. Len(s) <= MaxLen BY <1>len, <2>3
  <2> QED BY <1>ended, <2>1, <2>3, <2>4
<1>10. CASE UNCHANGED csbVars
  BY <1>10 DEF csbVars, BufInv, Holding, HoldsEnded
<1> QED BY <1>1, <1>2, <1>3, <1>4, <1>5, <1>6, <1>7, <1>8, <1>9, <1>10 DEF CsbNext

\* The string buffer of cstrbuf.h, whatever the size of its blocks and however
\* long the texts: after any calls its bytes are the text that the calls make,
\* ended by a NUL but after a cstrbufPushBack, and none lies outside of it.
THEOREM BufferHolds == BufSpec => []BufferHoldsText
<1>1. CsbInit => BufInv
  <2> SUFFICES ASSUME CsbInit PROVE BufInv OBVIOUS
  <2>1. MaxLen \in Nat BY CstrBufAssumption
  <2>2. csb = NoBuffer /\ text = <<>> /\ pushed = FALSE BY DEF CsbInit
  <2>3. text \in Seq(Chars) /\ Len(text) <= MaxLen BY <2>1, <2>2
  <2>4. pushed \in BOOLEAN BY <2>2
  <2> QED BY <2>2, <2>3, <2>4, Zenon DEF BufInv
<1>2. BufInv /\ [CsbNext]_csbVars => BufInv' BY BufStep
<1>3. BufInv => BufferHoldsText
  <2> SUFFICES ASSUME BufInv, csb # NoBuffer
               PROVE  /\ DOMAIN csb.str = 0..(csb.maxsz - 1) /\ csb.len < csb.maxsz
                      /\ Content(csb) = text /\ (~pushed => CString(csb) = text)
    BY DEF BufferHoldsText
  <2>1. text \in Seq(Chars) /\ Holding(csb, text) /\ (~pushed => HoldsEnded(csb, text))
    BY DEF BufInv, HoldsEnded
  <2>2. DOMAIN csb.str = 0..(csb.maxsz - 1) /\ csb.len < csb.maxsz BY <2>1, Header
  <2> QED BY <2>1, <2>2, Contents, EndedReads
<1> QED BY <1>1, <1>2, <1>3, PTL DEF BufSpec

-----------------------------------------------------------------------------
(* Times *)

\* Division by n: what is left is less than n; and no other number will do.
LEMMA Divided ==
  ASSUME NEW x \in Nat, NEW n \in Nat \ {0}
  PROVE  /\ x \div n \in Nat /\ n * (x \div n) \in Nat
         /\ n * (x \div n) <= x /\ x < n * (x \div n) + n
<1> DEFINE d == x \div n
           r == x % n
<1>1. d \in Nat /\ r \in 0..(n - 1) /\ x = n * d + r
  <2>1. r \in 0..(n - 1) /\ d \in Nat OBVIOUS
  <2>2. r = x - n * d BY SMTT(30)
  <2>3. n * d \in Int
    <3>1. d \in Int BY <2>1
    <3> HIDE DEF d
    <3> QED BY <3>1
  <2> HIDE DEF d, r
  <2> QED BY <2>1, <2>2, <2>3
<1> HIDE DEF d, r
<1>2. n * d \in Nat BY <1>1
<1>3. n * d <= x /\ x < n * d + n BY <1>1, <1>2
<1> QED BY <1>1, <1>2, <1>3 DEF d

LEMMA DividedSo ==
  ASSUME NEW x \in Nat, NEW n \in Nat \ {0}, NEW q \in Int,
         n * q <= x, x < n * q + n
  PROVE  x \div n = q
<1> DEFINE d == x \div n
<1>1. d \in Nat /\ n * d \in Nat /\ n * d <= x /\ x < n * d + n BY Divided
<1> HIDE DEF d
<1>2. n * q \in Int /\ n * d \in Int BY <1>1
<1>3. ASSUME d < q PROVE FALSE
  <2>1. n * (q - d - 1) \in Nat BY <1>1, <1>3
  <2>2. n * (q - d - 1) = n * q - n * d - n BY <1>1
  <2> QED BY <1>1, <1>2, <2>1, <2>2
<1>4. ASSUME q < d PROVE FALSE
  <2>1. n * (d - q - 1) \in Nat BY <1>1, <1>4
  <2>2. n * (d - q - 1) = n * d - n * q - n BY <1>1
  <2> QED BY <1>1, <1>2, <2>1, <2>2
<1>5. d = q BY <1>1, <1>3, <1>4
<1> QED BY <1>5 DEF d

LEMMA Times ==
  ASSUME NEW x \in Int, NEW y \in Int, x <= y, NEW m \in Nat
  PROVE  x * m <= y * m /\ x * m \in Int /\ y * m \in Int
<1>1. (y - x) * m \in Nat BY SMT
<1>2. (y - x) * m = y * m - x * m /\ x * m \in Int /\ y * m \in Int OBVIOUS
<1> QED BY <1>1, <1>2

\* A number of at most half the range comes back from an unsigned long as it was.
LEMMA Comes ==
  ASSUME NEW x \in Int, -(LongWord \div 2) < x, x < LongWord \div 2
  PROVE  Signed(x) = x
<1> DEFINE H == LongWord \div 2
           u == x % LongWord
<1>0. Signed(x) = IF u < H THEN u ELSE u - LongWord BY DEF Signed, Unsigned
<1>1. LongWord \in Nat BY ClockAssumption
<1>2. H \in Nat /\ 2 * H <= LongWord BY <1>1
<1>3. LongWord > 0 BY <1>1, <1>2
<1>4. CASE x >= 0
  <2>1. x \in 0..(LongWord - 1) BY <1>1, <1>2, <1>4
  <2>2. x % LongWord = x BY <1>1, <1>3, <2>1
  <2> HIDE DEF H, u
  <2>3. u = x /\ u < H BY <2>2 DEF u, H
  <2> QED BY <1>0, <2>3
<1>5. CASE x < 0
  <2>1. x + LongWord \in 0..(LongWord - 1) BY <1>1, <1>2, <1>5
  <2>2. x % LongWord = x + LongWord
    <3>1. (x + LongWord) % LongWord = x + LongWord BY <1>1, <1>3, <2>1
    <3>2. x % LongWord = (x + LongWord) % LongWord BY <1>1, <1>3
    <3> QED BY <3>1, <3>2
  <2>3. ~(x + LongWord < H) BY <1>1, <1>2
  <2> HIDE DEF H, u
  <2>4. Signed(x) = u - LongWord /\ u = x + LongWord BY <1>0, <2>2, <2>3 DEF u
  <2> QED BY <1>1, <2>4
<1> QED BY <1>4, <1>5

LEMMA Scales ==
  /\ MilliPerSec \in Nat /\ MilliPerSec > 0 /\ NanoPerMilli \in Nat \ {0} /\ NanoPerMilli > 0
  /\ NanoPerSec \in Nat /\ NanoPerSec > 0 /\ Word \in Nat /\ Word > 1
  /\ LongWord \in Nat /\ NanoPerSec <= LongWord /\ MaxSec \in Nat
  /\ (MaxSec + 1) * MilliPerSec <= LongWord \div 2
<1>1. MilliPerSec * NanoPerMilli \in Nat /\ MilliPerSec * NanoPerMilli > 0 BY ClockAssumption
<1>2. NanoPerSec \in Nat /\ NanoPerSec > 0 BY <1>1 DEF NanoPerSec
<1>3. NanoPerSec <= LongWord BY ClockAssumption DEF NanoPerSec
<1>4. (MaxSec + 1) * MilliPerSec <= LongWord \div 2 BY ClockAssumption
<1>5. /\ MilliPerSec \in Nat \ {0} /\ NanoPerMilli \in Nat \ {0} /\ Word \in Nat \ {0, 1}
      /\ LongWord \in Nat /\ MaxSec \in Nat
  BY ClockAssumption
<1>6. MilliPerSec > 0 /\ NanoPerMilli > 0 /\ Word > 1 BY <1>5
<1> QED BY <1>2, <1>3, <1>4, <1>5, <1>6

\* What both times are, in nanoseconds.
LEMMA Apart ==
  ASSUME NEW a \in Timespecs, NEW c \in Timespecs
  PROVE  /\ a.sec \in 0..MaxSec /\ a.nsec \in 0..(NanoPerSec - 1)
         /\ c.sec \in 0..MaxSec /\ c.nsec \in 0..(NanoPerSec - 1)
         /\ (a.sec - c.sec) * NanoPerSec \in Int
         /\ Nanos(a) - Nanos(c) = (a.sec - c.sec) * NanoPerSec + (a.nsec - c.nsec)
         /\ (a.sec - c.sec) * MilliPerSec \in Int
         /\ NanoPerMilli * ((a.sec - c.sec) * MilliPerSec) = (a.sec - c.sec) * NanoPerSec
<1> DEFINE s == a.sec
           t == c.sec
           P == NanoPerSec
           M == MilliPerSec
           N == NanoPerMilli
<1>1. /\ s \in 0..MaxSec /\ a.nsec \in 0..(P - 1) /\ t \in 0..MaxSec /\ c.nsec \in 0..(P - 1)
  BY DEF Timespecs
<1>2. s \in Int /\ t \in Int /\ P \in Nat /\ M \in Nat /\ N \in Nat BY <1>1, Scales
<1>3. Nanos(a) = s * P + a.nsec /\ Nanos(c) = t * P + c.nsec BY DEF Nanos
<1>4. P = M * N BY DEF NanoPerSec
<1>5. a.nsec \in Int /\ c.nsec \in Int BY <1>1, <1>2
<1> HIDE DEF s, t, P, M, N
<1>6. s * P \in Int /\ t * P \in Int /\ (s - t) * P = s * P - t * P BY <1>2
<1>7. Nanos(a) - Nanos(c) = (s - t) * P + (a.nsec - c.nsec) BY <1>3, <1>5, <1>6
<1>8. N * ((s - t) * M) = (s - t) * (M * N) BY <1>2
<1>9. (s - t) * M \in Int /\ (s - t) * P \in Int BY <1>2
<1> QED BY <1>1, <1>4, <1>7, <1>8, <1>9 DEF s, t, P, M, N

\* The milliseconds from one time to another, the end rounded and the start cut:
\* what that makes of a difference in nanoseconds.
LEMMA Rounded ==
  ASSUME NEW a \in Timespecs, NEW c \in Timespecs,
         NEW k, k = (a.sec * MilliPerSec + (a.nsec + NanoPerMilli \div 2) \div NanoPerMilli)
                      - (c.sec * MilliPerSec + c.nsec \div NanoPerMilli)
  PROVE  LET h == NanoPerMilli \div 2
             e == NanoPerMilli * k - (Nanos(a) - Nanos(c))
         IN  k \in Int /\ h - NanoPerMilli < e /\ e < h + NanoPerMilli
<1> DEFINE N == NanoPerMilli
           M == MilliPerSec
           h == N \div 2
           qa == (a.nsec + h) \div N
           qc == c.nsec \div N
           s == a.sec - c.sec
           D == s * M
           diff == Nanos(a) - Nanos(c)
<1>1. N \in Nat \ {0} /\ M \in Nat /\ h \in Nat BY Scales
<1>2. /\ a.sec \in Int /\ a.nsec \in Nat /\ c.sec \in Int /\ c.nsec \in Nat
      /\ s * NanoPerSec \in Int /\ D \in Int /\ N * D = s * NanoPerSec
      /\ diff = s * NanoPerSec + (a.nsec - c.nsec)
  BY Apart, Scales
<1>3. qa \in Nat /\ N * qa \in Nat /\ N * qa <= a.nsec + h /\ a.nsec + h < N * qa + N
  <2> HIDE DEF h, N
  <2>1. a.nsec + h \in Nat BY <1>1, <1>2
  <2> QED BY <1>1, <2>1, Divided
<1>4. qc \in Nat /\ N * qc \in Nat /\ N * qc <= c.nsec /\ c.nsec < N * qc + N
  BY <1>1, <1>2, Divided
<1>5. k = (a.sec * M + qa) - (c.sec * M + qc) OBVIOUS
<1> DEFINE x == a.sec * M
           y == c.sec * M
<1> HIDE DEF qa, qc, h, N, M, diff
<1>6. x - y = D /\ x \in Int /\ y \in Int BY <1>1, <1>2
<1> HIDE DEF D, s, x, y
<1>7. k = D + qa - qc /\ k \in Int /\ D \in Int
  <2>1. k = (x + qa) - (y + qc) BY <1>5 DEF x, y
  <2> QED BY <1>2, <1>3, <1>4, <1>6, <2>1
<1>8. N * k = N * D + N * qa - N * qc /\ N * D \in Int
  <2>1. N \in Int /\ qa \in Int /\ qc \in Int BY <1>1, <1>3, <1>4
  <2>2. N * (D + qa - qc) = N * D + N * qa - N * qc /\ N * D \in Int BY <1>7, <2>1
  <2> QED BY <1>7, <2>2
<1>9. N * k - diff = (N * qa - a.nsec) - (N * qc - c.nsec)
  BY <1>2, <1>3, <1>4, <1>8
<1>10. h - N < N * k - diff /\ N * k - diff < h + N
  BY <1>1, <1>2, <1>3, <1>4, <1>9
<1> QED BY <1>7, <1>10 DEF h, N, diff

\* Windows is told to wait for as many milliseconds, as far as a DWORD holds them.
LEMMA WaitIsRight ==
  ASSUME NEW a \in Timespecs, NEW c \in Timespecs
  PROVE  LET diff == Nanos(a) - Nanos(c)
             wait == ptw32_relmillisecs(a, c)
             error == wait * NanoPerMilli - (IF diff < 0 THEN 0 ELSE diff)
         IN  /\ wait # INFINITE
             /\ diff < (Word - 2) * NanoPerMilli =>
                  -NanoPerMilli < error /\ error < NanoPerMilli + NanoPerMilli \div 2
<1> DEFINE N == NanoPerMilli
           h == N \div 2
           abs == a.sec * MilliPerSec + (a.nsec + h) \div N
           curr == c.sec * MilliPerSec + c.nsec \div N
           k == abs - curr
           ms == k % Word
           wait == ptw32_relmillisecs(a, c)
           diff == Nanos(a) - Nanos(c)
           due == IF diff < 0 THEN 0 ELSE diff
<1>1. k \in Int /\ h - N < N * k - diff /\ N * k - diff < h + N
  BY Rounded
<1>2. wait = IF abs <= curr THEN 0 ELSE IF ms = Word - 1 THEN ms - 1 ELSE ms
  BY DEF ptw32_relmillisecs, INFINITE
<1>3. N \in Nat /\ N > 0 /\ h \in Nat /\ h < N /\ Word \in Nat /\ Word > 1 BY Scales
<1>4. diff \in Int
  <2>1. /\ a.nsec \in 0..(NanoPerSec - 1) /\ c.nsec \in 0..(NanoPerSec - 1)
        /\ (a.sec - c.sec) * NanoPerSec \in Int
        /\ diff = (a.sec - c.sec) * NanoPerSec + (a.nsec - c.nsec)
    BY Apart
  <2>2. a.nsec - c.nsec \in Int BY <2>1, Scales
  <2> HIDE DEF diff
  <2> QED BY <2>1, <2>2
<1>5. abs <= curr <=> k <= 0
  <2>1. abs \in Int /\ curr \in Int
    <3>1. /\ a.sec \in Int /\ a.nsec \in Nat /\ c.sec \in Int /\ c.nsec \in Nat
      BY Apart, Scales
    <3>2. a.sec * MilliPerSec \in Int /\ c.sec * MilliPerSec \in Int BY <3>1, Scales
    <3>3. a.nsec + h \in Nat /\ N \in Nat \ {0}
      <4> HIDE DEF h
      <4> QED BY <1>3, <3>1, Scales
    <3>4. (a.nsec + h) \div N \in Int /\ c.nsec \div N \in Int
      <4> HIDE DEF h, N
      <4> QED BY <3>1, <3>3, Divided
    <3> HIDE DEF h, N
    <3> QED BY <3>2, <3>4
  <2> HIDE DEF abs, curr
  <2> QED BY <2>1
<1> HIDE DEF abs, curr, k, ms, wait, diff
<1>6. CASE k <= 0
  <2>1. wait = 0 BY <1>2, <1>5, <1>6
  <2>2. wait # Word - 1 BY <1>3, <2>1
  <2>3. N * k <= 0
    <3>1. N * (0 - k) \in Nat /\ N * (0 - k) = 0 - N * k /\ N * k \in Int BY <1>1, <1>3, <1>6
    <3> QED BY <3>1
  <2>4. wait * N = 0 BY <1>3, <2>1
  <2>5. N * k \in Int BY <1>1, <1>3
  <2> HIDE DEF N, h
  <2>6. due < N /\ due >= 0 /\ due \in Int BY <1>1, <1>3, <1>4, <2>3, <2>5
  <2> HIDE DEF due
  <2>7. -N < wait * N - due /\ wait * N - due < N + h BY <1>3, <2>4, <2>6
  <2> QED BY <2>2, <2>7 DEF INFINITE, N, h, wait, diff, due
<1>7. CASE k > 0
  <2>1. wait = IF ms = Word - 1 THEN ms - 1 ELSE ms BY <1>1, <1>2, <1>5, <1>7
  <2>2. ms \in 0..(Word - 1) BY <1>1, <1>3 DEF ms
  <2>3. wait # Word - 1 BY <1>3, <2>1, <2>2
  <2>4. ASSUME diff < (Word - 2) * N
        PROVE  -N < wait * N - due /\ wait * N - due < N + h
    <3>1. N * k \in Int /\ k * N = N * k /\ Word * N \in Int /\ (Word - 2) * N = Word * N - 2 * N
      BY <1>1, <1>3
    <3>2. N * k < Word * N
      <4> HIDE DEF N, h
      <4>1. 2 * N \in Int BY <1>3
      <4> QED BY <1>1, <1>3, <1>4, <2>4, <3>1
    <3>3. k < Word
      <4>1. ASSUME k >= Word PROVE FALSE
        <5>1. Word * N <= k * N BY <1>1, <1>3, <4>1, Times
        <5> QED BY <3>1, <3>2, <5>1
      <4> QED BY <1>1, <1>3, <4>1
    <3>4. ms = k
      <4>1. k \in 0..(Word - 1) BY <1>1, <1>3, <1>7, <3>3
      <4> QED BY <1>3, <4>1 DEF ms
    <3>5. N * k > 0
      <4>1. N * (k - 1) \in Nat /\ N * (k - 1) = N * k - N BY <1>1, <1>3, <1>7
      <4> QED BY <1>3, <3>1, <4>1
    <3>6. due \in Int /\ due >= 0 /\ (diff >= 0 => due = diff) /\ (diff < 0 => due = 0)
      BY <1>4
    <3>7. CASE k = Word - 1
      <4>1. wait = k - 1 BY <2>1, <3>4, <3>7
      <4>2. wait * N = N * k - N BY <1>1, <1>3, <4>1
      <4>3. N * k = Word * N - N BY <1>3, <3>7
      <4> HIDE DEF N, h, due
      <4>4. due <= N * k - N
        <5>1. 0 <= (Word - 2) * N BY <1>3
        <5> QED BY <1>3, <1>4, <2>4, <3>1, <3>6, <4>3, <5>1
      <4>5. N * k - due < h + N + N
        BY <1>1, <1>3, <1>4, <3>1, <3>6
      <4> QED BY <1>3, <3>1, <3>6, <4>2, <4>4, <4>5
    <3>8. CASE k # Word - 1
      <4>1. wait = k BY <2>1, <3>4, <3>8
      <4>2. wait * N = N * k BY <3>1, <4>1
      <4> HIDE DEF N, h, due
      <4> QED BY <1>1, <1>3, <1>4, <3>1, <3>5, <3>6, <4>2
    <3> QED BY <3>7, <3>8
  <2> QED BY <2>3, <2>4 DEF INFINITE, N, h, wait, diff, due
<1> QED BY <1>1, <1>6, <1>7

\* A difference of times is cut to milliseconds, whichever way its seconds and
\* its nanoseconds point, and no conversion to unsigned long harms it.
LEMMA DifferenceIsRight ==
  ASSUME NEW a \in Timespecs, NEW c \in Timespecs,
         Nanos(a) - Nanos(c) >= 0 \/ a.nsec = c.nsec
  PROVE  difftime_msec(c, a) = Quot(Nanos(a) - Nanos(c), NanoPerMilli)
<1> DEFINE N == NanoPerMilli
           M == MilliPerSec
           P == NanoPerSec
           s == a.sec - c.sec
           n == a.nsec - c.nsec
           diff == Nanos(a) - Nanos(c)
           H == LongWord \div 2
           r == difftime_msec(c, a)
<1>1. /\ N \in Nat \ {0} /\ N > 0 /\ M \in Nat /\ M > 0 /\ P \in Nat /\ P > 0 /\ P = M * N
      /\ P <= LongWord /\ LongWord \in Nat /\ MaxSec \in Nat /\ (MaxSec + 1) * M <= H
  BY Scales DEF NanoPerSec
<1>2. H \in Nat BY <1>1
<1>3. /\ a.sec \in 0..MaxSec /\ c.sec \in 0..MaxSec
      /\ a.nsec \in 0..(P - 1) /\ c.nsec \in 0..(P - 1)
      /\ diff = s * P + n /\ s * P \in Int /\ s * M \in Int /\ N * (s * M) = s * P
  BY Apart
<1>4. /\ s \in Int /\ -MaxSec <= s /\ s <= MaxSec
      /\ n \in Int /\ -P < n /\ n < P
  BY <1>1, <1>3
<1>5. r = Signed(IF s > 0 /\ n < 0 THEN (s - 1) * M + Millis(n + P)
                 ELSE IF s < 0 /\ n > 0 THEN (s + 1) * M + Millis(n - P)
                 ELSE s * M + Millis(n))
  BY DEF difftime_msec
<1>6. diff >= 0 \/ n = 0 BY <1>1, <1>3
<1> HIDE DEF N, M, P, s, n, diff, H, r
<1>7. (MaxSec + 1) * M = MaxSec * M + M /\ MaxSec * M \in Nat BY <1>1
<1>8. \A x \in 0..(P - 1) :
         /\ Millis(x) = x \div N /\ Millis(x) \in 0..(M - 1)
         /\ N * Millis(x) <= x /\ x < N * Millis(x) + N
  <2> SUFFICES ASSUME NEW x \in 0..(P - 1)
               PROVE  /\ Millis(x) = x \div N /\ Millis(x) \in 0..(M - 1)
                      /\ N * Millis(x) <= x /\ x < N * Millis(x) + N
    OBVIOUS
  <2>1. x \in Nat /\ x \in 0..(LongWord - 1) BY <1>1
  <2>2. x % LongWord = x BY <1>1, <2>1
  <2>3. Millis(x) = x \div N BY <2>2 DEF Millis, Unsigned, N
  <2>4. x \div N \in Nat /\ N * (x \div N) \in Nat /\ N * (x \div N) <= x /\ x < N * (x \div N) + N
    BY <1>1, <2>1, Divided
  <2> DEFINE d == x \div N
  <2> HIDE DEF d
  <2>5. d < M
    <3>1. ASSUME d >= M PROVE FALSE
      <4>1. M * N <= d * N /\ d * N = N * d BY <1>1, <2>4, <3>1, Times DEF d
      <4> QED BY <1>1, <2>1, <2>4, <4>1 DEF d
    <3> QED BY <1>1, <2>4, <3>1 DEF d
  <2> QED BY <1>1, <2>3, <2>4, <2>5 DEF d
<1>9. ASSUME NEW q \in Int, -(MaxSec * M) <= q, q < MaxSec * M + M PROVE Signed(q) = q
  <2>1. -H < q /\ q < H BY <1>1, <1>2, <1>7, <1>9
  <2> QED BY <2>1, Comes DEF H
<1>10. s <= MaxSec => s * M <= MaxSec * M BY <1>1, <1>4, Times
<1>11. CASE s > 0 /\ n < 0
  <2> DEFINE x == n + P
             q == (s - 1) * M + Millis(x)
  <2>1. x \in 0..(P - 1) BY <1>1, <1>4, <1>11
  <2>2. r = Signed(q) BY <1>5, <1>11
  <2> HIDE DEF x
  <2>3. /\ Millis(x) \in 0..(M - 1) /\ Millis(x) \in Nat
        /\ N * Millis(x) <= x /\ x < N * Millis(x) + N
    BY <1>1, <1>8, <2>1
  <2>4. (s - 1) * M = s * M - M /\ (s - 1) * M \in Nat BY <1>1, <1>4, <1>11
  <2>5. q \in Int /\ -(MaxSec * M) <= q /\ q < MaxSec * M + M
    BY <1>1, <1>3, <1>4, <1>7, <1>10, <2>3, <2>4
  <2>6. r = q BY <1>9, <2>2, <2>5
  <2>7. N * q = s * P - P + N * Millis(x)
    <3>1. N * ((s - 1) * M + Millis(x)) = N * ((s - 1) * M) + N * Millis(x)
      BY <1>1, <2>3, <2>4
    <3>2. N * (s * M - M) = N * (s * M) - N * M /\ N * M = M * N BY <1>1, <1>3
    <3> QED BY <1>1, <1>3, <2>4, <3>1, <3>2
  <2>8. diff = s * P - P + x BY <1>1, <1>3, <1>4 DEF x
  <2>9. N * q <= diff /\ diff < N * q + N /\ diff \in Int
    <3>1. N * Millis(x) \in Int BY <1>1, <2>3
    <3>2. x \in Int BY <1>1, <2>1
    <3> HIDE DEF q
    <3> QED BY <1>1, <1>3, <2>3, <2>7, <2>8, <3>1, <3>2
  <2>10. diff \in Nat BY <1>6, <1>11, <2>9
  <2> HIDE DEF q
  <2>11. diff \div N = q BY <1>1, <2>5, <2>9, <2>10, DividedSo
  <2> QED BY <2>6, <2>10, <2>11 DEF Quot, r, diff, N
<1>12. CASE s >= 0 /\ n >= 0
  <2> DEFINE q == s * M + Millis(n)
  <2>1. n \in 0..(P - 1) BY <1>1, <1>4, <1>12
  <2>2. r = Signed(q) BY <1>4, <1>5, <1>12
  <2>3. /\ Millis(n) \in 0..(M - 1) /\ Millis(n) \in Nat
        /\ N * Millis(n) <= n /\ n < N * Millis(n) + N
    BY <1>1, <1>8, <2>1
  <2>4. s * M \in Nat BY <1>1, <1>4, <1>12
  <2>5. q \in Int /\ -(MaxSec * M) <= q /\ q < MaxSec * M + M
    BY <1>1, <1>4, <1>7, <1>10, <2>3, <2>4
  <2>6. r = q BY <1>9, <2>2, <2>5
  <2>7. N * q = s * P + N * Millis(n) BY <1>1, <1>3, <2>3
  <2>8. N * q <= diff /\ diff < N * q + N /\ diff \in Int
    <3>1. N * Millis(n) \in Int BY <1>1, <2>3
    <3> HIDE DEF q
    <3> QED BY <1>1, <1>3, <1>4, <2>3, <2>7, <3>1
  <2>9. diff \in Nat
    <3>1. s * P >= 0 BY <1>1, <1>4, <1>12
    <3> QED BY <1>3, <1>4, <1>12, <3>1
  <2> HIDE DEF q
  <2>10. diff \div N = q BY <1>1, <2>5, <2>8, <2>9, DividedSo
  <2> QED BY <2>6, <2>9, <2>10 DEF Quot, r, diff, N
<1>13. CASE s < 0 /\ n = 0
  <2>1. 0 \in 0..(P - 1) BY <1>1
  <2>2. Millis(0) = 0
    <3>1. Millis(0) = 0 \div N BY <1>8, <2>1
    <3>2. N * 0 <= 0 /\ 0 < N * 0 + N BY <1>1
    <3>3. 0 \div N = 0 BY <1>1, <3>2, DividedSo
    <3> QED BY <3>1, <3>3
  <2>3. r = Signed(s * M) BY <1>3, <1>5, <1>13, <2>2
  <2>4. -(MaxSec * M) <= s * M /\ s * M < MaxSec * M + M
    <3>1. (0 - MaxSec) * M <= s * M BY <1>1, <1>4, Times
    <3>2. (0 - MaxSec) * M = -(MaxSec * M) BY <1>1
    <3>3. s * M <= 0 * M /\ 0 * M = 0 BY <1>1, <1>4, <1>13, Times
    <3> QED BY <1>1, <1>3, <1>7, <3>1, <3>2, <3>3
  <2>5. r = s * M BY <1>3, <1>9, <2>3, <2>4
  <2>6. diff = s * P /\ diff < 0
    <3>1. s * P < 0
      <4>1. (0 - s - 1) * P \in Nat /\ (0 - s - 1) * P = 0 - s * P - P BY <1>1, <1>4, <1>13
      <4> QED BY <1>1, <1>3, <4>1
    <3> QED BY <1>3, <1>13, <3>1
  <2>7. (-diff) \div N = 0 - s * M
    <3>1. 0 - s * M \in Int /\ N * (0 - s * M) = 0 - N * (s * M) BY <1>1, <1>3
    <3>2. -diff \in Nat /\ -diff = 0 - s * P BY <1>3, <2>6
    <3>3. N * (0 - s * M) <= -diff /\ -diff < N * (0 - s * M) + N
      BY <1>1, <1>3, <3>1, <3>2
    <3> QED BY <1>1, <3>1, <3>2, <3>3, DividedSo
  <2>8. Quot(diff, N) = -(0 - s * M) BY <2>6, <2>7 DEF Quot
  <2> QED BY <1>3, <2>5, <2>8 DEF r, diff, N
<1>14. ~(s = 0 /\ n < 0) /\ ~(s < 0 /\ n # 0)
  <2>1. ASSUME s < 0, n # 0 PROVE FALSE
    <3>1. (0 - s - 1) * P \in Nat /\ (0 - s - 1) * P = 0 - s * P - P BY <1>1, <1>4, <2>1
    <3>2. diff < 0 BY <1>1, <1>3, <1>4, <3>1
    <3> QED BY <1>3, <1>4, <1>6, <2>1, <3>2
  <2>2. ASSUME s = 0, n < 0 PROVE FALSE
    <3>1. s * P = 0 BY <1>1, <2>2
    <3> QED BY <1>3, <1>4, <1>6, <2>2, <3>1
  <2> QED BY <2>1, <2>2
<1> QED BY <1>4, <1>11, <1>12, <1>13, <1>14

LEMMA TimesStay == ClockSpec => [](abstime \in Timespecs /\ now \in Timespecs)
<1> DEFINE Inv == abstime \in Timespecs /\ now \in Timespecs
<1>1. ClockInit => Inv
  <2>1. 0 \in 0..MaxSec /\ 0 \in 0..(NanoPerSec - 1) BY Scales
  <2> QED BY <2>1 DEF ClockInit, Timespecs, Zero
<1>2. Inv /\ [ClockNext]_clockVars => Inv'
  BY DEF ClockNext, Shows, Asks, Ticks, clockVars
<1> QED BY <1>1, <1>2, PTL DEF ClockSpec

\* difftime_msec and ptw32_relmillisecs, for any two times that are not so far
\* apart that a long cannot hold the milliseconds between them.
THEOREM WaitsAreRight == ClockSpec => []WaitsRight
<1>1. abstime \in Timespecs /\ now \in Timespecs => WaitsRight
  BY WaitIsRight, DifferenceIsRight DEF WaitsRight
<1> QED BY <1>1, TimesStay, PTL

\* A date, a time of it or none, milliseconds of that or none, and a timezone.
Stamps ==
  {dt \in [year : 1900..9999, month : 1..12, day : 1..31, hour : -1..24, minute : 0..59,
           second : 0..60, millisecond : -1..999, timezone : Int] :
     /\ dt.day <= MonthDays(dt.year)[dt.month]
     /\ dt.hour = -1 => dt.minute = 0 /\ dt.second = 0 /\ dt.millisecond = -1
     /\ TimezoneAbs(dt.timezone) \div 100 <= 23 /\ TimezoneAbs(dt.timezone) % 100 <= 59}

LEMMA ZoneIsRead ==
  ASSUME NEW tz \in Int, TimezoneAbs(tz) \div 100 <= 23, TimezoneAbs(tz) % 100 <= 59
  PROVE  cstr_parse_timezone(TimezoneSign(tz), TimezoneAbs(tz) \div 100, TimezoneAbs(tz) % 100) = tz
<1> DEFINE b == TimezoneAbs(tz)
           d == b \div 100
           m == b % 100
<1>1. b \in Nat /\ TimezoneSign(tz) \in {-1, 1} /\ b * TimezoneSign(tz) = tz
  BY DEF TimezoneAbs, TimezoneSign
<1> HIDE DEF b
<1>2. d * 100 + m = b BY <1>1
<1>3. cstr_parse_timezone(TimezoneSign(tz), d, m) = (d * 100 + m) * TimezoneSign(tz)
  BY <1>1 DEF cstr_parse_timezone, b
<1> QED BY <1>1, <1>2, <1>3 DEF b

\* cstr_parse_timestamp reads from each text that cstr_datetime_print writes of a
\* valid date what was written, with or without a time, milliseconds and timezone;
\* or it refuses the text, which happens to the dates that mktime refuses and to no
\* others.
THEOREM PrintedIsRead ==
  ASSUME NEW dt \in Stamps
  PROVE  cstr_parse_timestamp(cstr_datetime_print(dt)) =
           IF TimeOf(dt) \in MktimeFails THEN <<>> ELSE dt
<1> DEFINE p == cstr_datetime_print(dt)
           tz == IF p.zone = <<>> THEN -1 ELSE cstr_parse_timezone(p.zone[1], p.zone[2], p.zone[3])
           hms == IF p.hms = <<>> THEN <<0, 0, 0>> ELSE p.hms
<1>1. /\ dt.year \in 1900..9999 /\ dt.month \in 1..12 /\ dt.day \in 1..31 /\ dt.hour \in -1..24
      /\ dt.minute \in 0..59 /\ dt.second \in 0..60 /\ dt.millisecond \in -1..999
      /\ dt.timezone \in Int
      /\ dt.day <= MonthDays(dt.year)[dt.month]
      /\ dt.hour = -1 => dt.minute = 0 /\ dt.second = 0 /\ dt.millisecond = -1
      /\ TimezoneAbs(dt.timezone) \div 100 <= 23 /\ TimezoneAbs(dt.timezone) % 100 <= 59
      /\ dt = [year |-> dt.year, month |-> dt.month, day |-> dt.day, hour |-> dt.hour,
              minute |-> dt.minute, second |-> dt.second, millisecond |-> dt.millisecond,
              timezone |-> dt.timezone]
  BY DEF Stamps
<1>2. /\ p.ymd = <<dt.year, dt.month, dt.day>>
      /\ p.hms = IF dt.hour = -1 THEN <<>> ELSE <<dt.hour, dt.minute, dt.second>>
      /\ p.mmm = dt.millisecond
      /\ p.zone = IF dt.timezone = -1 THEN <<>>
                  ELSE <<TimezoneSign(dt.timezone),
                         TimezoneAbs(dt.timezone) \div 100, TimezoneAbs(dt.timezone) % 100>>
  <2>1. dt.year # -1
    <3> DEFINE Years == 1900..9999
    <3>1. \A y \in Years : y # -1 OBVIOUS
    <3>2. dt.year \in Years BY <1>1
    <3> HIDE DEF Years
    <3> QED BY <3>1, <3>2
  <2>2. p.ymd = IF dt.year = -1 THEN <<>> ELSE <<dt.year, dt.month, dt.day>>
    BY DEF cstr_datetime_print
  <2>3. p.hms = IF dt.hour = -1 THEN <<>> ELSE <<dt.hour, dt.minute, dt.second>>
    BY DEF cstr_datetime_print
  <2>4. p.mmm = dt.millisecond BY DEF cstr_datetime_print
  <2>5. p.zone = IF dt.timezone = -1 THEN <<>>
                 ELSE <<TimezoneSign(dt.timezone),
                        TimezoneAbs(dt.timezone) \div 100, TimezoneAbs(dt.timezone) % 100>>
    BY DEF cstr_datetime_print
  <2> QED BY <2>1, <2>2, <2>3, <2>4, <2>5
<1>3. tz = dt.timezone
  <2>1. CASE dt.timezone = -1 BY <1>2, <2>1
  <2>2. CASE dt.timezone # -1
    <3>1. tz = cstr_parse_timezone(TimezoneSign(dt.timezone), TimezoneAbs(dt.timezone) \div 100,
                                   TimezoneAbs(dt.timezone) % 100)
      BY <1>2, <2>2
    <3> QED BY <1>1, <3>1, ZoneIsRead
  <2> QED BY <2>1, <2>2
<1>4. /\ p.zone # <<>> <=> dt.timezone # -1
      /\ p.hms = <<>> <=> dt.hour = -1
      /\ p.ymd # <<>>
  BY <1>2
<1>5. /\ hms[1] = IF dt.hour = -1 THEN 0 ELSE dt.hour
      /\ hms[2] = dt.minute /\ hms[3] = dt.second
  <2>1. CASE dt.hour = -1 BY <1>1, <1>2, <2>1
  <2>2. CASE dt.hour # -1
    <3>1. hms = <<dt.hour, dt.minute, dt.second>> BY <1>2, <2>2
    <3> QED BY <2>2, <3>1
  <2> QED BY <2>1, <2>2
<1>6. time_is_valid(p.ymd[1], p.ymd[2], p.ymd[3], hms[1], hms[2], hms[3])
  <2>1. p.ymd[1] = dt.year /\ p.ymd[2] = dt.month /\ p.ymd[3] = dt.day BY <1>2
  <2> HIDE DEF hms, p
  <2>2. hms[1] \in 0..24 BY <1>1, <1>5
  <2>3. dt.day \in 1..MonthDays(dt.year)[dt.month]
    <3>1. MonthDays(dt.year)[dt.month] \in Int BY <1>1 DEF MonthDays
    <3> QED BY <1>1, <3>1
  <2> QED BY <1>1, <1>5, <2>1, <2>2, <2>3 DEF time_is_valid
<1>7. cstr_parse_timestamp(p) =
        IF \/ p.ymd = <<>> \/ (p.hms = <<>> /\ p.mmm # -1)
           \/ (p.zone # <<>> /\ tz = -1)
           \/ ~time_is_valid(p.ymd[1], p.ymd[2], p.ymd[3], hms[1], hms[2], hms[3])
           \/ <<p.ymd[1], p.ymd[2], p.ymd[3], hms[1], hms[2], hms[3]>> \in MktimeFails
        THEN <<>>
        ELSE [year |-> p.ymd[1], month |-> p.ymd[2], day |-> p.ymd[3],
              hour |-> IF p.hms = <<>> THEN -1 ELSE hms[1], minute |-> hms[2], second |-> hms[3],
              millisecond |-> p.mmm, timezone |-> tz]
  BY DEF cstr_parse_timestamp
<1>t. <<p.ymd[1], p.ymd[2], p.ymd[3], hms[1], hms[2], hms[3]>> = TimeOf(dt)
  <2>1. p.ymd[1] = dt.year /\ p.ymd[2] = dt.month /\ p.ymd[3] = dt.day BY <1>2
  <2> HIDE DEF p, hms
  <2> QED BY <1>5, <2>1 DEF TimeOf
<1> HIDE DEF p, tz, hms
<1>r. ~(p.ymd = <<>> \/ (p.hms = <<>> /\ p.mmm # -1) \/ (p.zone # <<>> /\ tz = -1))
  BY <1>1, <1>2, <1>3, <1>4
<1>8. cstr_parse_timestamp(p) =
        IF TimeOf(dt) \in MktimeFails THEN <<>> ELSE
        [year |-> p.ymd[1], month |-> p.ymd[2], day |-> p.ymd[3],
         hour |-> IF p.hms = <<>> THEN -1 ELSE hms[1], minute |-> hms[2], second |-> hms[3],
         millisecond |-> p.mmm, timezone |-> tz]
  <2>1. CASE TimeOf(dt) \in MktimeFails BY <1>7, <1>t, <2>1, Zenon
  <2>2. CASE TimeOf(dt) \notin MktimeFails BY <1>6, <1>7, <1>r, <1>t, <2>2, Zenon
  <2> QED BY <2>1, <2>2
<1>9. /\ p.ymd[1] = dt.year /\ p.ymd[2] = dt.month /\ p.ymd[3] = dt.day
      /\ (IF p.hms = <<>> THEN -1 ELSE hms[1]) = dt.hour
  BY <1>2, <1>4, <1>5
<1>10. cstr_parse_timestamp(p) =
         IF TimeOf(dt) \in MktimeFails THEN <<>> ELSE
         [year |-> dt.year, month |-> dt.month, day |-> dt.day, hour |-> dt.hour,
          minute |-> dt.minute, second |-> dt.second, millisecond |-> dt.millisecond,
          timezone |-> dt.timezone]
  BY <1>2, <1>3, <1>5, <1>8, <1>9
<1>11. cstr_parse_timestamp(p) = IF TimeOf(dt) \in MktimeFails THEN <<>> ELSE dt
  <2>1. CASE TimeOf(dt) \in MktimeFails BY <1>10, <2>1
  <2>2. CASE TimeOf(dt) \notin MktimeFails
    <3>1. cstr_parse_timestamp(p) =
            [year |-> dt.year, month |-> dt.month, day |-> dt.day, hour |-> dt.hour,
             minute |-> dt.minute, second |-> dt.second, millisecond |-> dt.millisecond,
             timezone |-> dt.timezone]
      BY <1>10, <2>2
    <3> QED BY <1>1, <2>2, <3>1
  <2> QED BY <2>1, <2>2
<1> QED BY <1>11 DEF p
=============================================================================
