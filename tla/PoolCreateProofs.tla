-------------------------- MODULE PoolCreateProofs --------------------------
(***************************************************************************)
(* Theorems about threadpool_create for any limits, any arguments, any     *)
(* CPUs online and whichever of its calls fail: what it returns is a pool  *)
(* ready for use, and what it gives up it cleans up.  And about            *)
(* thread_set_affinity_cpus for any number of workers and of CPUs and any  *)
(* affinity_cpus, as long as the CPUs online are those with the lowest     *)
(* ids: it places the workers well.  The hard part of that is              *)
(* SpreadEvenly: how many workers a group has is kept as an invariant of   *)
(* the steps that place them.                                              *)
(***************************************************************************)
EXTENDS PoolCreate, FiniteSetTheorems, SequenceTheorems, TLAPS

Early == {"check", "malloc", "mutex_init", "cond_init", "attr_init"}
Building == {"loop", "setaffinity", "create", "getaffinity"}
Alive == {i \in Ids : worker[i] = "running"}

CreateTypes ==
  /\ pc \in Early \cup Building \cup {"destroy", "join", "err", "returned"}
  /\ args \in [threads : Int, queues : Int, argSize : Int, affinity : Int]
  /\ id \in Int /\ started \in Int /\ shutdown \in BOOLEAN
  /\ handle \in [Ids -> {"raw", "thread"}]
  /\ worker \in [Ids -> {"none", "running", "done"}]
  /\ err \in {"success", "run_failure"}
  /\ \A i \in Ids : worker[i] = "none" <=> handle[i] = "raw"

\* What the checks let through, from then on.
WithinLimits ==
  pc = "malloc" \/ mem # "none" =>
    /\ args.threads \in 1..MaxThreads /\ args.queues \in 1..MaxQueues
    /\ \A i \in Ids : i > args.threads => handle[i] = "raw"

\* Nobody works yet.
AtStart ==
  pc \in Early =>
    /\ ~shutdown /\ started = 0 /\ result = "none" /\ id = 1
    /\ mem = IF pc \in {"check", "malloc"} THEN "none" ELSE "live"
    /\ pc \in {"cond_init", "attr_init"} => mutex = "ready"
    /\ pc = "attr_init" => cond = "ready"
    /\ \A i \in Ids : handle[i] = "raw"

\* The workers with ids below id run and are counted; in between the worker id
\* runs already.
WhileBuilding ==
  pc \in Building =>
    /\ mem = "live" /\ mutex = "ready" /\ cond = "ready" /\ ~shutdown /\ result = "none"
    /\ id \in 1..(args.threads + 1) /\ (pc # "loop" => id <= args.threads)
    /\ started = id - 1
    /\ \A i \in Ids : worker[i] # "done"
    /\ \A i \in Ids : handle[i] = "thread" <=> i < id \/ (i = id /\ pc = "getaffinity")

\* threadpool_destroy on the way back; started may miss one worker that runs.
WayBack ==
  /\ pc \in {"destroy", "join", "err"} => mem = "live" /\ result = "none"
  /\ pc = "destroy" => ~shutdown
  /\ pc \in {"destroy", "join"} => started <= Cardinality(Alive)
  /\ pc = "join" =>
       /\ shutdown /\ id \in 1..(args.threads + 1)
       /\ \A i \in 1..(id - 1) : worker[i] # "running"
       /\ err = "success" => \A i \in 1..(id - 1) : worker[i] = "done"
       /\ err # "success" => \E i \in 1..args.threads : handle[i] = "raw"
  /\ pc = "err" => started <= 0 /\ Alive = {}

AtEnd ==
  /\ mem = "freed" => Alive = {}
  /\ pc # "returned" => result = "none"
  /\ result = "pool" =>
       /\ mem = "live" /\ mutex = "ready" /\ cond = "ready"
       /\ ~shutdown /\ started = args.threads
       /\ \A i \in 1..args.threads : handle[i] = "thread" /\ worker[i] = "running"
  /\ result = "null" =>
       /\ Alive = {}
       /\ mem = "live" => shutdown /\ \E i \in 1..args.threads : handle[i] = "raw"

CreateInv ==
  CreateTypes /\ WithinLimits /\ AtStart /\ WhileBuilding /\ WayBack /\ AtEnd

LEMMA CreateInit == Init => CreateInv
<1> SUFFICES ASSUME Init PROVE CreateInv
  OBVIOUS
<1>1. args \in [threads : Int, queues : Int, argSize : Int, affinity : Int]
  <2>1. args \in [threads : ThreadCounts, queues : QueueSizes, argSize : ArgSizes,
                  affinity : Affinities]
    BY DEF Init
  <2>2. ThreadCounts \subseteq Int /\ QueueSizes \subseteq Int /\ ArgSizes \subseteq Int
        /\ Affinities \subseteq Int
    BY CreateAssumption
  <2> HIDE DEF Init
  <2> QED BY ONLY <2>1, <2>2
<1>2. CreateTypes
  <2>1. handle \in [Ids -> {"raw", "thread"}] /\ worker \in [Ids -> {"none", "running", "done"}]
    BY DEF Init
  <2>2. \A i \in Ids : worker[i] = "none" <=> handle[i] = "raw"
    BY DEF Init
  <2>3. pc = "check" /\ id = 1 /\ started = 0 /\ shutdown = FALSE /\ err = "success"
    BY DEF Init
  <2>4. pc \in Early
    BY <2>3 DEF Early
  <2>5. id \in Int /\ started \in Int
    BY <2>3
  <2>6. shutdown \in BOOLEAN
    BY <2>3
  <2>7. err \in {"success", "run_failure"}
    BY <2>3
  <2> QED BY ONLY <1>1, <2>1, <2>2, <2>4, <2>5, <2>6, <2>7 DEF CreateTypes
<1>3. WithinLimits /\ AtStart /\ WhileBuilding /\ WayBack /\ AtEnd
  BY DEF Init, WithinLimits, AtStart, WhileBuilding, WayBack, AtEnd, Early, Building
<1> QED BY <1>2, <1>3 DEF CreateInv

LEMMA AliveFinite == IsFiniteSet(Alive) /\ Cardinality(Alive) \in Nat
<1>1. IsFiniteSet(Ids)
  BY CreateAssumption, FS_Interval DEF Ids
<1> QED BY <1>1, FS_Subset, FS_CardinalityType DEF Alive

\* The workers alive while the pool is built are as many as id says.
LEMMA BuildingCount ==
  ASSUME CreateInv, pc \in Building
  PROVE  started <= Cardinality(Alive)
<1> DEFINE n == IF pc = "getaffinity" THEN id ELSE id - 1
<1>1. n \in 0..args.threads /\ args.threads \in 1..MaxThreads /\ started <= n
  BY CreateAssumption DEF CreateInv, CreateTypes, WithinLimits, WhileBuilding
<1>2. Alive = 1..n
  BY <1>1, CreateAssumption DEF CreateInv, CreateTypes, WhileBuilding, Alive, Ids
<1>3. Cardinality(1..n) = n
  BY <1>1, FS_Interval
<1> QED BY <1>1, <1>2, <1>3

LEMMA CreateStep == CreateInv /\ [Next]_vars => CreateInv'
<1> SUFFICES ASSUME CreateInv, [Next]_vars PROVE CreateInv'
  OBVIOUS
<1> USE CreateAssumption
    DEF CreateInv, CreateTypes, WithinLimits, AtStart, WhileBuilding, WayBack, AtEnd, Early,
        Building, Ids, Goto, ReturnNull, fixed, objects, pool
<1>1. CASE Check
  <2>1. /\ args' \in [threads : Int, queues : Int, argSize : Int, affinity : Int]
        /\ args'.threads \in 1..MaxThreads /\ args'.queues \in 1..MaxQueues
    <3> DEFINE t == IF args.threads = 0 THEN DefaultThreads ELSE args.threads
               q == IF args.queues = 0 THEN DefaultQueues ELSE args.queues
    <3>1. t \in 1..MaxThreads /\ q \in 1..MaxQueues /\ MaxThreads \in Nat /\ MaxQueues \in Nat
      BY <1>1 DEF Check, Accepted
    <3>2. args' = [args EXCEPT !.threads = t, !.queues = q]
      BY <1>1 DEF Check, Adjusted
    <3>3. args \in [threads : Int, queues : Int, argSize : Int, affinity : Int]
      OBVIOUS
    <3> HIDE DEF t, q
    <3>4. t \in Int /\ q \in Int
      BY ONLY <3>1
    <3>5. args' \in [threads : Int, queues : Int, argSize : Int, affinity : Int]
      BY ONLY <3>2, <3>3, <3>4
    <3>6. args'.threads = t /\ args'.queues = q
      BY ONLY <3>2, <3>3, <3>4
    <3> QED BY ONLY <3>1, <3>5, <3>6
  <2> QED BY <1>1, <2>1 DEF Check, Alive
<1>2. CASE Reject \/ MallocFails
  BY <1>2 DEF Reject, MallocFails, Alive
<1>3. CASE Malloc \/ MutexInit \/ CondInit
  BY <1>3 DEF Malloc, MutexInit, CondInit, Alive
<1>4. CASE AttrInit
  BY <1>4 DEF AttrInit, Alive
<1>5. CASE InitFails
  BY <1>5 DEF InitFails, Alive
<1>6. CASE Loop \/ SetAffinity
  BY <1>6 DEF Loop, SetAffinity, Alive
<1>7. CASE SetAffinityFails \/ CreateThreadFails \/ GetAffinityFails \/ AttrDestroyFails
  <2>1. started <= Cardinality(Alive)
    BY <1>7, BuildingCount DEF SetAffinityFails, CreateThreadFails, GetAffinityFails,
                               AttrDestroyFails
  <2>2. Alive' = Alive
    BY <1>7 DEF SetAffinityFails, CreateThreadFails, GetAffinityFails, AttrDestroyFails, Alive
  <2> QED BY <1>7, <2>1, <2>2 DEF SetAffinityFails, CreateThreadFails, GetAffinityFails,
                                  AttrDestroyFails
<1>8. CASE CreateThread
  BY <1>8 DEF CreateThread
<1>9. CASE GetAffinity
  BY <1>9 DEF GetAffinity
<1>10. CASE AttrDestroy
  BY <1>10 DEF AttrDestroy, Alive
<1>11. CASE Shutdown
  BY <1>11 DEF Shutdown, Alive
<1>12. CASE JoinDone
  BY <1>12 DEF JoinDone, Alive
<1>13. CASE JoinRaw
  BY <1>13 DEF JoinRaw, Alive
<1>14. CASE Joined
  <2>1. Alive = {}
    BY <1>14 DEF Joined, Alive
  <2>2. Alive' = {} /\ started <= 0
    BY <1>14, <2>1, FS_EmptySet DEF Joined, Alive
  <2> QED BY <1>14, <2>1, <2>2 DEF Joined
<1>15. CASE Free
  BY <1>15 DEF Free, Alive
<1>16. ASSUME NEW i \in Ids, WorkerLeaves(i) PROVE CreateInv'
  <2>1. i \in Alive /\ Alive' = Alive \ {i}
    BY <1>16 DEF WorkerLeaves, Alive
  <2>2. Cardinality(Alive') = Cardinality(Alive) - 1
    BY <2>1, AliveFinite, FS_RemoveElement
  <2>3. pc = "join" => started' <= Cardinality(Alive')
    BY <1>16, <2>2, AliveFinite DEF WorkerLeaves
  <2> QED BY <1>16, <2>1, <2>3 DEF WorkerLeaves
<1>17. CASE UNCHANGED vars
  BY <1>17 DEF vars, Alive
<1> QED BY <1>1, <1>2, <1>3, <1>4, <1>5, <1>6, <1>7, <1>8, <1>9, <1>10, <1>11, <1>12, <1>13,
           <1>14, <1>15, <1>16, <1>17 DEF Next, Creator, Returned

LEMMA CreateInvariance == Spec => []CreateInv
BY CreateInit, CreateStep, PTL DEF Spec

\* The pool a caller gets has all its workers, running and counted, and a lock
\* and a condition variable that can be used: ThreadPool!Init, for any limits.
THEOREM CreatedPoolIsReady == Spec => []ReturnedPoolIsReady
<1>1. CreateInv => ReturnedPoolIsReady
  BY DEF CreateInv, WithinLimits, AtEnd, ReturnedPoolIsReady
<1> QED BY <1>1, CreateInvariance, PTL

\* When threadpool_create gives up no worker is left running, and the memory is
\* freed unless a worker could not be created and its join failed.
THEOREM GivingUpCleansUp == Spec => []NothingLeftBehind
<1>1. CreateInv => NothingLeftBehind
  BY DEF CreateInv, AtEnd, Alive, NothingLeftBehind, FreedAfterWorkers, LeakOnlyAfterFailedJoin
<1> QED BY <1>1, CreateInvariance, PTL

-----------------------------------------------------------------------------
(* The placing of the workers *)

\* What thread_set_affinity_cpus takes for granted: it looks at the number of
\* the CPUs online only.
LowestOnline == \A cpus \in OnlineSets : \E n \in Nat \ {0} : cpus = 0..(n - 1)

-----------------------------------------------------------------------------
(* Arithmetic *)

LEMMA MulMonotone ==
  ASSUME NEW a \in Nat, NEW g \in Int, NEW h \in Int, g <= h
  PROVE  a * g <= a * h
<1>1. a * (h - g) >= 0
  OBVIOUS
<1>2. a * (h - g) = a * h - a * g
  OBVIOUS
<1> QED BY <1>1, <1>2

LEMMA MulCancel ==
  ASSUME NEW a \in Nat \ {0}, NEW g \in Int, NEW h \in Int, a * g < a * h
  PROVE  g < h
<1> SUFFICES ASSUME h <= g PROVE FALSE
  OBVIOUS
<1>1. a * h <= a * g
  BY MulMonotone
<1> QED BY <1>1

\* Division with remainder has one result.
LEMMA ModOf ==
  ASSUME NEW m \in Nat \ {0}, NEW q \in Nat, NEW r \in 0..(m - 1), NEW n \in Nat, n = m * q + r
  PROVE  n % m = r
<1> DEFINE d == n \div m
           s == n % m
<1>1. s \in 0..(m - 1) /\ d \in Int
  OBVIOUS
<1>2. s = n - m * d
  BY SMTT(30)
<1>3. m * (q + 1) = m * q + m /\ m * (d + 1) = m * d + m
  <2> d \in Int
    BY <1>1
  <2> HIDE DEF d
  <2> QED OBVIOUS
<1>4. m * d \in Int /\ m * q \in Int
  <2> d \in Int
    BY <1>1
  <2> HIDE DEF d
  <2> QED OBVIOUS
<1> HIDE DEF d, s
<1> DEFINE D == m * d
           Q == m * q
<1>5. /\ n = Q + r /\ s = n - D /\ s \in 0..(m - 1)
      /\ m * (q + 1) = Q + m /\ m * (d + 1) = D + m /\ D \in Int /\ Q \in Int
  BY <1>1, <1>2, <1>3, <1>4
<1> HIDE DEF D, Q
<1>6. D < m * (q + 1) /\ Q < m * (d + 1)
  BY <1>5
<1>7. d < q + 1 /\ q < d + 1
  BY <1>1, <1>6, MulCancel DEF D, Q
<1>8. D = Q
  BY <1>1, <1>7 DEF D, Q
<1> QED BY <1>5, <1>8 DEF s

LEMMA DivBound ==
  ASSUME NEW n \in Nat, NEW a \in Nat \ {0}
  PROVE  /\ n \div a \in Nat /\ a * (n \div a) <= n
         /\ a <= n => n \div a >= 1
OBVIOUS

-----------------------------------------------------------------------------
(* The groups *)

\* The size of a group is positive whenever there is something to place.
LEMMA CappedPositive ==
  ASSUME NEW f \in Int, f > 0 \/ f = -1
  PROVE  Capped(f) \in Nat \ {0}
BY CpuAssumption DEF Capped

\* The first CPU of every group is online, and no CPU of it offline unless
\* there are fewer CPUs online than a group has.
LEMMA GroupIsOnline ==
  ASSUME NEW n \in Nat \ {0}, NEW a \in Nat \ {0}, NEW g \in 0..(Groups(n, a) - 1),
         0..(n - 1) \subseteq CpuIds
  PROVE  /\ Groups(n, a) \in Nat \ {0}
         /\ a * g \in CpusOf(g, a) \cap (0..(n - 1))
         /\ a <= n => CpusOf(g, a) \subseteq 0..(n - 1)
<1>1. Groups(n, a) \in Nat \ {0}
  BY DivBound DEF Groups
<1>2. g \in Nat /\ g + 1 <= Groups(n, a)
  BY <1>1
<1> DEFINE G == Groups(n, a)
<1>3. G = 1 \/ a * G <= n
  BY DivBound DEF Groups
<1>4. a <= n => a * G <= n
  BY DivBound DEF Groups
<1> HIDE DEF G
<1>5. G \in Nat /\ g + 1 <= G
  BY <1>1, <1>2 DEF G
<1>6. a * (g + 1) <= a * G /\ a * (g + 1) = a * g + a
  BY <1>2, <1>5, MulMonotone
<1>7. a * g \in Nat /\ a * G \in Nat
  BY <1>2, <1>5
<1>8. a * g <= n - 1
  <2>1. CASE G = 1
    <3>1. g = 0
      BY <1>2, <1>5, <2>1
    <3> QED BY <3>1
  <2>2. CASE a * G <= n
    BY <1>6, <1>7, <2>2
  <2> QED BY <1>3, <2>1, <2>2
<1> DEFINE A == a * g
           B == a * (g + 1)
<1>9. A \in Nat /\ B = A + a /\ A <= n - 1 /\ (a <= n => B <= n)
  BY <1>4, <1>6, <1>7, <1>8
<1>10. CpusOf(g, a) = A .. (B - 1) \cap CpuIds
  BY DEF CpusOf
<1> HIDE DEF A, B
<1>11. A \in CpusOf(g, a) \cap (0..(n - 1))
  BY <1>9, <1>10
<1>12. a <= n => CpusOf(g, a) \subseteq 0..(n - 1)
  BY <1>9, <1>10
<1> QED BY <1>1, <1>11, <1>12 DEF A

\* Different groups have no CPU in common.
LEMMA GroupsDisjoint ==
  ASSUME NEW a \in Nat \ {0}, NEW g \in Nat, NEW h \in Nat, g # h
  PROVE  CpusOf(g, a) \cap CpusOf(h, a) = {}
<1>1. ASSUME NEW x \in Nat, NEW y \in Nat, x < y
      PROVE  CpusOf(x, a) \cap CpusOf(y, a) = {}
  <2>1. a * (x + 1) <= a * y
    BY <1>1, MulMonotone
  <2>2. a * x \in Int /\ a * y \in Int /\ a * (x + 1) \in Int /\ a * (y + 1) \in Int
    OBVIOUS
  <2> DEFINE X == a * (x + 1)
             Y == a * y
             W == a * x
             Z == a * (y + 1)
  <2>3. X <= Y /\ X \in Int /\ Y \in Int /\ W \in Int /\ Z \in Int
    BY <2>1, <2>2
  <2>4. CpusOf(x, a) \subseteq W .. (X - 1) /\ CpusOf(y, a) \subseteq Y .. (Z - 1)
    BY DEF CpusOf
  <2> HIDE DEF X, Y, W, Z
  <2>5. (W .. (X - 1)) \cap (Y .. (Z - 1)) = {}
    BY <2>3
  <2> QED BY <2>4, <2>5
<1>2. CASE g < h
  BY <1>1, <1>2
<1>3. CASE h < g
  BY <1>1, <1>3
<1> QED BY <1>2, <1>3

-----------------------------------------------------------------------------
(* Turns: the thread j goes to group j % m *)

Members(L, m, g) == {j \in 1..L : j % m = g}

\* L = m * q + r threads: the groups 1..r have had one turn more.
Spread(L, m) ==
  \E q \in Nat, r \in 0..(m - 1) :
    /\ L = m * q + r
    /\ \A g \in 0..(m - 1) :
         Cardinality(Members(L, m, g)) = IF g \in 1..r THEN q + 1 ELSE q

LEMMA MembersFinite ==
  ASSUME NEW L \in Nat, NEW m, NEW g
  PROVE  IsFiniteSet(Members(L, m, g)) /\ Cardinality(Members(L, m, g)) \in Nat
<1>1. IsFiniteSet(1..L)
  BY FS_Interval
<1>2. Members(L, m, g) \subseteq 1..L
  BY DEF Members
<1> QED BY <1>1, <1>2, FS_Subset, FS_CardinalityType

LEMMA SpreadStart ==
  ASSUME NEW m \in Nat \ {0}
  PROVE  Spread(0, m)
<1>1. \A g \in 0..(m - 1) : Cardinality(Members(0, m, g)) = 0
  <2> SUFFICES ASSUME NEW g \in 0..(m - 1) PROVE Cardinality(Members(0, m, g)) = 0
    OBVIOUS
  <2>1. Members(0, m, g) = {}
    BY DEF Members
  <2> QED BY <2>1, FS_EmptySet
<1>2. 0 = m * 0 + 0 /\ 0 \in 0..(m - 1)
  OBVIOUS
<1> QED BY <1>1, <1>2 DEF Spread

\* One more thread joins its group and no other.
LEMMA MembersNext ==
  ASSUME NEW L \in Nat, NEW m, NEW g
  PROVE  Cardinality(Members(L + 1, m, g)) =
         Cardinality(Members(L, m, g)) + IF (L + 1) % m = g THEN 1 ELSE 0
<1>1. CASE (L + 1) % m = g
  <2>1. Members(L + 1, m, g) = Members(L, m, g) \cup {L + 1} /\ L + 1 \notin Members(L, m, g)
    BY <1>1 DEF Members
  <2> QED BY <1>1, <2>1, MembersFinite, FS_AddElement
<1>2. CASE (L + 1) % m # g
  <2>1. Members(L + 1, m, g) = Members(L, m, g)
    BY <1>2 DEF Members
  <2> QED BY <1>2, <2>1, MembersFinite
<1> QED BY <1>1, <1>2

LEMMA SpreadNext ==
  ASSUME NEW L \in Nat, NEW m \in Nat \ {0}, Spread(L, m)
  PROVE  Spread(L + 1, m)
<1>1. PICK q \in Nat, r \in 0..(m - 1) :
        /\ L = m * q + r
        /\ \A g \in 0..(m - 1) :
             Cardinality(Members(L, m, g)) = IF g \in 1..r THEN q + 1 ELSE q
  BY DEF Spread
<1>2. CASE r + 1 < m
  <2>1. r + 1 \in 0..(m - 1) /\ L + 1 = m * q + (r + 1)
    BY <1>1, <1>2
  <2>2. (L + 1) % m = r + 1
    <3> DEFINE n == L + 1
               k == r + 1
    <3>1. n \in Nat /\ k \in 0..(m - 1) /\ n = m * q + k
      BY <2>1
    <3> HIDE DEF n, k
    <3>2. n % m = k
      BY ONLY ModOf, <3>1, m \in Nat \ {0}, q \in Nat
    <3> QED BY <3>2 DEF n, k
  <2>3. ASSUME NEW g \in 0..(m - 1)
        PROVE  Cardinality(Members(L + 1, m, g)) = IF g \in 1..(r + 1) THEN q + 1 ELSE q
    BY <1>1, <2>2, MembersNext
  <2> QED BY <2>1, <2>3 DEF Spread
<1>3. CASE r = m - 1
  <2>1. m * (q + 1) = m * q + m
    OBVIOUS
  <2>2. L + 1 = m * (q + 1) + 0 /\ 0 \in 0..(m - 1) /\ q + 1 \in Nat
    BY <1>1, <1>3, <2>1
  <2>3. (L + 1) % m = 0
    <3> DEFINE n == L + 1
               p == q + 1
               k == 0
    <3>1. n \in Nat /\ p \in Nat /\ k \in 0..(m - 1) /\ n = m * p + k
      BY <2>2
    <3> HIDE DEF n, p, k
    <3>2. n % m = k
      BY ONLY ModOf, <3>1, m \in Nat \ {0}
    <3> QED BY <3>2 DEF n, k
  <2>4. ASSUME NEW g \in 0..(m - 1)
        PROVE  Cardinality(Members(L + 1, m, g)) = IF g \in 1..0 THEN q + 2 ELSE q + 1
    BY <1>1, <1>3, <2>3, MembersNext
  <2> QED BY <2>2, <2>4 DEF Spread
<1> QED BY <1>2, <1>3

-----------------------------------------------------------------------------
(* The invariant of the loop *)

groups == Groups(get_nprocs, Capped(args.affinity))

\* The workers placed so far, those up to id or just below it, are where their
\* ids put them.
PlaceInv ==
  /\ online \in OnlineSets
  /\ masks \in Seq(SUBSET CpuIds)
  /\ \A i \in 1..Len(masks) :
       masks[i] = thread_set_affinity_cpus(i, args.affinity, get_nprocs)
  /\ Spread(Len(masks), groups)
  /\ args.affinity <= 0 => Len(masks) = 0
  /\ pc \in Early => Len(masks) = 0
  /\ pc = "setaffinity" => args.affinity > 0
  /\ args.affinity > 0 =>
       /\ pc \in {"loop", "setaffinity"} => Len(masks) = id - 1
       /\ pc \in {"create", "getaffinity"} => Len(masks) = id

\* There is a CPU online, and so there is a group.
LEMMA SomeOnline ==
  ASSUME LowestOnline, online \in OnlineSets, args.affinity \in Int
  PROVE  /\ get_nprocs \in Nat \ {0} /\ online = 0..(get_nprocs - 1) /\ online \subseteq CpuIds
         /\ groups \in Nat \ {0}
<1>1. PICK n \in Nat \ {0} : online = 0..(n - 1)
  BY DEF LowestOnline
<1>2. get_nprocs = n
  BY <1>1, FS_Interval DEF get_nprocs
<1>3. online \subseteq CpuIds
  BY CreateAssumption
<1>4. Groups(n, Capped(args.affinity)) \in Nat \ {0}
  <2>1. Capped(args.affinity) \in Int
    BY CpuAssumption DEF Capped
  <2> QED BY <2>1, DivBound DEF Groups
<1> QED BY <1>1, <1>2, <1>3, <1>4 DEF groups

LEMMA PlaceInit ==
  ASSUME LowestOnline
  PROVE  Init => PlaceInv
<1> SUFFICES ASSUME Init PROVE PlaceInv
  OBVIOUS
<1>1. args.affinity \in Int
  BY CreateInit DEF CreateInv, CreateTypes
<1>2. groups \in Nat \ {0}
  BY <1>1, SomeOnline DEF Init
<1>3. Spread(0, groups)
  BY <1>2, SpreadStart
<1>4. masks = <<>> /\ pc = "check" /\ online \in OnlineSets
  BY DEF Init
<1>5. masks \in Seq(SUBSET CpuIds) /\ Len(masks) = 0
  BY <1>4
<1> QED BY <1>3, <1>4, <1>5 DEF PlaceInv

\* Placing is the one step that counts.
LEMMA PlaceNext ==
  ASSUME LowestOnline, CreateInv, PlaceInv, pc = "setaffinity", Place, UNCHANGED fixed
  PROVE  /\ masks' \in Seq(SUBSET CpuIds) /\ Len(masks') = id
         /\ \A i \in 1..Len(masks') :
              masks'[i] = thread_set_affinity_cpus(i, args'.affinity, get_nprocs')
         /\ Spread(Len(masks'), groups')
<1> DEFINE new == thread_set_affinity_cpus(id, args.affinity, get_nprocs)
<1>1. masks \in Seq(SUBSET CpuIds) /\ Len(masks) = id - 1 /\ id \in Nat
  BY DEF PlaceInv, CreateInv, CreateTypes, WhileBuilding, Building
<1>2. new \in SUBSET CpuIds
  BY DEF thread_set_affinity_cpus, CpusOf
<1>3. masks' = Append(masks, new)
  BY DEF Place
<1>4. get_nprocs' = get_nprocs /\ groups' = groups /\ args' = args
  BY DEF fixed, get_nprocs, groups
<1> HIDE DEF new
<1>5. masks' \in Seq(SUBSET CpuIds) /\ Len(masks') = id
  BY <1>1, <1>2, <1>3, AppendProperties
<1>6. \A i \in 1..Len(masks') : masks'[i] = thread_set_affinity_cpus(i, args.affinity, get_nprocs)
  <2> SUFFICES ASSUME NEW i \in 1..Len(masks')
               PROVE  masks'[i] = thread_set_affinity_cpus(i, args.affinity, get_nprocs)
    OBVIOUS
  <2>1. CASE i \in 1..Len(masks)
    <3>1. masks'[i] = masks[i]
      BY <1>1, <1>2, <1>3, <2>1, AppendProperties
    <3> QED BY <2>1, <3>1 DEF PlaceInv
  <2>2. CASE i = id
    <3>1. masks'[i] = new
      BY <1>1, <1>2, <1>3, <2>2, AppendProperties
    <3> QED BY <2>2, <3>1 DEF new
  <2> QED BY <1>1, <1>5, <2>1, <2>2
<1>7. Spread(Len(masks) + 1, groups)
  <2>1. groups \in Nat \ {0}
    BY SomeOnline DEF PlaceInv, CreateInv, CreateTypes
  <2>2. Spread(Len(masks), groups) /\ Len(masks) \in Nat
    BY <1>1 DEF PlaceInv
  <2> QED BY <2>1, <2>2, SpreadNext
<1> QED BY <1>1, <1>4, <1>5, <1>6, <1>7

LEMMA PlaceStep ==
  ASSUME LowestOnline
  PROVE  CreateInv /\ PlaceInv /\ [Next]_vars => PlaceInv'
<1> SUFFICES ASSUME CreateInv, PlaceInv, [Next]_vars PROVE PlaceInv'
  OBVIOUS
<1>1. CASE SetAffinity \/ SetAffinityFails
  <2>1. pc = "setaffinity" /\ Place /\ UNCHANGED fixed /\ id' = id
        /\ pc' \in {"create", "destroy"}
    BY <1>1 DEF SetAffinity, SetAffinityFails, Goto
  <2>2. args.affinity > 0 /\ args' = args /\ online' = online
    BY <2>1 DEF PlaceInv, fixed
  <2>3. args.affinity \in Int
    BY DEF CreateInv, CreateTypes
  <2> QED BY <2>1, <2>2, <2>3, PlaceNext DEF PlaceInv, Early
<1>2. CASE masks' = masks
  <2>1. online' = online /\ args'.affinity = args.affinity
    <3>1. CASE Check
      BY <3>1 DEF Check, Adjusted, CreateInv, CreateTypes
    <3>2. CASE UNCHANGED fixed
      BY <3>2 DEF fixed
    <3> QED BY <3>1, <3>2 DEF Next, Creator, Reject, Malloc, MallocFails, MutexInit, CondInit,
                  AttrInit, InitFails, Loop, SetAffinity, SetAffinityFails, CreateThread,
                  CreateThreadFails, GetAffinity, GetAffinityFails, AttrDestroy,
                  AttrDestroyFails, Shutdown, JoinDone, JoinRaw, Joined, Free, WorkerLeaves,
                  Returned, vars, fixed
  <2>2. groups' = groups /\ get_nprocs' = get_nprocs
    BY <2>1 DEF groups, get_nprocs
  <2>3. pc' \in Early => Len(masks) = 0
    BY DEF Next, Creator, Check, Reject, Malloc, MallocFails, MutexInit, CondInit,
           AttrInit, InitFails, Loop, SetAffinity, SetAffinityFails, CreateThread,
           CreateThreadFails, GetAffinity, GetAffinityFails, AttrDestroy,
           AttrDestroyFails, Shutdown, JoinDone, JoinRaw, Joined, Free, WorkerLeaves,
           Returned, vars, Goto, Early, PlaceInv
  <2>4. pc' = "setaffinity" => args.affinity > 0
    BY DEF Next, Creator, Check, Reject, Malloc, MallocFails, MutexInit, CondInit,
           AttrInit, InitFails, Loop, SetAffinity, SetAffinityFails, CreateThread,
           CreateThreadFails, GetAffinity, GetAffinityFails, AttrDestroy,
           AttrDestroyFails, Shutdown, JoinDone, JoinRaw, Joined, Free, WorkerLeaves,
           Returned, vars, Goto, PlaceInv
  <2>5. ASSUME args.affinity > 0
        PROVE  /\ pc' \in {"loop", "setaffinity"} => Len(masks) = id' - 1
               /\ pc' \in {"create", "getaffinity"} => Len(masks) = id'
    <3>1. CASE SetAffinity \/ SetAffinityFails
      <4>1. Len(masks') = id /\ Len(masks) = id - 1 /\ id \in Int
        BY <2>5, <3>1, PlaceNext DEF SetAffinity, SetAffinityFails, Goto, PlaceInv,
           CreateInv, CreateTypes
      <4> QED BY <1>2, <4>1
    <3>2. CASE Loop
      BY <2>5, <3>2 DEF Loop, PlaceInv
    <3>3. CASE GetAffinity
      BY <2>5, <3>3 DEF GetAffinity, Goto, PlaceInv, CreateInv, CreateTypes
    <3>4. CASE CreateThread
      BY <2>5, <3>4 DEF CreateThread, Goto, PlaceInv
    <3>5. CASE AttrInit
      BY <2>5, <3>5 DEF AttrInit, Goto, PlaceInv, CreateInv, CreateTypes, AtStart, Early
    <3>6. CASE UNCHANGED vars
      BY <2>5, <3>6 DEF vars, PlaceInv
    <3>7. ASSUME NEW i \in Ids, WorkerLeaves(i)
          PROVE  pc' = pc /\ id' = id
      BY <3>7 DEF WorkerLeaves
    <3>8. CASE \/ Check \/ Reject \/ Malloc \/ MallocFails \/ MutexInit \/ CondInit \/ InitFails
               \/ CreateThreadFails \/ GetAffinityFails \/ AttrDestroy \/ AttrDestroyFails
               \/ Shutdown \/ JoinDone \/ JoinRaw \/ Joined \/ Free
      BY <3>8 DEF Check, Reject, Malloc, MallocFails, MutexInit, CondInit, InitFails,
         CreateThreadFails, GetAffinityFails, AttrDestroy, AttrDestroyFails, Shutdown,
         JoinDone, JoinRaw, Joined, Free, Goto
    <3> QED BY <2>5, <3>1, <3>2, <3>3, <3>4, <3>5, <3>6, <3>7, <3>8
            DEF Next, Creator, Returned, PlaceInv
  <2> QED BY <1>2, <2>1, <2>2, <2>3, <2>4, <2>5 DEF PlaceInv
<1> QED BY <1>1, <1>2 DEF Next, Creator, Check, Reject, Malloc, MallocFails, MutexInit, CondInit,
           AttrInit, InitFails, Loop, CreateThread, CreateThreadFails, GetAffinity,
           GetAffinityFails, AttrDestroy, AttrDestroyFails, Shutdown, JoinDone, JoinRaw,
           Joined, Free, WorkerLeaves, Returned, vars, pool

LEMMA PlaceInvariance ==
  ASSUME LowestOnline
  PROVE  Spec => [](CreateInv /\ PlaceInv)
<1>1. Init => PlaceInv
  BY PlaceInit
<1>2. CreateInv /\ PlaceInv /\ [Next]_vars => PlaceInv'
  BY PlaceStep
<1> QED BY <1>1, <1>2, CreateInit, CreateStep, PTL DEF Spec

-----------------------------------------------------------------------------
(* What follows from it *)

\* A worker that is placed: its group, and where that is.
LEMMA MaskOfWorker ==
  ASSUME LowestOnline, CreateInv, PlaceInv, NEW i \in Placed
  PROVE  /\ i \in 1..Len(masks) /\ Placed = 1..Len(masks)
         /\ Capped(args.affinity) \in Nat \ {0}
         /\ i % groups \in 0..(groups - 1)
         /\ masks[i] = CpusOf(i % groups, Capped(args.affinity))
<1>1. Placed = 1..Len(masks)
  BY DEF Placed, PlaceInv
<1>2. args.affinity \in Int /\ args.affinity > 0
  <2>1. args.affinity \in Int
    BY DEF CreateInv, CreateTypes
  <2> QED BY <1>1, <2>1 DEF PlaceInv
<1>3. groups \in Nat \ {0}
  BY <1>2, SomeOnline DEF PlaceInv
<1>4. i \in Nat
  BY <1>1
<1>5. i % groups \in 0..(groups - 1)
  <2> DEFINE g == groups
  <2>1. g \in Nat \ {0}
    BY <1>3
  <2> HIDE DEF g
  <2>2. i % g \in 0..(g - 1)
    BY <1>4, <2>1
  <2> QED BY <2>2 DEF g
<1>6. masks[i] = CpusOf(i % groups, Capped(args.affinity))
  BY <1>1 DEF PlaceInv, thread_set_affinity_cpus, GroupOf, groups
<1> QED BY <1>1, <1>2, <1>5, <1>6, CappedPositive

LEMMA SameMask ==
  ASSUME LowestOnline, CreateInv, PlaceInv, NEW i \in Placed, NEW j \in Placed
  PROVE  /\ masks[i] \cap online # {}
         /\ Capped(args.affinity) <= get_nprocs => masks[i] \subseteq online
         /\ masks[i] = masks[j] \/ masks[i] \cap masks[j] = {}
         /\ masks[i] = masks[j] <=> i % groups = j % groups
<1> DEFINE g == i % groups
           h == j % groups
           a == Capped(args.affinity)
<1>1. /\ g \in 0..(groups - 1) /\ h \in 0..(groups - 1) /\ a \in Nat \ {0}
      /\ masks[i] = CpusOf(g, a) /\ masks[j] = CpusOf(h, a)
  BY MaskOfWorker
<1>2. /\ get_nprocs \in Nat \ {0} /\ online = 0..(get_nprocs - 1)
      /\ 0..(get_nprocs - 1) \subseteq CpuIds /\ groups = Groups(get_nprocs, a)
      /\ groups \in Nat \ {0}
  <2>1. args.affinity \in Int
    BY DEF CreateInv, CreateTypes
  <2> QED BY <2>1, SomeOnline DEF PlaceInv, groups
<1> HIDE DEF g, h, a
<1>3. /\ a * g \in CpusOf(g, a) \cap online
      /\ a <= get_nprocs => CpusOf(g, a) \subseteq online
  BY <1>1, <1>2, GroupIsOnline
<1>4. g # h => CpusOf(g, a) \cap CpusOf(h, a) = {}
  <2>1. g \in Nat /\ h \in Nat
    BY <1>1, <1>2
  <2> QED BY ONLY <1>1, <2>1, GroupsDisjoint
<1>5. masks[i] \cap online # {} /\ (a <= get_nprocs => masks[i] \subseteq online)
  BY <1>1, <1>3
<1>6. masks[i] = masks[j] \/ masks[i] \cap masks[j] = {}
  BY <1>1, <1>4
<1>7. masks[i] = masks[j] <=> g = h
  BY <1>1, <1>3, <1>4
<1> QED BY <1>5, <1>6, <1>7 DEF g, h, a

LEMMA EvenSpread ==
  ASSUME LowestOnline, CreateInv, PlaceInv
  PROVE  SpreadEvenly
<1> SUFFICES ASSUME NEW i \in Placed
             PROVE  /\ (Crowd(i) - 1) * groups < Len(masks)
                    /\ Len(masks) < (Crowd(i) + 1) * groups
  BY DEF SpreadEvenly, groups
<1> DEFINE m == groups
           g == i % groups
<1>1. m \in Nat \ {0} /\ g \in 0..(m - 1) /\ Placed = 1..Len(masks)
  <2>1. args.affinity \in Int
    BY DEF CreateInv, CreateTypes
  <2> QED BY <2>1, SomeOnline, MaskOfWorker DEF PlaceInv
<1>2. Crowd(i) = Cardinality(Members(Len(masks), m, g))
  <2>1. {j \in Placed : masks[j] = masks[i]} = {j \in 1..Len(masks) : j % m = g}
    BY <1>1, SameMask
  <2> QED BY <2>1 DEF Crowd, Members
<1>3. Spread(Len(masks), m)
  BY DEF PlaceInv
<1> HIDE DEF m, g
<1>4. PICK q \in Nat, r \in 0..(m - 1) :
        Len(masks) = m * q + r /\ Crowd(i) = IF g \in 1..r THEN q + 1 ELSE q
  BY <1>1, <1>2, <1>3 DEF Spread
<1> DEFINE Q == m * q
<1>5. /\ Q \in Int /\ q * m = Q /\ (q - 1) * m = Q - m /\ (q + 1) * m = Q + m
      /\ (q + 2) * m = Q + m + m
  BY <1>1
<1>6. Len(masks) = Q + r
  BY <1>4
<1> HIDE DEF Q
<1>7. CASE g \in 1..r
  <2>1. Crowd(i) - 1 = q /\ Crowd(i) + 1 = q + 2 /\ r > 0
    BY <1>4, <1>7
  <2> QED BY <1>1, <1>5, <1>6, <2>1 DEF m
<1>8. CASE g \notin 1..r
  <2>1. Crowd(i) - 1 = q - 1 /\ Crowd(i) + 1 = q + 1
    BY <1>4, <1>8
  <2> QED BY <1>1, <1>5, <1>6, <2>1 DEF m
<1> QED BY <1>7, <1>8

\* As long as the CPUs online are those with the lowest ids, every worker that
\* asks for an affinity is given CPUs it can run on, the groups do not overlap,
\* and they have the same number of workers, give or take one.
THEOREM WorkersAreSpread ==
  ASSUME LowestOnline
  PROVE  Spec => []WorkersPlaced
<1>1. CreateInv /\ PlaceInv => WorkersPlaced
  <2> SUFFICES ASSUME CreateInv, PlaceInv PROVE WorkersPlaced
    OBVIOUS
  <2>1. EveryWorkerCanRun /\ GroupsApart
    BY SameMask DEF EveryWorkerCanRun, GroupsApart
  <2> QED BY <2>1, EvenSpread DEF WorkersPlaced
<1> QED BY <1>1, PlaceInvariance, PTL
=============================================================================
