----------------------------- MODULE LockProofs -----------------------------
(***************************************************************************)
(* Theorems about the mutexes and the read/write locks of pthreads-w32,    *)
(* for any number of threads and of calls, every kind of mutex, robust or  *)
(* not, whichever of the calls time out or are cancelled and whichever of  *)
(* the owners end, and wherever the counts of the readers are taken off.   *)
(***************************************************************************)
EXTENDS Mutex, RwLock, FiniteSetTheorems, TLAPS

(***************************************************************************)
(* Mutexes                                                                 *)
(***************************************************************************)

\* A program that uses one mutex: its calls, and the steps of the library.
MutexStep ==
  \E t \in Threads :
    MutexNext(t) \/ ((MutexCalls(t) \/ MutexUnlockCall(t)) /\ UNCHANGED lockVars)

MutexSpec ==
  CallsInit({"mutex"}) /\ MutexInit /\ [][MutexStep]_<<callVars, lockVars>>

-----------------------------------------------------------------------------
(* The invariant *)

MutexType ==
  [kind : {"normal", "recursive", "errorcheck"}, robust : BOOLEAN, idx : {-1, 0, 1},
   event : BOOLEAN, owner : Threads \cup {NoThread}, count : Int,
   state : {"consistent", "inconsistent", "dead", "notrecoverable"},
   listed : Threads \cup {NoThread}]

\* A thread that has given the mutex up and not yet stored it, and one that
\* has ended.
Leaving(t) == In(t, "mutex_unlock", "exchange")
Gone(t) == pc[t] = "exited" \/ In(t, "exit", "signal")

\* The mutex is locked in one of three ways: by its holder, by a holder that
\* ended ("dead", or unknown to the list), or for good.
Locked ==
  /\ \A t \in Threads : holds[t] > 0 => mx.idx # 0
  /\ \A t, u \in Threads : holds[t] > 0 /\ holds[u] > 0 => t = u
  /\ mx.state = "dead" \/ orphaned => mx.idx # 0 /\ \A t \in Threads : holds[t] = 0

\* What the mutex knows of its holder.
Known ==
  \A t \in Threads :
    /\ mx.listed = t => holds[t] > 0 /\ ~Leaving(t)
    /\ mx.owner = t => Gone(t) \/ (holds[t] > 0 /\ ~Leaving(t))
    /\ holds[t] > 0 /\ mx.kind = "recursive" /\ ~Leaving(t) => mx.owner = t /\ mx.count = holds[t]
    /\ holds[t] > 0 /\ (mx.kind # "recursive" \/ Leaving(t)) => holds[t] = 1
    /\ In(t, "mutex_unlock", "enter") \/ Leaving(t) => holds[t] > 0

MutexTypes ==
  /\ mx \in MutexType
  /\ pc = [t \in Threads |-> pc[t]] /\ op = [t \in Threads |-> op[t]]
  /\ holds \in [Threads -> Nat]

MutexInv == MutexTypes /\ Locked /\ Known

LEMMA MutexInvInit == CallsInit({"mutex"}) /\ MutexInit => MutexInv
<1> SUFFICES ASSUME CallsInit({"mutex"}), MutexInit PROVE MutexInv
  OBVIOUS
<1>1. PICK k \in Kinds : mx = NewMutex(k)
  BY DEF MutexInit
<1>2. k[1] \in {"normal", "recursive", "errorcheck"} /\ k[2] \in BOOLEAN
  BY MutexAssumption
<1>3. mx \in MutexType
  BY <1>1, <1>2 DEF NewMutex, MutexType
<1>4. mx.owner = NoThread /\ mx.listed = NoThread /\ mx.state = "consistent" /\ orphaned = FALSE
  BY <1>1 DEF NewMutex, MutexInit
<1>5. \A t \in Threads : holds[t] = 0 /\ pc[t] = "idle" /\ op[t] = "none"
  BY DEF CallsInit
<1>6. MutexTypes
  BY <1>3 DEF MutexTypes, CallsInit
<1>7. \A t \in Threads : mx.owner # t /\ mx.listed # t
  BY <1>4, CallsAssumption
<1>8. Locked
  BY <1>4, <1>5 DEF Locked
<1>9. Known
  BY <1>5, <1>7 DEF Known, In, Leaving
<1> QED BY <1>6, <1>8, <1>9 DEF MutexInv

-----------------------------------------------------------------------------
(* The kinds of steps *)

\* Thread t goes on in its call, begins one or returns, and neither gets the
\* mutex nor gives it up.
LEMMA GoesOn ==
  ASSUME MutexInv, NEW t \in Threads,
         mx' \in MutexType, mx'.kind = mx.kind, mx'.owner = mx.owner, mx'.count = mx.count,
         mx'.listed = mx.listed, mx.idx # 0 => mx'.idx # 0,
         mx'.state = "dead" => mx.state = "dead",
         UNCHANGED <<orphaned, holds>>,
         NEW f, NEW l,
         pc' = [pc EXCEPT ![t] = l], op' = [op EXCEPT ![t] = f],
         ~Leaving(t), ~(f = "mutex_unlock" /\ l = "exchange"),
         Gone(t) => l = "exited",
         f = "mutex_unlock" /\ l = "enter" => holds[t] > 0
  PROVE  MutexInv'
<1>1. MutexTypes'
  BY DEF MutexInv, MutexTypes
<1>2. Locked'
  BY DEF MutexInv, MutexTypes, Locked
<1>3. Known'
  BY DEF MutexInv, MutexTypes, Known, In, Leaving, Gone
<1> QED BY <1>1, <1>2, <1>3 DEF MutexInv

\* Thread t gets the mutex, which nobody holds.
LEMMA Gets ==
  ASSUME MutexInv, NEW t \in Threads,
         mx' \in MutexType, mx'.kind = mx.kind, mx'.idx # 0, mx'.state # "dead", ~orphaned',
         \A u \in Threads : holds[u] = 0,
         mx'.listed \in {t, mx.listed},
         mx.kind = "normal" => mx'.owner \in {t, mx.owner},
         mx.kind # "normal" => mx'.owner = t /\ mx'.count = 1,
         ReturnHolding(t, "0", 1), ~Gone(t)
  PROVE  MutexInv'
<1>0. /\ pc' = [pc EXCEPT ![t] = "idle"] /\ op' = [op EXCEPT ![t] = "none"]
      /\ holds' = [holds EXCEPT ![t] = @ + 1]
  BY DEF ReturnHolding
<1>1. MutexTypes'
  <2>1. holds' \in [Threads -> Nat]
    <3>1. holds[t] + 1 \in Nat /\ holds \in [Threads -> Nat]
      BY DEF MutexInv, MutexTypes
    <3> QED BY <1>0, <3>1
  <2>2. pc' = [u \in Threads |-> pc'[u]] /\ op' = [u \in Threads |-> op'[u]]
    BY <1>0 DEF MutexInv, MutexTypes
  <2> QED BY <2>1, <2>2 DEF MutexTypes
<1>2. Locked'
  BY <1>0 DEF MutexInv, MutexTypes, Locked
<1>3. Known'
  <2> SUFFICES ASSUME NEW u \in Threads
               PROVE  /\ mx'.listed = u => holds'[u] > 0 /\ ~Leaving(u)'
                      /\ mx'.owner = u => Gone(u)' \/ (holds'[u] > 0 /\ ~Leaving(u)')
                      /\ holds'[u] > 0 /\ mx'.kind = "recursive" /\ ~Leaving(u)' =>
                           mx'.owner = u /\ mx'.count = holds'[u]
                      /\ holds'[u] > 0 /\ (mx'.kind # "recursive" \/ Leaving(u)') => holds'[u] = 1
                      /\ In(u, "mutex_unlock", "enter")' \/ Leaving(u)' => holds'[u] > 0
    BY DEF Known
  <2>1. holds'[t] = 1 /\ pc'[t] = "idle" /\ op'[t] = "none"
    BY <1>0 DEF MutexInv, MutexTypes
  <2>2. u # t => holds'[u] = 0 /\ pc'[u] = pc[u] /\ op'[u] = op[u]
    BY <1>0 DEF MutexInv, MutexTypes
  <2>3. u # t => mx.listed # u /\ (mx.owner = u => Gone(u)) /\ ~In(u, "mutex_unlock", "enter")
                 /\ ~Leaving(u)
    BY DEF MutexInv, Known
  <2>4. CASE u = t
    BY <2>1, <2>4 DEF In, Leaving
  <2>5. CASE u # t
    BY <2>2, <2>3, <2>5 DEF In, Leaving, Gone
  <2> QED BY <2>4, <2>5
<1> QED BY <1>1, <1>2, <1>3 DEF MutexInv


\* What Own stores.
LEMMA OwnedFields ==
  ASSUME NEW m \in MutexType, NEW t \in Threads
  PROVE  /\ Owned(m, t) \in MutexType
         /\ Owned(m, t).kind = m.kind /\ Owned(m, t).idx = m.idx /\ Owned(m, t).state = m.state
         /\ Owned(m, t).listed \in {t, m.listed}
         /\ m.kind = "normal" => Owned(m, t).owner \in {t, m.owner}
         /\ m.kind # "normal" => Owned(m, t).owner = t /\ Owned(m, t).count = 1
<1> DEFINE o == IF m.kind = "normal" /\ ~m.robust THEN m.owner ELSE t
           c == IF m.kind = "normal" THEN m.count ELSE 1
           l == IF m.robust THEN t ELSE m.listed
<1>1. Owned(m, t) = [m EXCEPT !.owner = o, !.count = c, !.listed = l]
  BY DEF Owned
<1>2. o \in Threads \cup {NoThread} /\ c \in Int /\ l \in Threads \cup {NoThread}
  BY DEF MutexType
<1>3. /\ l \in {t, m.listed} /\ (m.kind = "normal" => o \in {t, m.owner})
      /\ m.kind # "normal" => o = t /\ c = 1
  OBVIOUS
<1> HIDE DEF o, c, l
<1>4. Owned(m, t) \in MutexType
  BY ONLY <1>1, <1>2, m \in MutexType DEF MutexType
<1>5. /\ Owned(m, t).owner = o /\ Owned(m, t).count = c /\ Owned(m, t).listed = l
      /\ Owned(m, t).kind = m.kind /\ Owned(m, t).idx = m.idx /\ Owned(m, t).state = m.state
  BY ONLY <1>1, m \in MutexType DEF MutexType
<1> QED BY <1>3, <1>4, <1>5

LEMMA OwnGets ==
  ASSUME MutexInv, NEW t \in Threads, NEW m \in MutexType, NEW r,
         Own(t, m, r), m.kind = mx.kind, m.owner = mx.owner, m.listed = mx.listed,
         m.idx # 0, m.state # "dead", r = "EOWNERDEAD" \/ ~orphaned,
         \A u \in Threads : holds[u] = 0, ~Gone(t)
  PROVE  MutexInv'
<1>1. mx' = Owned(m, t) /\ orphaned' = FALSE /\ ReturnHolding(t, "0", 1)
  BY DEF Own, ReturnHolding, MutexInv, MutexTypes
<1> QED BY <1>1, OwnedFields, Gets

\* A field of the mutex is stored, and the others stay.
LEMMA StoresIdx ==
  ASSUME NEW m \in MutexType, NEW x \in {-1, 0, 1}, NEW n, n = [m EXCEPT !.idx = x]
  PROVE  /\ n \in MutexType /\ n.idx = x
         /\ n.kind = m.kind /\ n.owner = m.owner /\ n.count = m.count
         /\ n.state = m.state /\ n.listed = m.listed
BY DEF MutexType

LEMMA StoresEvent ==
  ASSUME NEW m \in MutexType, NEW x \in BOOLEAN, NEW n, n = [m EXCEPT !.event = x]
  PROVE  /\ n \in MutexType
         /\ n.kind = m.kind /\ n.idx = m.idx /\ n.owner = m.owner
         /\ n.count = m.count /\ n.state = m.state /\ n.listed = m.listed
BY DEF MutexType

LEMMA StoresState ==
  ASSUME NEW m \in MutexType, NEW x \in {"consistent", "inconsistent", "dead", "notrecoverable"}, NEW n, n = [m EXCEPT !.state = x]
  PROVE  /\ n \in MutexType /\ n.state = x
         /\ n.kind = m.kind /\ n.idx = m.idx /\ n.owner = m.owner
         /\ n.count = m.count /\ n.listed = m.listed
BY DEF MutexType

LEMMA StoresCount ==
  ASSUME NEW m \in MutexType, NEW x \in Int, NEW n, n = [m EXCEPT !.count = x]
  PROVE  /\ n \in MutexType /\ n.count = x
         /\ n.kind = m.kind /\ n.idx = m.idx /\ n.owner = m.owner
         /\ n.state = m.state /\ n.listed = m.listed
BY DEF MutexType

\* A step that changes at most lock_idx, not to free it, the event, and the
\* state, not to "dead".
Kept ==
  /\ mx' \in MutexType
  /\ mx'.kind = mx.kind /\ mx'.owner = mx.owner /\ mx'.count = mx.count /\ mx'.listed = mx.listed
  /\ mx.idx # 0 => mx'.idx # 0
  /\ mx'.state = "dead" => mx.state = "dead"

LEMMA Moves ==
  ASSUME MutexInv, NEW t \in Threads, Kept, UNCHANGED orphaned, ~Leaving(t), ~Gone(t),
         \/ \E r : Return(t, r)
         \/ \E l : Goto(t, l) /\ l # "enter" /\ l # "exchange"
  PROVE  MutexInv'
<1>1. CASE \E r : Return(t, r)
  <2>1. pc' = [pc EXCEPT ![t] = "idle"] /\ op' = [op EXCEPT ![t] = "none"]
        /\ holds' = [holds EXCEPT ![t] = @ + 0]
    BY <1>1 DEF Return, ReturnHolding
  <2>2. holds' = holds
    BY <2>1 DEF MutexInv, MutexTypes
  <2> QED BY <2>1, <2>2, GoesOn DEF Kept
<1>2. ASSUME NEW l, Goto(t, l), l # "enter", l # "exchange" PROVE MutexInv'
  <2>1. pc' = [pc EXCEPT ![t] = l] /\ op' = op /\ holds' = holds
    BY <1>2 DEF Goto
  <2>2. op' = [op EXCEPT ![t] = op[t]]
    BY <2>1 DEF MutexInv, MutexTypes
  <2> QED BY <1>2, <2>1, <2>2, GoesOn DEF Kept
<1> QED BY <1>1, <1>2

\* What is known where the mutex is free, and where it is given up.
LEMMA FreeMutex ==
  ASSUME MutexInv, mx.idx = 0 \/ mx.state = "dead"
  PROVE  /\ \A u \in Threads : holds[u] = 0
         /\ mx.idx = 0 => mx.state # "dead" /\ ~orphaned
BY DEF MutexInv, MutexTypes, Locked

LEMMA Unchanged ==
  ASSUME MutexInv, mx' = mx
  PROVE  Kept
BY DEF MutexInv, MutexTypes, Kept

-----------------------------------------------------------------------------
(* The steps of pthread_mutex_lock, _timedlock and _trylock *)

\* The holder of a recursive mutex locks it once more.
LEMMA Reenters ==
  ASSUME MutexInv, NEW t \in Threads, op[t] \in Acquiring, pc[t] = "start",
         mx.idx # 0, mx.owner = t, mx.kind = "recursive",
         mx' = [mx EXCEPT !.count = @ + 1], ReturnHolding(t, "0", 1), UNCHANGED orphaned
  PROVE  MutexInv'
<1>1. /\ pc' = [pc EXCEPT ![t] = "idle"] /\ op' = [op EXCEPT ![t] = "none"]
      /\ holds' = [holds EXCEPT ![t] = @ + 1]
  BY DEF ReturnHolding
<1>2. ~Gone(t) /\ ~Leaving(t)
  BY DEF Gone, Leaving, In, Acquiring
<1>3. holds[t] > 0 /\ mx.count = holds[t] /\ holds[t] \in Nat
  BY <1>2 DEF MutexInv, MutexTypes, Known
<1> DEFINE c == mx.count + 1
<1>4. c \in Int /\ mx' = [mx EXCEPT !.count = c]
  BY <1>3
<1> HIDE DEF c
<1>5. /\ mx' \in MutexType /\ mx'.count = c /\ mx'.kind = mx.kind /\ mx'.owner = mx.owner
      /\ mx'.state = mx.state /\ mx'.idx = mx.idx /\ mx'.listed = mx.listed
  BY <1>4, StoresCount DEF MutexInv, MutexTypes
<1>6. holds' \in [Threads -> Nat] /\ holds'[t] = holds[t] + 1
      /\ \A u \in Threads : u # t => holds'[u] = holds[u]
  <2>1. holds \in [Threads -> Nat] /\ holds[t] + 1 \in Nat
    BY <1>3 DEF MutexInv, MutexTypes
  <2> QED BY <1>1, <2>1
<1>7. MutexTypes'
  <2>1. pc' = [u \in Threads |-> pc'[u]] /\ op' = [u \in Threads |-> op'[u]]
    BY <1>1 DEF MutexInv, MutexTypes
  <2> QED BY <1>5, <1>6, <2>1 DEF MutexTypes
<1>8. Locked'
  BY <1>3, <1>5, <1>6 DEF MutexInv, Locked
<1>9. Known'
  <2>1. pc'[t] = "idle" /\ op'[t] = "none" /\ c = holds'[t]
    BY <1>1, <1>3, <1>6 DEF MutexInv, MutexTypes, c
  <2>2. \A u \in Threads : u # t => pc'[u] = pc[u] /\ op'[u] = op[u]
    BY <1>1 DEF MutexInv, MutexTypes
  <2>3. holds'[t] > 0
    BY <1>3, <1>6
  <2> QED BY <1>5, <1>6, <2>1, <2>2, <2>3 DEF MutexInv, Known, In, Leaving, Gone
<1> QED BY <1>7, <1>8, <1>9 DEF MutexInv

LEMMA Acquires == \* where the steps below are
  ASSUME NEW t \in Threads, op[t] \in Acquiring, pc[t] # "exited"
  PROVE  ~Gone(t) /\ ~Leaving(t)
BY DEF Gone, Leaving, In, Acquiring

LEMMA EnterStep ==
  ASSUME MutexInv, NEW t \in Threads, MutexEnter(t) \/ ptw32_mutex_check_need_init(t)
  PROVE  MutexInv'
<1>1. op[t] \in Acquiring /\ pc[t] # "exited" /\ mx' = mx /\ UNCHANGED orphaned
  BY DEF MutexEnter, ptw32_mutex_check_need_init, mutexVars
<1>2. \/ \E r : Return(t, r)
      \/ \E l : Goto(t, l) /\ l # "enter" /\ l # "exchange"
  BY DEF MutexEnter, ptw32_mutex_check_need_init
<1> QED BY <1>1, <1>2, Acquires, Unchanged, Moves

\* A free mutex is taken with i in lock_idx.
LEMMA TakesFree ==
  ASSUME MutexInv, NEW t \in Threads, op[t] \in Acquiring, pc[t] # "exited", mx.idx = 0,
         NEW i \in {-1, 1}, Own(t, [mx EXCEPT !.idx = i], "0")
  PROVE  MutexInv'
<1> DEFINE m == [mx EXCEPT !.idx = i]
<1>1. /\ m \in MutexType /\ m.idx = i /\ m.kind = mx.kind /\ m.owner = mx.owner
      /\ m.listed = mx.listed /\ m.state = mx.state
  BY StoresIdx DEF MutexInv, MutexTypes
<1>2. Own(t, m, "0")
  OBVIOUS
<1> HIDE DEF m
<1> QED BY <1>1, <1>2, FreeMutex, OwnGets, Acquires

\* The end of an owner is reported.
LEMMA TakesOrphan ==
  ASSUME MutexInv, NEW t \in Threads, ~Gone(t), mx.state = "dead",
         Own(t, [mx EXCEPT !.state = "inconsistent"], "EOWNERDEAD")
  PROVE  MutexInv'
<1> DEFINE m == [mx EXCEPT !.state = "inconsistent"]
<1>1. /\ m \in MutexType /\ m.idx = mx.idx /\ m.kind = mx.kind /\ m.owner = mx.owner
      /\ m.listed = mx.listed /\ m.state = "inconsistent"
  BY StoresState DEF MutexInv, MutexTypes
<1>2. Own(t, m, "EOWNERDEAD") /\ m.idx # 0
  BY <1>1, FreeMutex
<1> HIDE DEF m
<1> QED BY <1>1, <1>2, FreeMutex, OwnGets

\* lock_idx of a locked mutex is overwritten.
LEMMA Marks ==
  ASSUME MutexInv, NEW i \in {-1, 1}, mx' = [mx EXCEPT !.idx = i]
  PROVE  Kept
BY StoresIdx DEF MutexInv, MutexTypes, Kept

\* The event is set or reset.
LEMMA SetsEvent ==
  ASSUME MutexInv, NEW e \in BOOLEAN, mx' = [mx EXCEPT !.event = e]
  PROVE  Kept
BY StoresEvent DEF MutexInv, MutexTypes, Kept

LEMMA LockNormalStep ==
  ASSUME MutexInv, NEW t \in Threads, LockNormal(t)
  PROVE  MutexInv'
<1> DEFINE m == [mx EXCEPT !.idx = 1]
<1>1. op[t] \in Acquiring /\ pc[t] = "start" /\ mx.kind = "normal" /\ op[t] # "mutex_trylock"
  BY DEF LockNormal, Normal
<1>2. CASE mx.idx = 0 /\ ~(mx.robust /\ op[t] = "mutex_timedlock")
  BY <1>1, <1>2, TakesFree DEF LockNormal
<1>3. CASE mx.idx = 0 /\ mx.robust /\ op[t] = "mutex_timedlock"
  <2>1. mx' = m /\ ReturnHolding(t, "0", 1) /\ UNCHANGED orphaned
    BY <1>3 DEF LockNormal, OwnUnlisted
  <2>2. /\ m \in MutexType /\ m.idx = 1 /\ m.kind = mx.kind /\ m.owner = mx.owner
        /\ m.listed = mx.listed /\ m.state = mx.state
    BY StoresIdx DEF MutexInv, MutexTypes
  <2> HIDE DEF m
  <2> QED BY <1>1, <1>3, <2>1, <2>2, FreeMutex, Gets, Acquires
<1>4. CASE mx.idx # 0
  <2>1. mx' = m /\ UNCHANGED orphaned
        /\ \E l : Goto(t, l) /\ l # "enter" /\ l # "exchange"
    BY <1>4 DEF LockNormal
  <2> QED BY <1>1, <2>1, Marks, Moves, Acquires
<1> QED BY <1>2, <1>3, <1>4

LEMMA LockOwnedStep ==
  ASSUME MutexInv, NEW t \in Threads, LockOwned(t)
  PROVE  MutexInv'
<1>1. op[t] \in Acquiring /\ pc[t] = "start"
  BY DEF LockOwned
<1>2. CASE mx.idx = 0
  <2>1. Own(t, [mx EXCEPT !.idx = 1], "0")
    BY <1>2 DEF LockOwned
  <2> QED BY <1>1, <1>2, <2>1, TakesFree
<1>3. CASE mx.idx # 0 /\ mx.owner = t /\ mx.kind = "recursive"
  <2>1. mx' = [mx EXCEPT !.count = @ + 1] /\ ReturnHolding(t, "0", 1) /\ UNCHANGED orphaned
    BY <1>3 DEF LockOwned
  <2> QED BY <1>1, <1>3, <2>1, Reenters
<1>4. CASE mx.idx # 0 /\ ~(mx.owner = t /\ mx.kind = "recursive")
  <2>1. /\ \/ \E r : Return(t, r)
           \/ \E l : Goto(t, l) /\ l # "enter" /\ l # "exchange"
        /\ UNCHANGED <<mx, orphaned>>
    BY <1>4 DEF LockOwned
  <2> QED BY <1>1, <2>1, Unchanged, Moves, Acquires
<1> QED BY <1>2, <1>3, <1>4

LEMMA InheritStep ==
  ASSUME MutexInv, NEW t \in Threads, Inherit(t)
  PROVE  MutexInv'
<1>1. op[t] \in Acquiring /\ pc[t] = "inherit"
  BY DEF Inherit
<1>2. CASE mx.state = "dead"
  BY <1>1, <1>2, TakesOrphan, Acquires DEF Inherit
<1>3. CASE mx.state # "dead"
  <2>1. /\ \/ \E r : Return(t, r)
           \/ \E l : Goto(t, l) /\ l # "enter" /\ l # "exchange"
        /\ UNCHANGED orphaned
    BY <1>3 DEF Inherit
  <2>2. mx' = mx \/ mx' = [mx EXCEPT !.event = TRUE]
    BY <1>3 DEF Inherit
  <2> QED BY <1>1, <2>1, <2>2, Unchanged, SetsEvent, Moves, Acquires
<1> QED BY <1>2, <1>3

LEMMA LockLoopStep ==
  ASSUME MutexInv, NEW t \in Threads, LockLoop(t)
  PROVE  MutexInv'
<1> DEFINE m == [mx EXCEPT !.idx = -1]
<1>1. op[t] \in Acquiring /\ pc[t] = "loop"
  BY DEF LockLoop
<1>2. CASE Own(t, m, "0") /\ mx.idx = 0
  BY <1>1, <1>2, TakesFree
<1>3. CASE mx' = [m EXCEPT !.event = TRUE] /\ Return(t, "ENOTRECOVERABLE") /\ UNCHANGED orphaned
  <2>1. /\ m \in MutexType /\ m.idx = -1 /\ m.kind = mx.kind /\ m.owner = mx.owner
        /\ m.listed = mx.listed /\ m.state = mx.state /\ m.count = mx.count
    BY StoresIdx DEF MutexInv, MutexTypes
  <2> HIDE DEF m
  <2>2. Kept
    <3>1. /\ mx' \in MutexType /\ mx'.kind = m.kind /\ mx'.idx = m.idx /\ mx'.owner = m.owner
          /\ mx'.count = m.count /\ mx'.state = m.state /\ mx'.listed = m.listed
      BY ONLY <1>3, <2>1, StoresEvent
    <3> QED BY ONLY <2>1, <3>1 DEF Kept
  <2> QED BY <1>1, <1>3, <2>2, Moves, Acquires
<1>4. CASE mx' = m /\ Goto(t, "wait") /\ UNCHANGED orphaned
  BY <1>1, <1>4, Marks, Moves, Acquires
<1> QED BY <1>2, <1>3, <1>4 DEF LockLoop

LEMMA WaitStep ==
  ASSUME MutexInv, NEW t \in Threads, LockWait(t) \/ LockRecheck(t)
  PROVE  MutexInv'
<1>1. op[t] \in Acquiring /\ pc[t] # "exited" /\ UNCHANGED orphaned
  BY DEF LockWait, LockRecheck
<1>2. \/ \E r : Return(t, r)
      \/ \E l : Goto(t, l) /\ l # "enter" /\ l # "exchange"
  BY DEF LockWait, LockRecheck
<1>3. mx' = mx \/ \E e \in BOOLEAN : mx' = [mx EXCEPT !.event = e]
  BY DEF LockWait, LockRecheck
<1> QED BY <1>1, <1>2, <1>3, Unchanged, SetsEvent, Moves, Acquires

LEMMA TryStep ==
  ASSUME MutexInv, NEW t \in Threads, TryOnce(t)
  PROVE  MutexInv'
<1>1. op[t] \in Acquiring /\ pc[t] = "start"
  BY DEF TryOnce, In, Acquiring
<1>2. CASE mx.idx = 0
  <2>1. Own(t, [mx EXCEPT !.idx = 1], "0")
    BY <1>2 DEF TryOnce
  <2> QED BY <1>1, <1>2, <2>1, TakesFree
<1>3. CASE mx.idx # 0 /\ mx.owner = t /\ mx.kind = "recursive"
  <2>1. mx' = [mx EXCEPT !.count = @ + 1] /\ ReturnHolding(t, "0", 1) /\ UNCHANGED orphaned
    BY <1>3 DEF TryOnce
  <2> QED BY <1>1, <1>3, <2>1, Reenters
<1>4. CASE mx.idx # 0 /\ ~(mx.owner = t /\ mx.kind = "recursive")
  <2>1. /\ \/ \E r : Return(t, r)
           \/ \E l : Goto(t, l) /\ l # "enter" /\ l # "exchange"
        /\ UNCHANGED <<mx, orphaned>>
    BY <1>4 DEF TryOnce
  <2> QED BY <1>1, <2>1, Unchanged, Moves, Acquires
<1> QED BY <1>2, <1>3, <1>4

-----------------------------------------------------------------------------
(* The steps of pthread_mutex_unlock, of a thread that ends, and the rest *)

\* It passes the checks: the mutex has no owner any more.
LEMMA UnlockStep ==
  ASSUME MutexInv, NEW t \in Threads, Unlock(t)
  PROVE  MutexInv'
<1>1. pc[t] = "enter" /\ op[t] = "mutex_unlock" /\ UNCHANGED orphaned
  BY DEF Unlock, In
<1>2. ~Gone(t) /\ ~Leaving(t) /\ holds[t] > 0 /\ holds[t] \in Nat
  BY <1>1 DEF Gone, Leaving, In, MutexInv, MutexTypes, Known
<1> DEFINE m == IF mx.robust /\ mx.state = "inconsistent"
                THEN [mx EXCEPT !.state = "notrecoverable"] ELSE mx
           owned == mx.robust \/ ~Normal
<1>3. /\ m \in MutexType /\ m.kind = mx.kind /\ m.idx = mx.idx /\ m.owner = mx.owner
      /\ m.count = mx.count /\ m.listed = mx.listed /\ (m.state = "dead" => mx.state = "dead")
  <2>1. mx \in MutexType
    BY DEF MutexInv, MutexTypes
  <2>2. CASE m = mx
    BY <2>1, <2>2
  <2>3. CASE m = [mx EXCEPT !.state = "notrecoverable"]
    <3> HIDE DEF m
    <3>1. /\ m \in MutexType /\ m.state = "notrecoverable" /\ m.kind = mx.kind /\ m.idx = mx.idx
          /\ m.owner = mx.owner /\ m.count = mx.count /\ m.listed = mx.listed
      BY ONLY <2>1, <2>3, StoresState
    <3> QED BY <3>1
  <2> QED BY <2>2, <2>3
<1>4. CASE owned /\ mx.owner # t
  <2>1. Return(t, "EPERM") /\ mx' = mx
    BY <1>4 DEF Unlock
  <2> QED BY <1>1, <1>2, <2>1, Unchanged, Moves
<1>5. CASE owned /\ mx.owner = t /\ mx.kind = "recursive" /\ mx.count > 1
  <2>1. mx' = [m EXCEPT !.count = @ - 1] /\ ReturnHolding(t, "0", -1)
    BY <1>5 DEF Unlock
  <2>2. mx.count = holds[t]
    BY <1>2, <1>5 DEF MutexInv, Known
  <2> HIDE DEF m
  <2> DEFINE c == m.count - 1
  <2>3. c \in Int /\ mx' = [m EXCEPT !.count = c] /\ c = holds[t] - 1
    BY <1>2, <1>3, <2>1, <2>2
  <2> HIDE DEF c
  <2>4. /\ mx' \in MutexType /\ mx'.count = c /\ mx'.kind = m.kind /\ mx'.idx = m.idx
        /\ mx'.owner = m.owner /\ mx'.state = m.state /\ mx'.listed = m.listed
    BY ONLY <1>3, <2>3, StoresCount
  <2>5. /\ pc' = [pc EXCEPT ![t] = "idle"] /\ op' = [op EXCEPT ![t] = "none"]
        /\ holds' = [holds EXCEPT ![t] = @ + (-1)]
    BY <2>1 DEF ReturnHolding
  <2>6. /\ holds' \in [Threads -> Nat] /\ holds'[t] = c /\ c > 0
        /\ \A u \in Threads : u # t => holds'[u] = holds[u]
    <3>1. holds \in [Threads -> Nat] /\ holds[t] + (-1) \in Nat /\ c = holds[t] + (-1) /\ c > 0
      BY <1>2, <1>5, <2>2, <2>3 DEF MutexInv, MutexTypes
    <3> QED BY <2>5, <3>1
  <2>7. MutexTypes'
    <3>1. pc' = [u \in Threads |-> pc'[u]] /\ op' = [u \in Threads |-> op'[u]]
      BY <2>5 DEF MutexInv, MutexTypes
    <3> QED BY <2>4, <2>6, <3>1 DEF MutexTypes
  <2>8. Locked'
    BY <1>1, <1>2, <1>3, <2>4, <2>6 DEF MutexInv, Locked
  <2>9. Known'
    <3>1. pc'[t] = "idle" /\ op'[t] = "none"
      BY <2>5 DEF MutexInv, MutexTypes
    <3>2. \A u \in Threads : u # t => pc'[u] = pc[u] /\ op'[u] = op[u]
      BY <2>5 DEF MutexInv, MutexTypes
    <3> QED BY <1>3, <1>5, <2>4, <2>6, <3>1, <3>2 DEF MutexInv, Known, In, Leaving, Gone
  <2> QED BY <2>7, <2>8, <2>9 DEF MutexInv
<1>6. CASE /\ ~(owned /\ mx.owner # t)
           /\ ~(owned /\ mx.owner = t /\ mx.kind = "recursive" /\ mx.count > 1)
  <2> DEFINE c == IF mx.kind = "recursive" THEN 0 ELSE m.count
  <2>1. /\ mx' = [m EXCEPT !.owner = NoThread, !.listed = NoThread, !.count = c]
        /\ Goto(t, "exchange")
    BY <1>6 DEF Unlock
  <2>2. holds[t] = 1
    <3>1. CASE mx.kind = "recursive"
      <4>1. mx.count = holds[t] /\ mx.owner = t
        BY <1>2, <3>1 DEF MutexInv, Known
      <4>2. ~(mx.count > 1)
        BY <1>6, <3>1, <4>1 DEF Normal
      <4> QED BY <1>2, <4>1, <4>2
    <3>2. CASE mx.kind # "recursive"
      BY <1>2, <3>2 DEF MutexInv, Known
    <3> QED BY <3>1, <3>2
  <2> HIDE DEF m
  <2>3. c \in Int
    BY <1>3 DEF MutexType
  <2> HIDE DEF c
  <2>4. /\ mx' \in MutexType /\ mx'.kind = m.kind /\ mx'.idx = m.idx /\ mx'.state = m.state
        /\ mx'.owner = NoThread /\ mx'.listed = NoThread
    BY ONLY <1>3, <2>1, <2>3 DEF MutexType
  <2>5. pc' = [pc EXCEPT ![t] = "exchange"] /\ op' = op /\ holds' = holds
    BY <2>1 DEF Goto
  <2>6. MutexTypes'
    BY <2>4, <2>5 DEF MutexInv, MutexTypes
  <2>7. Locked'
    BY <1>1, <1>3, <2>4, <2>5 DEF MutexInv, Locked
  <2>8. Known'
    <3>1. pc'[t] = "exchange" /\ op'[t] = "mutex_unlock"
      BY <1>1, <2>5 DEF MutexInv, MutexTypes
    <3>2. \A u \in Threads : u # t => pc'[u] = pc[u] /\ op'[u] = op[u] /\ (holds[u] > 0 => FALSE)
      BY <1>2, <2>5 DEF MutexInv, MutexTypes, Locked
    <3>3. \A u \in Threads : mx'.owner # u /\ mx'.listed # u
      BY <2>4, CallsAssumption
    <3> QED BY <1>2, <2>2, <2>5, <3>1, <3>2, <3>3 DEF MutexInv, Known, In, Leaving
  <2> QED BY <2>6, <2>7, <2>8 DEF MutexInv
<1> QED BY <1>4, <1>5, <1>6

\* The mutex is free from here on.
LEMMA UnlockExchangeStep ==
  ASSUME MutexInv, NEW t \in Threads, UnlockExchange(t)
  PROVE  MutexInv'
<1>1. Leaving(t) /\ mx' = [mx EXCEPT !.idx = 0] /\ UNCHANGED orphaned
  BY DEF UnlockExchange, Leaving
<1>2. holds[t] = 1 /\ \A u \in Threads : u # t => holds[u] = 0
  BY <1>1 DEF MutexInv, MutexTypes, Known, Locked
<1>3. /\ mx' \in MutexType /\ mx'.kind = mx.kind /\ mx'.owner = mx.owner /\ mx'.state = mx.state
      /\ mx'.count = mx.count /\ mx'.listed = mx.listed
  BY <1>1, StoresIdx DEF MutexInv, MutexTypes
<1>4. /\ holds' = [holds EXCEPT ![t] = @ - 1] \/ holds' = [holds EXCEPT ![t] = @ + (-1)]
      /\ pc' = [pc EXCEPT ![t] = "idle"] \/ pc' = [pc EXCEPT ![t] = "signal"]
      /\ op' = op \/ op' = [op EXCEPT ![t] = "none"]
      /\ pc' = [pc EXCEPT ![t] = "signal"] => op' = op
  <2>1. CASE mx.idx < 0
    BY <2>1 DEF UnlockExchange
  <2>2. CASE ~(mx.idx < 0)
    <3>1. ReturnHolding(t, "0", -1)
      BY <2>2 DEF UnlockExchange
    <3>2. /\ pc' = [pc EXCEPT ![t] = "idle"] /\ op' = [op EXCEPT ![t] = "none"]
          /\ holds' = [holds EXCEPT ![t] = @ + (-1)]
      BY <3>1 DEF ReturnHolding
    <3>3. pc' # [pc EXCEPT ![t] = "signal"]
      BY <3>2 DEF MutexInv, MutexTypes
    <3> QED BY <3>2, <3>3
  <2> QED BY <2>1, <2>2
<1>5. holds' \in [Threads -> Nat] /\ \A u \in Threads : holds'[u] = 0
  <2>1. holds \in [Threads -> Nat] /\ holds[t] - 1 = 0 /\ holds[t] + (-1) = 0 /\ 0 \in Nat
    BY <1>2 DEF MutexInv, MutexTypes
  <2>2. holds' = [holds EXCEPT ![t] = 0]
    BY <1>4, <2>1
  <2> QED BY <1>2, <2>1, <2>2
<1>6. MutexTypes'
  <2>1. pc' = [u \in Threads |-> pc'[u]] /\ op' = [u \in Threads |-> op'[u]]
    BY <1>4 DEF MutexInv, MutexTypes
  <2> QED BY <1>3, <1>5, <2>1 DEF MutexTypes
<1>7. Locked'
  <2>1. mx.state # "dead" /\ ~orphaned
    BY <1>2 DEF MutexInv, Locked
  <2> QED BY <1>1, <1>3, <1>5, <2>1 DEF Locked
<1>8. Known'
  <2>1. \A u \in Threads : u # t => pc'[u] = pc[u] /\ op'[u] = op[u]
    BY <1>4 DEF MutexInv, MutexTypes
  <2>2. pc'[t] = "idle" \/ pc'[t] = "signal"
    BY <1>4 DEF MutexInv, MutexTypes
  <2>3. mx.owner # t /\ mx.listed # t
    <3>1. ~Gone(t)
      BY <1>1 DEF Gone, Leaving, In
    <3> QED BY <1>1, <3>1 DEF MutexInv, Known
  <2> QED BY <1>2, <1>3, <1>5, <2>1, <2>2, <2>3 DEF MutexInv, Known, In, Leaving, Gone
<1> QED BY <1>6, <1>7, <1>8 DEF MutexInv

\* A thread ends.
LEMMA DetachStep ==
  ASSUME MutexInv, NEW t \in Threads, Detach(t)
  PROVE  MutexInv'
<1>1. /\ op[t] = "exit" /\ op' = op /\ holds' = [holds EXCEPT ![t] = 0]
      /\ pc' = [pc EXCEPT ![t] = IF mx.listed = t THEN "signal" ELSE "exited"]
      /\ mx' = IF mx.listed = t THEN [mx EXCEPT !.listed = NoThread, !.state = "dead"] ELSE mx
      /\ orphaned' = (orphaned \/ holds[t] > 0)
  BY DEF Detach, In
<1>2. /\ holds' \in [Threads -> Nat] /\ holds'[t] = 0
      /\ \A u \in Threads : u # t => holds'[u] = holds[u]
  BY <1>1 DEF MutexInv, MutexTypes
<1>3. /\ mx' \in MutexType /\ mx'.kind = mx.kind /\ mx'.idx = mx.idx /\ mx'.owner = mx.owner
      /\ mx'.count = mx.count
      /\ IF mx.listed = t THEN mx'.listed = NoThread /\ mx'.state = "dead"
         ELSE mx'.listed = mx.listed /\ mx'.state = mx.state
  <2>1. CASE mx.listed = t
    <3>1. mx' = [mx EXCEPT !.listed = NoThread, !.state = "dead"] /\ mx \in MutexType
      BY <1>1, <2>1 DEF MutexInv, MutexTypes
    <3> QED BY ONLY <2>1, <3>1 DEF MutexType
  <2>2. CASE mx.listed # t
    BY <1>1, <2>2 DEF MutexInv, MutexTypes
  <2> QED BY <2>1, <2>2
<1>4. MutexTypes'
  <2>1. pc' = [u \in Threads |-> pc'[u]] /\ op' = [u \in Threads |-> op'[u]]
    BY <1>1 DEF MutexInv, MutexTypes
  <2> QED BY <1>2, <1>3, <2>1 DEF MutexTypes
<1>5. Locked'
  <2>1. mx.listed = t \/ holds[t] > 0 => mx.idx # 0 /\ \A u \in Threads : u # t => holds[u] = 0
    BY DEF MutexInv, MutexTypes, Locked, Known
  <2>2. \A u \in Threads : holds'[u] > 0 => holds[u] > 0 /\ u # t
    BY <1>2
  <2>3. \A u \in Threads : holds'[u] > 0 => mx'.idx # 0
    BY <1>3, <2>2 DEF MutexInv, Locked
  <2>4. \A u, v \in Threads : holds'[u] > 0 /\ holds'[v] > 0 => u = v
    BY <2>2 DEF MutexInv, Locked
  <2>5. (mx'.state = "dead" \/ orphaned') => mx.state = "dead" \/ orphaned \/ mx.listed = t \/ holds[t] > 0
    BY <1>1, <1>3
  <2>6. (mx'.state = "dead" \/ orphaned') => mx'.idx # 0 /\ \A u \in Threads : holds'[u] = 0
    BY <1>2, <1>3, <2>1, <2>5 DEF MutexInv, Locked
  <2> QED BY <2>3, <2>4, <2>6 DEF Locked
<1>6. Known'
  <2>1. Gone(t)' /\ op'[t] = "exit"
    BY <1>1 DEF Gone, In, MutexInv, MutexTypes
  <2>2. \A u \in Threads : u # t => pc'[u] = pc[u] /\ op'[u] = op[u]
    BY <1>1 DEF MutexInv, MutexTypes
  <2>3. mx'.listed # t /\ (mx'.listed \in Threads => mx'.listed = mx.listed)
    BY <1>3, CallsAssumption
  <2> QED BY <1>2, <1>3, <2>1, <2>2, <2>3 DEF MutexInv, Known, In, Leaving, Gone
<1> QED BY <1>4, <1>5, <1>6 DEF MutexInv

\* The rest of a thread's end.
LEMMA DetachSignalStep ==
  ASSUME MutexInv, NEW t \in Threads, DetachSignal(t)
  PROVE  MutexInv'
<1>1. /\ mx' = [mx EXCEPT !.event = TRUE] /\ UNCHANGED orphaned
      /\ pc' = [pc EXCEPT ![t] = "exited"] /\ op' = op /\ holds' = holds /\ ~Leaving(t)
  BY DEF DetachSignal, Goto, In, Leaving
<1>2. Kept
  BY <1>1, SetsEvent
<1>3. op' = [op EXCEPT ![t] = op[t]]
  BY <1>1 DEF MutexInv, MutexTypes
<1> QED BY <1>1, <1>2, <1>3, GoesOn DEF Kept

LEMMA OtherStep ==
  ASSUME MutexInv, NEW t \in Threads,
         UnlockSignal(t) \/ pthread_mutex_consistent(t) \/ pthread_mutex_destroy(t)
  PROVE  MutexInv'
<1>1. ~Gone(t) /\ ~Leaving(t)
  BY DEF UnlockSignal, pthread_mutex_consistent, pthread_mutex_destroy, In, Gone, Leaving
<1>2. CASE UnlockSignal(t)
  BY <1>1, <1>2, SetsEvent, Moves DEF UnlockSignal
<1>3. CASE pthread_mutex_consistent(t)
  <2>1. mx' = mx \/ mx' = [mx EXCEPT !.state = "consistent"]
    BY <1>3 DEF pthread_mutex_consistent
  <2>2. Kept
    <3>1. CASE mx' = mx
      BY <3>1, Unchanged
    <3>2. CASE mx' = [mx EXCEPT !.state = "consistent"]
      BY <3>2, StoresState DEF MutexInv, MutexTypes, Kept
    <3> QED BY <2>1, <3>1, <3>2
  <2>3. (\E r : Return(t, r)) /\ UNCHANGED orphaned
    BY <1>3 DEF pthread_mutex_consistent
  <2> QED BY <1>1, <2>2, <2>3, Moves
<1>4. CASE pthread_mutex_destroy(t)
  <2>1. CASE Own(t, [mx EXCEPT !.state = "inconsistent"], "EOWNERDEAD") /\ mx.state = "dead"
    BY <1>1, <2>1, TakesOrphan
  <2>2. CASE /\ \/ \E r : Return(t, r)
                \/ \E l : Goto(t, l) /\ l # "enter" /\ l # "exchange"
             /\ UNCHANGED <<mx, orphaned>>
    BY <1>1, <2>2, Unchanged, Moves
  <2> QED BY <1>4, <2>1, <2>2 DEF pthread_mutex_destroy, mutexVars
<1> QED BY <1>2, <1>3, <1>4

-----------------------------------------------------------------------------
(* The program *)

LEMMA CallStep ==
  ASSUME MutexInv, NEW t \in Threads, MutexCalls(t) \/ MutexUnlockCall(t), UNCHANGED lockVars
  PROVE  MutexInv'
<1>1. PICK f : /\ pc' = [pc EXCEPT ![t] = "enter"] /\ op' = [op EXCEPT ![t] = f]
               /\ holds' = holds /\ pc[t] = "idle"
               /\ f = "mutex_unlock" => holds[t] > 0
  BY DEF MutexCalls, MutexUnlockCall, Call, Again, Idle, Acquiring
<1>2. ~Gone(t) /\ ~Leaving(t)
  BY <1>1 DEF Gone, Leaving, In
<1>3. Kept /\ UNCHANGED orphaned
  BY Unchanged DEF lockVars, mutexVars
<1> QED BY <1>1, <1>2, <1>3, GoesOn DEF Kept

LEMMA MutexInvStep == MutexInv /\ [MutexStep]_<<callVars, lockVars>> => MutexInv'
<1> SUFFICES ASSUME MutexInv, [MutexStep]_<<callVars, lockVars>> PROVE MutexInv'
  OBVIOUS
<1>1. ASSUME NEW t \in Threads, MutexNext(t) PROVE MutexInv'
  BY <1>1, EnterStep, LockNormalStep, LockOwnedStep, InheritStep, LockLoopStep, WaitStep, TryStep,
     UnlockStep, UnlockExchangeStep, DetachStep, DetachSignalStep, OtherStep
     DEF MutexNext, pthread_mutex_lock, pthread_mutex_timedlock, pthread_mutex_trylock,
         pthread_mutex_unlock, LockStep
<1>2. CASE UNCHANGED <<callVars, lockVars>>
  BY <1>2 DEF callVars, lockVars, mutexVars, MutexInv, MutexTypes, Locked, Known, In, Leaving, Gone
<1> QED BY <1>1, <1>2, CallStep DEF MutexStep

LEMMA MutexInvariance == MutexSpec => []MutexInv
BY MutexInvInit, MutexInvStep, PTL DEF MutexSpec

\* No two threads hold a mutex of any kind at once, whatever times out and
\* whoever ends while holding it.
THEOREM MutexExcludes == MutexSpec => []OneHolder
<1>1. MutexInv => OneHolder
  BY DEF MutexInv, Locked, OneHolder
<1> QED BY <1>1, MutexInvariance, PTL

-----------------------------------------------------------------------------
(* Mutexes that were given up *)

\* Only a robust mutex can be given up, it is not initialised by its first lock,
\* and once it was no thread has passed its last look at the state since.
GivenUp ==
  /\ ~mx.robust => mx.state = "consistent" /\ mx.listed = NoThread
  /\ mutex = "static" => ~mx.robust
  /\ \A t \in Threads : op[t] \in Acquiring /\ pc[t] = "needInit" => ~mx.robust
  /\ mx.state = "notrecoverable" => PastTheCheck \subseteq racing

LEMMA GivenUpInit == CallsInit({"mutex"}) /\ MutexInit => GivenUp
<1> SUFFICES ASSUME CallsInit({"mutex"}), MutexInit PROVE GivenUp
  OBVIOUS
<1>1. PICK k \in Kinds : mx = NewMutex(k)
  BY DEF MutexInit
<1>2. mx.state = "consistent" /\ mx.listed = NoThread
  BY <1>1 DEF NewMutex
<1>3. mutex = "static" => ~mx.robust
  BY DEF MutexInit
<1>4. \A t \in Threads : pc[t] # "needInit"
  BY DEF CallsInit
<1> QED BY <1>2, <1>3, <1>4 DEF GivenUp

\* What a step of t may do to the other threads, and to a mutex that is not robust.
Alike(t) ==
  /\ \A u \in Threads \ {t} : pc'[u] = pc[u] /\ op'[u] = op[u] /\ holds'[u] = holds[u]
  /\ mx'.robust = mx.robust
  /\ ~mx.robust => mx'.state = "consistent" /\ mx'.listed = NoThread
  /\ mutex' = "static" => mutex = "static"

\* What it may do to t.
Late(t) ==
  /\ op'[t] \in Acquiring /\ pc'[t] = "needInit" => ~mx.robust
  /\ mx.state = "notrecoverable" /\ mx'.state = "notrecoverable" =>
       (t \in PastTheCheck' => t \in PastTheCheck)

LEMMA GivenUpKept ==
  ASSUME GivenUp, NEW t \in Threads, Alike(t), Late(t), Racing
  PROVE  GivenUp'
<1>1. mx'.state = "notrecoverable" /\ mx.state = "notrecoverable" => PastTheCheck' \subseteq PastTheCheck
  BY DEF Alike, Late, PastTheCheck
<1>2. mx'.state = "notrecoverable" => PastTheCheck' \subseteq racing'
  BY <1>1 DEF Racing, GivenUp
<1> QED BY <1>2 DEF GivenUp, Alike, Late

\* The other threads stay where they are.
LEMMA OthersKept ==
  ASSUME MutexInv, GivenUp, NEW t \in Threads, MutexNext(t)
  PROVE  \A u \in Threads \ {t} : pc'[u] = pc[u] /\ op'[u] = op[u] /\ holds'[u] = holds[u]
<1>0. /\ pc = [u \in Threads |-> pc[u]] /\ op = [u \in Threads |-> op[u]]
      /\ holds = [u \in Threads |-> holds[u]]
  BY DEF MutexInv, MutexTypes
<1>1. CASE MutexEnter(t)
  BY <1>1, <1>0 DEF MutexEnter, Goto, Return, ReturnHolding, mutexVars
<1>2. CASE ptw32_mutex_check_need_init(t)
  BY <1>2, <1>0 DEF ptw32_mutex_check_need_init, Goto, Return, ReturnHolding
<1>3. CASE LockNormal(t)
  BY <1>3, <1>0 DEF LockNormal, Goto, ReturnHolding, Own, OwnUnlisted
<1>4. CASE LockOwned(t)
  BY <1>4, <1>0 DEF LockOwned, Goto, Return, ReturnHolding, Own
<1>5. CASE Inherit(t)
  BY <1>5, <1>0 DEF Inherit, Goto, Return, ReturnHolding, Own
<1>6. CASE LockLoop(t)
  BY <1>6, <1>0 DEF LockLoop, Goto, Return, ReturnHolding, Own
<1>7. CASE LockWait(t)
  BY <1>7, <1>0 DEF LockWait, Goto, Return, ReturnHolding
<1>8. CASE LockRecheck(t)
  BY <1>8, <1>0 DEF LockRecheck, Goto, Return, ReturnHolding
<1>9. CASE TryOnce(t)
  BY <1>9, <1>0 DEF TryOnce, Goto, Return, ReturnHolding, Own
<1>10. CASE Unlock(t)
  BY <1>10, <1>0 DEF Unlock, Goto, Return, ReturnHolding
<1>11. CASE UnlockExchange(t)
  BY <1>11, <1>0 DEF UnlockExchange, ReturnHolding
<1>12. CASE UnlockSignal(t)
  BY <1>12, <1>0 DEF UnlockSignal, Return, ReturnHolding
<1>13. CASE pthread_mutex_consistent(t)
  BY <1>13, <1>0 DEF pthread_mutex_consistent, Return, ReturnHolding
<1>14. CASE Detach(t)
  BY <1>14, <1>0 DEF Detach
<1>15. CASE DetachSignal(t)
  BY <1>15, <1>0 DEF DetachSignal, Goto
<1>16. CASE pthread_mutex_destroy(t)
  BY <1>16, <1>0 DEF pthread_mutex_destroy, Goto, Return, ReturnHolding, Own, mutexVars
<1> QED BY <1>1, <1>2, <1>3, <1>4, <1>5, <1>6, <1>7, <1>8, <1>9, <1>10, <1>11, <1>12, <1>13, <1>14, <1>15, <1>16
     DEF MutexNext, pthread_mutex_lock, pthread_mutex_timedlock, pthread_mutex_trylock,
         pthread_mutex_unlock, LockStep

\* A mutex stays robust or not, and only a robust one is given up.
LEMMA KindKept ==
  ASSUME MutexInv, GivenUp, NEW t \in Threads, MutexNext(t)
  PROVE  /\ mx'.robust = mx.robust
         /\ ~mx.robust => mx'.state = "consistent" /\ mx'.listed = NoThread
         /\ mutex' = "static" => mutex = "static"
<1>0. mx \in MutexType /\ (~mx.robust => mx.state = "consistent" /\ mx.listed = NoThread)
  BY DEF MutexInv, MutexTypes, GivenUp
<1>1. CASE MutexEnter(t)
  BY <1>1, <1>0 DEF MutexEnter, MutexType, mutexVars
<1>2. CASE ptw32_mutex_check_need_init(t)
  BY <1>2, <1>0 DEF ptw32_mutex_check_need_init, MutexType
<1>3. CASE LockNormal(t)
  BY <1>3, <1>0 DEF LockNormal, Own, Owned, OwnUnlisted, MutexType
<1>4. CASE LockOwned(t)
  BY <1>4, <1>0 DEF LockOwned, Own, Owned, MutexType
<1>5. CASE Inherit(t)
  BY <1>5, <1>0 DEF Inherit, Own, Owned, MutexType
<1>6. CASE LockLoop(t)
  BY <1>6, <1>0 DEF LockLoop, Own, Owned, MutexType
<1>7. CASE LockWait(t)
  BY <1>7, <1>0 DEF LockWait, MutexType
<1>8. CASE LockRecheck(t)
  BY <1>8, <1>0 DEF LockRecheck, MutexType
<1>9. CASE TryOnce(t)
  BY <1>9, <1>0 DEF TryOnce, Own, Owned, MutexType
<1>10. CASE Unlock(t)
  BY <1>10, <1>0 DEF Unlock, MutexType
<1>11. CASE UnlockExchange(t)
  BY <1>11, <1>0 DEF UnlockExchange, MutexType
<1>12. CASE UnlockSignal(t)
  BY <1>12, <1>0 DEF UnlockSignal, MutexType
<1>13. CASE pthread_mutex_consistent(t)
  BY <1>13, <1>0 DEF pthread_mutex_consistent, MutexType
<1>14. CASE Detach(t)
  BY <1>14, <1>0, CallsAssumption DEF Detach, MutexType
<1>15. CASE DetachSignal(t)
  BY <1>15, <1>0 DEF DetachSignal, MutexType
<1>16. CASE pthread_mutex_destroy(t)
  BY <1>16, <1>0 DEF pthread_mutex_destroy, Own, Owned, MutexType, mutexVars
<1> QED BY <1>1, <1>2, <1>3, <1>4, <1>5, <1>6, <1>7, <1>8, <1>9, <1>10, <1>11, <1>12, <1>13, <1>14, <1>15, <1>16
     DEF MutexNext, pthread_mutex_lock, pthread_mutex_timedlock, pthread_mutex_trylock,
         pthread_mutex_unlock, LockStep

\* Nobody passes the look at a state that says the mutex is given up.
LEMMA LateStep ==
  ASSUME MutexInv, GivenUp, NEW t \in Threads, MutexNext(t)
  PROVE  Late(t)
<1>0. /\ pc = [u \in Threads |-> pc[u]] /\ op = [u \in Threads |-> op[u]]
      /\ holds \in [Threads -> Nat] /\ mx \in MutexType
      /\ ~mx.robust => mx.state = "consistent" /\ mx.listed = NoThread
      /\ mutex = "static" => ~mx.robust
      /\ op[t] \in Acquiring /\ pc[t] = "needInit" => ~mx.robust
  BY DEF MutexInv, MutexTypes, GivenUp
<1>1. CASE MutexEnter(t)
  BY <1>1, <1>0 DEF MutexEnter, Goto, Return, ReturnHolding, MutexType, mutexVars, Late,
     PastTheCheck
<1>2. CASE ptw32_mutex_check_need_init(t)
  BY <1>2, <1>0 DEF ptw32_mutex_check_need_init, Goto, Return, ReturnHolding, MutexType, Late,
     PastTheCheck
<1>3. CASE LockNormal(t)
  BY <1>3, <1>0 DEF LockNormal, Goto, ReturnHolding, Own, Owned, OwnUnlisted, MutexType, Late,
     PastTheCheck
<1>4. CASE LockOwned(t)
  BY <1>4, <1>0 DEF LockOwned, Goto, Return, ReturnHolding, Own, Owned, MutexType, Late,
     PastTheCheck
<1>5. CASE Inherit(t)
  BY <1>5, <1>0 DEF Inherit, Goto, Return, ReturnHolding, Own, Owned, MutexType, Late, PastTheCheck
<1>6. CASE LockLoop(t)
  BY <1>6, <1>0 DEF LockLoop, Goto, Return, ReturnHolding, Own, Owned, MutexType, Late, PastTheCheck
<1>7. CASE LockWait(t)
  BY <1>7, <1>0 DEF LockWait, Goto, Return, ReturnHolding, MutexType, Late, PastTheCheck
<1>8. CASE LockRecheck(t)
  BY <1>8, <1>0 DEF LockRecheck, Goto, Return, ReturnHolding, MutexType, Late, PastTheCheck
<1>9. CASE TryOnce(t)
  BY <1>9, <1>0 DEF TryOnce, Goto, Return, ReturnHolding, Own, Owned, MutexType, Late,
     PastTheCheck, In, Acquiring
<1>10. CASE Unlock(t)
  BY <1>10, <1>0 DEF Unlock, Goto, Return, ReturnHolding, MutexType, Late, PastTheCheck, In
<1>11. CASE UnlockExchange(t)
  BY <1>11, <1>0 DEF UnlockExchange, ReturnHolding, MutexType, Late, PastTheCheck, In
<1>12. CASE UnlockSignal(t)
  BY <1>12, <1>0 DEF UnlockSignal, Return, ReturnHolding, MutexType, Late, PastTheCheck, In
<1>13. CASE pthread_mutex_consistent(t)
  BY <1>13, <1>0 DEF pthread_mutex_consistent, Return, ReturnHolding, MutexType, Late,
     PastTheCheck, In
<1>14. CASE Detach(t)
  BY <1>14, <1>0 DEF Detach, MutexType, Late, PastTheCheck, In
<1>15. CASE DetachSignal(t)
  BY <1>15, <1>0 DEF DetachSignal, Goto, MutexType, Late, PastTheCheck, In
<1>16. CASE pthread_mutex_destroy(t)
  BY <1>16, <1>0 DEF pthread_mutex_destroy, Goto, Return, ReturnHolding, Own, Owned, MutexType,
     mutexVars, Late, PastTheCheck
<1> QED BY <1>1, <1>2, <1>3, <1>4, <1>5, <1>6, <1>7, <1>8, <1>9, <1>10, <1>11, <1>12, <1>13, <1>14, <1>15, <1>16
     DEF MutexNext, pthread_mutex_lock, pthread_mutex_timedlock, pthread_mutex_trylock,
         pthread_mutex_unlock, LockStep

LEMMA GivenUpStep == MutexInv /\ GivenUp /\ [MutexStep]_<<callVars, lockVars>> => GivenUp'
<1> SUFFICES ASSUME MutexInv, GivenUp, [MutexStep]_<<callVars, lockVars>> PROVE GivenUp'
  OBVIOUS
<1>1. ASSUME NEW t \in Threads, MutexNext(t) PROVE GivenUp'
  <2>1. Alike(t) /\ Late(t) /\ Racing
    BY <1>1, OthersKept, KindKept, LateStep DEF Alike, MutexNext
  <2> QED BY <2>1, GivenUpKept
<1>2. ASSUME NEW t \in Threads, MutexCalls(t) \/ MutexUnlockCall(t), UNCHANGED lockVars PROVE GivenUp'
  <2>1. PICK f : /\ pc' = [pc EXCEPT ![t] = "enter"] /\ op' = [op EXCEPT ![t] = f]
                 /\ holds' = holds
    BY <1>2 DEF MutexCalls, MutexUnlockCall, Call, Again
  <2>2. \A u \in Threads : /\ u # t => pc'[u] = pc[u] /\ op'[u] = op[u]
                           /\ pc'[t] = "enter"
    BY <2>1 DEF MutexInv, MutexTypes
  <2> QED BY <1>2, <2>1, <2>2 DEF GivenUp, PastTheCheck, lockVars, mutexVars
<1>3. CASE UNCHANGED <<callVars, lockVars>>
  BY <1>3 DEF callVars, lockVars, mutexVars, GivenUp, PastTheCheck
<1> QED BY <1>1, <1>2, <1>3 DEF MutexStep

LEMMA GivenUpInvariance == MutexSpec => []GivenUp
BY GivenUpInit, GivenUpStep, MutexInvariance, PTL DEF MutexSpec

\* A robust mutex that its owner took along is not given to anybody before the
\* owner's end is reported, and one that was given up to nobody who looks at its
\* state afterwards.
THEOREM OrphansAreReported == MutexSpec => []OrphanReported
<1>1. MutexInv /\ GivenUp => OrphanReported
  BY DEF MutexInv, Locked, GivenUp, PastTheCheck, OrphanReported
<1> QED BY <1>1, MutexInvariance, GivenUpInvariance, PTL

(***************************************************************************)
(* Read/write locks                                                        *)
(***************************************************************************)

\* A program that uses one read/write lock: its calls, cancellations, and the
\* steps of the library.
RwStep ==
  \E t \in Threads :
    RwNext(t) \/ ((RwCalls(t) \/ RwUnlockCall(t) \/ Cancel(t)) /\ UNCHANGED rwVars)

RwSpec == CallsInit({"rwlock"}) /\ RwInit /\ [][RwStep]_<<callVars, rwVars>>

-----------------------------------------------------------------------------
(* The invariant *)

Readers == {t \in Threads : holds[t] = 1}

\* A writer that has mtxExclusiveAccess, and one that waits for the readers.
Claims(t) == (op[t] \in Writes /\ pc[t] \in {"complete", "waiting"}) \/ holds[t] = 2
Drains(t) == op[t] \in Writes /\ pc[t] = "waiting"

\* A thread whose call has found the lock valid.
Found(t) == op[t] \in Reads \cup Writes /\ pc[t] \in {"count", "complete", "waiting"}

RwTypes ==
  /\ pc = [t \in Threads |-> pc[t]] /\ op = [t \in Threads |-> op[t]]
  /\ holds \in [Threads -> {0, 1, 2}] /\ rwlock \in {"static", "null", "valid"}
  /\ shared \in Int /\ completed \in Int
  /\ exMutex \in Threads \cup {NoThread} /\ shMutex \in Threads \cup {NoThread}

\* The mutexes tell who writes.
Owners ==
  /\ \A t \in Threads : (exMutex = t <=> Claims(t)) /\ (shMutex = t <=> holds[t] = 2)
  /\ exclusive = IF shMutex = NoThread THEN 0 ELSE 1

\* The counts tell how many read: while a writer waits for them, completed is
\* what is missing to 0.
Counted ==
  /\ IsFiniteSet(Readers)
  /\ Cardinality(Readers) =
       IF \E t \in Threads : Drains(t) THEN -completed ELSE shared - completed

Alone == \A t, u \in Threads : holds[t] = 2 /\ t # u => holds[u] = 0

\* Whoever uses the lock has found it valid.
Valid == \A t \in Threads : holds[t] > 0 \/ Found(t) => rwlock = "valid"

\* What the program sees to.
Called ==
  \A t \in Threads :
    /\ op[t] \in Reads \cup Writes /\ Inside(t) => holds[t] = 0
    /\ In(t, "rwlock_unlock", "enter") => holds[t] > 0
    /\ In(t, "rwlock_unlock", "complete") => holds[t] = 1
    /\ In(t, "rwlock_init", "enter") =>
         rwlock = "null" /\ \A u \in Threads \ {t} : ~In(u, "rwlock_init", "enter")
    /\ In(t, "rwlock_destroy", "enter") =>
         holds[t] = 0 /\ \A u \in Threads \ {t} : Inside(u) => op[u] = "rwlock_unlock"

RwInv == RwTypes /\ Owners /\ Counted /\ Alone /\ Valid /\ Called

LEMMA RwInvInit == CallsInit({"rwlock"}) /\ RwInit => RwInv
<1> SUFFICES ASSUME CallsInit({"rwlock"}), RwInit PROVE RwInv
  OBVIOUS
<1>1. \A t \in Threads : holds[t] = 0 /\ pc[t] = "idle" /\ op[t] = "none"
  BY DEF CallsInit
<1>2. /\ shared = 0 /\ completed = 0 /\ exclusive = 0
      /\ exMutex = NoThread /\ shMutex = NoThread
  BY DEF RwInit
<1>3. RwTypes
  BY <1>2 DEF RwTypes, CallsInit, RwInit
<1>4. Owners
  BY <1>1, <1>2, CallsAssumption DEF Owners, Claims
<1>5. Counted
  <2>1. Readers = {}
    BY <1>1 DEF Readers
  <2>2. \A t \in Threads : ~Drains(t)
    BY <1>1 DEF Drains
  <2> QED BY <1>2, <2>1, <2>2, FS_EmptySet DEF Counted
<1>6. Alone /\ Valid /\ Called
  BY <1>1 DEF Alone, Valid, Found, Called, In, Inside, Reads, Writes
<1> QED BY <1>3, <1>4, <1>5, <1>6 DEF RwInv

-----------------------------------------------------------------------------
(* Readers come and go *)

LEMMA ReaderComes ==
  ASSUME RwInv, NEW t \in Threads, holds[t] = 0, holds' = [holds EXCEPT ![t] = 1]
  PROVE  IsFiniteSet(Readers') /\ Cardinality(Readers') = Cardinality(Readers) + 1
<1>1. Readers' = Readers \cup {t} /\ t \notin Readers
  BY DEF RwInv, RwTypes, Readers
<1> QED BY <1>1, FS_AddElement DEF RwInv, Counted

LEMMA ReaderGoes ==
  ASSUME RwInv, NEW t \in Threads, holds[t] = 1, holds' = [holds EXCEPT ![t] = 0]
  PROVE  IsFiniteSet(Readers') /\ Cardinality(Readers') = Cardinality(Readers) - 1
<1>1. Readers' = Readers \ {t} /\ t \in Readers
  BY DEF RwInv, RwTypes, Readers
<1> QED BY <1>1, FS_RemoveElement DEF RwInv, Counted

LEMMA NoReaders ==
  ASSUME RwInv, Cardinality(Readers) <= 0
  PROVE  Readers = {} /\ Cardinality(Readers) = 0
BY FS_EmptySet, FS_CardinalityType DEF RwInv, Counted

\* Thread t goes on, with the counts, the mutexes and what it holds unchanged.
GoesTo(t, f, l) ==
  /\ pc' = [pc EXCEPT ![t] = l] /\ op' = [op EXCEPT ![t] = f]
  /\ UNCHANGED <<shared, exclusive, completed, exMutex, shMutex, holds>>
  /\ ~(op[t] \in Writes /\ pc[t] \in {"complete", "waiting"})
  /\ ~(f \in Reads \cup Writes /\ l \in {"complete", "waiting"})
  /\ f \in Reads \cup Writes /\ l = "count" => rwlock' = "valid"
  /\ \/ rwlock' = rwlock
     \/ rwlock = "static" /\ rwlock' = "valid"
     \/ rwlock' = "null" /\ \A u \in Threads : holds[u] = 0 /\ (u # t => ~Found(u))
  /\ f \in Reads \cup Writes /\ l \notin {"idle", "exited"} => holds[t] = 0
  /\ f = "rwlock_unlock" /\ l = "enter" => holds[t] > 0
  /\ f = "rwlock_unlock" /\ l = "complete" => holds[t] = 1
  /\ f = "rwlock_init" /\ l = "enter" => rwlock' = "null" /\ Quiet(t)
  /\ f = "rwlock_destroy" /\ l = "enter" => holds[t] = 0 /\ Quiet(t)
  /\ l \in {"idle", "exited"} \/ f = "rwlock_unlock" \/ (f = op[t] /\ Inside(t)) \/ Open(t)

LEMMA Proceeds ==
  ASSUME RwInv, NEW t \in Threads, NEW f, NEW l, GoesTo(t, f, l)
  PROVE  RwInv'
<1>1. /\ pc'[t] = l /\ op'[t] = f
      /\ \A u \in Threads : u # t => pc'[u] = pc[u] /\ op'[u] = op[u]
  BY DEF GoesTo, RwInv, RwTypes
<1>2. RwTypes'
  BY DEF GoesTo, RwInv, RwTypes
<1>3. Owners'
  BY <1>1 DEF GoesTo, RwInv, Owners, Claims
<1>4. Counted'
  <2>1. Readers' = Readers
    BY DEF GoesTo, Readers
  <2>2. \A u \in Threads : Drains(u)' <=> Drains(u)
    BY <1>1 DEF GoesTo, Drains
  <2> QED BY <2>1, <2>2 DEF GoesTo, RwInv, Counted
<1>5. Alone'
  BY DEF GoesTo, RwInv, Alone
<1>6. Valid'
  BY <1>1 DEF GoesTo, RwInv, Valid, Found
<1>7. Called'
  <2> SUFFICES ASSUME NEW u \in Threads
               PROVE  /\ op'[u] \in Reads \cup Writes /\ Inside(u)' => holds[u] = 0
                      /\ In(u, "rwlock_unlock", "enter")' => holds[u] > 0
                      /\ In(u, "rwlock_unlock", "complete")' => holds[u] = 1
                      /\ In(u, "rwlock_init", "enter")' =>
                           /\ rwlock' = "null"
                           /\ \A v \in Threads \ {u} : ~In(v, "rwlock_init", "enter")'
                      /\ In(u, "rwlock_destroy", "enter")' =>
                           /\ holds[u] = 0
                           /\ \A v \in Threads \ {u} : Inside(v)' => op'[v] = "rwlock_unlock"
    BY DEF GoesTo, Called
  <2>1. op'[u] \in Reads \cup Writes /\ Inside(u)' => holds[u] = 0
    BY <1>1 DEF GoesTo, RwInv, Called, Inside
  <2>2. /\ In(u, "rwlock_unlock", "enter")' => holds[u] > 0
        /\ In(u, "rwlock_unlock", "complete")' => holds[u] = 1
    BY <1>1 DEF GoesTo, RwInv, Called, In
  <2>3. ASSUME In(u, "rwlock_init", "enter")'
        PROVE  /\ rwlock' = "null"
               /\ \A v \in Threads \ {u} : ~In(v, "rwlock_init", "enter")'
    <3>1. CASE u = t
      BY <1>1, <2>3, <3>1 DEF GoesTo, In, Quiet, Inside
    <3>2. CASE u # t
      BY <1>1, <2>3, <3>2 DEF GoesTo, RwInv, Called, In, Quiet, Inside
    <3> QED BY <3>1, <3>2
  <2>4. ASSUME In(u, "rwlock_destroy", "enter")'
        PROVE  /\ holds[u] = 0
               /\ \A v \in Threads \ {u} : Inside(v)' => op'[v] = "rwlock_unlock"
    <3>1. CASE u = t
      BY <1>1, <2>4, <3>1 DEF GoesTo, In, Quiet, Inside
    <3>2. CASE u # t
      <4>1. In(u, "rwlock_destroy", "enter")
        BY <1>1, <2>4, <3>2 DEF In
      <4>2. holds[u] = 0 /\ \A v \in Threads \ {u} : Inside(v) => op[v] = "rwlock_unlock"
        BY <4>1 DEF GoesTo, RwInv, Called
      <4>3. ~Open(t)
        BY <3>2, <4>1, <4>2 DEF Open, Undisturbed, In
      <4> QED BY <1>1, <3>2, <4>2, <4>3 DEF GoesTo, Inside
    <3> QED BY <3>1, <3>2
  <2> QED BY <2>1, <2>2, <2>3, <2>4
<1> QED BY <1>2, <1>3, <1>4, <1>5, <1>6, <1>7 DEF RwInv

\* Thread t returns, ends, or goes on in a call for writing.
LEMMA StillCalled ==
  ASSUME RwInv, NEW t \in Threads, NEW f, NEW l,
         pc' = [pc EXCEPT ![t] = l], op' = [op EXCEPT ![t] = f],
         \/ l \in {"idle", "exited"}
         \/ f \in Writes /\ f = op[t] /\ Inside(t) /\ holds'[t] = 0,
         \A u \in Threads : u # t => holds'[u] = holds[u],
         rwlock' = rwlock \/ In(t, "rwlock_init", "enter")
  PROVE  Called'
<1>1. /\ pc'[t] = l /\ op'[t] = f
      /\ \A u \in Threads : u # t => pc'[u] = pc[u] /\ op'[u] = op[u]
  BY DEF RwInv, RwTypes
<1>2. CASE l \in {"idle", "exited"}
  BY <1>1, <1>2 DEF RwInv, Called, In, Inside
<1>3. CASE f \in Writes /\ f = op[t] /\ Inside(t) /\ holds'[t] = 0
  BY <1>1, <1>3 DEF RwInv, Called, In, Inside, Writes
<1> QED BY <1>2, <1>3

\* What a return does, with h for the change of holds.
LEMMA Returns ==
  ASSUME RwInv, NEW t \in Threads, NEW r, NEW h \in Int, ReturnHolding(t, r, h),
         holds[t] + h \in {0, 1, 2}
  PROVE  /\ pc' = [pc EXCEPT ![t] = "idle"] /\ op' = [op EXCEPT ![t] = "none"]
         /\ holds' = [holds EXCEPT ![t] = holds[t] + h]
         /\ holds' \in [Threads -> {0, 1, 2}] /\ holds'[t] = holds[t] + h
         /\ \A u \in Threads : u # t => holds'[u] = holds[u]
         /\ pc' = [u \in Threads |-> pc'[u]] /\ op' = [u \in Threads |-> op'[u]]
<1>1. /\ pc' = [pc EXCEPT ![t] = "idle"] /\ op' = [op EXCEPT ![t] = "none"]
      /\ holds' = [holds EXCEPT ![t] = holds[t] + h]
  BY DEF ReturnHolding
<1>2. pc' = [u \in Threads |-> pc'[u]] /\ op' = [u \in Threads |-> op'[u]]
  BY <1>1 DEF RwInv, RwTypes
<1> DEFINE x == holds[t] + h
<1>3. x \in {0, 1, 2} /\ holds' = [holds EXCEPT ![t] = x] /\ holds \in [Threads -> {0, 1, 2}]
  BY <1>1 DEF RwInv, RwTypes
<1> HIDE DEF x
<1>4. /\ holds' \in [Threads -> {0, 1, 2}] /\ holds'[t] = x
      /\ \A u \in Threads : u # t => holds'[u] = holds[u]
  BY <1>3
<1> QED BY <1>1, <1>2, <1>4 DEF x

LEMMA PlainReturn ==
  ASSUME RwInv, NEW t \in Threads, NEW r, Return(t, r)
  PROVE  holds' = holds /\ pc' = [pc EXCEPT ![t] = "idle"] /\ op' = [op EXCEPT ![t] = "none"]
<1>1. ReturnHolding(t, r, 0) /\ holds[t] + 0 \in {0, 1, 2} /\ holds[t] + 0 = holds[t]
  BY DEF Return, RwInv, RwTypes
<1>2. /\ pc' = [pc EXCEPT ![t] = "idle"] /\ op' = [op EXCEPT ![t] = "none"]
      /\ holds' = [holds EXCEPT ![t] = holds[t]]
  BY <1>1, Returns
<1> QED BY <1>2 DEF RwInv, RwTypes

LEMMA PlainGoto ==
  ASSUME RwInv, NEW t \in Threads, NEW l, Goto(t, l)
  PROVE  /\ holds' = holds /\ pc' = [pc EXCEPT ![t] = l] /\ op' = [op EXCEPT ![t] = op[t]]
         /\ op' = op
BY DEF Goto, RwInv, RwTypes

-----------------------------------------------------------------------------
(* The readers *)

LEMMA CountInStep ==
  ASSUME RwInv, NEW t \in Threads, op[t] \in Reads, pc[t] = "count", CountIn(t)
  PROVE  RwInv'
<1>1. holds[t] = 0 /\ rwlock = "valid" /\ rwlock' = rwlock
  BY DEF RwInv, Called, Valid, Found, Inside, CountIn
<1>2. ReturnHolding(t, "0", 1) /\ holds[t] + 1 \in {0, 1, 2} /\ holds[t] + 1 = 1
  BY <1>1 DEF CountIn
<1>3. /\ pc' = [pc EXCEPT ![t] = "idle"] /\ op' = [op EXCEPT ![t] = "none"]
      /\ holds' = [holds EXCEPT ![t] = 1]
      /\ holds' \in [Threads -> {0, 1, 2}] /\ holds'[t] = 1
      /\ \A u \in Threads : u # t => holds'[u] = holds[u]
      /\ pc' = [u \in Threads |-> pc'[u]] /\ op' = [u \in Threads |-> op'[u]]
  BY <1>2, Returns
<1>4. /\ pc'[t] = "idle" /\ op'[t] = "none"
      /\ \A u \in Threads : u # t => pc'[u] = pc[u] /\ op'[u] = op[u]
  BY <1>3 DEF RwInv, RwTypes
<1>5. \A u \in Threads : ~Claims(u)
  <2>1. exMutex = NoThread
    BY DEF CountIn
  <2> QED BY <2>1, CallsAssumption DEF RwInv, Owners
<1>6. /\ shared' \in Int /\ completed' \in Int
      /\ shared' - completed' = shared - completed + 1
  BY DEF CountIn, RwInv, RwTypes
<1>7. RwTypes'
  BY <1>3, <1>6 DEF CountIn, RwInv, RwTypes
<1>8. Owners'
  BY <1>1, <1>3, <1>4, <1>5 DEF CountIn, RwInv, Owners, Claims
<1>9. Counted'
  <2>1. IsFiniteSet(Readers') /\ Cardinality(Readers') = Cardinality(Readers) + 1
    BY <1>1, <1>3, ReaderComes
  <2>2. \A u \in Threads : ~Drains(u) /\ ~Drains(u)'
    BY <1>4, <1>5 DEF Claims, Drains
  <2>3. Cardinality(Readers) = shared - completed
    BY <2>2 DEF RwInv, Counted
  <2>4. Cardinality(Readers') = shared' - completed'
    BY <1>6, <2>1, <2>3 DEF RwInv, RwTypes
  <2> QED BY <2>1, <2>2, <2>4 DEF Counted
<1>10. Alone'
  BY <1>3, <1>5 DEF Claims, Alone
<1>11. Valid'
  BY <1>1, <1>3, <1>4 DEF RwInv, Valid, Found
<1>12. Called'
  BY <1>1, <1>3, StillCalled
<1> QED BY <1>7, <1>8, <1>9, <1>10, <1>11, <1>12 DEF RwInv

\* A reader counts out.
LEMMA CountOutStep ==
  ASSUME RwInv, NEW t \in Threads, In(t, "rwlock_unlock", "complete"),
         completed' = completed + 1, ReturnHolding(t, "0", -1),
         UNCHANGED <<rwlock, shared, exclusive, exMutex, shMutex>>
  PROVE  RwInv'
<1>1. holds[t] = 1
  BY DEF RwInv, Called
<1>2. holds[t] + (-1) \in {0, 1, 2} /\ holds[t] + (-1) = 0 /\ -1 \in Int
  BY <1>1
<1>3. /\ pc' = [pc EXCEPT ![t] = "idle"] /\ op' = [op EXCEPT ![t] = "none"]
      /\ holds' = [holds EXCEPT ![t] = 0]
      /\ holds' \in [Threads -> {0, 1, 2}] /\ holds'[t] = 0
      /\ \A u \in Threads : u # t => holds'[u] = holds[u]
      /\ pc' = [u \in Threads |-> pc'[u]] /\ op' = [u \in Threads |-> op'[u]]
  BY <1>2, Returns
<1>4. /\ pc'[t] = "idle" /\ op'[t] = "none" /\ op[t] = "rwlock_unlock"
      /\ \A u \in Threads : u # t => pc'[u] = pc[u] /\ op'[u] = op[u]
  BY <1>3 DEF RwInv, RwTypes, In
<1>5. RwTypes'
  BY <1>3 DEF RwInv, RwTypes
<1>6. Owners'
  BY <1>1, <1>3, <1>4 DEF RwInv, Owners, Claims, Writes
<1>7. Counted'
  <2>1. IsFiniteSet(Readers') /\ Cardinality(Readers') = Cardinality(Readers) - 1
    BY <1>1, <1>3, ReaderGoes
  <2>2. \A u \in Threads : Drains(u) <=> Drains(u)'
    BY <1>4 DEF Drains, Writes
  <2> QED BY <2>1, <2>2 DEF RwInv, RwTypes, Counted
<1>8. Alone' /\ Valid'
  BY <1>3, <1>4 DEF RwInv, Alone, Valid, Found
<1>9. Called'
  BY <1>3, StillCalled
<1> QED BY <1>5, <1>6, <1>7, <1>8, <1>9 DEF RwInv

-----------------------------------------------------------------------------
(* The writers *)

\* A writer with mtxExclusiveAccess is the only one, and nobody writes yet.
LEMMA Claimed ==
  ASSUME RwInv, NEW t \in Threads, op[t] \in Writes, pc[t] \in {"complete", "waiting"}
  PROVE  /\ exMutex = t /\ shMutex = NoThread /\ exclusive = 0 /\ holds[t] = 0 /\ rwlock = "valid"
         /\ \A u \in Threads : holds[u] # 2 /\ (u # t => ~Claims(u))
<1>1. Claims(t) /\ exMutex = t
  BY DEF Claims, RwInv, Owners
<1>2. holds[t] = 0 /\ rwlock = "valid"
  BY DEF RwInv, Called, Valid, Found, Inside
<1>3. \A u \in Threads : u # t => ~Claims(u)
  BY <1>1 DEF RwInv, Owners
<1>4. \A u \in Threads : holds[u] # 2
  BY <1>2, <1>3 DEF Claims
<1>5. shMutex = NoThread /\ exclusive = 0
  BY <1>4 DEF RwInv, RwTypes, Owners
<1> QED BY <1>1, <1>2, <1>3, <1>4, <1>5

\* With no readers left, it writes.
LEMMA WriteStep ==
  ASSUME RwInv, NEW t \in Threads, op[t] \in Writes, pc[t] \in {"complete", "waiting"},
         Write(t), Readers = {}, shared' = 0, completed' = 0
  PROVE  RwInv'
<1>1. holds[t] + 2 \in {0, 1, 2} /\ holds[t] + 2 = 2 /\ ReturnHolding(t, "0", 2)
  BY Claimed DEF Write
<1>2. /\ pc' = [pc EXCEPT ![t] = "idle"] /\ op' = [op EXCEPT ![t] = "none"]
      /\ holds' \in [Threads -> {0, 1, 2}] /\ holds'[t] = 2
      /\ \A u \in Threads : u # t => holds'[u] = holds[u]
      /\ pc' = [u \in Threads |-> pc'[u]] /\ op' = [u \in Threads |-> op'[u]]
  BY <1>1, Returns
<1>3. /\ pc'[t] = "idle" /\ op'[t] = "none"
      /\ \A u \in Threads : u # t => pc'[u] = pc[u] /\ op'[u] = op[u]
  BY <1>2 DEF RwInv, RwTypes
<1>4. \A u \in Threads : holds[u] = 0
  <2>1. \A u \in Threads : holds[u] # 1
    BY DEF Readers
  <2>2. \A u \in Threads : holds[u] \in {0, 1, 2}
    BY DEF RwInv, RwTypes
  <2> QED BY <2>1, <2>2, Claimed
<1>5. RwTypes'
  BY <1>2, Claimed DEF Write, RwTypes
<1>6. Owners'
  <2>1. exMutex' = t /\ shMutex' = t /\ exclusive' = 1
    BY Claimed DEF Write
  <2>2. \A u \in Threads : Claims(u)' <=> u = t
    BY <1>2, <1>3, Claimed DEF Claims
  <2>3. \A u \in Threads : holds'[u] = 2 <=> u = t
    BY <1>2, Claimed
  <2> QED BY <2>1, <2>2, <2>3, CallsAssumption DEF Owners
<1>7. Counted'
  <2>1. Readers' = {}
    BY <1>2, <1>4 DEF Readers
  <2>2. \A u \in Threads : ~Drains(u)'
    BY <1>3, Claimed DEF Drains, Claims
  <2> QED BY <2>1, <2>2, FS_EmptySet DEF Counted
<1>8. Alone'
  BY <1>2, <1>4 DEF Alone
<1>9. Valid'
  BY <1>3, Claimed DEF Write, Valid, Found
<1>10. Called'
  BY <1>2, StillCalled DEF Write
<1> QED BY <1>5, <1>6, <1>7, <1>8, <1>9, <1>10 DEF RwInv

\* It gives up, and leaves the counts right for the readers that are there.
LEMMA WithdrawStep ==
  ASSUME RwInv, NEW t \in Threads, op[t] \in Writes, pc[t] \in {"complete", "waiting"},
         NEW f, NEW l \in {"idle", "exited"},
         pc' = [pc EXCEPT ![t] = l], op' = [op EXCEPT ![t] = f],
         exMutex' = NoThread, completed' = 0, shared' = Cardinality(Readers), shared' \in Int,
         UNCHANGED <<rwlock, exclusive, shMutex, holds>>
  PROVE  RwInv'
<1>1. /\ pc'[t] = l /\ op'[t] = f
      /\ \A u \in Threads : u # t => pc'[u] = pc[u] /\ op'[u] = op[u]
  BY DEF RwInv, RwTypes
<1>2. RwTypes'
  <2>1. pc' = [u \in Threads |-> pc'[u]] /\ op' = [u \in Threads |-> op'[u]]
    BY DEF RwInv, RwTypes
  <2>2. /\ holds' \in [Threads -> {0, 1, 2}] /\ shMutex' \in Threads \cup {NoThread}
        /\ rwlock' \in {"static", "null", "valid"}
    BY DEF RwInv, RwTypes
  <2>3. shared' \in Int /\ completed' \in Int /\ exMutex' \in Threads \cup {NoThread}
    OBVIOUS
  <2> QED BY ONLY <2>1, <2>2, <2>3 DEF RwTypes
<1>3. \A u \in Threads : ~Claims(u)'
  BY <1>1, Claimed DEF Claims
<1>4. Owners'
  BY <1>3, CallsAssumption DEF RwInv, Owners
<1>5. Counted'
  <2>1. Readers' = Readers /\ IsFiniteSet(Readers)
    BY DEF Readers, RwInv, Counted
  <2>2. \A u \in Threads : ~Drains(u)'
    BY <1>3 DEF Claims, Drains
  <2> QED BY <2>1, <2>2 DEF Counted
<1>6. Alone' /\ Valid'
  BY <1>1 DEF RwInv, Alone, Valid, Found
<1>7. Called'
  BY StillCalled
<1> QED BY <1>2, <1>4, <1>5, <1>6, <1>7 DEF RwInv

\* A return that leaves everything else as it is.
LEMMA ReturnStep ==
  ASSUME RwInv, NEW t \in Threads, ~(op[t] \in Writes /\ pc[t] \in {"complete", "waiting"}),
         NEW r, Return(t, r),
         UNCHANGED <<shared, exclusive, completed, exMutex, shMutex>>,
         \/ rwlock' = rwlock
         \/ rwlock' = "null" /\ \A u \in Threads : holds[u] = 0 /\ (u # t => ~Found(u))
  PROVE  RwInv'
<1> DEFINE f == "none"
           l == "idle"
<1>1. holds' = holds /\ pc' = [pc EXCEPT ![t] = l] /\ op' = [op EXCEPT ![t] = f]
  BY PlainReturn
<1>2. /\ f \notin Reads \cup Writes /\ f # "rwlock_init" /\ f # "rwlock_destroy"
      /\ f # "rwlock_unlock" /\ l \in {"idle", "exited"}
  BY DEF Reads, Writes
<1> HIDE DEF f, l
<1>3. UNCHANGED <<shared, exclusive, completed, exMutex, shMutex, holds>>
  BY <1>1
<1>4. l # "count" /\ l # "enter"
  BY DEF l
<1>5. GoesTo(t, f, l)
  BY <1>1, <1>2, <1>3, <1>4 DEF GoesTo
<1> QED BY <1>5, Proceeds

LEMMA GivesUpStep ==
  ASSUME RwInv, NEW t \in Threads, op[t] \in Reads \cup Writes, pc[t] = "count", GivesUp(t),
         UNCHANGED rwVars
  PROVE  RwInv'
<1>1. PICK r : Return(t, r)
  BY DEF GivesUp
<1>2. ~(pc[t] \in {"complete", "waiting"})
  OBVIOUS
<1> QED BY <1>1, <1>2, ReturnStep DEF rwVars

LEMMA WriteExclusiveStep ==
  ASSUME RwInv, NEW t \in Threads, WriteExclusive(t)
  PROVE  RwInv'
<1>1. op[t] \in Writes /\ pc[t] = "count"
  BY DEF WriteExclusive
<1>2. CASE exMutex # NoThread
  BY <1>1, <1>2, GivesUpStep DEF WriteExclusive, rwVars
<1>3. CASE exMutex = NoThread
  <2>1. /\ exMutex' = t /\ Goto(t, "complete")
        /\ UNCHANGED <<rwlock, shared, exclusive, completed, shMutex>>
    BY <1>3 DEF WriteExclusive
  <2>2. /\ holds' = holds /\ pc' = [pc EXCEPT ![t] = "complete"]
        /\ op' = [op EXCEPT ![t] = op[t]] /\ op' = op
    BY <2>1, PlainGoto
  <2>3. pc'[t] = "complete" /\ \A u \in Threads : u # t => pc'[u] = pc[u]
    BY <2>2 DEF RwInv, RwTypes
  <2>4. \A u \in Threads : ~Claims(u)
    BY <1>3, CallsAssumption DEF RwInv, Owners
  <2>5. holds[t] = 0 /\ Inside(t) /\ rwlock = "valid"
    BY <1>1 DEF Inside, RwInv, Called, Valid, Found
  <2>6. RwTypes'
    BY <2>1, <2>2 DEF RwInv, RwTypes
  <2>7. Owners'
    BY <1>1, <2>1, <2>2, <2>3, <2>4 DEF RwInv, Owners, Claims
  <2>8. Counted'
    <3>1. Readers' = Readers
      BY <2>2 DEF Readers
    <3>2. \A u \in Threads : ~Drains(u) /\ ~Drains(u)'
      BY <1>1, <2>2, <2>3, <2>4 DEF Drains, Claims
    <3> QED BY <2>1, <3>1, <3>2 DEF RwInv, Counted
  <2>9. Alone' /\ Valid'
    BY <2>1, <2>2, <2>3, <2>5 DEF RwInv, Alone, Valid, Found
  <2>10. Called'
    BY <1>1, <2>1, <2>2, <2>5, StillCalled
  <2> QED BY <2>6, <2>7, <2>8, <2>9, <2>10 DEF RwInv
<1> QED BY <1>2, <1>3

LEMMA WriteCompletedStep ==
  ASSUME RwInv, NEW t \in Threads, WriteCompleted(t)
  PROVE  RwInv'
<1>1. op[t] \in Writes /\ pc[t] = "complete"
  BY DEF WriteCompleted
<1>2. shMutex = NoThread /\ shared' = shared - completed
  BY <1>1, Claimed DEF WriteCompleted
<1>3. Cardinality(Readers) = shared - completed /\ shared - completed \in Int
  <2>1. \A u \in Threads : ~Drains(u)
    BY <1>1, Claimed DEF Drains, Claims
  <2> QED BY <2>1 DEF RwInv, RwTypes, Counted
<1>4. CASE shared' = 0
  <2>1. Write(t) /\ completed' = 0
    BY <1>2, <1>4 DEF WriteCompleted
  <2> QED BY <1>1, <1>2, <1>3, <1>4, <2>1, NoReaders, WriteStep
<1>5. CASE shared' > 0 /\ op[t] = "trywrlock"
  <2>1. /\ completed' = 0 /\ exMutex' = NoThread /\ Return(t, "EBUSY")
        /\ UNCHANGED <<rwlock, exclusive, shMutex>>
    BY <1>2, <1>5 DEF WriteCompleted
  <2>2. holds' = holds /\ pc' = [pc EXCEPT ![t] = "idle"] /\ op' = [op EXCEPT ![t] = "none"]
    BY <2>1, PlainReturn
  <2> QED BY <1>1, <1>2, <1>3, <2>1, <2>2, WithdrawStep
<1>6. CASE ~(shared' = 0) /\ ~(shared' > 0 /\ op[t] = "trywrlock")
  <2>1. /\ completed' = -shared' /\ Goto(t, "waiting")
        /\ UNCHANGED <<rwlock, exclusive, exMutex, shMutex>>
    BY <1>2, <1>6 DEF WriteCompleted
  <2>2. /\ holds' = holds /\ pc' = [pc EXCEPT ![t] = "waiting"]
        /\ op' = [op EXCEPT ![t] = op[t]] /\ op' = op
    BY <2>1, PlainGoto
  <2>3. pc'[t] = "waiting" /\ \A u \in Threads : u # t => pc'[u] = pc[u]
    BY <2>2 DEF RwInv, RwTypes
  <2>4. RwTypes'
    <3>1. pc' = [u \in Threads |-> pc'[u]] /\ op' = [u \in Threads |-> op'[u]]
      BY <2>2 DEF RwInv, RwTypes
    <3>2. holds' \in [Threads -> {0, 1, 2}] /\ shMutex' \in Threads \cup {NoThread}
          /\ exMutex' \in Threads \cup {NoThread} /\ rwlock' \in {"static", "null", "valid"}
      BY <2>1, <2>2 DEF RwInv, RwTypes
    <3>3. shared' \in Int /\ completed' \in Int
      BY <1>2, <1>3, <2>1
    <3> QED BY ONLY <3>1, <3>2, <3>3 DEF RwTypes
  <2>5. Owners'
    BY <1>1, <2>1, <2>2, <2>3 DEF RwInv, Owners, Claims
  <2>6. Counted'
    <3>1. Readers' = Readers
      BY <2>2 DEF Readers
    <3>2. Drains(t)'
      BY <1>1, <2>2, <2>3 DEF Drains
    <3>3. -completed' = Cardinality(Readers)
      BY <1>2, <1>3, <2>1
    <3> QED BY <3>1, <3>2, <3>3 DEF RwInv, Counted
  <2>7. Alone' /\ Valid'
    BY <1>1, <2>1, <2>2, <2>3, Claimed DEF RwInv, Alone, Valid, Found
  <2>8. Called'
    BY <1>1, <2>1, <2>2, Claimed, StillCalled DEF Inside
  <2> QED BY <2>4, <2>5, <2>6, <2>7, <2>8 DEF RwInv
<1> QED BY <1>4, <1>5, <1>6

LEMMA WaitingStep ==
  ASSUME RwInv, NEW t \in Threads, WriteWoken(t) \/ ptw32_rwlock_cancelwrwait(t)
  PROVE  RwInv'
<1>1. op[t] \in Writes /\ pc[t] = "waiting"
  BY DEF WriteWoken, ptw32_rwlock_cancelwrwait
<1>2. Cardinality(Readers) = -completed /\ completed \in Int
  BY <1>1 DEF RwInv, RwTypes, Counted, Drains
<1>3. CASE WriteWoken(t)
  <2>1. Write(t) /\ shared' = 0 /\ completed' = completed /\ completed >= 0
    BY <1>3 DEF WriteWoken
  <2>2. Readers = {} /\ completed = 0
    BY <1>2, <2>1, NoReaders
  <2> QED BY <1>1, <2>1, <2>2, WriteStep
<1>4. CASE ptw32_rwlock_cancelwrwait(t)
  <2>1. /\ shared' = -completed /\ completed' = 0 /\ exMutex' = NoThread
        /\ UNCHANGED <<rwlock, exclusive, shMutex>>
    BY <1>4 DEF ptw32_rwlock_cancelwrwait
  <2>2. CASE Return(t, "ETIMEDOUT")
    <3>1. holds' = holds /\ pc' = [pc EXCEPT ![t] = "idle"] /\ op' = [op EXCEPT ![t] = "none"]
      BY <2>2, PlainReturn
    <3>2. shared' = Cardinality(Readers) /\ shared' \in Int
      BY <1>2, <2>1
    <3> QED BY <1>1, <2>1, <3>1, <3>2, WithdrawStep
  <2>3. CASE Exit(t)
    <3>1. /\ holds' = holds /\ pc' = [pc EXCEPT ![t] = "exited"]
          /\ op' = [op EXCEPT ![t] = op[t]]
      BY <2>3 DEF Exit, RwInv, RwTypes
    <3>2. shared' = Cardinality(Readers) /\ shared' \in Int
      BY <1>2, <2>1
    <3> QED BY <1>1, <2>1, <3>1, <3>2, WithdrawStep
  <2> QED BY <1>4, <2>2, <2>3 DEF ptw32_rwlock_cancelwrwait
<1> QED BY <1>3, <1>4

\* The writer unlocks.
LEMMA WriteEndsStep ==
  ASSUME RwInv, NEW t \in Threads, In(t, "rwlock_unlock", "enter"), exclusive > 0,
         exclusive' = exclusive - 1, shMutex' = NoThread, exMutex' = NoThread,
         ReturnHolding(t, "0", -2), UNCHANGED <<rwlock, shared, completed>>
  PROVE  RwInv'
<1>1. holds[t] = 2 /\ exclusive = 1
  <2>1. shMutex # NoThread /\ exclusive = 1
    BY DEF RwInv, Owners
  <2>2. PICK u \in Threads : holds[u] = 2
    BY <2>1 DEF RwInv, RwTypes, Owners
  <2>3. holds[t] > 0
    BY DEF RwInv, Called
  <2>4. u = t
    <3> SUFFICES ASSUME u # t PROVE FALSE
      OBVIOUS
    <3>1. holds[t] = 0
      BY <2>2 DEF RwInv, Alone
    <3> QED BY <2>3, <3>1
  <2> QED BY <2>1, <2>2, <2>4
<1>2. holds[t] + (-2) \in {0, 1, 2} /\ holds[t] + (-2) = 0 /\ -2 \in Int
  BY <1>1
<1>3. /\ pc' = [pc EXCEPT ![t] = "idle"] /\ op' = [op EXCEPT ![t] = "none"]
      /\ holds' \in [Threads -> {0, 1, 2}] /\ holds'[t] = 0
      /\ \A u \in Threads : u # t => holds'[u] = holds[u]
      /\ pc' = [u \in Threads |-> pc'[u]] /\ op' = [u \in Threads |-> op'[u]]
  BY <1>2, Returns
<1>4. /\ pc'[t] = "idle" /\ op'[t] = "none" /\ op[t] = "rwlock_unlock"
      /\ \A u \in Threads : u # t => pc'[u] = pc[u] /\ op'[u] = op[u]
  BY <1>3 DEF RwInv, RwTypes, In
<1>5. \A u \in Threads : u # t => ~Claims(u) /\ holds[u] = 0
  <2>1. exMutex = t
    BY <1>1 DEF RwInv, Owners, Claims
  <2> QED BY <1>1, <2>1 DEF RwInv, Owners, Alone
<1>6. RwTypes'
  BY <1>3 DEF RwInv, RwTypes
<1>7. Owners'
  <2>1. \A u \in Threads : ~Claims(u)' /\ holds'[u] # 2
    BY <1>3, <1>4, <1>5 DEF Claims
  <2> QED BY <1>1, <2>1, CallsAssumption DEF Owners
<1>8. Counted'
  <2>1. Readers' = Readers
    BY <1>1, <1>3 DEF Readers
  <2>2. \A u \in Threads : ~Drains(u) /\ ~Drains(u)'
    BY <1>4, <1>5 DEF Drains, Claims, Writes
  <2> QED BY <2>1, <2>2 DEF RwInv, Counted
<1>9. Alone' /\ Valid'
  BY <1>3, <1>4 DEF RwInv, Alone, Valid, Found
<1>10. Called'
  BY <1>3, StillCalled
<1> QED BY <1>6, <1>7, <1>8, <1>9, <1>10 DEF RwInv

-----------------------------------------------------------------------------
(* The operations *)

\* A step inside a call that changes at most what the lock is.
LEMMA GotoStep ==
  ASSUME RwInv, NEW t \in Threads, NEW l, Goto(t, l), Inside(t),
         op[t] \notin Writes \/ pc[t] \in {"enter", "needInit"},
         UNCHANGED <<shared, exclusive, completed, exMutex, shMutex>>,
         \/ l = "needInit" \/ l = "static"
         \/ l = "count" /\ rwlock' = "valid"
         \/ l = "complete" /\ op[t] = "rwlock_unlock" /\ holds[t] = 1,
         rwlock' = rwlock \/ (rwlock = "static" /\ rwlock' = "valid")
  PROVE  RwInv'
<1>1. holds' = holds /\ pc' = [pc EXCEPT ![t] = l] /\ op' = [op EXCEPT ![t] = op[t]]
  BY PlainGoto
<1>2. l # "enter" /\ (op[t] \in Reads \cup Writes => holds[t] = 0)
  BY DEF RwInv, Called
<1>3. ~(op[t] \in Writes /\ pc[t] \in {"complete", "waiting"})
  OBVIOUS
<1>4. ~(op[t] \in Reads \cup Writes /\ l \in {"complete", "waiting"})
  BY DEF Reads, Writes
<1>5. op[t] \in Reads \cup Writes /\ l = "count" => rwlock' = "valid"
  OBVIOUS
<1>6. op[t] = "rwlock_unlock" /\ l = "complete" => holds[t] = 1
  OBVIOUS
<1>7. GoesTo(t, op[t], l)
  BY <1>1, <1>2, <1>3, <1>4, <1>5, <1>6 DEF GoesTo
<1> QED BY <1>7, Proceeds

LEMMA RwEnterStep ==
  ASSUME RwInv, NEW t \in Threads, RwEnter(t) \/ ptw32_rwlock_check_need_init(t)
  PROVE  RwInv'
<1>1. /\ op[t] \in Reads \cup Writes /\ pc[t] \in {"enter", "needInit"} /\ Inside(t)
      /\ UNCHANGED <<shared, exclusive, completed, exMutex, shMutex>>
  BY DEF RwEnter, ptw32_rwlock_check_need_init, rwVars, Inside
<1>2. rwlock # "valid" => \A u \in Threads : holds[u] = 0 /\ ~Found(u)
  BY DEF RwInv, RwTypes, Valid
<1>3. CASE RwEnter(t)
  <2>1. rwlock' = rwlock
    BY <1>3 DEF RwEnter, rwVars
  <2>2. CASE rwlock = "null"
    <3>1. Return(t, "EINVAL")
      BY <1>3, <2>2 DEF RwEnter
    <3> QED BY <1>1, <2>1, <3>1, ReturnStep
  <2>3. CASE rwlock = "static"
    <3>1. Goto(t, "needInit")
      BY <1>3, <2>3 DEF RwEnter
    <3> QED BY <1>1, <2>1, <3>1, GotoStep
  <2>4. CASE rwlock = "valid"
    <3>1. Goto(t, "count")
      BY <1>3, <2>4 DEF RwEnter
    <3> QED BY <1>1, <2>1, <2>4, <3>1, GotoStep
  <2> QED BY <2>2, <2>3, <2>4 DEF RwInv, RwTypes
<1>4. CASE ptw32_rwlock_check_need_init(t)
  <2>1. CASE rwlock = "static" /\ rwlock' = "valid" /\ Goto(t, "count")
    BY <1>1, <2>1, GotoStep
  <2>2. CASE rwlock = "static" /\ rwlock' = "null" /\ Return(t, "ENOMEM")
    BY <1>1, <1>2, <2>2, ReturnStep
  <2>3. CASE rwlock = "null" /\ Return(t, "EINVAL") /\ UNCHANGED rwlock
    BY <1>1, <2>3, ReturnStep
  <2>4. CASE rwlock = "valid" /\ Goto(t, "count") /\ UNCHANGED rwlock
    BY <1>1, <2>4, GotoStep
  <2> QED BY <1>4, <2>1, <2>2, <2>3, <2>4 DEF ptw32_rwlock_check_need_init
<1> QED BY <1>3, <1>4

\* The lock is made anew, by a call that meets no other.
LEMMA InitStep ==
  ASSUME RwInv, NEW t \in Threads, pthread_rwlock_init(t)
  PROVE  RwInv'
<1>1. In(t, "rwlock_init", "enter") /\ op[t] \notin Writes /\ UNCHANGED <<exMutex, shMutex>>
  BY DEF pthread_rwlock_init, In, Writes
<1>2. rwlock = "null" /\ \A u \in Threads : holds[u] = 0 /\ ~Found(u)
  BY <1>1 DEF RwInv, RwTypes, Called, Valid
<1>3. CASE \E r : Return(t, r) /\ rwlock' = "null" /\ UNCHANGED <<shared, exclusive, completed>>
  BY <1>1, <1>2, <1>3, ReturnStep
<1>4. CASE /\ rwlock' = "valid" /\ shared' = 0 /\ exclusive' = 0 /\ completed' = 0
           /\ Return(t, "0")
  <2>1. holds' = holds /\ pc' = [pc EXCEPT ![t] = "idle"] /\ op' = [op EXCEPT ![t] = "none"]
    BY <1>4, PlainReturn
  <2>2. /\ pc'[t] = "idle" /\ op'[t] = "none"
        /\ \A u \in Threads : u # t => pc'[u] = pc[u] /\ op'[u] = op[u]
    BY <2>1 DEF RwInv, RwTypes
  <2>3. \A u \in Threads : ~Claims(u) /\ ~Claims(u)' /\ holds'[u] # 2
    BY <1>2, <2>1, <2>2 DEF Claims, Found
  <2>4. RwTypes'
    <3>1. pc' = [u \in Threads |-> pc'[u]] /\ op' = [u \in Threads |-> op'[u]]
      BY <2>1 DEF RwInv, RwTypes
    <3>2. /\ holds' \in [Threads -> {0, 1, 2}]
          /\ exMutex' \in Threads \cup {NoThread} /\ shMutex' \in Threads \cup {NoThread}
      BY <1>1, <2>1 DEF RwInv, RwTypes
    <3>3. /\ rwlock' \in {"static", "null", "valid"} /\ shared' \in Int /\ completed' \in Int
      BY <1>4
    <3> QED BY ONLY <3>1, <3>2, <3>3 DEF RwTypes
  <2>5. Owners'
    <3>1. exMutex = NoThread /\ shMutex = NoThread
      BY <1>2, <2>3 DEF RwInv, RwTypes, Owners
    <3> QED BY <1>1, <1>4, <2>3, <3>1, CallsAssumption DEF Owners
  <2>6. Counted'
    <3>1. Readers' = {}
      BY <1>2, <2>1 DEF Readers
    <3>2. \A u \in Threads : ~Drains(u)'
      BY <2>3 DEF Claims, Drains
    <3> QED BY <1>4, <3>1, <3>2, FS_EmptySet DEF Counted
  <2>7. Alone' /\ Valid'
    BY <1>2, <1>4, <2>1 DEF Alone, Valid
  <2>8. Called'
    BY <1>1, <2>1, StillCalled
  <2> QED BY <2>4, <2>5, <2>6, <2>7, <2>8 DEF RwInv
<1> QED BY <1>3, <1>4 DEF pthread_rwlock_init

LEMMA ReadStep ==
  ASSUME RwInv, NEW t \in Threads,
         \/ pthread_rwlock_rdlock(t) \/ pthread_rwlock_tryrdlock(t) \/ pthread_rwlock_timedrdlock(t)
  PROVE  RwInv'
<1>1. op[t] \in Reads /\ pc[t] = "count"
  BY DEF pthread_rwlock_rdlock, pthread_rwlock_tryrdlock, pthread_rwlock_timedrdlock, In, Reads
<1>2. CountIn(t) \/ (GivesUp(t) /\ UNCHANGED rwVars)
  BY DEF pthread_rwlock_rdlock, pthread_rwlock_tryrdlock, pthread_rwlock_timedrdlock
<1> QED BY <1>1, <1>2, CountInStep, GivesUpStep

LEMMA WriterStep ==
  ASSUME RwInv, NEW t \in Threads,
         \/ pthread_rwlock_wrlock(t) \/ pthread_rwlock_trywrlock(t) \/ pthread_rwlock_timedwrlock(t)
  PROVE  RwInv'
BY WriteExclusiveStep, WriteCompletedStep, WaitingStep
   DEF pthread_rwlock_wrlock, pthread_rwlock_trywrlock, pthread_rwlock_timedwrlock

LEMMA RwUnlockStep ==
  ASSUME RwInv, NEW t \in Threads, pthread_rwlock_unlock(t)
  PROVE  RwInv'
<1>1. op[t] = "rwlock_unlock" /\ op[t] \notin Writes
  BY DEF pthread_rwlock_unlock, Writes
<1>2. CASE pc[t] = "enter" /\ (\E r : Return(t, r)) /\ UNCHANGED rwVars
  BY <1>1, <1>2, ReturnStep DEF rwVars
<1>3. CASE pc[t] = "enter" /\ exclusive = 0 /\ Goto(t, "complete") /\ UNCHANGED rwVars
  <2>1. shMutex = NoThread
    BY <1>3 DEF RwInv, Owners
  <2>2. holds[t] > 0 /\ holds[t] # 2
    BY <1>1, <1>3, <2>1, CallsAssumption DEF RwInv, Owners, Called, In
  <2>3. holds[t] = 1 /\ Inside(t)
    BY <1>3, <2>2 DEF RwInv, RwTypes, Inside
  <2> QED BY <1>1, <1>3, <2>3, GotoStep DEF rwVars
<1>4. CASE /\ pc[t] = "complete" /\ completed' = completed + 1 /\ ReturnHolding(t, "0", -1)
           /\ UNCHANGED <<rwlock, shared, exclusive, exMutex, shMutex>>
  BY <1>1, <1>4, CountOutStep DEF In
<1>5. CASE /\ pc[t] = "enter" /\ exclusive > 0
           /\ exclusive' = exclusive - 1 /\ shMutex' = NoThread /\ exMutex' = NoThread
           /\ ReturnHolding(t, "0", -2) /\ UNCHANGED <<rwlock, shared, completed>>
  BY <1>1, <1>5, WriteEndsStep DEF In
<1> QED BY <1>2, <1>3, <1>4, <1>5 DEF pthread_rwlock_unlock

LEMMA DestroyStep ==
  ASSUME RwInv, NEW t \in Threads, pthread_rwlock_destroy(t)
  PROVE  RwInv'
<1>1. /\ op[t] = "rwlock_destroy" /\ op[t] \notin Writes
      /\ UNCHANGED <<shared, exclusive, completed, exMutex, shMutex>>
  BY DEF pthread_rwlock_destroy, Writes
<1>2. CASE (\E r : Return(t, r)) /\ UNCHANGED rwlock
  BY <1>1, <1>2, ReturnStep
<1>3. CASE pc[t] = "enter" /\ Goto(t, "static") /\ UNCHANGED rwlock
  BY <1>1, <1>3, GotoStep DEF Inside
<1>4. CASE /\ pc[t] = "enter" /\ exMutex = NoThread /\ shMutex = NoThread
           /\ ~(shared > completed) /\ rwlock' = "null" /\ Return(t, "0")
  <2>1. \A u \in Threads : ~Claims(u)
    BY <1>4, CallsAssumption DEF RwInv, Owners
  <2>2. Cardinality(Readers) <= 0
    <3>1. \A u \in Threads : ~Drains(u)
      BY <2>1 DEF Claims, Drains
    <3> QED BY <1>4, <3>1 DEF RwInv, RwTypes, Counted
  <2>3. \A u \in Threads : holds[u] # 1
    BY <2>2, NoReaders DEF Readers
  <2>4. \A u \in Threads : holds[u] = 0
    BY <2>1, <2>3 DEF Claims, RwInv, RwTypes
  <2>5. \A u \in Threads : u # t => ~Found(u)
    BY <1>1, <1>4 DEF RwInv, Called, In, Found, Inside, Reads, Writes
  <2> QED BY <1>1, <1>4, <2>4, <2>5, ReturnStep
<1>5. CASE rwlock = "static" /\ rwlock' = "null" /\ Return(t, "0")
  <2>1. \A u \in Threads : holds[u] = 0 /\ ~Found(u)
    BY <1>5 DEF RwInv, RwTypes, Valid
  <2> QED BY <1>1, <1>5, <2>1, ReturnStep
<1> QED BY <1>2, <1>3, <1>4, <1>5 DEF pthread_rwlock_destroy

-----------------------------------------------------------------------------
(* The program *)

LEMMA RwCallStep ==
  ASSUME RwInv, NEW t \in Threads, RwCalls(t) \/ RwUnlockCall(t), UNCHANGED rwVars
  PROVE  RwInv'
<1>1. PICK f : /\ pc' = [pc EXCEPT ![t] = "enter"] /\ op' = [op EXCEPT ![t] = f]
               /\ UNCHANGED holds /\ pc[t] = "idle"
               /\ \/ f \in Reads \cup Writes /\ holds[t] = 0 /\ Open(t)
                  \/ f = "rwlock_unlock" /\ holds[t] > 0
                  \/ f = "rwlock_init" /\ rwlock = "null" /\ Quiet(t) /\ Open(t)
                  \/ f = "rwlock_destroy" /\ holds[t] = 0 /\ Quiet(t) /\ Open(t)
  BY DEF RwCalls, RwUnlockCall, Call, Again, Idle
<1> DEFINE l == "enter"
<1>2. l # "count" /\ l # "complete" /\ l # "waiting" /\ l = "enter"
  OBVIOUS
<1>3. f \in Reads \cup Writes => f # "rwlock_unlock" /\ f # "rwlock_init" /\ f # "rwlock_destroy"
  BY DEF Reads, Writes
<1>4. pc' = [pc EXCEPT ![t] = l]
  BY <1>1
<1> HIDE DEF l
<1>5. GoesTo(t, f, l)
  BY <1>1, <1>2, <1>3, <1>4 DEF GoesTo, rwVars
<1> QED BY <1>5, Proceeds

LEMMA RwInvStep == RwInv /\ [RwStep]_<<callVars, rwVars>> => RwInv'
<1> SUFFICES ASSUME RwInv, [RwStep]_<<callVars, rwVars>> PROVE RwInv'
  OBVIOUS
<1>1. ASSUME NEW t \in Threads, RwNext(t) PROVE RwInv'
  BY <1>1, InitStep, RwEnterStep, ReadStep, WriterStep, RwUnlockStep, DestroyStep DEF RwNext
<1>2. CASE UNCHANGED <<pc, op, holds, rwVars>>
  BY <1>2 DEF rwVars, RwInv, RwTypes, Owners, Counted, Alone, Valid, Called,
              Readers, Claims, Drains, Found, In, Inside
<1>3. ASSUME NEW t \in Threads, Cancel(t), UNCHANGED rwVars PROVE RwInv'
  BY <1>2, <1>3 DEF Cancel
<1>4. CASE UNCHANGED <<callVars, rwVars>>
  BY <1>2, <1>4 DEF callVars
<1> QED BY <1>1, <1>3, <1>4, RwCallStep DEF RwStep

LEMMA RwInvariance == RwSpec => []RwInv
BY RwInvInit, RwInvStep, PTL DEF RwSpec

\* A thread that holds a read/write lock for writing holds it alone, and no
\* lock is destroyed under a thread that holds it: the two counts agree with
\* the readers that are there whatever timed out or was cancelled.
THEOREM WritersAreAlone == RwSpec => []WriterAlone
<1>1. RwInv => WriterAlone
  BY DEF RwInv, Alone, Valid, RwTypes, WriterAlone
<1> QED BY <1>1, RwInvariance, PTL
=============================================================================
