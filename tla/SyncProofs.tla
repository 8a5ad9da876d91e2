----------------------------- MODULE SyncProofs -----------------------------
(***************************************************************************)
(* Theorems about semaphores, spin locks, MCS locks, pthread_once,         *)
(* barriers and thread-specific data of pthreads-w32, for any number of    *)
(* threads and of calls, any values, counts, heights and keys, and         *)
(* whichever of the waits time out or are cancelled.  Each is about the    *)
(* part of MCSync's specification with one kind of object.                 *)
(***************************************************************************)
EXTENDS Once, Barrier, SpinLock, Semaphore, Keys, FiniteSetTheorems, SequenceTheorems, TLAPS

-----------------------------------------------------------------------------
(* Semaphores *)

\* A program that uses one semaphore: its calls, cancellations, and the steps
\* of the library.
SemStep ==
  \E t \in Threads :
    \/ PostApart(t) /\ SemNext(t)
    \/ (SemCalls(t) \/ Cancel(t)) /\ UNCHANGED semVars

SemSpec == CallsInit({"semaphore"}) /\ SemInit /\ [][SemStep]_<<callVars, semVars>>

-----------------------------------------------------------------------------
(* The invariant *)

Dying == \E t \in Threads : In(t, "sem_wait", "dying")
Initialising(t) == In(t, "sem_init", "enter")
Destroying(t) == In(t, "sem_destroy", "enter")

SemTypes ==
  /\ pc = [t \in Threads |-> pc[t]] /\ op = [t \in Threads |-> op[t]]
  /\ holds = [t \in Threads |-> 0] /\ object = "semaphore"
  /\ sem \in {"null", "valid"} /\ value \in Int /\ kernel \in Int /\ permits \in Int
  /\ IsFiniteSet(Waiters) /\ \A t \in Threads : pc[t] = "blocked" => t \in Waiters

\* A cancelled sem_wait has found no token, and none comes before it has run
\* its cleanup handler.
NoTokenForTheDying == Dying => kernel = 0

\* What the program sees to: who initialises the semaphore is the only one to,
\* and who destroys it meets only threads that wait, with nothing posted.
Apart ==
  /\ sem = "null" => Waiters = {}
  /\ \A t \in Threads : Initialising(t) =>
       sem = "null" /\ \A u \in Threads \ {t} : ~Initialising(u)
  /\ \A t \in Threads : Destroying(t) =>
       kernel = 0 /\ \A u \in Threads \ {t} : Inside(u) => u \in Waiters

SemInv == SemTypes /\ SemBalance /\ NoTokenForTheDying /\ Apart

LEMMA SemInvInit == CallsInit({"semaphore"}) /\ SemInit => SemInv
<1> SUFFICES ASSUME CallsInit({"semaphore"}), SemInit PROVE SemInv
  OBVIOUS
<1>1. \A t \in Threads : pc[t] = "idle" /\ op[t] = "none"
  BY DEF CallsInit
<1>2. Waiters = {}
  BY <1>1 DEF Waiters
<1>3. SemTypes
  BY <1>1, <1>2, FS_EmptySet DEF SemTypes, CallsInit, SemInit
<1>4. SemBalance /\ NoTokenForTheDying
  BY <1>1 DEF SemBalance, SemInit, NoTokenForTheDying, Dying, In
<1>5. Apart
  BY <1>1, <1>2 DEF Apart, Initialising, Destroying, In
<1> QED BY <1>3, <1>4, <1>5 DEF SemInv

-----------------------------------------------------------------------------
(* The kinds of steps *)

\* Thread t goes to l in function f.
Goes(t, f, l) ==
  /\ pc' = [pc EXCEPT ![t] = l] /\ op' = [op EXCEPT ![t] = f]
  /\ UNCHANGED <<object, holds>>

Counted(f, l) == f \in SemWaits /\ l \in {"blocked", "timedout", "dying"}

LEMMA WaitersChange ==
  ASSUME SemTypes, NEW t \in Threads, NEW f, NEW l, Goes(t, f, l)
  PROVE  /\ Waiters' = IF Counted(f, l) THEN Waiters \cup {t} ELSE Waiters \ {t}
         /\ IsFiniteSet(Waiters')
         /\ Cardinality(Waiters') =
              IF Counted(f, l) THEN IF t \in Waiters THEN Cardinality(Waiters) ELSE Cardinality(Waiters) + 1
              ELSE IF t \in Waiters THEN Cardinality(Waiters) - 1 ELSE Cardinality(Waiters)
<1>1. Waiters' = IF Counted(f, l) THEN Waiters \cup {t} ELSE Waiters \ {t}
  BY DEF SemTypes, Goes, Waiters, Counted
<1>2. IsFiniteSet(Waiters)
  BY DEF SemTypes
<1> QED BY <1>1, <1>2, FS_AddElement, FS_RemoveElement

\* The semaphore's own variables after a step that keeps the balance.
Balanced(n) ==
  /\ sem' \in {"null", "valid"} /\ value' \in Int /\ kernel' \in Int /\ permits' \in Int
  /\ sem' = "valid" =>
       value' = permits' - n /\ kernel' = n + Least(value', 0) /\ permits' >= 0
  /\ sem' = "null" => n = 0

\* A step of the library in the call of thread t.
LEMMA LibraryMoves ==
  ASSUME SemInv, NEW t \in Threads, NEW f, NEW l, Goes(t, f, l), Inside(t), Counted(f, l) \/ l \in {"idle", "exited"},
         Balanced(Cardinality(Waiters')),
         Dying \/ (f = "sem_wait" /\ l = "dying") => kernel' = 0,
         sem' # sem => Initialising(t) \/ Destroying(t),
         t \in Waiters /\ kernel = 0 => kernel' = 0
  PROVE  SemInv'
<1>0. l # "enter"
  BY DEF Counted
<1>1. Waiters' = IF Counted(f, l) THEN Waiters \cup {t} ELSE Waiters \ {t}
  BY WaitersChange DEF SemInv
<1>2. IsFiniteSet(Waiters')
  BY WaitersChange DEF SemInv
<1>4. SemBalance'
  BY DEF SemBalance, Balanced
<1>5. \A u \in Threads : pc'[u] = (IF u = t THEN l ELSE pc[u]) /\ op'[u] = (IF u = t THEN f ELSE op[u])
  BY DEF SemInv, SemTypes, Goes
<1>3. SemTypes'
  <2>1. \A u \in Threads : pc'[u] = "blocked" => u \in Waiters'
    BY <1>1, <1>5 DEF SemInv, SemTypes, Counted
  <2> QED BY <1>2, <2>1 DEF SemInv, SemTypes, Goes, Balanced
<1>6. NoTokenForTheDying'
  <2> SUFFICES ASSUME NEW u \in Threads, In(u, "sem_wait", "dying")' PROVE kernel' = 0
    BY DEF NoTokenForTheDying, Dying
  <2>1. CASE u = t
    BY <1>5, <2>1 DEF In
  <2>2. CASE u # t
    <3>1. Dying
      BY <1>5, <2>2 DEF Dying, In
    <3> QED BY <3>1
  <2> QED BY <2>1, <2>2
<1>7. Apart'
  <2>1. sem' = "null" => Waiters' = {}
    <3>1. sem' = "null" => Cardinality(Waiters') = 0
      BY DEF Balanced
    <3> QED BY <1>2, <3>1, FS_EmptySet
  <2>2. ASSUME NEW u \in Threads, Initialising(u)'
        PROVE  sem' = "null" /\ \A v \in Threads \ {u} : ~Initialising(v)'
    <3>1. u # t /\ Initialising(u)
      BY <1>0, <1>5, <2>2 DEF Initialising, In
    <3>2. sem = "null" /\ \A v \in Threads \ {u} : ~Initialising(v)
      BY <3>1 DEF SemInv, Apart
    <3>3. \A v \in Threads : Initialising(v)' => Initialising(v)
      BY <1>0, <1>5 DEF Initialising, In
    <3>4. ~Destroying(t)
      BY <3>1 DEF SemInv, Apart, Initialising, Inside, In, Waiters, SemWaits
    <3> QED BY <3>1, <3>2, <3>3, <3>4 DEF SemInv, SemTypes
  <2>3. ASSUME NEW u \in Threads, Destroying(u)'
        PROVE  kernel' = 0 /\ \A v \in Threads \ {u} : Inside(v)' => v \in Waiters'
    <3>1. u # t /\ Destroying(u)
      BY <1>0, <1>5, <2>3 DEF Destroying, In
    <3>2. kernel = 0 /\ t \in Waiters /\ \A v \in Threads \ {u} : Inside(v) => v \in Waiters
      BY <3>1 DEF SemInv, Apart
    <3>3. Inside(t)' => t \in Waiters'
      BY <1>1, <1>5 DEF Inside
    <3> QED BY <1>1, <1>5, <3>1, <3>2, <3>3 DEF Inside
  <2> QED BY <2>1, <2>2, <2>3 DEF Apart
<1> QED BY <1>3, <1>4, <1>6, <1>7 DEF SemInv

\* What the invariant says of the thread that moves.
LEMMA Balance ==
  ASSUME SemInv
  PROVE  /\ Cardinality(Waiters) \in Nat
         /\ sem \in {"null", "valid"} /\ value \in Int /\ kernel \in Int /\ permits \in Int
         /\ sem = "valid" =>
              value = permits - Cardinality(Waiters)
              /\ kernel = Cardinality(Waiters) + Least(value, 0) /\ permits >= 0
         /\ sem = "null" => Cardinality(Waiters) = 0
         /\ \A t \in Waiters : Cardinality(Waiters) >= 1 /\ sem = "valid"
<1>1. IsFiniteSet(Waiters)
  BY DEF SemInv, SemTypes
<1>2. Cardinality(Waiters) \in Nat
  BY <1>1, FS_CardinalityType
<1>3. Cardinality(Waiters) = 0 <=> Waiters = {}
  BY <1>1, FS_EmptySet
<1> QED BY <1>2, <1>3 DEF SemInv, SemTypes, SemBalance, Apart

LEMMA CallMoves ==
  ASSUME SemInv, NEW t \in Threads
  PROVE  /\ \A r : Return(t, r) => Goes(t, "none", "idle")
         /\ Exit(t) => Goes(t, op[t], "exited")
         /\ \A l : Goto(t, l) => Goes(t, op[t], l)
BY DEF SemInv, SemTypes, Return, ReturnHolding, Exit, Goto, Goes

\* A step that leaves the semaphore alone, of a thread that does not wait.
LEMMA Leaves ==
  ASSUME SemInv, NEW t \in Threads, pc[t] = "enter", UNCHANGED semVars,
         (\E r : Return(t, r)) \/ Exit(t)
  PROVE  SemInv'
<1>1. t \notin Waiters
  BY DEF Waiters
<1>2. PICK f, l : Goes(t, f, l) /\ l \in {"idle", "exited"}
  BY CallMoves
<1>3. Cardinality(Waiters') = Cardinality(Waiters)
  BY <1>1, <1>2, WaitersChange DEF SemInv, Counted
<1>4. Balanced(Cardinality(Waiters'))
  BY <1>3, Balance DEF Balanced, semVars
<1> QED BY <1>1, <1>2, <1>4, LibraryMoves DEF semVars, Inside, SemInv, NoTokenForTheDying

\* A waiter leaves with a token.
LEMMA TakesToken ==
  ASSUME SemInv, NEW t \in Waiters, kernel > 0,
         kernel' = kernel - 1, permits' = permits - 1, UNCHANGED <<sem, value>>,
         (\E r : Return(t, r)) \/ Exit(t)
  PROVE  SemInv'
<1>1. t \in Threads /\ Inside(t)
  BY DEF Waiters, Inside
<1>2. PICK f, l : Goes(t, f, l) /\ l \in {"idle", "exited"}
  BY <1>1, CallMoves
<1>3. Cardinality(Waiters') = Cardinality(Waiters) - 1
  BY <1>1, <1>2, WaitersChange DEF SemInv, Counted
<1>4. Balanced(Cardinality(Waiters'))
  BY <1>3, Balance DEF Balanced, Least
<1>5. ~Dying
  BY DEF SemInv, NoTokenForTheDying
<1> QED BY <1>1, <1>2, <1>4, <1>5, LibraryMoves

\* A waiter leaves without one, and nobody has posted for it.
LEMMA GivesUp ==
  ASSUME SemInv, NEW t \in Waiters, kernel = 0,
         value' = value + 1, UNCHANGED <<sem, kernel, permits>>,
         (\E r : Return(t, r)) \/ Exit(t)
  PROVE  SemInv'
<1>1. t \in Threads /\ Inside(t)
  BY DEF Waiters, Inside
<1>2. PICK f, l : Goes(t, f, l) /\ l \in {"idle", "exited"}
  BY <1>1, CallMoves
<1>3. Cardinality(Waiters') = Cardinality(Waiters) - 1
  BY <1>1, <1>2, WaitersChange DEF SemInv, Counted
<1>4. /\ Cardinality(Waiters) \in Nat /\ value \in Int /\ permits \in Int /\ sem = "valid"
      /\ value = permits - Cardinality(Waiters) /\ kernel = Cardinality(Waiters) + Least(value, 0)
      /\ permits >= 0 /\ Cardinality(Waiters) >= 1
  BY Balance
<1>5. Balanced(Cardinality(Waiters'))
  BY <1>3, <1>4 DEF Balanced, Least
<1> QED BY <1>1, <1>2, <1>5, LibraryMoves

-----------------------------------------------------------------------------
(* The steps of the library *)

LEMMA DownStep == ASSUME SemInv, NEW t \in Threads, SemDown(t) PROVE SemInv'
<1>1. Inside(t) /\ t \notin Waiters /\ pc[t] = "enter" /\ op[t] \in SemWaits
  BY DEF SemDown, Inside, Waiters
<1>2. CASE sem = "null"
  BY <1>1, <1>2, Leaves DEF SemDown
<1>3. CASE sem = "valid" /\ value > 0
  <2>1. Goes(t, "none", "idle") /\ value' = value - 1 /\ permits' = permits - 1 /\ UNCHANGED <<sem, kernel>>
    BY <1>3, CallMoves DEF SemDown
  <2>2. Cardinality(Waiters') = Cardinality(Waiters)
    BY <1>1, <2>1, WaitersChange DEF SemInv, Counted, SemWaits
  <2>3. Balanced(Cardinality(Waiters'))
    BY <1>3, <2>1, <2>2, Balance DEF Balanced, Least
  <2> QED BY <1>1, <2>1, <2>3, LibraryMoves DEF SemInv, NoTokenForTheDying
<1>4. CASE sem = "valid" /\ ~(value > 0)
  <2>1. Goes(t, op[t], "blocked") /\ value' = value - 1 /\ UNCHANGED <<sem, kernel, permits>>
    BY <1>4, CallMoves DEF SemDown
  <2>2. Cardinality(Waiters') = Cardinality(Waiters) + 1 /\ Counted(op[t], "blocked")
    BY <1>1, <2>1, WaitersChange DEF SemInv, Counted
  <2>3. Balanced(Cardinality(Waiters'))
    BY <1>4, <2>1, <2>2, Balance DEF Balanced, Least
  <2> QED BY <1>1, <2>1, <2>2, <2>3, LibraryMoves DEF SemInv, NoTokenForTheDying
<1> QED BY <1>2, <1>3, <1>4 DEF SemInv, SemTypes

LEMMA GivesUpStep == ASSUME SemInv, NEW t \in Threads, op[t] \in SemWaits, SemGivesUp(t) PROVE SemInv'
<1>1. t \in Waiters /\ Inside(t)
  BY DEF SemGivesUp, Inside, Waiters
<1>2. PICK l : Goes(t, op[t], l) /\ l \in {"timedout", "dying"}
  BY CallMoves DEF SemGivesUp
<1>3. kernel = 0 /\ UNCHANGED semVars
  BY DEF SemGivesUp
<1>4. Cardinality(Waiters') = Cardinality(Waiters) /\ Counted(op[t], l)
  BY <1>1, <1>2, WaitersChange DEF SemInv, Counted
<1>5. Balanced(Cardinality(Waiters'))
  BY <1>3, <1>4, Balance DEF Balanced, semVars
<1> QED BY <1>1, <1>2, <1>3, <1>4, <1>5, LibraryMoves DEF semVars

LEMMA WaitStep ==
  ASSUME SemInv, NEW t \in Threads, op[t] \in SemWaits, SemWait(t)
  PROVE  SemInv'
<1>1. CASE SemTestCancel(t)
  BY <1>1, Leaves DEF SemTestCancel
<1>2. CASE SemWoken(t)
  BY <1>2, TakesToken DEF SemWoken, Waiters
<1> QED BY <1>1, <1>2, DownStep, GivesUpStep DEF SemWait

LEMMA TimedwaitCleanupStep ==
  ASSUME SemInv, NEW t \in Threads, ptw32_sem_timedwait_cleanup(t)
  PROVE  SemInv'
<1>1. t \in Waiters
  BY DEF ptw32_sem_timedwait_cleanup, Waiters, SemWaits
<1>2. (\E r : Return(t, r)) \/ Exit(t)
  BY DEF ptw32_sem_timedwait_cleanup
<1>3. CASE kernel > 0
  BY <1>1, <1>2, <1>3, TakesToken DEF ptw32_sem_timedwait_cleanup
<1>4. CASE ~(kernel > 0)
  <2>1. kernel = 0
    BY <1>1, <1>4, Balance DEF Least
  <2> QED BY <1>1, <1>2, <1>4, <2>1, GivesUp DEF ptw32_sem_timedwait_cleanup
<1> QED BY <1>3, <1>4

\* No token has come, so that value counts this waiter below 0, and the
\* handler does not take the semaphore for a destroyed one.
LEMMA WaitCleanupStep ==
  ASSUME SemInv, NEW t \in Threads, ptw32_sem_wait_cleanup(t)
  PROVE  SemInv'
<1>1. t \in Waiters /\ Dying
  BY DEF ptw32_sem_wait_cleanup, Waiters, SemWaits, Dying, In
<1>2. kernel = 0
  BY <1>1 DEF SemInv, NoTokenForTheDying
<1>3. value # 0
  BY <1>1, <1>2, Balance DEF Least
<1> QED BY <1>1, <1>2, <1>3, GivesUp DEF ptw32_sem_wait_cleanup

LEMMA UpStep ==
  ASSUME SemInv, NEW t \in Threads, pc[t] = "enter", NEW count \in Nat \ {0},
         SemUp(t, count), ~Dying
  PROVE  SemInv'
<1>1. Inside(t) /\ t \notin Waiters
  BY DEF Inside, Waiters
<1>2. CASE UNCHANGED semVars /\ \E r : Return(t, r)
  BY <1>2, Leaves
<1>3. CASE /\ sem = "valid" /\ Return(t, "0") /\ UNCHANGED sem
           /\ value' = value + count /\ permits' = permits + count
           /\ kernel' = kernel + IF value < 0 THEN Least(-value, count) ELSE 0
  <2>1. Goes(t, "none", "idle")
    BY <1>3, CallMoves
  <2>2. Cardinality(Waiters') = Cardinality(Waiters)
    BY <1>1, <2>1, WaitersChange DEF SemInv, Counted, SemWaits
  <2>3. /\ Cardinality(Waiters) \in Nat /\ value \in Int /\ permits \in Int /\ sem = "valid"
        /\ value = permits - Cardinality(Waiters) /\ kernel = Cardinality(Waiters) + Least(value, 0)
        /\ permits >= 0
    BY <1>3, Balance
  <2>4. Balanced(Cardinality(Waiters'))
    BY <1>3, <2>2, <2>3 DEF Balanced, Least
  <2> QED BY <1>1, <1>3, <2>1, <2>4, LibraryMoves
<1> QED BY <1>2, <1>3 DEF SemUp, SemInv, SemTypes

LEMMA InitStep == ASSUME SemInv, NEW t \in Threads, sem_init(t) PROVE SemInv'
<1>1. Inside(t) /\ t \notin Waiters /\ Initialising(t) /\ pc[t] = "enter"
  BY DEF sem_init, Inside, Waiters, Initialising, In
<1>2. CASE UNCHANGED semVars /\ \E r : Return(t, r)
  BY <1>1, <1>2, Leaves
<1>3. CASE \E v \in InitValues :
             sem' = "valid" /\ value' = v /\ kernel' = 0 /\ permits' = v /\ Return(t, "0")
  <2>1. Goes(t, "none", "idle")
    BY <1>3, CallMoves
  <2>2. Cardinality(Waiters') = 0
    BY <1>1, <2>1, WaitersChange, Balance DEF SemInv, Counted, SemWaits, Apart
  <2>3. Balanced(Cardinality(Waiters'))
    BY <1>3, <2>2, SemAssumption DEF Balanced, Least
  <2> QED BY <1>1, <1>3, <2>1, <2>3, LibraryMoves
<1> QED BY <1>2, <1>3 DEF sem_init

LEMMA DestroyStep == ASSUME SemInv, NEW t \in Threads, sem_destroy(t) PROVE SemInv'
<1>1. Inside(t) /\ t \notin Waiters /\ Destroying(t) /\ pc[t] = "enter"
  BY DEF sem_destroy, Inside, Waiters, Destroying, In
<1>2. CASE UNCHANGED semVars /\ \E r : Return(t, r)
  BY <1>1, <1>2, Leaves
<1>3. CASE /\ sem = "valid" /\ ~(value < 0)
           /\ sem' = "null" /\ value' = SEM_VALUE_MAX /\ Return(t, "0")
           /\ UNCHANGED <<kernel, permits>>
  <2>1. Goes(t, "none", "idle")
    BY <1>3, CallMoves
  <2>2. kernel = 0
    BY <1>1 DEF SemInv, Apart
  <2>3. Cardinality(Waiters') = 0
    BY <1>1, <1>3, <2>1, <2>2, WaitersChange, Balance DEF SemInv, Counted, SemWaits, Least
  <2>4. Balanced(Cardinality(Waiters'))
    BY <1>3, <2>3, SemAssumption, Balance DEF Balanced, Least
  <2> QED BY <1>1, <1>3, <2>1, <2>2, <2>4, LibraryMoves
<1> QED BY <1>2, <1>3 DEF sem_destroy, SemInv, SemTypes

LEMMA TryStep == ASSUME SemInv, NEW t \in Threads, sem_trywait(t) PROVE SemInv'
<1>1. Inside(t) /\ t \notin Waiters /\ pc[t] = "enter"
  BY DEF sem_trywait, Inside, Waiters, In
<1>2. CASE UNCHANGED semVars /\ \E r : Return(t, r)
  BY <1>1, <1>2, Leaves
<1>3. CASE /\ sem = "valid" /\ value > 0
           /\ value' = value - 1 /\ permits' = permits - 1
           /\ Return(t, "0") /\ UNCHANGED <<sem, kernel>>
  <2>1. Goes(t, "none", "idle")
    BY <1>3, CallMoves
  <2>2. Cardinality(Waiters') = Cardinality(Waiters)
    BY <1>1, <2>1, WaitersChange DEF SemInv, Counted, SemWaits
  <2>3. Balanced(Cardinality(Waiters'))
    BY <1>3, <2>2, Balance DEF Balanced, Least
  <2> QED BY <1>1, <1>3, <2>1, <2>3, LibraryMoves DEF SemInv, NoTokenForTheDying
<1> QED BY <1>2, <1>3 DEF sem_trywait

-----------------------------------------------------------------------------
(* The program *)

LEMMA SemCallStep == ASSUME SemInv, NEW t \in Threads, SemCalls(t), UNCHANGED semVars PROVE SemInv'
<1>1. PICK f : /\ pc[t] = "idle" /\ Goes(t, f, "enter")
               /\ f = "sem_init" => sem = "null" /\ Quiet(t)
               /\ f = "sem_destroy" =>
                    kernel = 0 /\ \A u \in Threads \ {t} : Inside(u) => pc[u] = "blocked"
  BY DEF SemCalls, Call, Idle, Goes, SemWaits
<1>2. \A u \in Threads : pc'[u] = (IF u = t THEN "enter" ELSE pc[u]) /\ op'[u] = (IF u = t THEN f ELSE op[u])
  BY <1>1 DEF SemInv, SemTypes, Goes
<1>3. Waiters' = Waiters
  BY <1>1, <1>2 DEF Waiters
<1>4. SemTypes' /\ SemBalance'
  BY <1>1, <1>3 DEF SemInv, SemTypes, SemBalance, Goes, semVars
<1>5. NoTokenForTheDying'
  BY <1>2 DEF SemInv, NoTokenForTheDying, Dying, In, semVars
<1>6. \A u \in Threads : ~Destroying(u)
  BY <1>1 DEF SemCalls, Open, Destroying, In, Undisturbed, SemInv, SemTypes
<1>7. Apart'
  <2>1. (sem = "null" => Waiters = {})'
    BY <1>3 DEF SemInv, Apart, semVars
  <2>2. ASSUME NEW u \in Threads, Initialising(u)'
        PROVE  (sem = "null" /\ \A v \in Threads \ {u} : ~Initialising(v))'
    <3>1. CASE u = t
      BY <1>1, <1>2, <2>2, <3>1 DEF Initialising, In, Quiet, Inside, semVars
    <3>2. CASE u # t
      <4>1. Initialising(u) /\ Inside(u)
        BY <1>2, <2>2, <3>2 DEF Initialising, In, Inside
      <4>2. f # "sem_init"
        BY <1>1, <3>2, <4>1 DEF Quiet
      <4> QED BY <1>2, <4>1, <4>2 DEF SemInv, Apart, Initialising, In, semVars
    <3> QED BY <3>1, <3>2
  <2>3. ASSUME NEW u \in Threads, Destroying(u)'
        PROVE  (kernel = 0 /\ \A v \in Threads \ {u} : Inside(v) => v \in Waiters)'
    <3>1. u = t /\ f = "sem_destroy"
      BY <1>2, <1>6, <2>3 DEF Destroying, In
    <3>2. ASSUME NEW v \in Threads, pc[v] = "blocked" PROVE v \in Waiters
      BY <3>2 DEF SemInv, SemTypes
    <3> QED BY <1>1, <1>2, <1>3, <3>1, <3>2 DEF Inside, semVars
  <2> QED BY <2>1, <2>2, <2>3 DEF Apart
<1> QED BY <1>4, <1>5, <1>7 DEF SemInv

LEMMA SemInvStep == SemInv /\ [SemStep]_<<callVars, semVars>> => SemInv'
<1> SUFFICES ASSUME SemInv, [SemStep]_<<callVars, semVars>> PROVE SemInv'
  OBVIOUS
<1>1. ASSUME NEW t \in Threads, PostApart(t), SemNext(t) PROVE SemInv'
  <2>1. CASE sem_wait(t) \/ sem_timedwait(t) \/ ptw32_semwait(t)
    BY <2>1, WaitStep, WaitCleanupStep, TimedwaitCleanupStep
       DEF sem_wait, sem_timedwait, ptw32_semwait, SemWaits
  <2>2. CASE sem_post(t)
    <3>1. ~Dying
      BY <1>1, <2>2 DEF sem_post, In, PostApart, Dying
    <3> QED BY <2>2, <3>1, UpStep DEF sem_post, In
  <2>3. CASE sem_post_multiple(t)
    <3>1. ~Dying /\ pc[t] = "enter"
      BY <1>1, <2>3 DEF sem_post_multiple, In, PostApart, Dying
    <3>2. PICK count \in PostCounts :
            IF count <= 0 THEN Return(t, "EINVAL") /\ UNCHANGED semVars ELSE SemUp(t, count)
      BY <2>3 DEF sem_post_multiple
    <3>3. count \in Int
      BY SemAssumption
    <3>4. CASE count <= 0
      BY <3>1, <3>2, <3>4, Leaves
    <3>5. CASE ~(count <= 0)
      BY <3>1, <3>2, <3>3, <3>5, UpStep
    <3> QED BY <3>4, <3>5
  <2>4. CASE sem_getvalue(t)
    BY <2>4, Leaves DEF sem_getvalue, In
  <2> QED BY <1>1, <2>1, <2>2, <2>3, <2>4, InitStep, DestroyStep, TryStep DEF SemNext
<1>2. ASSUME NEW t \in Threads, Cancel(t), UNCHANGED semVars PROVE SemInv'
  BY <1>2 DEF Cancel, semVars, SemInv, SemTypes, SemBalance, NoTokenForTheDying, Dying, Apart,
     Initialising, Destroying, Inside, In, Waiters
<1>3. CASE UNCHANGED <<callVars, semVars>>
  BY <1>3 DEF callVars, semVars, SemInv, SemTypes, SemBalance, NoTokenForTheDying, Dying, Apart,
     Initialising, Destroying, Inside, In, Waiters
<1> QED BY <1>1, <1>2, <1>3, SemCallStep DEF SemStep

\* No post of a semaphore is lost or counted twice, whichever waits time out
\* or are cancelled, provided that none comes before the cleanup handler of a
\* cancelled sem_wait.
THEOREM SemaphoresBalance == SemSpec => []SemBalance
<1>1. SemInv => SemBalance
  BY DEF SemInv
<1> QED BY <1>1, SemInvInit, SemInvStep, PTL DEF SemSpec

-----------------------------------------------------------------------------
(* Spin locks *)

\* A program that uses one spin lock.
SpinStep ==
  \E t \in Threads :
    SpinNext(t) \/ ((SpinCalls(t) \/ SpinUnlockCall(t)) /\ UNCHANGED spinVars)

SpinSpec == CallsInit({"spin"}) /\ SpinInit /\ [][SpinStep]_<<callVars, spinVars>>

SpinTypes ==
  /\ pc = [t \in Threads |-> pc[t]] /\ op = [t \in Threads |-> op[t]]
  /\ holds \in [Threads -> {0, 1}]
  /\ inner \in Threads \cup {NoThread}

\* The word or the mutex tells who holds the lock, and a lock that is not
\* initialised is held by nobody.
SpinHeld ==
  /\ \A t \in Threads : holds[t] = 1 => spin = "locked" \/ (spin = "mutex" /\ inner = t)
  /\ \A t, u \in Threads : holds[t] = 1 /\ holds[u] = 1 => t = u
  /\ inner # NoThread => spin = "mutex" /\ holds[inner] = 1

\* Who unlocks holds the lock, or nobody uses it yet.
SpinUnlocks ==
  \A t \in Threads : In(t, "spin_unlock", "enter") /\ holds[t] = 0 => spin = "static" /\ Quiet(t)

SpinInv == SpinTypes /\ SpinHeld /\ SpinUnlocks

LEMMA SpinInvInit == CallsInit({"spin"}) /\ SpinInit => SpinInv
<1> SUFFICES ASSUME CallsInit({"spin"}), SpinInit PROVE SpinInv
  OBVIOUS
<1>1. \A t \in Threads : pc[t] = "idle" /\ op[t] = "none" /\ holds[t] = 0
  BY DEF CallsInit
<1>2. inner = NoThread
  BY DEF SpinInit
<1>3. SpinTypes
  BY <1>2 DEF SpinTypes, CallsInit
<1> QED BY <1>1, <1>2, <1>3 DEF SpinInv, SpinHeld, SpinUnlocks, In

\* A step of the library in which thread t gains h, 0, 1 or -1, and goes to l.
SpinGoes(t, l, h) ==
  /\ l # "enter"
  /\ pc' = [pc EXCEPT ![t] = l] /\ op' = [op EXCEPT ![t] = op'[t]]
  /\ holds' = [holds EXCEPT ![t] = @ + h]

LEMMA SpinCallMoves ==
  ASSUME SpinInv, NEW t \in Threads
  PROVE  /\ \A r : Return(t, r) => SpinGoes(t, "idle", 0)
         /\ \A r, h : ReturnHolding(t, r, h) => SpinGoes(t, "idle", h)
         /\ \A l : Goto(t, l) /\ l # "enter" => SpinGoes(t, l, 0)
BY DEF SpinInv, SpinTypes, Return, ReturnHolding, Goto, SpinGoes

LEMMA SpinUnlocksKept ==
  ASSUME SpinInv, NEW t \in Threads, Inside(t), NEW l, NEW h, SpinGoes(t, l, h)
  PROVE  SpinUnlocks'
<1> SUFFICES ASSUME NEW u \in Threads, In(u, "spin_unlock", "enter")', holds'[u] = 0
             PROVE  FALSE
  BY DEF SpinUnlocks
<1>1. u # t /\ In(u, "spin_unlock", "enter") /\ holds[u] = 0
  BY DEF SpinGoes, SpinInv, SpinTypes, In
<1> QED BY <1>1 DEF SpinInv, SpinUnlocks, Quiet

\* Nobody gets the lock, and nobody lets it go.
LEMMA SpinStays ==
  ASSUME SpinInv, NEW t \in Threads, Inside(t), NEW l, SpinGoes(t, l, 0),
         UNCHANGED inner, spin' = spin \/ ~\E u \in Threads : holds[u] = 1
  PROVE  SpinInv'
<1>1. holds' = holds
  BY DEF SpinGoes, SpinInv, SpinTypes
<1>2. SpinTypes'
  BY <1>1 DEF SpinGoes, SpinInv, SpinTypes
<1>3. SpinHeld'
  BY <1>1 DEF SpinInv, SpinHeld, SpinTypes
<1> QED BY <1>2, <1>3, SpinUnlocksKept DEF SpinInv

LEMMA SpinTaken ==
  ASSUME SpinInv, NEW t \in Threads, Inside(t), SpinGoes(t, "idle", 1),
         \/ spin = "unlocked" /\ spin' = "locked" /\ UNCHANGED inner
         \/ spin = "mutex" /\ inner = NoThread /\ inner' = t /\ UNCHANGED spin
  PROVE  SpinInv'
<1>1. \A u \in Threads : holds[u] = 0
  BY CallsAssumption DEF SpinInv, SpinHeld, SpinTypes
<1>2. \A u \in Threads : holds'[u] = IF u = t THEN 1 ELSE 0
  BY <1>1 DEF SpinGoes, SpinInv, SpinTypes
<1>3. SpinTypes'
  BY <1>2 DEF SpinGoes, SpinInv, SpinTypes
<1>4. SpinHeld'
  BY <1>2, CallsAssumption DEF SpinInv, SpinHeld, SpinTypes
<1> QED BY <1>3, <1>4, SpinUnlocksKept DEF SpinInv

LEMMA SpinGiven ==
  ASSUME SpinInv, NEW t \in Threads, Inside(t), holds[t] = 1, SpinGoes(t, "idle", -1),
         \/ spin = "locked" /\ spin' = "unlocked" /\ UNCHANGED inner
         \/ spin = "mutex" /\ inner' = NoThread /\ UNCHANGED spin
  PROVE  SpinInv'
<1>1. \A u \in Threads : holds'[u] = 0
  BY DEF SpinInv, SpinHeld, SpinTypes, SpinGoes
<1>2. inner' = NoThread
  BY CallsAssumption DEF SpinInv, SpinHeld
<1>3. SpinTypes'
  BY <1>1, <1>2 DEF SpinGoes, SpinInv, SpinTypes
<1>4. SpinHeld'
  BY <1>1, <1>2 DEF SpinHeld
<1> QED BY <1>3, <1>4, SpinUnlocksKept DEF SpinInv

LEMMA SpinLibraryStep == ASSUME SpinInv, NEW t \in Threads, SpinNext(t) PROVE SpinInv'
<1>1. Inside(t)
  BY DEF SpinNext, Inside, In, pthread_spin_init, SpinEnter, ptw32_spinlock_check_need_init,
         pthread_spin_lock, pthread_spin_trylock, pthread_spin_unlock, pthread_spin_destroy
<1>2. spin \notin {"locked", "mutex"} \/ (spin = "mutex" /\ inner = NoThread) =>
        ~\E u \in Threads : holds[u] = 1
  BY CallsAssumption DEF SpinInv, SpinHeld
<1>3. CASE pthread_spin_init(t) \/ SpinEnter(t) \/ ptw32_spinlock_check_need_init(t) \/ pthread_spin_destroy(t)
  <2>1. \E l : SpinGoes(t, l, 0)
    BY <1>3, SpinCallMoves DEF pthread_spin_init, SpinEnter, ptw32_spinlock_check_need_init, pthread_spin_destroy
  <2>2. UNCHANGED inner /\ (spin' = spin \/ ~\E u \in Threads : holds[u] = 1)
    <3>1. UNCHANGED inner
      BY <1>3 DEF pthread_spin_init, SpinEnter, ptw32_spinlock_check_need_init, pthread_spin_destroy, spinVars
    <3>2. \/ spin' = spin \/ spin \in {"null", "static"}
          \/ spin \in {"unlocked", "mutex"} /\ inner = NoThread
      <4>1. CASE pthread_spin_init(t) \/ SpinEnter(t)
        BY <4>1 DEF pthread_spin_init, SpinEnter, spinVars
      <4>2. CASE ptw32_spinlock_check_need_init(t)
        BY <4>2 DEF ptw32_spinlock_check_need_init
      <4>3. CASE pthread_spin_destroy(t)
        BY <4>3 DEF pthread_spin_destroy
      <4> QED BY <1>3, <4>1, <4>2, <4>3
    <3> QED BY <1>2, <3>1, <3>2
  <2> QED BY <1>1, <2>1, <2>2, SpinStays
<1>4. CASE pthread_spin_lock(t) \/ pthread_spin_trylock(t)
  <2>1. CASE /\ ReturnHolding(t, "0", 1)
             /\ \/ spin = "unlocked" /\ spin' = "locked" /\ UNCHANGED inner
                \/ spin = "mutex" /\ inner = NoThread /\ inner' = t /\ UNCHANGED spin
    BY <1>1, <2>1, SpinTaken, SpinCallMoves
  <2>2. CASE Return(t, "EBUSY") /\ UNCHANGED <<spin, inner>>
    BY <1>1, <2>2, SpinStays, SpinCallMoves
  <2> QED BY <1>4, <2>1, <2>2 DEF pthread_spin_lock, pthread_spin_trylock
<1>5. CASE pthread_spin_unlock(t)
  <2>1. holds[t] = 1 \/ spin = "static"
    BY <1>5 DEF pthread_spin_unlock, SpinInv, SpinTypes, SpinUnlocks
  <2>2. CASE spin = "static"
    <3>1. (\E r : Return(t, r)) /\ UNCHANGED <<spin, inner>>
      BY <1>5, <2>2 DEF pthread_spin_unlock
    <3> QED BY <1>1, <3>1, SpinStays, SpinCallMoves
  <2>3. CASE holds[t] = 1 /\ spin # "static"
    <3>1. spin \in {"locked", "mutex"}
      BY <2>3 DEF SpinInv, SpinHeld
    <3>2. ReturnHolding(t, "0", -1)
      BY <1>5, <2>3 DEF pthread_spin_unlock
    <3> QED BY <1>1, <1>5, <2>3, <3>1, <3>2, SpinGiven, SpinCallMoves DEF pthread_spin_unlock
  <2> QED BY <2>1, <2>2, <2>3
<1> QED BY <1>3, <1>4, <1>5 DEF SpinNext

LEMMA SpinCallStep ==
  ASSUME SpinInv, NEW t \in Threads, SpinCalls(t) \/ SpinUnlockCall(t), UNCHANGED spinVars
  PROVE  SpinInv'
<1>1. PICK f : /\ pc[t] = "idle" /\ pc' = [pc EXCEPT ![t] = "enter"] /\ op' = [op EXCEPT ![t] = f]
               /\ holds' = holds
               /\ f = "spin_unlock" /\ holds[t] = 0 => spin = "static" /\ Quiet(t)
               /\ Open(t) \/ (f = "spin_unlock" /\ holds[t] > 0)
  BY DEF SpinCalls, SpinUnlockCall, Call, Again, Idle
<1>2. SpinTypes' /\ SpinHeld'
  BY <1>1 DEF SpinInv, SpinTypes, SpinHeld, spinVars
<1>3. SpinUnlocks'
  <2> SUFFICES ASSUME NEW u \in Threads, In(u, "spin_unlock", "enter")', holds'[u] = 0
               PROVE  (spin = "static" /\ Quiet(u))'
    BY DEF SpinUnlocks
  <2>1. CASE u = t
    <3>1. f = "spin_unlock" /\ holds[t] = 0
      BY <1>1, <2>1 DEF SpinInv, SpinTypes, In
    <3> QED BY <1>1, <2>1, <3>1 DEF SpinInv, SpinTypes, Quiet, Inside, spinVars
  <2>2. CASE u # t
    <3>1. In(u, "spin_unlock", "enter") /\ holds[u] = 0
      BY <1>1, <2>2 DEF SpinInv, SpinTypes, In
    <3>2. ~Open(t) /\ spin = "static"
      BY <2>2, <3>1 DEF Open, In, Undisturbed, SpinInv, SpinUnlocks
    <3> QED BY <1>1, <3>2 DEF SpinInv, SpinHeld, SpinTypes
  <2> QED BY <2>1, <2>2
<1> QED BY <1>2, <1>3 DEF SpinInv

LEMMA SpinInvStep == SpinInv /\ [SpinStep]_<<callVars, spinVars>> => SpinInv'
<1> SUFFICES ASSUME SpinInv, [SpinStep]_<<callVars, spinVars>> PROVE SpinInv'
  OBVIOUS
<1>1. CASE UNCHANGED <<callVars, spinVars>>
  BY <1>1 DEF callVars, spinVars, SpinInv, SpinTypes, SpinHeld, SpinUnlocks, In, Quiet, Inside
<1> QED BY <1>1, SpinLibraryStep, SpinCallStep DEF SpinStep

\* No two threads hold a spin lock at once, also when several of them find the
\* static initialiser, on one processor or on more.
THEOREM SpinLocksExclude == SpinSpec => []OneHolder
<1>1. SpinInv => OneHolder
  BY DEF SpinInv, SpinTypes, SpinHeld, OneHolder
<1> QED BY <1>1, SpinInvInit, SpinInvStep, PTL DEF SpinSpec

-----------------------------------------------------------------------------
(* MCS locks: the queue *)

Queued == {"linking", "telling", "ready"}
Holding == {"held", "swap", "next", "pass", "moving"}
Unset == {"zero", "event"}
Raised == {"set", "signalled"}

McsTypes ==
  /\ tail \in Nodes \cup {NoNode}
  /\ next \in [Nodes -> Nodes \cup {NoNode}] /\ pred \in [Nodes -> Nodes \cup {NoNode}]
  /\ at \in [Nodes -> {"out"} \cup Queued \cup Holding]
  /\ flag \in [Nodes -> [next : Unset \cup Raised, ready : Unset \cup Raised]]
  /\ order \in Seq(Nodes)

\* Who is in the queue, each once, and the lock points to the last.
InLine ==
  /\ \A i, j \in 1..Len(order) : order[i] = order[j] => i = j
  /\ \A n \in Nodes : at[n] # "out" <=> \E i \in 1..Len(order) : order[i] = n
  /\ tail = IF Len(order) = 0 THEN NoNode ELSE order[Len(order)]

\* Node n waits behind node p: it links itself to p and then tells it, and its
\* own flag is not set yet.
Follows(n, p) ==
  /\ at[n] \in Queued /\ pred[n] = p /\ flag[n].ready \in Unset
  /\ next[p] = IF at[n] = "linking" THEN NoNode ELSE n
  /\ flag[p].next \in Unset <=> at[n] # "ready"

\* The node before n moved the lock into the barrier: Proxy knows n, but n knows
\* the node that is gone, and tells that one.
TakenOver(n, p) ==
  /\ p = Proxy /\ at[p] \in {"held", "pass"} /\ next[p] = n
  /\ at[n] \in {"telling", "ready"} /\ flag[n].ready \in Unset
  /\ pred[n] \in Nodes /\ at[pred[n]] = "out"

\* The first node holds the lock, or its flag is set and it will find so; the
\* node before it is gone.
AtHead(n) ==
  /\ at[n] # "linking"
  /\ at[n] \in Queued =>
       flag[n].ready \in Raised /\ pred[n] \in Nodes /\ at[pred[n]] = "out"
  /\ at[n] = "next" => Len(order) > 1
  /\ at[n] = "pass" => next[n] # NoNode
  /\ at[n] = "moving" => n # Proxy /\ at[Proxy] = "out"

Queue ==
  /\ \A i \in 2..Len(order) :
       Follows(order[i], order[i - 1]) \/ (i = 2 /\ TakenOver(order[2], order[1]))
  /\ Len(order) > 0 => AtHead(order[1])
  /\ Len(order) > 0 => next[order[Len(order)]] = NoNode /\ flag[order[Len(order)]].next = "zero"

QueueInv == McsTypes /\ InLine /\ Queue

LEMMA NoNodeIsNone == NoNode \notin Nodes
BY McsAssumption DEF NoNode, Nodes

\* Only the first node can hold the lock, and no step leaves that out.
LEMMA HolderIsFirst ==
  ASSUME QueueInv, NEW n \in Nodes, at[n] \in Holding
  PROVE  /\ Len(order) \in Nat \ {0} /\ order[1] = n
         /\ {m \in Nodes : at[m] \in Holding} = {n}
<1>1. Len(order) \in Nat
  BY DEF QueueInv, McsTypes
<1>2. \A m \in Nodes : at[m] \in Holding => Len(order) > 0 /\ order[1] = m
  <2> TAKE m \in Nodes
  <2> HAVE at[m] \in Holding
  <2>1. PICK i \in 1..Len(order) : order[i] = m
    BY DEF QueueInv, InLine, Holding
  <2>2. i \notin 2..Len(order)
    BY <2>1 DEF QueueInv, Queue, Follows, TakenOver, Queued, Holding
  <2> QED BY <1>1, <2>1, <2>2
<1> QED BY <1>1, <1>2

LEMMA NoHolderYet ==
  ASSUME QueueInv, NEW n \in Nodes, at[n] \in Queued, flag[n].ready \in Raised
  PROVE  /\ Len(order) \in Nat \ {0} /\ order[1] = n
         /\ {m \in Nodes : at[m] \in Holding} = {}
<1>1. PICK i \in 1..Len(order) : order[i] = n
  BY DEF QueueInv, InLine, Queued
<1>2. i \notin 2..Len(order)
  BY <1>1 DEF QueueInv, Queue, Follows, TakenOver, Unset, Raised
<1>3. Len(order) \in Nat \ {0} /\ order[1] = n
  BY <1>1, <1>2 DEF QueueInv, McsTypes
<1>4. \A m \in Nodes : at[m] \notin Holding
  BY <1>3, HolderIsFirst DEF Queued, Holding
<1> QED BY <1>3, <1>4

\* A node that waits with its flag not set is behind another one.
LEMMA WaiterIsBehind ==
  ASSUME QueueInv, NEW n \in Nodes, at[n] = "linking" \/ (at[n] \in Queued /\ flag[n].ready \in Unset)
  PROVE  \E i \in 2..Len(order) : order[i] = n
<1>1. PICK i \in 1..Len(order) : order[i] = n
  BY DEF QueueInv, InLine, Queued
<1>2. i # 1
  BY <1>1 DEF QueueInv, Queue, AtHead, Unset, Raised
<1> QED BY <1>1, <1>2 DEF QueueInv, McsTypes

Fifo == [Lock!Next]_(Lock!vars)

LEMMA JoinStep ==
  ASSUME QueueInv, NEW n \in Nodes \ {Proxy}, \A m \in Nodes : pred[m] # n, ptw32_mcs_lock_acquire(n)
  PROVE  QueueInv' /\ Fifo
<1> DEFINE L == Len(order)
           l == IF tail = NoNode THEN "held" ELSE "linking"
<1>1. L \in Nat /\ order \in Seq(Nodes)
  BY DEF QueueInv, McsTypes
<1>2. /\ order' = Append(order, n) /\ Len(order') = L + 1 /\ order'[L + 1] = n
      /\ \A i \in 1..L : order'[i] = order[i]
  BY <1>1 DEF ptw32_mcs_lock_acquire
<1>3. at' = [at EXCEPT ![n] = l] /\ at[n] = "out" /\ tail' = n
  BY DEF ptw32_mcs_lock_acquire
<1>4. /\ next' = [next EXCEPT ![n] = NoNode] /\ pred' = [pred EXCEPT ![n] = tail]
      /\ flag' = [flag EXCEPT ![n] = [next |-> "zero", ready |-> "zero"]]
  BY DEF ptw32_mcs_lock_acquire
<1>5. \A i \in 1..L : order[i] # n /\ order[i] \in Nodes
  BY <1>1, <1>3 DEF QueueInv, InLine
<1>6. L = 0 <=> tail = NoNode
  BY <1>1, NoNodeIsNone DEF QueueInv, InLine
<1>7. McsTypes'
  BY <1>1, <1>2, <1>3, <1>4 DEF QueueInv, McsTypes, Queued, Holding, Unset
<1>8. InLine'
  <2>1. \A i, j \in 1..(L + 1) : order'[i] = order'[j] => i = j
    <3> TAKE i, j \in 1..(L + 1)
    <3>1. i \in 1..L \/ i = L + 1
      BY <1>1
    <3>2. j \in 1..L \/ j = L + 1
      BY <1>1
    <3> QED BY <1>1, <1>2, <1>5, <3>1, <3>2 DEF QueueInv, InLine
  <2>2. \A m \in Nodes : at'[m] # "out" <=> \E i \in 1..(L + 1) : order'[i] = m
    <3> TAKE m \in Nodes
    <3>1. CASE m = n
      <4>1. L + 1 \in 1..(L + 1)
        BY <1>1
      <4> QED BY <1>2, <1>3, <3>1, <4>1 DEF QueueInv, McsTypes
    <3>2. CASE m # n
      <4>1. at'[m] = at[m]
        BY <1>3, <3>2 DEF QueueInv, McsTypes
      <4>2. (\E i \in 1..(L + 1) : order'[i] = m) <=> \E i \in 1..L : order[i] = m
        BY <1>1, <1>2, <3>2
      <4> QED BY <4>1, <4>2 DEF QueueInv, InLine
    <3> QED BY <3>1, <3>2
  <2> QED BY <1>1, <1>2, <1>3, <2>1, <2>2 DEF InLine
<1>9. \A m \in Nodes \ {n} :
        at'[m] = at[m] /\ next'[m] = next[m] /\ pred'[m] = pred[m] /\ flag'[m] = flag[m]
  BY <1>3, <1>4 DEF QueueInv, McsTypes
<1>10. /\ at'[n] = l /\ next'[n] = NoNode /\ pred'[n] = tail
       /\ flag'[n].next = "zero" /\ flag'[n].ready = "zero"
  BY <1>3, <1>4 DEF QueueInv, McsTypes
<1>11. Queue'
  <2>1. ASSUME NEW i \in 2..(L + 1)
        PROVE  Follows(order[i], order[i - 1])' \/ (i = 2 /\ TakenOver(order[2], order[1])')
    <3>1. CASE i \in 2..L
      <4>1. /\ i - 1 \in 1..L /\ i \in 1..L
            /\ order'[i] = order[i] /\ order'[i - 1] = order[i - 1]
        BY <1>1, <1>2, <3>1
      <4>2. Follows(order[i], order[i - 1]) \/ (i = 2 /\ TakenOver(order[2], order[1]))
        BY <3>1 DEF QueueInv, Queue
      <4>3. order[i] \in Nodes \ {n} /\ order[i - 1] \in Nodes \ {n}
        BY <1>5, <4>1
      <4>4. pred[order[i]] # n
        BY <4>3
      <4>5. CASE Follows(order[i], order[i - 1])
        BY <1>9, <4>1, <4>3, <4>5 DEF Follows
      <4>6. CASE i = 2 /\ TakenOver(order[2], order[1])
        BY <1>9, <4>1, <4>3, <4>4, <4>6 DEF TakenOver
      <4> QED BY <4>2, <4>5, <4>6
    <3>2. CASE i = L + 1
      <4>1. L > 0 /\ order'[i] = n /\ order'[i - 1] = order[L] /\ order[L] \in Nodes \ {n}
        BY <1>1, <1>2, <1>5, <3>2
      <4>2. tail = order[L] /\ l = "linking"
        BY <1>6, <4>1 DEF QueueInv, InLine
      <4>3. next[order[L]] = NoNode /\ flag[order[L]].next = "zero"
        BY <4>1 DEF QueueInv, Queue
      <4> QED BY <1>9, <1>10, <4>1, <4>2, <4>3 DEF Follows, Queued, Unset
    <3> QED BY <1>1, <3>1, <3>2
  <2>2. AtHead(order[1])'
    <3>1. CASE L = 0
      BY <1>2, <1>6, <1>10, <3>1 DEF AtHead, Queued
    <3>2. CASE L > 0
      <4>1. order'[1] = order[1] /\ order[1] \in Nodes \ {n} /\ AtHead(order[1])
        BY <1>1, <1>2, <1>5, <3>2 DEF QueueInv, Queue
      <4>2. pred[order[1]] # n
        BY <4>1
      <4>3. Proxy \in Nodes \ {n}
        BY DEF Nodes
      <4> QED BY <1>1, <1>2, <1>9, <4>1, <4>2, <4>3 DEF AtHead
    <3> QED BY <1>1, <3>1, <3>2
  <2> QED BY <1>1, <1>2, <1>10, <2>1, <2>2 DEF Queue
<1>12. Lock!Join(n)
  <2> DEFINE H == {m \in Nodes : at[m] \in {"held", "swap", "next", "pass", "moving"}}
             G == {m \in Nodes : at'[m] \in {"held", "swap", "next", "pass", "moving"}}
  <2>1. \A i \in DOMAIN order : order[i] # n
    BY <1>1, <1>5
  <2>2. G = IF order = <<>> THEN {n} ELSE H
    <3>1. CASE order = <<>>
      <4>1. L = 0 /\ l = "held"
        BY <1>6, <3>1
      <4>2. \A m \in Nodes \ {n} : at'[m] = "out"
        BY <1>1, <1>9, <4>1 DEF QueueInv, InLine
      <4> QED BY <1>10, <3>1, <4>1, <4>2
    <3>2. CASE order # <<>>
      <4>1. L # 0 /\ l = "linking"
        BY <1>1, <1>6, <3>2
      <4> QED BY <1>3, <1>9, <1>10, <3>2, <4>1
    <3> QED BY <3>1, <3>2
  <2> QED BY <1>2, <2>1, <2>2 DEF Lock!Join
<1> QED BY <1>7, <1>8, <1>11, <1>12 DEF QueueInv, Fifo, Lock!Next

\* A step that leaves the lock alone.
LEMMA SameQueue == ASSUME QueueInv, UNCHANGED mcsVars PROVE QueueInv' /\ Fifo
<1>1. UNCHANGED <<tail, next, flag, at, pred, order>>
  BY DEF mcsVars
<1>2. McsTypes' /\ InLine'
  BY <1>1 DEF QueueInv, McsTypes, InLine
<1>3. Queue'
  BY <1>1 DEF QueueInv, Queue, Follows, TakenOver, AtHead
<1>4. Fifo
  BY <1>1 DEF Fifo, Lock!vars
<1> QED BY <1>2, <1>3, <1>4 DEF QueueInv

\* Steps within the queue.
LEMMA SameLine ==
  ASSUME QueueInv, NEW n \in Nodes, NEW l, at' = [at EXCEPT ![n] = l], at[n] # "out", l # "out",
         UNCHANGED <<tail, order>>
  PROVE  InLine'
BY DEF QueueInv, McsTypes, InLine

\* A step that does not change who holds the lock is none of FifoLock.
LEMMA SameHolder ==
  ASSUME UNCHANGED order, \A m \in Nodes : at'[m] \in Holding <=> at[m] \in Holding
  PROVE  Fifo
BY DEF Fifo, Lock!vars, Holding

LEMMA LinkStep == ASSUME QueueInv, NEW n \in Nodes, Link(n) PROVE QueueInv' /\ Fifo
<1>1. PICK k \in 2..Len(order) : order[k] = n
  BY WaiterIsBehind DEF Link
<1> DEFINE p == order[k - 1]
<1>2. Len(order) \in Nat /\ k - 1 \in 1..Len(order) /\ k \in 1..Len(order)
      /\ \A i \in 1..Len(order) : order[i] \in Nodes
  BY <1>1 DEF QueueInv, McsTypes
<1>3. p \in Nodes /\ Follows(n, p)
  BY <1>1, <1>2 DEF QueueInv, Queue, TakenOver, Link
<1>4. /\ pred[n] = p /\ at[n] = "linking" /\ next' = [next EXCEPT ![p] = n]
      /\ at' = [at EXCEPT ![n] = "telling"] /\ UNCHANGED <<tail, flag, pred, order>>
  BY <1>3 DEF Link, Follows
<1>5. \A i, j \in 1..Len(order) : order[i] = order[j] => i = j
  BY DEF QueueInv, InLine
<1> HIDE DEF p
<1>6. McsTypes'
  BY <1>3, <1>4 DEF QueueInv, McsTypes, Queued
<1>7. InLine'
  BY <1>4, SameLine
<1>8. \A m \in Nodes : at'[m] = (IF m = n THEN "telling" ELSE at[m]) /\ next'[m] = (IF m = p THEN n ELSE next[m])
  BY <1>3, <1>4 DEF QueueInv, McsTypes
<1>9. Queue'
  <2>1. ASSUME NEW i \in 2..Len(order)
        PROVE  Follows(order[i], order[i - 1])' \/ (i = 2 /\ TakenOver(order[2], order[1])')
    <3>1. /\ i \in 1..Len(order) /\ i - 1 \in 1..Len(order)
          /\ Follows(order[i], order[i - 1]) \/ (i = 2 /\ TakenOver(order[2], order[1]))
      BY <1>2 DEF QueueInv, Queue
    <3>2. CASE i = k
      BY <1>1, <1>2, <1>3, <1>4, <1>8, <3>2, NoNodeIsNone DEF Follows, Queued, p
    <3>3. CASE i # k
      <4>1. order[i] # n /\ order[i - 1] # p
        BY <1>1, <1>2, <1>5, <3>1, <3>3 DEF p
      <4>2. CASE Follows(order[i], order[i - 1])
        BY <1>2, <1>4, <1>8, <3>1, <4>1, <4>2 DEF Follows
      <4>3. CASE i = 2 /\ TakenOver(order[2], order[1])
        BY <1>2, <1>4, <1>8, <3>1, <4>1, <4>3 DEF TakenOver
      <4> QED BY <3>1, <4>2, <4>3
    <3> QED BY <3>2, <3>3
  <2>2. AtHead(order[1])'
    <3>1. 1 \in 1..Len(order) /\ order[1] # n /\ AtHead(order[1])
      BY <1>1, <1>2, <1>5 DEF QueueInv, Queue
    <3>2. n # NoNode
      BY NoNodeIsNone
    <3>3. at[pred[order[1]]] = "out" => pred[order[1]] # n
      BY <1>4
    <3>4. Proxy \in Nodes
      BY DEF Nodes
    <3> QED BY <1>2, <1>4, <1>8, <3>1, <3>2, <3>3, <3>4 DEF AtHead
  <2>3. order[Len(order)] # p
    BY <1>1, <1>2, <1>5 DEF p
  <2> QED BY <1>1, <1>2, <1>4, <1>8, <2>1, <2>2, <2>3 DEF QueueInv, Queue
<1>10. Fifo
  BY <1>4, <1>8, SameHolder DEF Holding
<1> QED BY <1>6, <1>7, <1>9, <1>10 DEF QueueInv

LEMMA TellStep == ASSUME QueueInv, NEW n \in Nodes, Tell(n) PROVE QueueInv' /\ Fifo
<1> DEFINE p == pred[n]
<1>1. PICK k \in 1..Len(order) : order[k] = n
  BY DEF Tell, QueueInv, InLine
<1>2. Len(order) \in Nat /\ \A i \in 1..Len(order) : order[i] \in Nodes
  BY DEF QueueInv, McsTypes
<1>3. /\ at[n] = "telling" /\ at' = [at EXCEPT ![n] = "ready"]
      /\ flag' = [flag EXCEPT ![p].next = FlagSet(@)]
      /\ UNCHANGED <<tail, next, pred, order>>
  BY DEF Tell
<1>4. \A i, j \in 1..Len(order) : order[i] = order[j] => i = j
  BY DEF QueueInv, InLine
<1>5. /\ p \in Nodes
      /\ \/ k \in 2..Len(order) /\ k - 1 \in 1..Len(order) /\ order[k - 1] = p
         \/ at[p] = "out" /\ (k = 1 \/ (k = 2 /\ TakenOver(order[2], order[1])))
  <2>1. CASE k = 1
    BY <1>1, <1>3, <2>1 DEF QueueInv, Queue, AtHead, Queued
  <2>2. CASE k # 1
    <3>1. k \in 2..Len(order) /\ k - 1 \in 1..Len(order)
      BY <1>1, <1>2, <2>2
    <3>2. CASE Follows(n, order[k - 1])
      BY <1>2, <2>2, <3>1, <3>2 DEF Follows
    <3>3. CASE k = 2 /\ TakenOver(n, order[1])
      BY <1>1, <3>3 DEF TakenOver
    <3> QED BY <1>1, <3>1, <3>2, <3>3 DEF QueueInv, Queue
  <2> QED BY <2>1, <2>2
<1> HIDE DEF p
<1>6. FlagSet(flag[p].next) \in Raised
  BY <1>5 DEF QueueInv, McsTypes, FlagSet, Unset, Raised
<1>7. \A m \in Nodes :
        /\ at'[m] = (IF m = n THEN "ready" ELSE at[m])
        /\ flag'[m].ready = flag[m].ready
        /\ flag'[m].next = (IF m = p THEN FlagSet(flag[p].next) ELSE flag[m].next)
  BY <1>3, <1>5 DEF QueueInv, McsTypes
<1>8. McsTypes'
  BY <1>3, <1>5, <1>6 DEF QueueInv, McsTypes, Queued
<1>9. InLine'
  BY <1>3, SameLine
<1>10. Queue'
  <2>0. at[p] = "out" => \A i \in 1..Len(order) : order[i] # p
    BY <1>2 DEF QueueInv, InLine
  <2>1. ASSUME NEW i \in 2..Len(order)
        PROVE  Follows(order[i], order[i - 1])' \/ (i = 2 /\ TakenOver(order[2], order[1])')
    <3>1. /\ i \in 1..Len(order) /\ i - 1 \in 1..Len(order)
          /\ Follows(order[i], order[i - 1]) \/ (i = 2 /\ TakenOver(order[2], order[1]))
          /\ order[i] \in Nodes /\ order[i - 1] \in Nodes
      BY <1>2 DEF QueueInv, Queue
    <3>2. CASE i = 2 /\ TakenOver(order[2], order[1])
      <4>1. order[1] # n
        BY <1>3, <3>2 DEF TakenOver
      <4> QED BY <1>3, <1>7, <3>1, <3>2, <4>1 DEF TakenOver
    <3>3. CASE Follows(order[i], order[i - 1]) /\ i = k
      <4>1. order[i] = n /\ order[i - 1] = p
        BY <1>1, <3>3 DEF Follows, p
      <4> QED BY <1>3, <1>6, <1>7, <3>1, <3>3, <4>1 DEF Follows, Queued, Unset, Raised
    <3>4. CASE Follows(order[i], order[i - 1]) /\ i # k
      <4>1. order[i] # n
        BY <1>1, <3>1, <3>4, <1>4
      <4>2. order[i - 1] # p
        BY <1>2, <1>4, <1>5, <2>0, <3>1, <3>4
      <4> QED BY <1>3, <1>7, <3>1, <3>4, <4>1, <4>2 DEF Follows
    <3> QED BY <3>1, <3>2, <3>3, <3>4
  <2>2. Len(order) > 0 => AtHead(order[1])'
    <3> HAVE Len(order) > 0
    <3>1. order[1] \in Nodes /\ AtHead(order[1])
      BY <1>2 DEF QueueInv, Queue
    <3>2. Proxy \in Nodes
      BY DEF Nodes
    <3> QED BY <1>3, <1>7, <3>1, <3>2 DEF AtHead, Queued
  <2>3. Len(order) > 0 => order[Len(order)] # p
    BY <1>2, <1>4, <1>5, <2>0
  <2> QED BY <1>2, <1>3, <1>7, <2>1, <2>2, <2>3 DEF QueueInv, Queue
<1>11. Fifo
  BY <1>3, <1>7, SameHolder DEF Holding
<1> QED BY <1>8, <1>9, <1>10, <1>11 DEF QueueInv

Flags == [next : Unset \cup Raised, ready : Unset \cup Raised]

\* The holder goes on and keeps the lock; it may put an event into its flag, or
\* write to nodes that are not in the queue.
LEMMA HolderStep ==
  ASSUME QueueInv, NEW n \in Nodes, at[n] \in Holding, NEW l \in Holding,
         at' = [at EXCEPT ![n] = l], UNCHANGED <<tail, pred, order>>,
         flag' \in [Nodes -> Flags], next' \in [Nodes -> Nodes \cup {NoNode}],
         \A m \in Nodes \ {n} : at[m] # "out" => flag'[m] = flag[m],
         \A m \in Nodes : at[m] # "out" => next'[m] = next[m],
         flag'[n].next \in Unset <=> flag[n].next \in Unset,
         flag'[n] = flag[n] \/ Len(order) > 1,
         l = "next" => Len(order) > 1, l = "pass" => next[n] # NoNode,
         l = "moving" => n # Proxy /\ at[Proxy] = "out",
         Len(order) > 1 /\ TakenOver(order[2], n) => l \in {"held", "pass"}
  PROVE  QueueInv' /\ Fifo
<1>1. /\ Len(order) \in Nat \ {0} /\ order[1] = n
      /\ \A i \in 1..Len(order) : order[i] \in Nodes /\ at[order[i]] # "out"
  <2>1. Len(order) \in Nat \ {0} /\ order[1] = n
    BY HolderIsFirst
  <2>2. \A i \in 1..Len(order) : order[i] \in Nodes
    BY DEF QueueInv, McsTypes
  <2> QED BY <2>1, <2>2 DEF QueueInv, InLine
<1>2. \A m \in Nodes : at'[m] = (IF m = n THEN l ELSE at[m])
  BY DEF QueueInv, McsTypes
<1>3. McsTypes'
  BY DEF QueueInv, McsTypes, Flags
<1>4. InLine'
  BY SameLine DEF Holding
<1>5. \A i \in 2..Len(order) : i \in 1..Len(order) /\ order[i] # n
  BY <1>1 DEF QueueInv, InLine
<1>6. ASSUME NEW i \in 2..Len(order)
      PROVE  Follows(order[i], order[i - 1])' \/ (i = 2 /\ TakenOver(order[2], order[1])')
  <2>1. /\ i \in 1..Len(order) /\ i - 1 \in 1..Len(order) /\ order[i] # n
        /\ order[i] \in Nodes /\ order[i - 1] \in Nodes
        /\ Follows(order[i], order[i - 1]) \/ (i = 2 /\ TakenOver(order[2], order[1]))
    BY <1>1, <1>5 DEF QueueInv, Queue
  <2>2. /\ flag'[order[i - 1]].next \in Unset <=> flag[order[i - 1]].next \in Unset
        /\ flag'[order[i]] = flag[order[i]] /\ next'[order[i - 1]] = next[order[i - 1]]
    BY <1>1, <2>1
  <2>3. CASE Follows(order[i], order[i - 1])
    BY <1>2, <2>1, <2>2, <2>3 DEF Follows
  <2>4. CASE i = 2 /\ TakenOver(order[2], order[1])
    <3>1. pred[order[2]] # n
      BY <2>4 DEF TakenOver, Holding
    <3> QED BY <1>1, <1>2, <2>1, <2>2, <2>4, <3>1 DEF TakenOver
  <2> QED BY <2>1, <2>3, <2>4
<1>7. AtHead(order[1])'
  <2>1. Proxy \in Nodes
    BY DEF Nodes
  <2> QED BY <1>1, <1>2, <2>1 DEF AtHead, Queued, Holding
<1>8. next'[order[Len(order)]] = NoNode /\ flag'[order[Len(order)]].next = "zero"
  <2>1. next[order[Len(order)]] = NoNode /\ flag[order[Len(order)]].next = "zero"
    BY <1>1 DEF QueueInv, Queue
  <2>2. order[Len(order)] \in Nodes /\ at[order[Len(order)]] # "out"
    BY <1>1
  <2>3. CASE Len(order) > 1
    <3>1. order[Len(order)] # n
      BY <1>1, <1>5, <2>3
    <3> QED BY <2>1, <2>2, <3>1
  <2>4. CASE flag'[n] = flag[n]
    BY <2>1, <2>2, <2>4
  <2> QED BY <2>3, <2>4
<1>9. Fifo
  BY <1>2, SameHolder
<1> QED BY <1>1, <1>3, <1>4, <1>6, <1>7, <1>8, <1>9 DEF QueueInv, Queue

\* Who holds the lock and is not the last has somebody behind it.
LEMMA SecondFollows ==
  ASSUME QueueInv, NEW n \in Nodes, at[n] \in Holding, Len(order) > 1
  PROVE  Follows(order[2], n) \/ TakenOver(order[2], n)
<1>1. Len(order) \in Nat \ {0} /\ order[1] = n /\ 2 \in 2..Len(order)
  BY HolderIsFirst
<1> QED BY <1>1 DEF QueueInv, Queue

LEMMA SecondIsNode ==
  ASSUME QueueInv, Len(order) > 1
  PROVE  order[2] \in Nodes /\ order[2] # order[1] /\ at[order[2]] # "out"
<1>1. Len(order) \in Nat /\ 2 \in 1..Len(order) /\ 1 \in 1..Len(order)
  BY DEF QueueInv, McsTypes
<1> QED BY <1>1 DEF QueueInv, McsTypes, InLine

LEMMA ReleaseStep == ASSUME QueueInv, NEW n \in Nodes, ptw32_mcs_lock_release(n) PROVE QueueInv' /\ Fifo
<1> DEFINE l == IF next[n] = NoNode THEN "swap" ELSE "pass"
<1>1. /\ at[n] = "held" /\ at' = [at EXCEPT ![n] = l]
      /\ UNCHANGED <<tail, next, flag, pred, order>>
  BY DEF ptw32_mcs_lock_release
<1>2. /\ flag' \in [Nodes -> Flags] /\ next' \in [Nodes -> Nodes \cup {NoNode}]
      /\ l \in Holding /\ at[n] \in Holding /\ l # "moving" /\ l # "next"
  BY <1>1 DEF QueueInv, McsTypes, Flags, Holding
<1>3. Len(order) > 1 /\ TakenOver(order[2], n) => l \in {"held", "pass"}
  BY SecondIsNode, NoNodeIsNone DEF TakenOver
<1>4. l = "pass" => next[n] # NoNode
  OBVIOUS
<1> HIDE DEF l
<1> QED BY <1>1, <1>2, <1>3, <1>4, HolderStep

LEMMA NextWaitStep ==
  ASSUME QueueInv, NEW n \in Nodes, FlagWait(n, "next", "pass") PROVE QueueInv' /\ Fifo
<1>1. /\ at[n] = "next" /\ at[n] \in Holding /\ UNCHANGED <<tail, next, pred, order>>
      /\ next' \in [Nodes -> Nodes \cup {NoNode}]
  BY DEF FlagWait, Holding, QueueInv, McsTypes
<1>2. Len(order) > 1 /\ ~TakenOver(order[2], n)
  <2>1. Len(order) \in Nat \ {0} /\ order[1] = n
    BY <1>1, HolderIsFirst
  <2>2. AtHead(order[1])
    BY <2>1 DEF QueueInv, Queue
  <2> QED BY <1>1, <2>1, <2>2 DEF AtHead, TakenOver
<1>3. CASE flag[n].next = "zero" /\ flag' = [flag EXCEPT ![n].next = "event"] /\ UNCHANGED at
  <2>1. /\ flag' \in [Nodes -> Flags] /\ \A m \in Nodes \ {n} : flag'[m] = flag[m]
        /\ flag'[n].next = "event"
    BY <1>3 DEF QueueInv, McsTypes, Flags, Unset
  <2>2. at' = [at EXCEPT ![n] = "next"]
    BY <1>1, <1>3 DEF QueueInv, McsTypes
  <2> QED BY <1>1, <1>2, <1>3, <2>1, <2>2, HolderStep DEF Unset, Holding
<1>4. CASE flag[n].next \notin {"zero", "event"} /\ at' = [at EXCEPT ![n] = "pass"] /\ UNCHANGED flag
  <2>1. Follows(order[2], n) /\ order[2] \in Nodes
    BY <1>1, <1>2, SecondFollows, SecondIsNode
  <2>2. next[n] # NoNode
    BY <1>4, <2>1, NoNodeIsNone DEF Follows, Unset
  <2>3. flag' \in [Nodes -> Flags]
    BY <1>4 DEF QueueInv, McsTypes, Flags
  <2> QED BY <1>1, <1>2, <1>4, <2>2, <2>3, HolderStep DEF Holding
<1> QED BY <1>3, <1>4 DEF FlagWait

\* A thread that waits for the lock stores an event, or finds that it holds it.
LEMMA ReadyStep ==
  ASSUME QueueInv, NEW n \in Nodes, FlagWait(n, "ready", "held") PROVE QueueInv' /\ Fifo
<1>1. at[n] = "ready" /\ UNCHANGED <<tail, next, pred, order>>
  BY DEF FlagWait
<1>0. Len(order) \in Nat /\ \A i \in 1..Len(order) : order[i] \in Nodes
  BY DEF QueueInv, McsTypes
<1>2. CASE flag[n].ready = "zero" /\ flag' = [flag EXCEPT ![n].ready = "event"] /\ UNCHANGED at
  <2>1. /\ \A m \in Nodes : flag'[m].next = flag[m].next /\ (m # n => flag'[m] = flag[m])
        /\ flag'[n].ready = "event"
    BY <1>2 DEF QueueInv, McsTypes
  <2>2. McsTypes'
    BY <1>1, <1>2 DEF QueueInv, McsTypes, Unset
  <2>3. InLine'
    BY <1>1, <1>2 DEF QueueInv, InLine
  <2>4. PICK k \in 2..Len(order) : order[k] = n
    <3>1. flag[n].ready \in Unset /\ at[n] \in Queued
      BY <1>1, <1>2 DEF Unset, Queued
    <3> QED BY <3>1, WaiterIsBehind
  <2>5. order[1] # n
    BY <1>0, <2>4 DEF QueueInv, InLine
  <2>6. ASSUME NEW i \in 2..Len(order)
        PROVE  Follows(order[i], order[i - 1])' \/ (i = 2 /\ TakenOver(order[2], order[1])')
    <3>1. /\ Follows(order[i], order[i - 1]) \/ (i = 2 /\ TakenOver(order[2], order[1]))
          /\ order[i] \in Nodes /\ order[i - 1] \in Nodes
      BY <1>0 DEF QueueInv, Queue
    <3>2. flag'[order[i]].ready \in Unset
      BY <2>1, <3>1 DEF Follows, TakenOver, Unset
    <3> QED BY <1>1, <1>2, <2>1, <3>1, <3>2 DEF Follows, TakenOver
  <2>7. AtHead(order[1])'
    <3>1. order[1] \in Nodes /\ AtHead(order[1])
      BY <1>0, <2>4 DEF QueueInv, Queue
    <3> QED BY <1>1, <1>2, <2>1, <2>5, <3>1 DEF AtHead
  <2>8. Queue'
    BY <1>0, <1>1, <2>1, <2>6, <2>7 DEF QueueInv, Queue
  <2>9. Fifo
    BY <1>1, <1>2, SameHolder
  <2> QED BY <2>2, <2>3, <2>8, <2>9 DEF QueueInv
<1>3. CASE flag[n].ready \notin {"zero", "event"} /\ at' = [at EXCEPT ![n] = "held"] /\ UNCHANGED flag
  <2>1. /\ Len(order) > 0 /\ order[1] = n
        /\ {m \in Nodes : at[m] \in Holding} = {}
    <3>1. flag[n].ready \in Raised
      BY <1>3 DEF QueueInv, McsTypes, Unset
    <3> QED BY <1>0, <1>1, <3>1, NoHolderYet DEF Queued
  <2>2. \A m \in Nodes : at'[m] = (IF m = n THEN "held" ELSE at[m])
    BY <1>3 DEF QueueInv, McsTypes
  <2>3. McsTypes'
    BY <1>1, <1>3 DEF QueueInv, McsTypes, Holding
  <2>4. InLine'
    BY <1>1, <1>3, SameLine
  <2>5. ASSUME NEW i \in 2..Len(order) PROVE Follows(order[i], order[i - 1])'
    <3>1. /\ Follows(order[i], order[i - 1]) /\ i \in 1..Len(order) /\ 1 \in 1..Len(order)
          /\ order[i] \in Nodes /\ order[i - 1] \in Nodes
      BY <1>0, <1>1, <2>1 DEF QueueInv, Queue, TakenOver
    <3>2. order[i] # n
      BY <1>0, <2>1, <3>1 DEF QueueInv, InLine
    <3> QED BY <1>1, <1>3, <2>2, <3>1, <3>2 DEF Follows
  <2>6. AtHead(order[1])'
    BY <1>1, <2>1, <2>2 DEF AtHead, Queued
  <2>7. Queue'
    BY <1>0, <1>1, <1>3, <2>5, <2>6 DEF QueueInv, Queue
  <2>8. Lock!Grant
    <3>1. {m \in Nodes : at'[m] \in Holding} = {Head(order)}
      BY <2>1, <2>2 DEF QueueInv, McsTypes, Holding
    <3>2. order # <<>> /\ UNCHANGED order
      BY <1>1, <2>1
    <3> QED BY <2>1, <3>1, <3>2 DEF Lock!Grant, Holding
  <2> QED BY <2>3, <2>4, <2>7, <2>8 DEF QueueInv, Fifo, Lock!Next
<1> QED BY <1>2, <1>3 DEF FlagWait

\* The first node leaves, and the one behind it, if any, has become the first:
\* what a release comes to.
LEMMA LeaveStep ==
  ASSUME QueueInv, NEW n \in Nodes, at[n] \in Holding,
         at' = [at EXCEPT ![n] = "out"], order' = Tail(order), UNCHANGED <<next, pred>>,
         flag' \in [Nodes -> Flags], \A m \in Nodes : flag'[m].next = flag[m].next,
         Len(order) > 1 => tail' = tail, ~(Len(order) > 1) => tail' = NoNode,
         Len(order) > 1 =>
           /\ at[order[2]] # "linking" /\ flag'[order[2]].ready \in Raised
           /\ \A m \in Nodes : m # order[2] => flag'[m] = flag[m]
  PROVE  QueueInv' /\ Fifo
<1> DEFINE L == Len(order)
<1>1. /\ L \in Nat \ {0} /\ order[1] = n /\ order \in Seq(Nodes)
      /\ \A i \in 1..L : order[i] \in Nodes
      /\ {m \in Nodes : at[m] \in Holding} = {n}
  BY HolderIsFirst DEF QueueInv, McsTypes
<1>2. /\ Len(order') = L - 1 /\ order' \in Seq(Nodes)
      /\ \A i \in 1..(L - 1) : order'[i] = order[i + 1] /\ i + 1 \in 1..L
  BY <1>1
<1>3. \A i, j \in 1..L : order[i] = order[j] => i = j
  BY DEF QueueInv, InLine
<1>4. \A m \in Nodes : at'[m] = IF m = n THEN "out" ELSE at[m]
  BY DEF QueueInv, McsTypes
<1>5. \A i \in 1..(L - 1) : order'[i] # n
  BY <1>1, <1>2, <1>3
<1>6. McsTypes'
  BY <1>2 DEF QueueInv, McsTypes, Flags
<1>7. InLine'
  <2>1. \A i, j \in 1..(L - 1) : order'[i] = order'[j] => i = j
    BY <1>2, <1>3
  <2>2. ASSUME NEW m \in Nodes PROVE at'[m] # "out" <=> \E i \in 1..(L - 1) : order'[i] = m
    <3>1. CASE m = n
      BY <1>4, <1>5, <3>1
    <3>2. CASE m # n
      <4>1. at[m] # "out" <=> \E i \in 1..L : order[i] = m
        BY DEF QueueInv, InLine
      <4>2. (\E i \in 1..L : order[i] = m) <=> \E i \in 1..(L - 1) : order'[i] = m
        <5>1. ASSUME NEW i \in 1..L, order[i] = m PROVE i - 1 \in 1..(L - 1) /\ order'[i - 1] = m
          <6>1. i # 1
            BY <1>1, <3>2, <5>1
          <6>2. i - 1 \in 1..(L - 1) /\ (i - 1) + 1 = i
            BY <1>1, <6>1
          <6> QED BY <1>2, <5>1, <6>2
        <5>2. ASSUME NEW i \in 1..(L - 1), order'[i] = m PROVE i + 1 \in 1..L /\ order[i + 1] = m
          BY <1>2, <5>2
        <5> QED BY <5>1, <5>2
      <4> QED BY <1>4, <3>2, <4>1, <4>2
    <3> QED BY <3>1, <3>2
  <2>3. tail' = IF L - 1 = 0 THEN NoNode ELSE order'[L - 1]
    <3>1. L > 1 => L - 1 \in 1..(L - 1) /\ (L - 1) + 1 = L
      BY <1>1
    <3> QED BY <1>1, <1>2, <3>1 DEF QueueInv, InLine
  <2> QED BY <1>2, <2>1, <2>2, <2>3 DEF InLine
<1>8. ASSUME NEW i \in 2..(L - 1) PROVE Follows(order[i], order[i - 1])'
  <2>1. /\ i + 1 \in 2..L /\ (i + 1) - 1 = i /\ i \in 1..(L - 1) /\ i - 1 \in 1..(L - 1) /\ (i - 1) + 1 = i
        /\ i + 1 \in 1..L /\ i \in 1..L /\ L > 1 /\ 2 \in 1..L
    BY <1>1
  <2>2. order'[i] = order[i + 1] /\ order'[i - 1] = order[i]
    BY <1>2, <2>1
  <2>3. Follows(order[i + 1], order[i])
    <3>1. i + 1 # 2 /\ order[(i + 1) - 1] = order[i]
      BY <2>1
    <3> QED BY <2>1, <3>1 DEF QueueInv, Queue
  <2>4. order[i + 1] # order[2]
    BY <1>1, <1>3, <2>1
  <2>5. order[i + 1] # n /\ order[i + 1] \in Nodes /\ order[i] \in Nodes
    BY <1>1, <1>5, <2>1, <2>2
  <2>6. flag'[order[i + 1]] = flag[order[i + 1]] /\ flag'[order[i]].next = flag[order[i]].next
    BY <2>1, <2>4, <2>5
  <2> QED BY <1>4, <2>2, <2>3, <2>5, <2>6 DEF Follows
<1>9. L - 1 > 0 => AtHead(order[1])'
  <2> HAVE L - 1 > 0
  <2>1. /\ order'[1] = order[2] /\ order[2] \in Nodes /\ order[2] # n
        /\ Follows(order[2], n) \/ TakenOver(order[2], n)
    BY <1>1, <1>2, <1>5, SecondFollows, SecondIsNode
  <2>2. at'[order[2]] = at[order[2]] /\ at[order[2]] \in {"telling", "ready"}
    BY <1>1, <1>4, <2>1 DEF Follows, TakenOver, Queued
  <2>3. pred[order[2]] \in Nodes /\ at'[pred[order[2]]] = "out"
    BY <1>4, <2>1 DEF Follows, TakenOver
  <2> QED BY <1>1, <2>1, <2>2, <2>3 DEF AtHead
<1>10. L - 1 > 0 => order'[L - 1] = order[L]
  BY <1>1, <1>2
<1>11. Queue'
  <2>1. L - 1 > 0 => next'[order'[Len(order')]] = NoNode /\ flag'[order'[Len(order')]].next = "zero"
    BY <1>1, <1>2, <1>10 DEF QueueInv, Queue
  <2> QED BY <1>2, <1>8, <1>9, <2>1 DEF Queue
<1>12. Lock!Release
  <2>1. {m \in Nodes : at'[m] \in Holding} = {}
    BY <1>1, <1>4 DEF Holding
  <2> QED BY <1>1, <2>1 DEF Lock!Release, Holding
<1> QED BY <1>6, <1>7, <1>11, <1>12 DEF QueueInv, Fifo, Lock!Next

LEMMA SwapStep == ASSUME QueueInv, NEW n \in Nodes, Swap(n) PROVE QueueInv' /\ Fifo
<1>1. at[n] = "swap" /\ UNCHANGED <<next, flag, pred>>
  BY DEF Swap
<1>2. /\ Len(order) \in Nat \ {0} /\ order[1] = n /\ Len(order) \in 1..Len(order) /\ 1 \in 1..Len(order)
  BY <1>1, HolderIsFirst DEF Holding
<1>3. tail # n <=> Len(order) > 1
  BY <1>2 DEF QueueInv, InLine
<1>4. flag' \in [Nodes -> Flags] /\ next' \in [Nodes -> Nodes \cup {NoNode}]
  BY <1>1 DEF QueueInv, McsTypes, Flags
<1>5. CASE tail = n
  <2>1. tail' = NoNode /\ at' = [at EXCEPT ![n] = "out"] /\ order' = Tail(order)
    BY <1>5 DEF Swap
  <2>2. at[n] \in Holding /\ \A m \in Nodes : flag'[m].next = flag[m].next
    BY <1>1 DEF Holding
  <2>3. ~(Len(order) > 1) /\ tail' = NoNode
    BY <1>3, <1>5, <2>1
  <2> QED BY <1>1, <1>4, <2>1, <2>2, <2>3, LeaveStep
<1>6. CASE tail # n
  <2>1. at' = [at EXCEPT ![n] = "next"] /\ UNCHANGED <<tail, order>>
    BY <1>6 DEF Swap
  <2>2. Len(order) > 1 /\ ~TakenOver(order[2], n)
    BY <1>1, <1>3, <1>6 DEF TakenOver
  <2> QED BY <1>1, <1>4, <2>1, <2>2, HolderStep DEF Holding
<1> QED BY <1>5, <1>6

LEMMA PassStep == ASSUME QueueInv, NEW n \in Nodes, Pass(n) PROVE QueueInv' /\ Fifo
<1>1. /\ at[n] = "pass" /\ next[n] # NoNode /\ UNCHANGED <<tail, next, pred>>
      /\ flag' = [flag EXCEPT ![next[n]].ready = FlagSet(@)]
      /\ at' = [at EXCEPT ![n] = "out"] /\ order' = Tail(order)
  BY DEF Pass
<1>2. /\ Len(order) \in Nat \ {0} /\ order[1] = n
  BY <1>1, HolderIsFirst DEF Holding
<1>3. Len(order) > 1
  BY <1>1, <1>2 DEF QueueInv, Queue
<1>4. (Follows(order[2], n) \/ TakenOver(order[2], n)) /\ order[2] \in Nodes
  BY <1>1, <1>3, SecondFollows, SecondIsNode DEF Holding
<1>5. next[n] = order[2] /\ at[order[2]] # "linking"
  BY <1>1, <1>4 DEF Follows, TakenOver
<1>6. FlagSet(flag[order[2]].ready) \in Raised
  BY <1>4 DEF Follows, TakenOver, FlagSet, Unset, Raised
<1>7. flag' \in [Nodes -> Flags] /\ flag'[order[2]].ready \in Raised
  BY <1>1, <1>4, <1>5, <1>6 DEF QueueInv, McsTypes, Flags
<1>8. /\ \A m \in Nodes : flag'[m].next = flag[m].next
      /\ \A m \in Nodes : m # order[2] => flag'[m] = flag[m]
  BY <1>1, <1>4, <1>5 DEF QueueInv, McsTypes
<1>9. at[n] \in Holding
  BY <1>1 DEF Holding
<1> QED BY <1>1, <1>3, <1>5, <1>7, <1>8, <1>9, LeaveStep

\* Proxy takes the place of the first node, ...
LEMMA FirstReplaced ==
  ASSUME QueueInv, order # <<>>, order' = <<Proxy>> \o Tail(order)
  PROVE  /\ Len(order') = Len(order) /\ order' \in Seq(Nodes) /\ order'[1] = Proxy
         /\ \A i \in 2..Len(order) : order'[i] = order[i]
<1> DEFINE L == Len(order)
           r == Tail(order)
<1>1. /\ L \in Nat \ {0} /\ r \in Seq(Nodes) /\ Len(r) = L - 1
      /\ \A i \in 1..(L - 1) : r[i] = order[i + 1]
  BY DEF QueueInv, McsTypes
<1>2. Proxy \in Nodes
  BY DEF Nodes
<1>3. <<Proxy>> \in Seq(Nodes) /\ Len(<<Proxy>>) = 1 /\ <<Proxy>>[1] = Proxy
  BY <1>2
<1>4. order' = <<Proxy>> \o r
  OBVIOUS
<1> HIDE DEF r, L
<1>5. /\ <<Proxy>> \o r \in Seq(Nodes) /\ Len(<<Proxy>> \o r) = L /\ (<<Proxy>> \o r)[1] = Proxy
      /\ \A i \in 2..L : (<<Proxy>> \o r)[i] = r[i - 1]
  BY <1>1, <1>3, ConcatProperties
<1>6. \A i \in 2..L : i - 1 \in 1..(L - 1) /\ (i - 1) + 1 = i
  BY <1>1
<1>7. \A i \in 2..L : (<<Proxy>> \o r)[i] = order[i]
  BY <1>1, <1>5, <1>6
<1> QED BY <1>4, <1>5, <1>7 DEF L

LEMMA IsTransfer ==
  ASSUME QueueInv, NEW n \in Nodes \ {Proxy}, at[n] \in Holding, at[Proxy] = "out",
         \A m \in Nodes : at'[m] = IF m = Proxy THEN "held" ELSE IF m = n THEN "out" ELSE at[m],
         order' = <<Proxy>> \o Tail(order)
  PROVE  Fifo
<1>1. Len(order) \in Nat \ {0} /\ order[1] = n /\ {m \in Nodes : at[m] \in Holding} = {n}
  BY HolderIsFirst
<1>2. Proxy \in Nodes /\ "held" \in Holding /\ "out" \notin Holding
  BY DEF Nodes, Holding
<1>3. {m \in Nodes : at'[m] \in Holding} = {Proxy}
  BY <1>1, <1>2
<1>4. order # <<>> /\ Head(order) = n
  BY <1>1
<1>5. \A i \in DOMAIN order : order[i] # Proxy
  BY <1>2 DEF QueueInv, McsTypes, InLine
<1>6. Lock!Transfer(Proxy)
  BY <1>1, <1>3, <1>4, <1>5 DEF Lock!Transfer, Holding
<1> QED BY <1>2, <1>6 DEF Fifo, Lock!Next

\* ... with the node behind that, if any.
LEMMA TakeOver ==
  ASSUME QueueInv, NEW n \in Nodes \ {Proxy}, at[n] \in Holding, at[Proxy] = "out",
         at' \in [Nodes -> {"out"} \cup Queued \cup Holding],
         \A m \in Nodes : at'[m] = IF m = Proxy THEN "held" ELSE IF m = n THEN "out" ELSE at[m],
         Len(order') = Len(order), order' \in Seq(Nodes), order'[1] = Proxy,
         \A i \in 2..Len(order) : order'[i] = order[i], UNCHANGED pred,
         flag' \in [Nodes -> Flags], next' \in [Nodes -> Nodes \cup {NoNode}],
         \A m \in Nodes \ {Proxy} : flag'[m] = flag[m] /\ next'[m] = next[m],
         Len(order) > 1 => tail' = tail /\ next[n] # NoNode /\ next'[Proxy] = next[n],
         ~(Len(order) > 1) => tail' = Proxy /\ next'[Proxy] = NoNode /\ flag'[Proxy].next = "zero"
  PROVE  QueueInv'
<1> DEFINE L == Len(order)
<1>0. Proxy \in Nodes
  BY DEF Nodes
<1>1. L \in Nat \ {0} /\ order[1] = n /\ order \in Seq(Nodes) /\ DOMAIN order = 1..L
  BY HolderIsFirst DEF QueueInv, McsTypes
<1>2. \A i \in 1..L : order[i] \in Nodes \ {Proxy}
  BY <1>0, <1>1 DEF QueueInv, InLine
<1>3. \A i, j \in 1..L : order[i] = order[j] => i = j
  BY DEF QueueInv, InLine
<1>4. 1 \in 1..L /\ \A i \in 1..L : i = 1 \/ i \in 2..L
  BY <1>1
<1>5. \A i \in 2..L : i \in 1..L /\ i # 1 /\ order[i] \in Nodes \ {n, Proxy} /\ at'[order[i]] = at[order[i]]
  <2> TAKE i \in 2..L
  <2>1. i \in 1..L /\ i # 1
    BY <1>1
  <2>2. order[i] # n
    BY <1>1, <1>3, <1>4, <2>1
  <2> QED BY <1>2, <2>1, <2>2
<1>6. L > 1 => Follows(order[2], n) /\ next[n] = order[2] /\ at[order[2]] \in {"telling", "ready"}
  <2> HAVE L > 1
  <2>1. Follows(order[2], n)
    BY <1>1, SecondFollows DEF TakenOver
  <2> QED BY <2>1 DEF Follows, Queued
<1>7. McsTypes'
  <2>1. tail' \in Nodes
    BY <1>0, <1>1, <1>2 DEF QueueInv, InLine
  <2> QED BY <2>1 DEF QueueInv, McsTypes, Flags
<1>8. InLine'
  <2>1. \A i, j \in 1..L : order'[i] = order'[j] => i = j
    <3> TAKE i, j \in 1..L
    <3>1. (i = 1 \/ i \in 2..L) /\ (j = 1 \/ j \in 2..L)
      BY <1>4
    <3> QED BY <1>3, <1>5, <3>1
  <2>2. ASSUME NEW m \in Nodes PROVE at'[m] # "out" <=> \E i \in 1..L : order'[i] = m
    <3>2. CASE m = Proxy
      BY <1>4, <3>2
    <3>3. CASE m = n
      <4>1. \A i \in 1..L : order'[i] # n
        BY <1>4, <1>5
      <4> QED BY <3>3, <4>1
    <3>4. CASE m # n /\ m # Proxy
      <4>1. at[m] # "out" <=> \E i \in 1..L : order[i] = m
        BY DEF QueueInv, InLine
      <4>2. (\E i \in 1..L : order[i] = m) <=> \E i \in 1..L : order'[i] = m
        BY <1>1, <1>4, <1>5, <3>4
      <4> QED BY <3>4, <4>1, <4>2
    <3> QED BY <3>2, <3>3, <3>4
  <2>3. tail' = order'[L]
    <3>1. CASE L > 1
      <4>1. tail = order[L] /\ L \in 2..L
        BY <1>1, <3>1 DEF QueueInv, InLine
      <4> QED BY <3>1, <4>1
    <3>2. CASE ~(L > 1)
      BY <1>1, <3>2
    <3> QED BY <3>1, <3>2
  <2> QED BY <1>1, <2>1, <2>2, <2>3 DEF InLine
<1>9. ASSUME NEW i \in 2..L
      PROVE  Follows(order[i], order[i - 1])' \/ (i = 2 /\ TakenOver(order[2], order[1])')
  <2>1. CASE i = 2
    <3>1. L > 1 /\ order'[1] = Proxy /\ order'[2] = order[2] /\ order[2] \in Nodes \ {n, Proxy}
          /\ at'[order[2]] = at[order[2]]
      BY <1>1, <1>5, <2>1
    <3>2. next'[Proxy] = order[2] /\ at'[Proxy] = "held" /\ flag'[order[2]] = flag[order[2]]
      BY <1>0, <1>6, <3>1
    <3>3. pred[order[2]] = n /\ at'[n] = "out" /\ flag[order[2]].ready \in Unset
      BY <1>6, <3>1 DEF Follows
    <3> QED BY <1>6, <2>1, <3>1, <3>2, <3>3 DEF TakenOver
  <2>2. CASE i # 2
    <3>1. i - 1 \in 2..L
      BY <1>1, <2>2
    <3>2. /\ order'[i] = order[i] /\ order'[i - 1] = order[i - 1]
          /\ order[i] \in Nodes \ {n, Proxy} /\ order[i - 1] \in Nodes \ {n, Proxy}
          /\ at'[order[i]] = at[order[i]]
      BY <1>5, <3>1
    <3>3. Follows(order[i], order[i - 1])
      BY <2>2 DEF QueueInv, Queue
    <3> QED BY <3>2, <3>3 DEF Follows
  <2> QED BY <2>1, <2>2
<1>10. AtHead(order[1])'
  BY <1>0, <1>1 DEF AtHead, Queued
<1>11. next'[order'[L]] = NoNode /\ flag'[order'[L]].next = "zero"
  <2>1. CASE L > 1
    <3>1. L \in 2..L
      BY <1>1, <2>1
    <3>2. next[order[L]] = NoNode /\ flag[order[L]].next = "zero"
      BY <1>1 DEF QueueInv, Queue
    <3> QED BY <1>5, <3>1, <3>2
  <2>2. CASE ~(L > 1)
    BY <1>1, <2>2
  <2> QED BY <2>1, <2>2
<1>12. Queue'
  BY <1>1, <1>9, <1>10, <1>11 DEF Queue
<1> QED BY <1>7, <1>8, <1>12 DEF QueueInv

LEMMA TakeOverStep ==
  ASSUME QueueInv, NEW n \in Nodes \ {Proxy}, at[n] \in {"held", "moving"}, at[Proxy] = "out",
         at' = [at EXCEPT ![n] = "out", ![Proxy] = "held"],
         order' = <<Proxy>> \o Tail(order), UNCHANGED pred,
         flag' \in [Nodes -> Flags], next' \in [Nodes -> Nodes \cup {NoNode}],
         \A m \in Nodes \ {Proxy} : flag'[m] = flag[m] /\ next'[m] = next[m],
         Len(order) > 1 => tail' = tail /\ next[n] # NoNode /\ next'[Proxy] = next[n],
         ~(Len(order) > 1) => tail' = Proxy /\ next'[Proxy] = NoNode /\ flag'[Proxy].next = "zero"
  PROVE  QueueInv' /\ Fifo
<1>1. Proxy \in Nodes /\ at[n] \in Holding
  BY DEF Nodes, Holding
<1>2. /\ at' \in [Nodes -> {"out"} \cup Queued \cup Holding]
      /\ \A m \in Nodes : at'[m] = IF m = Proxy THEN "held" ELSE IF m = n THEN "out" ELSE at[m]
  BY <1>1 DEF QueueInv, McsTypes, Holding
<1>3. order # <<>>
  BY <1>1, HolderIsFirst
<1>4. /\ Len(order') = Len(order) /\ order' \in Seq(Nodes) /\ order'[1] = Proxy
      /\ \A i \in 2..Len(order) : order'[i] = order[i]
  BY <1>3, FirstReplaced
<1>5. QueueInv'
  BY <1>1, <1>2, <1>4, TakeOver
<1> QED BY <1>1, <1>2, <1>5, IsTransfer

LEMMA TransferStep ==
  ASSUME QueueInv, NEW n \in Nodes \ {Proxy}, ptw32_mcs_node_transfer(Proxy, n)
  PROVE  QueueInv' /\ Fifo
<1>1. /\ at[n] = "held" /\ at[Proxy] = "out" /\ Proxy \in Nodes /\ UNCHANGED pred
      /\ flag' = [flag EXCEPT ![Proxy] = [next |-> "zero", ready |-> "zero"]]
      /\ next' = [next EXCEPT ![Proxy] = NoNode]
  BY DEF ptw32_mcs_node_transfer, Nodes
<1>2. /\ flag' \in [Nodes -> Flags] /\ next' \in [Nodes -> Nodes \cup {NoNode}]
      /\ \A m \in Nodes \ {Proxy} : flag'[m] = flag[m] /\ next'[m] = next[m]
      /\ next'[Proxy] = NoNode /\ flag'[Proxy].next = "zero"
  BY <1>1 DEF QueueInv, McsTypes, Flags, Unset
<1>3. tail = n <=> ~(Len(order) > 1)
  <2>1. Len(order) \in Nat \ {0} /\ order[1] = n /\ Len(order) \in 1..Len(order) /\ 1 \in 1..Len(order)
    BY <1>1, HolderIsFirst DEF Holding
  <2> QED BY <2>1 DEF QueueInv, InLine
<1>4. CASE tail = n
  <2>1. tail' = Proxy /\ at' = [at EXCEPT ![n] = "out", ![Proxy] = "held"] /\ order' = <<Proxy>> \o Tail(order)
    BY <1>4 DEF ptw32_mcs_node_transfer
  <2> QED BY <1>1, <1>2, <1>3, <1>4, <2>1, TakeOverStep
<1>5. CASE tail # n
  <2>1. at' = [at EXCEPT ![n] = "moving"] /\ UNCHANGED <<tail, order>>
    BY <1>5 DEF ptw32_mcs_node_transfer
  <2>2. \A m \in Nodes : at[m] # "out" => flag'[m] = flag[m] /\ next'[m] = next[m]
    BY <1>1, <1>2
  <2>3. ~TakenOver(order[2], n) /\ at[n] \in Holding /\ "moving" \in Holding
    BY <1>1 DEF TakenOver, Holding
  <2> QED BY <1>1, <1>2, <2>1, <2>2, <2>3, HolderStep
<1> QED BY <1>4, <1>5

LEMMA MoveStep == ASSUME QueueInv, NEW n \in Nodes, Move(Proxy, n) PROVE QueueInv' /\ Fifo
<1>1. /\ at[n] = "moving" /\ next[n] # NoNode /\ Proxy \in Nodes
      /\ next' = [next EXCEPT ![Proxy] = next[n]] /\ UNCHANGED <<tail, flag, pred>>
      /\ at' = [at EXCEPT ![n] = "out", ![Proxy] = "held"] /\ order' = <<Proxy>> \o Tail(order)
  BY DEF Move, Nodes
<1>2. Len(order) \in Nat \ {0} /\ order[1] = n
  BY <1>1, HolderIsFirst DEF Holding
<1>3. n # Proxy /\ at[Proxy] = "out" /\ Len(order) > 1
  BY <1>1, <1>2 DEF QueueInv, Queue, AtHead
<1>4. /\ flag' \in [Nodes -> Flags] /\ next' \in [Nodes -> Nodes \cup {NoNode}]
      /\ \A m \in Nodes \ {Proxy} : flag'[m] = flag[m] /\ next'[m] = next[m]
      /\ next'[Proxy] = next[n]
  BY <1>1 DEF QueueInv, McsTypes, Flags
<1> QED BY <1>1, <1>3, <1>4, TakeOverStep

-----------------------------------------------------------------------------
(* MCS locks: the threads *)

\* Every node is used for one call.  A node that is used again may still be told
\* of a successor it had in the call before, and NextIsKnown fails.
FreshNodes == ~ReuseFrames

\* Where a thread in a call is, and where it is with the lock.
Stages ==
  [idle |-> {"out"}, exited |-> {"out"}, enter |-> {"out"}, locking |-> Queued \cup {"held"},
   init |-> {"held"}, unlock |-> {"held"}, cleanup |-> {"held"},
   unlocking |-> {"swap", "next", "pass", "out"}, dying |-> {"swap", "next", "pass", "out"},
   arriving |-> Queued \cup {"held"}, sleeping |-> {"swap", "next", "pass", "out"},
   posting |-> {"moving", "out"}, leaving |-> {"out"}, opening |-> {"out"},
   busy |-> {"held"}, stays |-> {"swap", "next", "pass", "out"},
   destroy |-> {"held"}, free |-> {"swap", "next", "pass", "out"}]

\* Only the node of the call that a thread is in can be in the queue, and the
\* nodes of calls to come are unknown to all others.
Places ==
  /\ pc \in [Threads -> DOMAIN Stages] /\ calls \in [Threads -> 0..Frames]
  /\ \A t \in Threads : pc[t] # "idle" => calls[t] > 0
  /\ \A t \in Threads, k \in 1..Frames :
       /\ at[<<t, k>>] # "out" => k = calls[t]
       /\ k = calls[t] => at[<<t, k>>] \in Stages[pc[t]]
  /\ at[Proxy] \notin Queued \cup {"moving"}

Unborn(n) ==
  \E t \in Threads, k \in 1..Frames :
    n = <<t, k>> /\ (k > calls[t] \/ (k = calls[t] /\ pc[t] = "enter"))

Unknown == \A n, m \in Nodes : Unborn(n) => pred[m] # n

LockInv == QueueInv /\ Places /\ Unknown

\* A program in which calls of one function take and release a lock.
McsProgram ==
  \E t \in Threads :
    \/ McsCall(t)
    \/ Inside(t) /\ McsStep(Node(t)) /\ UNCHANGED callVars
    \/ Call(t, "mcs", "mcs") /\ UNCHANGED mcsVars

McsSpec == CallsInit({"mcs"}) /\ McsInit /\ [][McsProgram]_<<callVars, mcsVars>>

\* The same for pthread_once, with threads that are cancelled.
OnceProgram ==
  \E t \in Threads :
    \/ pthread_once(t)
    \/ Inside(t) /\ McsStep(Node(t)) /\ UNCHANGED <<callVars, onceVars>>
    \/ (Call(t, "once", "once") \/ Cancel(t)) /\ UNCHANGED <<mcsVars, onceVars>>

OnceSpec ==
  CallsInit({"once"}) /\ McsInit /\ OnceInit /\ [][OnceProgram]_<<callVars, mcsVars, onceVars>>

LEMMA LockInit ==
  ASSUME NEW objects, CallsInit(objects), McsInit
  PROVE  LockInv /\ Lock!Init
<1>1. \A n \in Nodes : at[n] = "out" /\ pred[n] = NoNode /\ next[n] = NoNode
  BY DEF McsInit
<1>2. order = <<>> /\ Len(order) = 0 /\ tail = NoNode
  BY DEF McsInit
<1>3. McsTypes
  BY DEF McsInit, McsTypes, Unset
<1>4. InLine /\ Queue
  BY <1>1, <1>2 DEF InLine, Queue
<1>5. Places
  <2>1. \A t \in Threads, k \in 1..Frames : <<t, k>> \in Nodes
    BY DEF Nodes
  <2>2. Proxy \in Nodes
    BY DEF Nodes
  <2>3. pc = [t \in Threads |-> "idle"] /\ calls = [t \in Threads |-> 0]
    BY DEF CallsInit
  <2>4. "idle" \in DOMAIN Stages /\ 0 \in 0..Frames /\ Stages["idle"] = {"out"}
    BY McsAssumption DEF Stages
  <2> QED BY <1>1, <2>1, <2>2, <2>3, <2>4 DEF Places, Queued
<1>6. Unknown
  BY <1>1, NoNodeIsNone DEF Unknown
<1>7. Lock!Init
  BY <1>1, <1>2 DEF Lock!Init
<1> QED BY <1>3, <1>4, <1>5, <1>6, <1>7 DEF LockInv, QueueInv

\* The node of a thread in a call.
LEMMA OwnNode ==
  ASSUME FreshNodes, LockInv, NEW t \in Threads, pc[t] # "idle"
  PROVE  /\ Node(t) = <<t, calls[t]>> /\ Node(t) \in Nodes /\ calls[t] \in 1..Frames
         /\ at[Node(t)] \in Stages[pc[t]] /\ Node(t) # Proxy
<1>1. calls[t] \in 1..Frames
  BY McsAssumption DEF LockInv, Places
<1>2. Node(t) = <<t, calls[t]>>
  BY DEF Node, FreshNodes
<1>3. Node(t) # Proxy
  BY <1>1, <1>2, McsAssumption
<1> QED BY <1>1, <1>2, <1>3 DEF Nodes, LockInv, Places

\* Thread t goes on to l, and its node and the one in the barrier to where
\* they may be then.
LEMMA PlacesStep ==
  ASSUME FreshNodes, LockInv, NEW t \in Threads, pc[t] # "idle",
         NEW l \in DOMAIN Stages, pc' = [pc EXCEPT ![t] = l], UNCHANGED calls,
         at'[Node(t)] \in Stages[l], at'[Proxy] \notin Queued \cup {"moving"},
         \A m \in Nodes \ {Node(t), Proxy} : at'[m] = at[m]
  PROVE  Places'
<1>1. Node(t) = <<t, calls[t]>> /\ calls[t] \in 1..Frames
  BY OwnNode
<1>2. \A u \in Threads, k \in 1..Frames : <<u, k>> \in Nodes \ {Proxy}
  BY McsAssumption DEF Nodes
<1>3. pc' \in [Threads -> DOMAIN Stages] /\ pc'[t] = l /\ \A u \in Threads \ {t} : pc'[u] = pc[u]
  BY DEF LockInv, Places
<1>4. ASSUME NEW u \in Threads, NEW k \in 1..Frames
      PROVE  /\ at'[<<u, k>>] # "out" => k = calls[u]
             /\ k = calls[u] => at'[<<u, k>>] \in Stages[pc'[u]]
  <2>1. CASE <<u, k>> = Node(t)
    BY <1>1, <1>3, <2>1
  <2>2. CASE <<u, k>> # Node(t)
    <3>1. at'[<<u, k>>] = at[<<u, k>>]
      BY <1>2, <2>2
    <3>2. u = t => k # calls[u]
      BY <1>1, <2>2
    <3> QED BY <1>3, <3>1, <3>2 DEF LockInv, Places
  <2> QED BY <2>1, <2>2
<1> QED BY <1>1, <1>3, <1>4 DEF LockInv, Places

LEMMA StageStep ==
  ASSUME FreshNodes, LockInv, NEW t \in Threads, pc[t] # "idle",
         NEW l \in DOMAIN Stages, pc' = [pc EXCEPT ![t] = l], UNCHANGED calls,
         NEW m \in Stages[l], at' = [at EXCEPT ![Node(t)] = m]
  PROVE  Places'
<1>1. Node(t) \in Nodes /\ Proxy \in Nodes /\ Node(t) # Proxy
  BY OwnNode DEF Nodes
<1>2. /\ at'[Node(t)] = m /\ at'[Proxy] = at[Proxy]
      /\ \A n \in Nodes \ {Node(t), Proxy} : at'[n] = at[n]
  BY <1>1 DEF LockInv, QueueInv, McsTypes
<1>3. at[Proxy] \notin Queued \cup {"moving"}
  BY DEF LockInv, Places
<1> QED BY <1>2, <1>3, PlacesStep

\* Nodes stay known.
LEMMA UnknownStep ==
  ASSUME LockInv, UNCHANGED pred, \A n \in Nodes : Unborn(n)' => Unborn(n)
  PROVE  Unknown'
BY DEF LockInv, Unknown

LEMMA UnbornKept ==
  ASSUME LockInv, NEW t \in Threads, NEW l \in DOMAIN Stages, l # "enter" \/ pc[t] = "enter",
         pc' = [pc EXCEPT ![t] = l], UNCHANGED calls
  PROVE  \A n \in Nodes : Unborn(n)' => Unborn(n)
<1>1. \A u \in Threads : pc'[u] = "enter" => pc[u] = "enter"
  BY DEF LockInv, Places
<1> QED BY <1>1 DEF Unborn

LEMMA EnterStep ==
  ASSUME FreshNodes, LockInv, NEW t \in Threads, pc[t] = "enter",
         NEW l \in DOMAIN Stages \ {"enter"},
         (IF tail = NoNode THEN "held" ELSE "linking") \in Stages[l],
         ptw32_mcs_lock_acquire(Node(t)), pc' = [pc EXCEPT ![t] = l], UNCHANGED calls
  PROVE  LockInv' /\ Fifo
<1> DEFINE n == Node(t)
           m0 == IF tail = NoNode THEN "held" ELSE "linking"
<1>1. n = <<t, calls[t]>> /\ n \in Nodes /\ calls[t] \in 1..Frames
  BY OwnNode
<1>2. Unborn(n)
  BY <1>1 DEF Unborn
<1>3. QueueInv' /\ Fifo
  <2>1. n \in Nodes \ {Proxy}
    BY <1>1, OwnNode
  <2> QED BY <1>2, <2>1, JoinStep DEF LockInv, Unknown
<1>4. Places'
  <2>1. at' = [at EXCEPT ![n] = m0]
    BY DEF ptw32_mcs_lock_acquire
  <2> QED BY <2>1, StageStep
<1>5. Unknown'
  <2>1. \A m \in Nodes : Unborn(m)' => Unborn(m)
    BY UnbornKept
  <2>2. ASSUME NEW m \in Nodes, m = n, Unborn(m)' PROVE FALSE
    <3>1. pc'[t] # "enter" /\ calls'[t] = calls[t]
      BY DEF LockInv, Places
    <3>2. PICK u \in Threads, k \in 1..Frames :
            m = <<u, k>> /\ (k > calls'[u] \/ (k = calls'[u] /\ pc'[u] = "enter"))
      BY <2>2 DEF Unborn
    <3>3. u = t /\ k = calls[t]
      BY <1>1, <2>2, <3>2
    <3> QED BY <1>1, <3>1, <3>2, <3>3
  <2>3. \A m \in Nodes : Unborn(m) => at[m] = "out"
    <3> SUFFICES ASSUME NEW u \in Threads, NEW k \in 1..Frames,
                        k > calls[u] \/ (k = calls[u] /\ pc[u] = "enter")
                 PROVE  at[<<u, k>>] = "out"
      BY DEF Unborn
    <3>1. calls[u] \in 0..Frames
      BY DEF LockInv, Places
    <3> QED BY <3>1, McsAssumption DEF LockInv, Places, Stages
  <2>4. tail \in Nodes => at[tail] # "out"
    BY NoNodeIsNone DEF LockInv, QueueInv, McsTypes, InLine
  <2>5. \A m \in Nodes : pred'[m] = IF m = n THEN tail ELSE pred[m]
    BY DEF ptw32_mcs_lock_acquire, LockInv, QueueInv, McsTypes
  <2> QED BY <2>1, <2>2, <2>3, <2>4, <2>5 DEF LockInv, Unknown
<1> QED BY <1>3, <1>4, <1>5 DEF LockInv

LEMMA LeavesLock ==
  ASSUME FreshNodes, LockInv, NEW t \in Threads, pc[t] # "idle",
         ptw32_mcs_lock_release(Node(t)), NEW l \in {"unlocking", "dying", "sleeping", "stays", "free"},
         pc' = [pc EXCEPT ![t] = l], UNCHANGED calls
  PROVE  LockInv' /\ Fifo
<1> DEFINE m == IF next[Node(t)] = NoNode THEN "swap" ELSE "pass"
<1>1. Node(t) \in Nodes
  BY OwnNode
<1>2. QueueInv' /\ Fifo
  BY <1>1, ReleaseStep DEF LockInv
<1>3. at' = [at EXCEPT ![Node(t)] = m] /\ UNCHANGED pred
  BY DEF ptw32_mcs_lock_release
<1>4. m \in Stages[l] /\ l \in DOMAIN Stages
  BY DEF Stages
<1>5. Places'
  BY <1>3, <1>4, StageStep
<1>6. Unknown'
  BY <1>3, <1>4, UnbornKept, UnknownStep
<1> QED BY <1>2, <1>5, <1>6 DEF LockInv

\* The thread goes on in its call, or returns, without a step of the lock.
LEMMA GoesOnStep ==
  ASSUME FreshNodes, LockInv, NEW t \in Threads, pc[t] # "idle",
         NEW l \in DOMAIN Stages \ {"enter"}, at[Node(t)] \in Stages[l],
         pc' = [pc EXCEPT ![t] = l], UNCHANGED <<calls, mcsVars>>
  PROVE  LockInv' /\ Fifo
<1>1. at' = [at EXCEPT ![Node(t)] = at[Node(t)]] /\ UNCHANGED <<calls, pred>>
  BY DEF mcsVars, LockInv, QueueInv, McsTypes
<1>2. Places'
  BY <1>1, StageStep
<1>3. Unknown'
  BY <1>1, UnbornKept, UnknownStep
<1>4. QueueInv' /\ Fifo
  BY SameQueue DEF LockInv
<1> QED BY <1>2, <1>3, <1>4 DEF LockInv

LEMMA InsideStep ==
  ASSUME FreshNodes, LockInv, NEW t \in Threads, Inside(t), McsStep(Node(t)), UNCHANGED <<pc, calls>>
  PROVE  LockInv' /\ Fifo
<1> DEFINE n == Node(t)
<1>1. n \in Nodes /\ at[n] \in Stages[pc[t]] /\ pc[t] # "idle"
  BY OwnNode DEF Inside
<1>2. pc[t] \in DOMAIN Stages /\ pc' = [pc EXCEPT ![t] = pc[t]]
  BY DEF LockInv, Places
<1>3. QueueInv' /\ Fifo
  BY <1>1, <1>2, LinkStep, TellStep, ReadyStep, SwapStep, NextWaitStep, PassStep, MoveStep
     DEF McsStep, LockInv
<1>4. UNCHANGED pred
  BY <1>1, <1>2 DEF McsStep, Link, Tell, FlagWait, Swap, Pass, Move
<1>5. CASE Move(Proxy, n)
  <2>1. n # Proxy /\ Proxy \in Nodes
    BY OwnNode DEF Inside, Nodes
  <2>2. /\ at[n] = "moving" /\ at'[n] = "out" /\ at'[Proxy] = "held"
        /\ \A m \in Nodes \ {n, Proxy} : at'[m] = at[m]
    BY <1>1, <1>5, <2>1 DEF Move, LockInv, QueueInv, McsTypes
  <2>3. "out" \in Stages[pc[t]]
    BY <1>1, <1>2, <2>2 DEF Stages, Queued
  <2>4. Places'
    BY <1>1, <1>2, <2>2, <2>3, PlacesStep DEF Queued
  <2> QED BY <1>3, <1>4, <2>4 DEF LockInv, Unknown, Unborn
<1>6. ASSUME ~Move(Proxy, n) PROVE \E m \in Stages[pc[t]] : at' = [at EXCEPT ![n] = m]
  <2>1. at[n] \in Queued => pc[t] \in {"locking", "arriving"}
    BY <1>1, <1>2 DEF Stages, Queued
  <2>2. at[n] \in {"swap", "next", "pass"} => pc[t] \in {"unlocking", "dying", "sleeping", "stays", "free"}
    BY <1>1, <1>2 DEF Stages, Queued
  <2>3. CASE at[n] \in Queued /\ \E m \in Queued \cup {"held"} : at' = [at EXCEPT ![n] = m]
    <3>1. Stages[pc[t]] = Queued \cup {"held"}
      BY <2>1, <2>3 DEF Stages
    <3> QED BY <2>3, <3>1
  <2>4. CASE at[n] \in {"swap", "next", "pass"} /\ \E m \in {"swap", "next", "pass", "out"} : at' = [at EXCEPT ![n] = m]
    <3>1. Stages[pc[t]] = {"swap", "next", "pass", "out"}
      BY <2>2, <2>4 DEF Stages
    <3> QED BY <2>4, <3>1
  <2>5. UNCHANGED at => at' = [at EXCEPT ![n] = at[n]]
    BY DEF LockInv, QueueInv, McsTypes
  <2>6. CASE UNCHANGED at
    BY <1>1, <2>5, <2>6
  <2>7. CASE Link(n) \/ Tell(n)
    BY <2>3, <2>7 DEF Link, Tell, Queued
  <2>8. CASE FlagWait(n, "ready", "held")
    BY <2>3, <2>6, <2>8 DEF FlagWait, Queued
  <2>9. CASE FlagWait(n, "next", "pass") \/ Swap(n) \/ Pass(n)
    BY <2>4, <2>6, <2>9 DEF FlagWait, Swap, Pass
  <2> QED BY <1>6, <2>7, <2>8, <2>9 DEF McsStep
<1>7. CASE ~Move(Proxy, n)
  <2>1. Places'
    BY <1>1, <1>2, <1>6, <1>7, StageStep
  <2> QED BY <1>3, <1>4, <2>1 DEF LockInv, Unknown, Unborn
<1> QED BY <1>5, <1>7

LEMMA NewCallStep ==
  ASSUME FreshNodes, LockInv, NEW t \in Threads, NEW o \in {"mcs", "once", "barrier"}, NEW f, Call(t, o, f), UNCHANGED mcsVars
  PROVE  LockInv' /\ Fifo
<1>1. /\ pc[t] = "idle" /\ pc' = [pc EXCEPT ![t] = "enter"] /\ calls' = [calls EXCEPT ![t] = @ + 1]
      /\ calls[t] < MaxCalls[o][t]
  BY DEF Call, Idle
<1>2. MaxCalls[o][t] \in Nat /\ MaxCalls[o][t] <= Frames /\ Frames \in Nat
  BY CallsAssumption, McsAssumption DEF FreshNodes
<1>3. /\ calls \in [Threads -> 0..Frames] /\ calls[t] \in 0..Frames /\ calls' \in [Threads -> 0..Frames]
      /\ pc' \in [Threads -> DOMAIN Stages]
  BY <1>1, <1>2 DEF LockInv, Places, Stages
<1>4. \A u \in Threads :
        /\ pc'[u] = IF u = t THEN "enter" ELSE pc[u]
        /\ calls'[u] = IF u = t THEN calls[t] + 1 ELSE calls[u]
  BY <1>1, <1>3 DEF LockInv, Places
<1>5. UNCHANGED <<at, pred>>
  BY DEF mcsVars
<1>6. Places'
  <2>1. ASSUME NEW u \in Threads, NEW k \in 1..Frames
        PROVE  /\ at[<<u, k>>] # "out" => k = calls'[u]
               /\ k = calls'[u] => at[<<u, k>>] \in Stages[pc'[u]]
    <3>1. CASE u = t
      <4>1. at[<<t, k>>] = "out"
        BY <1>1 DEF LockInv, Places, Stages
      <4>2. "out" \in Stages["enter"]
        BY DEF Stages
      <4> QED BY <1>4, <3>1, <4>1, <4>2
    <3>2. CASE u # t
      BY <1>4, <3>2 DEF LockInv, Places
    <3> QED BY <3>1, <3>2
  <2>2. \A u \in Threads : pc'[u] # "idle" => calls'[u] > 0
    BY <1>3, <1>4 DEF LockInv, Places
  <2> QED BY <1>3, <1>5, <2>1, <2>2 DEF LockInv, Places
<1>7. Unknown'
  <2>1. ASSUME NEW n \in Nodes, Unborn(n)' PROVE Unborn(n)
    <3>1. PICK u \in Threads, k \in 1..Frames :
            n = <<u, k>> /\ (k > calls'[u] \/ (k = calls'[u] /\ pc'[u] = "enter"))
      BY <2>1 DEF Unborn
    <3>2. k > calls[u] \/ (k = calls[u] /\ pc[u] = "enter")
      BY <1>3, <1>4, <3>1
    <3> QED BY <3>1, <3>2 DEF Unborn
  <2> QED BY <1>5, <2>1, UnknownStep
<1>8. QueueInv' /\ Fifo
  BY SameQueue DEF LockInv
<1> QED BY <1>6, <1>7, <1>8 DEF LockInv

\* Nothing of the lock or the calls moves.
LEMMA IdleStep ==
  ASSUME LockInv, UNCHANGED <<pc, calls, mcsVars>> PROVE LockInv' /\ Fifo
<1>1. QueueInv' /\ Fifo
  BY SameQueue DEF LockInv
<1>2. Places' /\ Unknown'
  BY DEF mcsVars, LockInv, Places, Unknown, Unborn
<1> QED BY <1>1, <1>2 DEF LockInv

LEMMA McsInvStep ==
  ASSUME FreshNodes PROVE LockInv /\ [McsProgram]_<<callVars, mcsVars>> => LockInv' /\ Fifo
<1> SUFFICES ASSUME LockInv, [McsProgram]_<<callVars, mcsVars>> PROVE LockInv' /\ Fifo
  OBVIOUS
<1>1. CASE UNCHANGED <<callVars, mcsVars>>
  BY <1>1, IdleStep DEF callVars
<1>2. ASSUME NEW t \in Threads, McsCall(t) PROVE LockInv' /\ Fifo
  <2>1. CASE pc[t] = "enter" /\ ptw32_mcs_lock_acquire(Node(t)) /\ Goto(t, "locking")
    <3>1. "locking" \in DOMAIN Stages \ {"enter"} /\ Stages["locking"] = Queued \cup {"held"}
      BY DEF Stages
    <3> QED BY <2>1, <3>1, EnterStep DEF Goto, Queued
  <2>2. CASE pc[t] = "locking" /\ ptw32_mcs_lock_release(Node(t)) /\ Goto(t, "unlocking")
    BY <2>2, LeavesLock DEF Goto
  <2>3. CASE pc[t] = "unlocking" /\ at[Node(t)] = "out" /\ Return(t, "0") /\ UNCHANGED mcsVars
    <3>1. "idle" \in DOMAIN Stages \ {"enter"} /\ "out" \in Stages["idle"]
      BY DEF Stages
    <3>2. pc' = [pc EXCEPT ![t] = "idle"] /\ UNCHANGED <<calls, mcsVars>> /\ pc[t] # "idle"
      BY <2>3 DEF Return, ReturnHolding
    <3> QED BY <2>3, <3>1, <3>2, GoesOnStep
  <2> QED BY <1>2, <2>1, <2>2, <2>3 DEF McsCall
<1>3. ASSUME NEW t \in Threads, Inside(t), McsStep(Node(t)), UNCHANGED callVars PROVE LockInv' /\ Fifo
  BY <1>3, InsideStep DEF callVars
<1>4. ASSUME NEW t \in Threads, Call(t, "mcs", "mcs"), UNCHANGED mcsVars PROVE LockInv' /\ Fifo
  BY <1>4, NewCallStep
<1> QED BY <1>1, <1>2, <1>3, <1>4 DEF McsProgram

\* The steps of pthread_once are steps of the lock, or none.
LEMMA OnceLockStep ==
  ASSUME FreshNodes, LockInv, [OnceProgram]_<<callVars, mcsVars, onceVars>>
  PROVE  LockInv' /\ Fifo
<1>1. CASE UNCHANGED <<callVars, mcsVars, onceVars>>
  BY <1>1, IdleStep DEF callVars
<1>2. ASSUME NEW t \in Threads, NEW l \in DOMAIN Stages \ {"enter"}, at[Node(t)] \in Stages[l],
             pc[t] # "idle", pc' = [pc EXCEPT ![t] = l], UNCHANGED calls, UNCHANGED mcsVars
      PROVE  LockInv' /\ Fifo
  BY <1>2, GoesOnStep
<1>3. ASSUME NEW t \in Threads, pthread_once(t) PROVE LockInv' /\ Fifo
  <2>1. pc[t] # "idle" => at[Node(t)] \in Stages[pc[t]]
    BY OwnNode
  <2>2. CASE OnceRead(t)
    <3>1. CASE done
      <4>1. pc[t] = "enter" /\ pc' = [pc EXCEPT ![t] = "idle"] /\ UNCHANGED calls /\ UNCHANGED mcsVars
        BY <2>2, <3>1 DEF OnceRead, In, Return, ReturnHolding
      <4>2. "idle" \in DOMAIN Stages \ {"enter"} /\ at[Node(t)] \in Stages["idle"]
        BY <2>1, <4>1 DEF Stages
      <4> QED BY <1>2, <4>1, <4>2
    <3>2. CASE ~done
      <4>1. "locking" \in DOMAIN Stages \ {"enter"} /\ Stages["locking"] = Queued \cup {"held"}
        BY DEF Stages
      <4>2. /\ pc[t] = "enter" /\ ptw32_mcs_lock_acquire(Node(t))
            /\ pc' = [pc EXCEPT ![t] = "locking"] /\ UNCHANGED calls
        BY <2>2, <3>2 DEF OnceRead, In, Goto
      <4> QED BY <4>1, <4>2, EnterStep DEF Queued
    <3> QED BY <3>1, <3>2
  <2>3. CASE OnceCheck(t)
    <3> DEFINE l == IF done THEN "unlock" ELSE "init"
    <3>1. /\ pc[t] = "locking" /\ at[Node(t)] = "held"
          /\ pc' = [pc EXCEPT ![t] = l] /\ UNCHANGED calls /\ UNCHANGED mcsVars
      BY <2>3 DEF OnceCheck, In, Acquired, Goto
    <3>2. l \in DOMAIN Stages \ {"enter"} /\ "held" \in Stages[l]
      BY DEF Stages
    <3> QED BY <1>2, <3>1, <3>2
  <2>4. CASE OnceRun(t) \/ OnceCancelled(t)
    <3> DEFINE l == IF OnceRun(t) THEN "unlock" ELSE "cleanup"
    <3>1. pc[t] = "init" /\ pc' = [pc EXCEPT ![t] = l] /\ UNCHANGED calls /\ UNCHANGED mcsVars
      BY <2>4 DEF OnceRun, OnceCancelled, In, Goto
    <3>2. l \in DOMAIN Stages \ {"enter"} /\ at[Node(t)] \in Stages[l]
      BY <2>1, <3>1 DEF Stages
    <3> QED BY <1>2, <3>1, <3>2
  <2>5. CASE OnceUnlock(t)
    <3> DEFINE l == IF pc[t] = "unlock" THEN "unlocking" ELSE "dying"
    <3>1. /\ pc[t] \in {"unlock", "cleanup"} /\ ptw32_mcs_lock_release(Node(t))
          /\ pc' = [pc EXCEPT ![t] = l] /\ UNCHANGED calls
      BY <2>5 DEF OnceUnlock, Goto
    <3> QED BY <3>1, LeavesLock
  <2>6. CASE OnceReturn(t)
    <3> DEFINE l == IF pc[t] = "unlocking" THEN "idle" ELSE "exited"
    <3>1. /\ pc[t] \in {"unlocking", "dying"} /\ at[Node(t)] = "out"
          /\ pc' = [pc EXCEPT ![t] = l] /\ UNCHANGED calls /\ UNCHANGED mcsVars
      BY <2>6 DEF OnceReturn, Return, ReturnHolding, Exit
    <3>2. l \in DOMAIN Stages \ {"enter"} /\ "out" \in Stages[l]
      BY DEF Stages
    <3> QED BY <1>2, <3>1, <3>2
  <2> QED BY <1>3, <2>2, <2>3, <2>4, <2>5, <2>6 DEF pthread_once
<1>4. ASSUME NEW t \in Threads, Inside(t), McsStep(Node(t)), UNCHANGED <<callVars, onceVars>>
      PROVE  LockInv' /\ Fifo
  BY <1>4, InsideStep DEF callVars
<1>5. ASSUME NEW t \in Threads, Call(t, "once", "once") \/ Cancel(t), UNCHANGED <<mcsVars, onceVars>>
      PROVE  LockInv' /\ Fifo
  <2>1. CASE Call(t, "once", "once")
    BY <1>5, <2>1, NewCallStep
  <2>2. CASE Cancel(t)
    BY <1>5, <2>2, IdleStep DEF Cancel
  <2> QED BY <1>5, <2>1, <2>2
<1> QED BY <1>1, <1>3, <1>4, <1>5 DEF OnceProgram

\* The steps of the node in the barrier, by the thread that leaves last.
LEMMA ProxyStep ==
  ASSUME FreshNodes, LockInv, NEW t \in Threads, Inside(t), McsStep(Proxy), UNCHANGED <<pc, calls>>
  PROVE  /\ LockInv' /\ Fifo
         /\ at[Proxy] \in {"swap", "next", "pass"} /\ at'[Proxy] \in {"swap", "next", "pass", "out"}
         /\ \A m \in Nodes \ {Proxy} : at'[m] = at[m]
<1>1. Proxy \in Nodes /\ at[Proxy] \notin Queued \cup {"moving"}
  BY DEF Nodes, LockInv, Places
<1>2. Swap(Proxy) \/ FlagWait(Proxy, "next", "pass") \/ Pass(Proxy)
  BY <1>1 DEF McsStep, Link, Tell, FlagWait, Move, Queued
<1>3. QueueInv' /\ Fifo
  BY <1>1, <1>2, SwapStep, NextWaitStep, PassStep DEF LockInv
<1>4. UNCHANGED pred
  BY <1>2 DEF FlagWait, Swap, Pass
<1>5. /\ at[Proxy] \in {"swap", "next", "pass"} /\ at'[Proxy] \in {"swap", "next", "pass", "out"}
      /\ \A m \in Nodes \ {Proxy} : at'[m] = at[m]
  BY <1>1, <1>2 DEF FlagWait, Swap, Pass, LockInv, QueueInv, McsTypes
<1>6. /\ pc[t] # "idle" /\ pc[t] \in DOMAIN Stages /\ pc' = [pc EXCEPT ![t] = pc[t]]
      /\ Node(t) \in Nodes \ {Proxy} /\ at[Node(t)] \in Stages[pc[t]]
  BY OwnNode DEF Inside, LockInv, Places
<1>7. Places'
  BY <1>5, <1>6, PlacesStep DEF Queued
<1> QED BY <1>3, <1>4, <1>5, <1>7 DEF LockInv, Unknown, Unborn

\* The thread that leaves last releases the lock with the node in the barrier.
LEMMA ProxyReleases ==
  ASSUME FreshNodes, LockInv, NEW t \in Threads, pc[t] = "leaving", ptw32_mcs_lock_release(Proxy),
         pc' = [pc EXCEPT ![t] = "opening"], UNCHANGED calls
  PROVE  LockInv' /\ Fifo
<1>1. Proxy \in Nodes /\ Node(t) \in Nodes \ {Proxy} /\ at[Node(t)] \in Stages["leaving"]
  BY OwnNode DEF Nodes
<1>2. QueueInv' /\ Fifo
  BY <1>1, ReleaseStep DEF LockInv
<1>3. /\ at'[Proxy] \in {"swap", "pass"} /\ UNCHANGED pred
      /\ \A m \in Nodes \ {Proxy} : at'[m] = at[m]
  BY <1>1 DEF ptw32_mcs_lock_release, LockInv, QueueInv, McsTypes
<1>4. "opening" \in DOMAIN Stages /\ Stages["opening"] = Stages["leaving"]
  BY DEF Stages
<1>5. Places'
  BY <1>1, <1>3, <1>4, PlacesStep DEF Queued
<1>6. Unknown'
  BY <1>3, <1>4, UnbornKept, UnknownStep
<1> QED BY <1>2, <1>5, <1>6 DEF LockInv

\* The last thread to arrive moves the lock into the barrier.
LEMMA TransferToBarrier ==
  ASSUME FreshNodes, LockInv, NEW t \in Threads, pc[t] = "arriving",
         ptw32_mcs_node_transfer(Proxy, Node(t)), pc' = [pc EXCEPT ![t] = "posting"], UNCHANGED calls
  PROVE  LockInv' /\ Fifo
<1>1. Proxy \in Nodes /\ Node(t) \in Nodes \ {Proxy}
  BY OwnNode DEF Nodes
<1>2. QueueInv' /\ Fifo
  BY <1>1, TransferStep DEF LockInv
<1>3. /\ at[Proxy] = "out" /\ at'[Proxy] \in {"out", "held"} /\ at'[Node(t)] \in {"moving", "out"}
      /\ UNCHANGED pred /\ \A m \in Nodes \ {Node(t), Proxy} : at'[m] = at[m]
  BY <1>1 DEF ptw32_mcs_node_transfer, LockInv, QueueInv, McsTypes
<1>4. "posting" \in DOMAIN Stages /\ Stages["posting"] = {"moving", "out"}
  BY DEF Stages
<1>5. Places'
  BY <1>3, <1>4, PlacesStep DEF Queued
<1>6. Unknown'
  BY <1>3, <1>4, UnbornKept, UnknownStep
<1> QED BY <1>2, <1>5, <1>6 DEF LockInv

\* A program that uses one barrier.
BarrierProgram ==
  \E t \in Threads :
    \/ pthread_barrier_wait(t) \/ pthread_barrier_destroy(t)
    \/ Inside(t) /\ McsStep(Node(t)) /\ UNCHANGED <<callVars, barrierVars>>
    \/ In(t, "barrier_wait", "opening") /\ McsStep(Proxy) /\ UNCHANGED <<callVars, barrierVars>>
    \/ BarrierCalls(t) /\ UNCHANGED <<mcsVars, barrierVars>>

BarrierSpec ==
  /\ CallsInit({"barrier"}) /\ McsInit /\ pthread_barrier_init
  /\ [][BarrierProgram]_<<callVars, mcsVars, barrierVars>>

\* The steps of the barrier are steps of its lock, or none.
LEMMA BarrierLockStep ==
  ASSUME FreshNodes, LockInv, [BarrierProgram]_<<callVars, mcsVars, barrierVars>>
  PROVE  LockInv' /\ Fifo
<1>1. CASE UNCHANGED <<callVars, mcsVars, barrierVars>>
  BY <1>1, IdleStep DEF callVars
<1>2. ASSUME NEW t \in Threads, NEW l \in {"idle", "leaving"}, pc[t] # "idle", at[Node(t)] = "out",
             pc' = [pc EXCEPT ![t] = l], UNCHANGED <<calls, mcsVars>>
      PROVE  LockInv' /\ Fifo
  <2>1. l \in DOMAIN Stages \ {"enter"} /\ "out" \in Stages[l]
    BY <1>2 DEF Stages
  <2> QED BY <1>2, <2>1, GoesOnStep
<1>3. ASSUME NEW t \in Threads, NEW r, NEW f, Return(t, r), UNCHANGED mcsVars, pc[t] = f,
             f \in {"enter", "leaving", "opening", "stays", "free"}, f \in {"stays", "free"} => at[Node(t)] = "out"
      PROVE  LockInv' /\ Fifo
  <2>1. pc[t] # "idle" /\ at[Node(t)] \in Stages[f]
    BY <1>3, OwnNode
  <2>2. at[Node(t)] = "out"
    BY <1>3, <2>1 DEF Stages
  <2> QED BY <1>2, <1>3, <2>1, <2>2 DEF Return, ReturnHolding
<1>4. ASSUME NEW t \in Threads, pthread_barrier_wait(t) PROVE LockInv' /\ Fifo
  <2>1. CASE BarrierEnter(t)
    <3>1. CASE barrier # "valid"
      BY <1>3, <2>1, <3>1 DEF BarrierEnter, In
    <3>2. CASE barrier = "valid"
      <4>1. "arriving" \in DOMAIN Stages \ {"enter"} /\ Stages["arriving"] = Queued \cup {"held"}
        BY DEF Stages
      <4>2. /\ pc[t] = "enter" /\ ptw32_mcs_lock_acquire(Node(t))
            /\ pc' = [pc EXCEPT ![t] = "arriving"] /\ UNCHANGED calls
        BY <2>1, <3>2 DEF BarrierEnter, In, Goto
      <4> QED BY <4>1, <4>2, EnterStep DEF Queued
    <3> QED BY <3>1, <3>2
  <2>2. CASE BarrierArrive(t)
    <3>1. CASE current' = 0
      BY <2>2, <3>1, TransferToBarrier DEF BarrierArrive, In, Goto
    <3>2. CASE current' # 0
      BY <2>2, <3>2, LeavesLock DEF BarrierArrive, In, Goto
    <3> QED BY <3>1, <3>2
  <2>3. CASE BarrierPost(t) \/ BarrierSleep(t)
    BY <1>2, <2>3 DEF BarrierPost, BarrierSleep, In, Goto
  <2>4. CASE BarrierLeave(t)
    <3>1. CASE current' = Height
      BY <2>4, <3>1, ProxyReleases DEF BarrierLeave, In, Goto
    <3>2. CASE current' # Height
      BY <1>3, <2>4, <3>2 DEF BarrierLeave, In
    <3> QED BY <3>1, <3>2
  <2>5. CASE BarrierOpened(t)
    BY <1>3, <2>5 DEF BarrierOpened, In
  <2> QED BY <1>4, <2>1, <2>2, <2>3, <2>4, <2>5 DEF pthread_barrier_wait
<1>5. ASSUME NEW t \in Threads, BarrierDestroy(t) PROVE LockInv' /\ Fifo
  <2>1. CASE barrier # "valid" \/ tail # NoNode
    BY <1>3, <1>5, <2>1 DEF BarrierDestroy, In
  <2>2. CASE barrier = "valid" /\ tail = NoNode
    <3> DEFINE l == IF current < Height THEN "busy" ELSE "destroy"
    <3>1. /\ pc[t] = "enter" /\ ptw32_mcs_lock_acquire(Node(t))
          /\ pc' = [pc EXCEPT ![t] = l] /\ UNCHANGED calls
      BY <1>5, <2>2 DEF BarrierDestroy, In, Goto, ptw32_mcs_lock_try_acquire
    <3>2. l \in DOMAIN Stages \ {"enter"} /\ Stages[l] = {"held"}
      BY DEF Stages
    <3> QED BY <2>2, <3>1, <3>2, EnterStep
  <2> QED BY <2>1, <2>2
<1>6. ASSUME NEW t \in Threads, BarrierRelease(t) PROVE LockInv' /\ Fifo
  <2>1. CASE pc[t] \in {"busy", "destroy"}
    <3> DEFINE l == IF pc[t] = "busy" THEN "stays" ELSE "free"
    <3>1. ptw32_mcs_lock_release(Node(t)) /\ pc' = [pc EXCEPT ![t] = l] /\ UNCHANGED calls
      BY <1>6, <2>1 DEF BarrierRelease, Goto
    <3> QED BY <2>1, <3>1, LeavesLock
  <2>2. CASE pc[t] \in {"stays", "free"}
    BY <1>3, <1>6, <2>2 DEF BarrierRelease
  <2> QED BY <1>6, <2>1, <2>2 DEF BarrierRelease
<1>7. ASSUME NEW t \in Threads, Inside(t), McsStep(Node(t)), UNCHANGED <<callVars, barrierVars>>
      PROVE  LockInv' /\ Fifo
  BY <1>7, InsideStep DEF callVars
<1>8. ASSUME NEW t \in Threads, In(t, "barrier_wait", "opening"), McsStep(Proxy), UNCHANGED <<callVars, barrierVars>>
      PROVE  LockInv' /\ Fifo
  BY <1>8, ProxyStep DEF callVars, In, Inside
<1>9. ASSUME NEW t \in Threads, BarrierCalls(t), UNCHANGED <<mcsVars, barrierVars>>
      PROVE  LockInv' /\ Fifo
  <2>1. \E f \in {"barrier_wait", "barrier_destroy"} : Call(t, "barrier", f)
    BY <1>9 DEF BarrierCalls
  <2> QED BY <1>9, <2>1, NewCallStep
<1> QED BY <1>1, <1>4, <1>5, <1>6, <1>7, <1>8, <1>9 DEF BarrierProgram, pthread_barrier_destroy

\* The MCS lock is first come, first served, and has one holder at a time,
\* whatever the order of links, flags and events: its steps are those of FifoLock.
THEOREM McsIsFifo == ASSUME FreshNodes PROVE McsSpec => Lock!SafeSpec
<1>1. CallsInit({"mcs"}) /\ McsInit => LockInv /\ Lock!Init
  BY LockInit
<1>2. LockInv /\ [McsProgram]_<<callVars, mcsVars>> => LockInv' /\ [Lock!Next]_(Lock!vars)
  BY McsInvStep DEF Fifo
<1> QED BY <1>1, <1>2, PTL DEF McsSpec, Lock!SafeSpec

\* The same inside pthread_once, where threads are cancelled.
THEOREM OnceLockIsFifo == ASSUME FreshNodes PROVE OnceSpec => Lock!SafeSpec
<1>1. CallsInit({"once"}) /\ McsInit => LockInv /\ Lock!Init
  BY LockInit
<1>2. LockInv /\ [OnceProgram]_<<callVars, mcsVars, onceVars>> => LockInv' /\ [Lock!Next]_(Lock!vars)
  BY OnceLockStep DEF Fifo
<1> QED BY <1>1, <1>2, PTL DEF OnceSpec, Lock!SafeSpec

\* And inside a barrier, where the last thread to arrive hands its place in the
\* queue to a node of the barrier, while others may be joining behind it.
THEOREM BarrierLockIsFifo == ASSUME FreshNodes PROVE BarrierSpec => Lock!SafeSpec
<1>1. CallsInit({"barrier"}) /\ McsInit => LockInv /\ Lock!Init
  BY LockInit
<1>2. LockInv /\ [BarrierProgram]_<<callVars, mcsVars, barrierVars>> => LockInv' /\ [Lock!Next]_(Lock!vars)
  BY BarrierLockStep DEF Fifo
<1> QED BY <1>1, <1>2, PTL DEF BarrierSpec, Lock!SafeSpec

\* A thread that passes the lock on finds the node that joined behind its own,
\* whether that was linked before the release or in the middle of it.
THEOREM SuccessorIsKnown == ASSUME FreshNodes PROVE McsSpec => []NextIsKnown
<1>1. LockInv => NextIsKnown
  <2> SUFFICES ASSUME LockInv, NEW n \in Nodes, at[n] = "pass" PROVE next[n] # NoNode
    BY DEF NextIsKnown
  <2>1. Len(order) \in Nat \ {0} /\ order[1] = n
    BY HolderIsFirst DEF LockInv, Holding
  <2> QED BY <2>1 DEF LockInv, QueueInv, Queue, AtHead
<1>2. CallsInit({"mcs"}) /\ McsInit => LockInv
  BY LockInit
<1>3. LockInv /\ [McsProgram]_<<callVars, mcsVars>> => LockInv'
  BY McsInvStep
<1> QED BY <1>1, <1>2, <1>3, PTL DEF McsSpec

\* A thread that sleeps on the event in its flag is not forgotten: it waits
\* behind another node, or for one that is about to set its flag.
SleepersAreServed ==
  \A n \in Nodes :
    /\ at[n] = "ready" /\ flag[n].ready = "event" => Len(order) > 1 /\ order[1] # n
    /\ at[n] = "next" /\ flag[n].next = "event" =>
         \E m \in Nodes : at[m] \in {"linking", "telling"} /\ pred[m] = n

\* No wakeup is lost between the flags of two nodes, in any order of storing
\* the event, setting the flag and linking the nodes.
THEOREM NoHandOverIsLost == ASSUME FreshNodes PROVE McsSpec => []SleepersAreServed
<1>1. LockInv => SleepersAreServed
  <2> SUFFICES ASSUME LockInv, NEW n \in Nodes
               PROVE  /\ at[n] = "ready" /\ flag[n].ready = "event" => Len(order) > 1 /\ order[1] # n
                      /\ at[n] = "next" /\ flag[n].next = "event" =>
                           \E m \in Nodes : at[m] \in {"linking", "telling"} /\ pred[m] = n
    BY DEF SleepersAreServed
  <2>1. Len(order) \in Nat
    BY DEF LockInv, QueueInv, McsTypes
  <2>2. ASSUME at[n] = "ready", flag[n].ready = "event" PROVE Len(order) > 1 /\ order[1] # n
    <3>1. PICK i \in 2..Len(order) : order[i] = n
      <4>1. at[n] \in Queued /\ flag[n].ready \in Unset
        BY <2>2 DEF Queued, Unset
      <4> QED BY <4>1, WaiterIsBehind DEF LockInv
    <3> QED BY <2>1, <3>1 DEF LockInv, QueueInv, InLine
  <2>3. ASSUME at[n] = "next", flag[n].next = "event"
        PROVE  \E m \in Nodes : at[m] \in {"linking", "telling"} /\ pred[m] = n
    <3>1. Len(order) \in Nat \ {0} /\ order[1] = n
      BY <2>3, HolderIsFirst DEF LockInv, Holding
    <3>2. Len(order) > 1
      BY <2>3, <3>1 DEF LockInv, QueueInv, Queue, AtHead
    <3>3. Follows(order[2], n) /\ order[2] \in Nodes
      BY <2>3, <3>2, SecondFollows, SecondIsNode DEF LockInv, Holding, TakenOver
    <3> QED BY <2>3, <3>3 DEF Follows, Queued, Unset
  <2> QED BY <2>2, <2>3
<1>2. CallsInit({"mcs"}) /\ McsInit => LockInv
  BY LockInit
<1>3. LockInv /\ [McsProgram]_<<callVars, mcsVars>> => LockInv'
  BY McsInvStep
<1> QED BY <1>1, <1>2, <1>3, PTL DEF McsSpec

-----------------------------------------------------------------------------
(* pthread_once *)

\* done is set while the lock is held, and tested before init_routine runs.
OnceDone ==
  /\ done \in BOOLEAN /\ inits = IF done THEN 1 ELSE 0
  /\ \A t \in Threads :
       /\ pc[t] = "init" => ~done
       /\ pc[t] \in {"unlock", "unlocking"} \/ (pc[t] = "idle" /\ calls[t] > 0) => done

LEMMA OnceDoneStep ==
  ASSUME FreshNodes, LockInv, OnceDone, [OnceProgram]_<<callVars, mcsVars, onceVars>>
  PROVE  OnceDone'
<1>1. pc \in [Threads -> DOMAIN Stages] /\ calls \in [Threads -> 0..Frames]
  BY DEF LockInv, Places
<1>2. ASSUME UNCHANGED onceVars, UNCHANGED <<pc, calls>> PROVE OnceDone'
  BY <1>2 DEF OnceDone, onceVars
<1>3. ASSUME NEW t \in Threads, NEW l, pc' = [pc EXCEPT ![t] = l], UNCHANGED onceVars, UNCHANGED calls,
             l = "init" => ~done, l \in {"unlock", "unlocking", "idle"} => done
      PROVE  OnceDone'
  BY <1>1, <1>3 DEF OnceDone, onceVars
<1>4. ASSUME NEW t \in Threads, OnceRun(t) PROVE OnceDone'
  <2>1. /\ pc[t] = "init" /\ pc' = [pc EXCEPT ![t] = "unlock"] /\ UNCHANGED calls
        /\ done' = TRUE /\ inits' = inits + 1
    BY <1>4 DEF OnceRun, In, Goto
  <2>2. ~done
    BY <2>1 DEF OnceDone
  <2>3. ASSUME NEW u \in Threads, pc[u] = "init" PROVE u = t
    <3>1. \A v \in {t, u} : Node(v) \in Nodes /\ at[Node(v)] = "held" /\ Node(v) = <<v, calls[v]>>
      BY <2>1, <2>3, OwnNode DEF Stages
    <3>2. Node(t) = Node(u)
      BY <3>1, HolderIsFirst DEF LockInv, Holding
    <3> QED BY <3>1, <3>2
  <2>4. \A u \in Threads : pc'[u] # "init"
    BY <1>1, <2>1, <2>3
  <2> QED BY <1>1, <2>1, <2>2, <2>4 DEF OnceDone
<1>5. ASSUME NEW t \in Threads, pthread_once(t) PROVE OnceDone'
  <2>1. CASE OnceRead(t)
    BY <1>3, <2>1 DEF OnceRead, Return, ReturnHolding, Goto
  <2>2. CASE OnceCheck(t)
    <3> DEFINE l == IF done THEN "unlock" ELSE "init"
    <3>1. pc' = [pc EXCEPT ![t] = l] /\ UNCHANGED onceVars /\ UNCHANGED calls
      BY <2>2 DEF OnceCheck, Goto
    <3>2. (l = "init" => ~done) /\ (l \in {"unlock", "unlocking", "idle"} => done)
      OBVIOUS
    <3> QED BY <1>3, <3>1, <3>2
  <2>3. CASE OnceCancelled(t)
    BY <1>3, <2>3 DEF OnceCancelled, Goto
  <2>4. CASE OnceUnlock(t)
    <3> DEFINE l == IF pc[t] = "unlock" THEN "unlocking" ELSE "dying"
    <3>1. pc' = [pc EXCEPT ![t] = l] /\ UNCHANGED onceVars /\ UNCHANGED calls
      BY <2>4 DEF OnceUnlock, Goto
    <3>2. l # "init" /\ (l \in {"unlock", "unlocking", "idle"} => done)
      BY DEF OnceDone
    <3> QED BY <1>3, <3>1, <3>2
  <2>5. CASE OnceReturn(t)
    <3> DEFINE l == IF pc[t] = "unlocking" THEN "idle" ELSE "exited"
    <3>1. pc' = [pc EXCEPT ![t] = l] /\ UNCHANGED onceVars /\ UNCHANGED calls
      BY <2>5 DEF OnceReturn, Return, ReturnHolding, Exit
    <3>2. l # "init" /\ (l \in {"unlock", "unlocking", "idle"} => done)
      BY DEF OnceDone
    <3> QED BY <1>3, <3>1, <3>2
  <2> QED BY <1>4, <1>5, <2>1, <2>2, <2>3, <2>4, <2>5 DEF pthread_once
<1>6. ASSUME NEW t \in Threads, Call(t, "once", "once"), UNCHANGED onceVars PROVE OnceDone'
  <2>1. pc' = [pc EXCEPT ![t] = "enter"] /\ calls' = [calls EXCEPT ![t] = @ + 1]
    BY <1>6 DEF Call
  <2>2. \A u \in Threads : /\ pc'[u] = IF u = t THEN "enter" ELSE pc[u]
                           /\ u # t => calls'[u] = calls[u]
    BY <1>1, <2>1
  <2> QED BY <1>6, <2>2 DEF OnceDone, onceVars
<1> QED BY <1>2, <1>5, <1>6 DEF OnceProgram, Cancel, callVars

\* When a call of pthread_once has returned, init_routine has run to its end,
\* once, and nobody is in it, whichever of the threads are cancelled.
THEOREM OnceRunsOnce == ASSUME FreshNodes PROVE OnceSpec => []OnceComplete
<1>1. OnceDone => OnceComplete
  BY DEF OnceDone, OnceComplete, Idle, In
<1>2. CallsInit({"once"}) /\ McsInit /\ OnceInit => LockInv /\ OnceDone
  <2>1. CallsInit({"once"}) /\ OnceInit => OnceDone
    <3> SUFFICES ASSUME CallsInit({"once"}), OnceInit PROVE OnceDone
      OBVIOUS
    <3>1. \A t \in Threads : pc[t] = "idle" /\ ~(calls[t] > 0)
      BY DEF CallsInit
    <3> QED BY <3>1 DEF OnceInit, OnceDone
  <2> QED BY <2>1, LockInit
<1>3. LockInv /\ OnceDone /\ [OnceProgram]_<<callVars, mcsVars, onceVars>> => LockInv' /\ OnceDone'
  BY OnceLockStep, OnceDoneStep
<1> QED BY <1>1, <1>2, <1>3, PTL DEF OnceSpec

-----------------------------------------------------------------------------
(* Barriers *)

\* Where the calls of a thread are: begun, arrived at the barrier, and left.
Coming(t) == op[t] = "barrier_wait" /\ pc[t] \in {"enter", "arriving"}
Staying(t) == Waiting(t) /\ pc[t] # "opening"

BegunCalls == [t \in Threads |-> Begun(t)]
ArrivedCalls == [t \in Threads |-> Begun(t) - IF Coming(t) THEN 1 ELSE 0]
LeftCalls == [t \in Threads |-> Begun(t) - IF Staying(t) THEN 1 ELSE 0]

Sleepers == {t \in Threads : In(t, "barrier_wait", "sleeping")}
Posting(t) == In(t, "barrier_wait", "posting")
Leaving(t) == In(t, "barrier_wait", "leaving")

\* The lock is moving, or has moved, into the barrier, which is open then.
Opens == at[Proxy] = "held" \/ \E n \in Nodes : at[n] = "moving"

CountTypes ==
  /\ current \in Int /\ breeched \in Nat /\ serials \in Nat
  /\ \A c \in {BegunCalls, ArrivedCalls, LeftCalls} : IsFiniteSet(CallsUpTo(c))
  /\ IsFiniteSet(Sleepers)

\* Every thread that arrives in a round sleeps until the last one has come;
\* then everybody leaves before anybody arrives for the next.
Rounds ==
  /\ ~Opens =>
       /\ current \in 1..Height /\ breeched = 0
       /\ Cardinality(CallsUpTo(ArrivedCalls)) = serials * Height + (Height - current)
       /\ Cardinality(CallsUpTo(LeftCalls)) = serials * Height
       /\ Cardinality(Sleepers) = Height - current
       /\ \A t \in Threads : ~Posting(t) /\ ~Leaving(t)
  /\ Opens =>
       /\ current \in 0..(Height - 1)
       /\ Cardinality(CallsUpTo(ArrivedCalls)) = serials * Height + Height
       /\ Cardinality(CallsUpTo(LeftCalls)) = serials * Height + current
       /\ Cardinality(Sleepers) = breeched + IF \E t \in Threads : Posting(t) THEN Height - 1 ELSE 0
       /\ \A t, u \in Threads : Posting(t) => breeched = 0 /\ ~Leaving(u) /\ (Posting(u) => u = t)

\* What the calls of the threads are, and what the program keeps to.
Calling ==
  /\ op \in [Threads -> {"none", "barrier_wait", "barrier_destroy"}]
  /\ \A t \in Threads :
       /\ pc[t] = "idle" <=> op[t] = "none"
       /\ op[t] = "barrier_wait" =>
            /\ calls[t] <= Waits[t]
            /\ pc[t] \in {"enter", "arriving", "posting", "sleeping", "leaving", "opening"}
       /\ op[t] = "barrier_destroy" =>
            /\ pc[t] \in {"enter", "busy", "stays", "destroy", "free"}
            /\ \A u \in Threads : calls[u] >= Waits[u] /\ ~In(u, "barrier_wait", "enter")
            /\ pc[t] \in {"destroy", "free"} => barrier # "valid"

\* Nobody is left in a barrier that is destroyed, but for the thread that has
\* released its lock.
Closed ==
  barrier # "valid" =>
    /\ at[Proxy] = "out"
    /\ \A t \in Threads : calls[t] >= Waits[t] /\ ~Staying(t)

BarrierInv == LockInv /\ Calling /\ CountTypes /\ Rounds /\ Closed

LEMMA SameCalls ==
  ASSUME NEW f, NEW g, \A t \in Threads : f[t] = g[t] PROVE CallsUpTo(f) = CallsUpTo(g)
BY DEF CallsUpTo

LEMMA FewerCalls ==
  ASSUME NEW f, NEW g, \A t \in Threads : f[t] \in Int /\ g[t] \in Int /\ f[t] <= g[t],
         IsFiniteSet(CallsUpTo(g))
  PROVE  CallsUpTo(f) \subseteq CallsUpTo(g) /\ Cardinality(CallsUpTo(f)) <= Cardinality(CallsUpTo(g))
<1>1. CallsUpTo(f) \subseteq CallsUpTo(g)
  <2> SUFFICES ASSUME NEW t \in Threads, NEW i \in 1..f[t] PROVE <<t, i>> \in CallsUpTo(g)
    BY DEF CallsUpTo
  <2>1. i \in 1..g[t]
    OBVIOUS
  <2> QED BY <2>1 DEF CallsUpTo
<1> QED BY <1>1, FS_Subset

LEMMA OneCallMore ==
  ASSUME NEW f, NEW g, NEW t \in Threads, f[t] \in Nat, g[t] = f[t] + 1,
         \A u \in Threads \ {t} : g[u] = f[u], IsFiniteSet(CallsUpTo(f))
  PROVE  IsFiniteSet(CallsUpTo(g)) /\ Cardinality(CallsUpTo(g)) = Cardinality(CallsUpTo(f)) + 1
<1> DEFINE x == <<t, f[t] + 1>>
<1>1. x \notin CallsUpTo(f)
  <2>1. f[t] + 1 \notin 1..f[t]
    OBVIOUS
  <2> QED BY <2>1 DEF CallsUpTo
<1>2. 1..g[t] = (1..f[t]) \cup {f[t] + 1}
  OBVIOUS
<1>3. CallsUpTo(g) = CallsUpTo(f) \cup {x}
  <2>1. ASSUME NEW y \in CallsUpTo(g) PROVE y \in CallsUpTo(f) \cup {x}
    <3>1. PICK u \in Threads : \E i \in 1..g[u] : y = <<u, i>>
      BY DEF CallsUpTo
    <3> QED BY <1>2, <3>1 DEF CallsUpTo
  <2>2. ASSUME NEW y \in CallsUpTo(f) PROVE y \in CallsUpTo(g)
    <3>1. PICK u \in Threads : \E i \in 1..f[u] : y = <<u, i>>
      BY DEF CallsUpTo
    <3> QED BY <1>2, <3>1 DEF CallsUpTo
  <2>3. x \in {t} \X (1..g[t])
    BY <1>2
  <2>4. {t} \X (1..g[t]) \in {{u} \X (1..g[u]) : u \in Threads}
    OBVIOUS
  <2>5. x \in CallsUpTo(g)
    BY <2>3, <2>4 DEF CallsUpTo
  <2> QED BY <2>1, <2>2, <2>5
<1> HIDE DEF x
<1>4. /\ IsFiniteSet(CallsUpTo(f) \cup {x})
      /\ Cardinality(CallsUpTo(f) \cup {x}) =
           IF x \in CallsUpTo(f) THEN Cardinality(CallsUpTo(f)) ELSE Cardinality(CallsUpTo(f)) + 1
  BY FS_AddElement
<1> QED BY <1>1, <1>3, <1>4

LEMMA BarrierInit ==
  ASSUME CallsInit({"barrier"}), McsInit, pthread_barrier_init PROVE BarrierInv
<1>1. /\ \A t \in Threads : pc[t] = "idle" /\ op[t] = "none" /\ calls[t] = 0
      /\ op = [t \in Threads |-> "none"] /\ barrier = "valid"
      /\ current = Height /\ breeched = 0 /\ serials = 0
  BY DEF CallsInit, pthread_barrier_init
<1>2. LockInv
  BY LockInit
<1>3. \A t \in Threads : Begun(t) = 0 /\ ~Coming(t) /\ ~Staying(t) /\ ~Posting(t) /\ ~Leaving(t)
  BY <1>1, BarrierAssumption DEF Begun, Coming, Staying, Waiting, Inside, Posting, Leaving, In
<1>4. \A c \in {BegunCalls, ArrivedCalls, LeftCalls} : CallsUpTo(c) = {}
  <2>1. \A c \in {BegunCalls, ArrivedCalls, LeftCalls}, t \in Threads : c[t] = 0
    BY <1>3 DEF BegunCalls, ArrivedCalls, LeftCalls
  <2> QED BY <2>1 DEF CallsUpTo
<1>5. Sleepers = {}
  BY <1>1 DEF Sleepers, In
<1>6. ~Opens
  BY DEF Opens, McsInit, Nodes
<1>7. CountTypes /\ Rounds
  <2>1. IsFiniteSet({}) /\ Cardinality({}) = 0
    BY FS_EmptySet
  <2>2. CountTypes
    BY <1>1, <1>4, <1>5, <2>1, BarrierAssumption DEF CountTypes
  <2>3. CallsUpTo(ArrivedCalls) = {} /\ CallsUpTo(LeftCalls) = {}
    BY <1>4
  <2>4. Height \in 1..Height /\ Height - Height = 0 /\ 0 * Height = 0
    BY BarrierAssumption
  <2> QED BY <1>1, <1>3, <1>5, <1>6, <2>1, <2>2, <2>3, <2>4 DEF Rounds
<1>8. Calling /\ Closed
  BY <1>1 DEF Calling, Closed
<1> QED BY <1>2, <1>7, <1>8 DEF BarrierInv

\* Thread t goes on to l of function f.
Moves(t, f, l) ==
  pc' = [pc EXCEPT ![t] = l] /\ op' = [op EXCEPT ![t] = f] /\ UNCHANGED calls

LEMMA BarrierMoves ==
  ASSUME LockInv, Calling, NEW t \in Threads, NEW f, NEW l, Moves(t, f, l)
  PROVE  /\ pc'[t] = l /\ op'[t] = f /\ \A u \in Threads \ {t} : pc'[u] = pc[u] /\ op'[u] = op[u]
         /\ \A u \in Threads : Begun(u)' = Begun(u)
         /\ \A u \in Threads \ {t} :
              /\ Coming(u)' = Coming(u) /\ Staying(u)' = Staying(u)
              /\ Posting(u)' = Posting(u) /\ Leaving(u)' = Leaving(u)
              /\ u \in Sleepers' <=> u \in Sleepers
<1>1. pc'[t] = l /\ op'[t] = f /\ \A u \in Threads \ {t} : pc'[u] = pc[u] /\ op'[u] = op[u]
  BY DEF Moves, LockInv, Places, Calling
<1>2. \A u \in Threads : Begun(u)' = Begun(u)
  BY DEF Moves, Begun
<1> QED BY <1>1, <1>2 DEF Coming, Staying, Waiting, Inside, Posting, Leaving, Sleepers, In

\* The calls of a thread, counted.
LEMMA CallNumbers ==
  ASSUME LockInv, Calling, NEW t \in Threads
  PROVE  /\ Begun(t) \in Nat /\ calls[t] \in Nat /\ Waits[t] \in Nat
         /\ op[t] = "barrier_wait" => Begun(t) = calls[t] /\ Begun(t) > 0
         /\ BegunCalls[t] = Begun(t)
         /\ ArrivedCalls[t] = Begun(t) - IF Coming(t) THEN 1 ELSE 0
         /\ LeftCalls[t] = Begun(t) - IF Staying(t) THEN 1 ELSE 0
         /\ ArrivedCalls[t] \in Nat /\ LeftCalls[t] \in Nat
<1>1. calls[t] \in Nat /\ Waits[t] \in Nat /\ Begun(t) \in Nat
  BY BarrierAssumption, McsAssumption DEF LockInv, Places, Begun
<1>2. op[t] = "barrier_wait" => Begun(t) = calls[t] /\ Begun(t) > 0
  BY <1>1 DEF LockInv, Places, Calling, Begun
<1>3. (Coming(t) \/ Staying(t)) => op[t] = "barrier_wait"
  BY DEF Coming, Staying, Waiting
<1> QED BY <1>1, <1>2, <1>3 DEF BegunCalls, ArrivedCalls, LeftCalls

\* A step that counts nothing.
LEMMA CountsKept ==
  ASSUME BarrierInv, \A u \in Threads : Posting(u)' = Posting(u) /\ Leaving(u)' = Leaving(u),
         Sleepers' = Sleepers, CallsUpTo(ArrivedCalls)' = CallsUpTo(ArrivedCalls),
         CallsUpTo(LeftCalls)' = CallsUpTo(LeftCalls), IsFiniteSet(CallsUpTo(BegunCalls)'),
         Opens' = Opens, UNCHANGED <<current, breeched, serials>>
  PROVE  CountTypes' /\ Rounds'
<1>1. CountTypes'
  BY DEF BarrierInv, CountTypes
<1> USE DEF BarrierInv, Rounds
<1>2. CASE Opens
  BY <1>1, <1>2
<1>3. CASE ~Opens
  BY <1>1, <1>3
<1> QED BY <1>1, <1>2, <1>3

LEMMA PlainMove ==
  ASSUME BarrierInv, NEW t \in Threads, NEW f, NEW l, Moves(t, f, l), Coming(t)' = Coming(t), Staying(t)' = Staying(t),
         Posting(t)' = Posting(t), Leaving(t)' = Leaving(t), t \in Sleepers' <=> t \in Sleepers,
         Opens' = Opens, UNCHANGED <<current, breeched, serials>>
  PROVE  CountTypes' /\ Rounds'
<1>1. \A u \in Threads :
        /\ Begun(u)' = Begun(u) /\ Coming(u)' = Coming(u) /\ Staying(u)' = Staying(u)
        /\ Posting(u)' = Posting(u) /\ Leaving(u)' = Leaving(u) /\ (u \in Sleepers' <=> u \in Sleepers)
  BY BarrierMoves DEF BarrierInv
<1>2. Sleepers' = Sleepers
  BY <1>1 DEF Sleepers
<1>3. BegunCalls' = BegunCalls /\ ArrivedCalls' = ArrivedCalls /\ LeftCalls' = LeftCalls
  BY <1>1 DEF BegunCalls, ArrivedCalls, LeftCalls
<1>4. \A c \in {BegunCalls, ArrivedCalls, LeftCalls} : IsFiniteSet(CallsUpTo(c))
  BY DEF BarrierInv, CountTypes
<1>5. /\ CallsUpTo(BegunCalls)' = CallsUpTo(BegunCalls) /\ CallsUpTo(ArrivedCalls)' = CallsUpTo(ArrivedCalls)
      /\ CallsUpTo(LeftCalls)' = CallsUpTo(LeftCalls)
  BY <1>3 DEF CallsUpTo
<1> QED BY <1>1, <1>2, <1>4, <1>5, CountsKept

\* The barrier is closed while a thread's own node holds the lock, or nobody's.
LEMMA ClosedWhileHeld ==
  ASSUME LockInv, NEW n \in Nodes \ {Proxy}, at[n] = "held" PROVE ~Opens
<1>1. {m \in Nodes : at[m] \in Holding} = {n} /\ Proxy \in Nodes
  BY HolderIsFirst DEF LockInv, Holding, Nodes
<1> QED BY <1>1 DEF Opens, Holding

LEMMA ClosedWhileFree ==
  ASSUME LockInv, tail = NoNode PROVE ~Opens /\ \A n \in Nodes : at[n] = "out"
<1>1. Len(order) = 0
  <2>1. Len(order) # 0 => order[Len(order)] \in Nodes
    BY DEF LockInv, QueueInv, McsTypes
  <2> QED BY <2>1, NoNodeIsNone DEF LockInv, QueueInv, InLine
<1>2. \A n \in Nodes : at[n] = "out"
  BY <1>1 DEF LockInv, QueueInv, InLine
<1> QED BY <1>2 DEF Opens, Nodes

\* A thread's node goes on, but does not hand over the lock.
LEMMA OpensKept ==
  ASSUME LockInv, NEW n \in Nodes \ {Proxy}, NEW m, at' = [at EXCEPT ![n] = m],
         at[n] # "moving", m # "moving"
  PROVE  Opens' = Opens /\ at'[Proxy] = at[Proxy]
<1>1. Proxy \in Nodes /\ \A k \in Nodes : at'[k] = IF k = n THEN m ELSE at[k]
  BY DEF Nodes, LockInv, QueueInv, McsTypes
<1> QED BY <1>1 DEF Opens

LEMMA CallingMoves ==
  ASSUME LockInv, Calling, NEW t \in Threads, NEW f, NEW l, Moves(t, f, l), pc[t] # "idle",
         \/ f = "none" /\ l = "idle"
         \/ f = "barrier_wait" /\ op[t] = f /\ l \in {"arriving", "posting", "sleeping", "leaving", "opening"}
         \/ f = "barrier_destroy" /\ op[t] = f /\ l \in {"busy", "stays", "destroy", "free"},
         l \in {"destroy", "free"} => barrier' # "valid", barrier # "valid" => barrier' # "valid"
  PROVE  Calling'
<1>1. pc'[t] = l /\ op'[t] = f /\ \A u \in Threads \ {t} : pc'[u] = pc[u] /\ op'[u] = op[u]
  BY BarrierMoves
<1>2. op' \in [Threads -> {"none", "barrier_wait", "barrier_destroy"}] /\ UNCHANGED calls
  BY DEF Moves, Calling
<1>3. \A u \in Threads : In(u, "barrier_wait", "enter")' => In(u, "barrier_wait", "enter")
  BY <1>1 DEF In
<1>4. ASSUME NEW u \in Threads
      PROVE  /\ pc'[u] = "idle" <=> op'[u] = "none"
             /\ op'[u] = "barrier_wait" =>
                  /\ calls[u] <= Waits[u]
                  /\ pc'[u] \in {"enter", "arriving", "posting", "sleeping", "leaving", "opening"}
             /\ op'[u] = "barrier_destroy" =>
                  /\ op[u] = "barrier_destroy"
                  /\ pc'[u] \in {"enter", "busy", "stays", "destroy", "free"}
                  /\ pc'[u] \in {"destroy", "free"} => barrier' # "valid"
  <2>1. CASE u = t
    BY <1>1, <2>1 DEF Calling
  <2>2. CASE u # t
    BY <1>1, <2>2 DEF Calling
  <2> QED BY <2>1, <2>2
<1>5. \A u \in Threads : op[u] = "barrier_destroy" =>
        \A v \in Threads : calls[v] >= Waits[v] /\ ~In(v, "barrier_wait", "enter")'
  BY <1>3 DEF Calling
<1> QED BY <1>2, <1>4, <1>5 DEF Calling

LEMMA ClosedKept ==
  ASSUME BarrierInv, NEW t \in Threads, NEW f, NEW l, Moves(t, f, l), Staying(t)' => Staying(t),
         barrier' # "valid" => barrier # "valid", barrier # "valid" => at'[Proxy] = "out"
  PROVE  Closed'
<1>1. \A u \in Threads : Staying(u)' => Staying(u)
  BY BarrierMoves DEF BarrierInv
<1> QED BY <1>1 DEF BarrierInv, Closed, Moves

\* Who is in the barrier while it is valid only.
LEMMA BarrierIsValid ==
  ASSUME BarrierInv, NEW t \in Threads, Staying(t) PROVE barrier = "valid"
BY DEF BarrierInv, Closed

LEMMA BarrierEnterStep ==
  ASSUME FreshNodes, BarrierInv, LockInv', NEW t \in Threads, BarrierEnter(t) PROVE BarrierInv'
<1>1. op[t] = "barrier_wait" /\ pc[t] = "enter" /\ UNCHANGED barrierVars
  BY DEF BarrierEnter, In
<1>2. barrier = "valid"
  BY <1>1, BarrierIsValid DEF Staying, Waiting, Inside
<1>3. Moves(t, "barrier_wait", "arriving") /\ ptw32_mcs_lock_acquire(Node(t))
  BY <1>1, <1>2 DEF BarrierEnter, Goto, Moves, BarrierInv, Calling
<1>4. pc'[t] = "arriving" /\ op'[t] = "barrier_wait"
  BY <1>3, BarrierMoves DEF BarrierInv
<1>5. Opens' = Opens
  <2>1. Node(t) \in Nodes \ {Proxy}
    BY <1>1, OwnNode DEF BarrierInv
  <2> QED BY <2>1, <1>3, OpensKept DEF BarrierInv, ptw32_mcs_lock_acquire
<1>6. /\ Coming(t)' = Coming(t) /\ Staying(t)' = Staying(t) /\ Posting(t)' = Posting(t) /\ Leaving(t)' = Leaving(t)
      /\ (t \in Sleepers' <=> t \in Sleepers)
  BY <1>1, <1>4 DEF Coming, Staying, Waiting, Inside, Posting, Leaving, Sleepers, In
<1>7. CountTypes' /\ Rounds'
  BY <1>1, <1>3, <1>5, <1>6, PlainMove DEF barrierVars
<1>8. Calling'
  BY <1>1, <1>3, CallingMoves DEF BarrierInv, barrierVars
<1>9. Closed'
  BY <1>1, <1>2 DEF Closed, barrierVars
<1> QED BY <1>7, <1>8, <1>9 DEF BarrierInv

LEMMA BarrierOpenedStep ==
  ASSUME FreshNodes, BarrierInv, LockInv', NEW t \in Threads, BarrierOpened(t) PROVE BarrierInv'
<1>1. /\ op[t] = "barrier_wait" /\ pc[t] = "opening" /\ at[Proxy] = "out"
      /\ UNCHANGED <<mcsVars, barrierVars>> /\ Moves(t, "none", "idle")
  BY DEF BarrierOpened, In, Return, ReturnHolding, Moves
<1>2. pc'[t] = "idle" /\ op'[t] = "none"
  BY <1>1, BarrierMoves DEF BarrierInv
<1>3. Opens' = Opens /\ UNCHANGED at
  BY <1>1 DEF Opens, mcsVars
<1>4. /\ Coming(t)' = Coming(t) /\ Staying(t)' = Staying(t) /\ Posting(t)' = Posting(t) /\ Leaving(t)' = Leaving(t)
      /\ (t \in Sleepers' <=> t \in Sleepers)
  BY <1>1, <1>2 DEF Coming, Staying, Waiting, Inside, Posting, Leaving, Sleepers, In
<1>5. CountTypes' /\ Rounds'
  BY <1>1, <1>3, <1>4, PlainMove DEF barrierVars
<1>6. Calling'
  BY <1>1, CallingMoves DEF BarrierInv, barrierVars
<1>7. Closed'
  BY <1>1, <1>3, <1>4, ClosedKept DEF barrierVars
<1> QED BY <1>5, <1>6, <1>7 DEF BarrierInv

\* How a step of thread t counts.
LEMMA CountsMove ==
  ASSUME BarrierInv, NEW t \in Threads, NEW f, NEW l, Moves(t, f, l),
         Coming(t)' => Coming(t), Staying(t)' => Staying(t)
  PROVE  /\ IsFiniteSet(CallsUpTo(BegunCalls)') /\ IsFiniteSet(CallsUpTo(ArrivedCalls)')
         /\ IsFiniteSet(CallsUpTo(LeftCalls)') /\ IsFiniteSet(Sleepers')
         /\ Cardinality(CallsUpTo(ArrivedCalls)') =
              Cardinality(CallsUpTo(ArrivedCalls)) + IF Coming(t) /\ ~Coming(t)' THEN 1 ELSE 0
         /\ Cardinality(CallsUpTo(LeftCalls)') =
              Cardinality(CallsUpTo(LeftCalls)) + IF Staying(t) /\ ~Staying(t)' THEN 1 ELSE 0
         /\ t \notin Sleepers /\ t \in Sleepers' => Cardinality(Sleepers') = Cardinality(Sleepers) + 1
         /\ t \in Sleepers /\ t \notin Sleepers' => Cardinality(Sleepers') = Cardinality(Sleepers) - 1
         /\ (t \in Sleepers <=> t \in Sleepers') => Sleepers' = Sleepers
<1>1. \A u \in Threads : Begun(u)' = Begun(u)
  BY BarrierMoves DEF BarrierInv
<1>2. \A u \in Threads \ {t} : Coming(u)' = Coming(u) /\ Staying(u)' = Staying(u) /\ (u \in Sleepers' <=> u \in Sleepers)
  BY BarrierMoves DEF BarrierInv
<1>3. /\ IsFiniteSet(CallsUpTo(BegunCalls)) /\ IsFiniteSet(CallsUpTo(ArrivedCalls))
      /\ IsFiniteSet(CallsUpTo(LeftCalls)) /\ IsFiniteSet(Sleepers)
  BY DEF BarrierInv, CountTypes
<1>4. /\ Cardinality(CallsUpTo(ArrivedCalls)) \in Nat /\ Cardinality(CallsUpTo(LeftCalls)) \in Nat
      /\ Cardinality(Sleepers) \in Nat
  BY <1>3, FS_CardinalityType
<1>5. CallsUpTo(BegunCalls)' = CallsUpTo(BegunCalls)
  BY <1>1 DEF CallsUpTo, BegunCalls
<1>6. /\ IsFiniteSet(CallsUpTo(ArrivedCalls)')
      /\ Cardinality(CallsUpTo(ArrivedCalls)') =
           Cardinality(CallsUpTo(ArrivedCalls)) + IF Coming(t) /\ ~Coming(t)' THEN 1 ELSE 0
  <2> DEFINE g == ArrivedCalls'
  <2>1. \A u \in Threads : g[u] = Begun(u) - IF Coming(u)' THEN 1 ELSE 0
    BY <1>1 DEF ArrivedCalls
  <2>2. \A u \in Threads : ArrivedCalls[u] \in Nat /\ ArrivedCalls[u] = Begun(u) - IF Coming(u) THEN 1 ELSE 0
    BY CallNumbers DEF BarrierInv
  <2>3. Begun(t) \in Nat
    BY CallNumbers DEF BarrierInv
  <2>4. \A u \in Threads \ {t} : g[u] = ArrivedCalls[u]
    BY <1>2, <2>1, <2>2
  <2>5. CallsUpTo(ArrivedCalls)' = CallsUpTo(g)
    BY DEF CallsUpTo
  <2> HIDE DEF g
  <2>6. CASE Coming(t) /\ ~Coming(t)'
    <3>1. g[t] = ArrivedCalls[t] + 1
      BY <2>1, <2>2, <2>3, <2>6
    <3>2. IsFiniteSet(CallsUpTo(g)) /\ Cardinality(CallsUpTo(g)) = Cardinality(CallsUpTo(ArrivedCalls)) + 1
      BY <1>3, <2>2, <2>4, <3>1, OneCallMore
    <3> QED BY <2>5, <2>6, <3>2
  <2>7. CASE ~(Coming(t) /\ ~Coming(t)')
    <3>1. \A u \in Threads : g[u] = ArrivedCalls[u]
      BY <2>1, <2>2, <2>4, <2>7
    <3>2. CallsUpTo(g) = CallsUpTo(ArrivedCalls)
      BY <3>1, SameCalls
    <3> QED BY <1>3, <1>4, <2>5, <2>7, <3>2
  <2> QED BY <2>6, <2>7
<1>7. /\ IsFiniteSet(CallsUpTo(LeftCalls)')
      /\ Cardinality(CallsUpTo(LeftCalls)') =
           Cardinality(CallsUpTo(LeftCalls)) + IF Staying(t) /\ ~Staying(t)' THEN 1 ELSE 0
  <2> DEFINE g == LeftCalls'
  <2>1. \A u \in Threads : g[u] = Begun(u) - IF Staying(u)' THEN 1 ELSE 0
    BY <1>1 DEF LeftCalls
  <2>2. \A u \in Threads : LeftCalls[u] \in Nat /\ LeftCalls[u] = Begun(u) - IF Staying(u) THEN 1 ELSE 0
    BY CallNumbers DEF BarrierInv
  <2>3. Begun(t) \in Nat
    BY CallNumbers DEF BarrierInv
  <2>4. \A u \in Threads \ {t} : g[u] = LeftCalls[u]
    BY <1>2, <2>1, <2>2
  <2>5. CallsUpTo(LeftCalls)' = CallsUpTo(g)
    BY DEF CallsUpTo
  <2> HIDE DEF g
  <2>6. CASE Staying(t) /\ ~Staying(t)'
    <3>1. g[t] = LeftCalls[t] + 1
      BY <2>1, <2>2, <2>3, <2>6
    <3>2. IsFiniteSet(CallsUpTo(g)) /\ Cardinality(CallsUpTo(g)) = Cardinality(CallsUpTo(LeftCalls)) + 1
      BY <1>3, <2>2, <2>4, <3>1, OneCallMore
    <3> QED BY <2>5, <2>6, <3>2
  <2>7. CASE ~(Staying(t) /\ ~Staying(t)')
    <3>1. \A u \in Threads : g[u] = LeftCalls[u]
      BY <2>1, <2>2, <2>4, <2>7
    <3>2. CallsUpTo(g) = CallsUpTo(LeftCalls)
      BY <3>1, SameCalls
    <3> QED BY <1>3, <1>4, <2>5, <2>7, <3>2
  <2> QED BY <2>6, <2>7
<1>8. Sleepers \subseteq Threads /\ Sleepers' \subseteq Threads
  BY DEF Sleepers
<1>9. CASE t \in Sleepers <=> t \in Sleepers'
  <2>1. Sleepers' = Sleepers
    BY <1>2, <1>8, <1>9
  <2> QED BY <1>3, <1>5, <1>6, <1>7, <1>9, <2>1
<1>10. CASE t \notin Sleepers /\ t \in Sleepers'
  <2>1. Sleepers' = Sleepers \cup {t}
    BY <1>2, <1>8, <1>10
  <2>2. IsFiniteSet(Sleepers') /\ Cardinality(Sleepers') = Cardinality(Sleepers) + 1
    BY <1>3, <1>10, <2>1, FS_AddElement
  <2> QED BY <1>3, <1>5, <1>6, <1>7, <1>10, <2>2
<1>11. CASE t \in Sleepers /\ t \notin Sleepers'
  <2>1. Sleepers' = Sleepers \ {t}
    BY <1>2, <1>8, <1>11
  <2>2. IsFiniteSet(Sleepers') /\ Cardinality(Sleepers') = Cardinality(Sleepers) - 1
    BY <1>3, <1>11, <2>1, FS_RemoveElement
  <2> QED BY <1>3, <1>5, <1>6, <1>7, <1>11, <2>2
<1> QED BY <1>9, <1>10, <1>11

\* What else a step that counts has to keep.
LEMMA CountTypesStep ==
  ASSUME BarrierInv, NEW t \in Threads, NEW f, NEW l, Moves(t, f, l),
         Coming(t)' => Coming(t), Staying(t)' => Staying(t), current' \in Int, breeched' \in Nat, serials' \in Nat
  PROVE  CountTypes'
<1>1. /\ IsFiniteSet(CallsUpTo(BegunCalls)') /\ IsFiniteSet(CallsUpTo(ArrivedCalls)')
      /\ IsFiniteSet(CallsUpTo(LeftCalls)') /\ IsFiniteSet(Sleepers')
  BY CountsMove
<1> QED BY <1>1 DEF CountTypes

LEMMA BarrierArriveStep ==
  ASSUME FreshNodes, BarrierInv, LockInv', NEW t \in Threads, BarrierArrive(t) PROVE BarrierInv'
<1> DEFINE l == IF current' = 0 THEN "posting" ELSE "sleeping"
           base == serials * Height
<1>1. /\ op[t] = "barrier_wait" /\ pc[t] = "arriving" /\ at[Node(t)] = "held" /\ Node(t) \in Nodes \ {Proxy}
      /\ current' = current - 1 /\ UNCHANGED <<breeched, barrier, serials>>
  BY OwnNode DEF BarrierArrive, In, Acquired, BarrierInv
<1>2. Moves(t, "barrier_wait", l)
  BY <1>1 DEF BarrierArrive, Goto, Moves, BarrierInv, Calling
<1>3. pc'[t] = l /\ op'[t] = "barrier_wait" /\ \A u \in Threads \ {t} : Posting(u)' = Posting(u) /\ Leaving(u)' = Leaving(u)
  BY <1>2, BarrierMoves DEF BarrierInv
<1>4. /\ Coming(t) /\ ~Coming(t)' /\ Staying(t) /\ Staying(t)' /\ t \notin Sleepers /\ ~Leaving(t)'
      /\ (t \in Sleepers' <=> l = "sleeping") /\ (Posting(t)' <=> l = "posting")
  BY <1>1, <1>3 DEF Coming, Staying, Waiting, Inside, Posting, Leaving, Sleepers, In
<1>5. barrier = "valid"
  BY <1>4, BarrierIsValid
<1>6. ~Opens
  BY <1>1, ClosedWhileHeld DEF BarrierInv
<1>7. /\ current \in 1..Height /\ breeched = 0 /\ Height \in Nat \ {0}
      /\ Cardinality(CallsUpTo(ArrivedCalls)) = base + (Height - current)
      /\ Cardinality(CallsUpTo(LeftCalls)) = base
      /\ Cardinality(Sleepers) = Height - current
      /\ \A u \in Threads : ~Posting(u) /\ ~Leaving(u)
  BY <1>6, BarrierAssumption DEF BarrierInv, Rounds
<1>8. base \in Nat /\ base' = base /\ serials \in Nat
  BY <1>1, <1>7 DEF BarrierInv, CountTypes
<1>9. CountTypes'
  BY <1>1, <1>2, <1>4, <1>7, <1>8, CountTypesStep
<1>10. Opens' <=> current' = 0
  <2>1. CASE current' = 0
    <3>1. ptw32_mcs_node_transfer(Proxy, Node(t))
      BY <2>1 DEF BarrierArrive
    <3>2. at'[Proxy] = "held" \/ at'[Node(t)] = "moving"
      BY <1>1, <3>1 DEF ptw32_mcs_node_transfer, BarrierInv, LockInv, QueueInv, McsTypes, Nodes
    <3> QED BY <1>1, <2>1, <3>2 DEF Opens
  <2>2. CASE current' # 0
    <3>1. at' = [at EXCEPT ![Node(t)] = IF next[Node(t)] = NoNode THEN "swap" ELSE "pass"]
      BY <2>2 DEF BarrierArrive, ptw32_mcs_lock_release
    <3>2. Opens' = Opens
      BY <1>1, <3>1, OpensKept DEF BarrierInv
    <3> QED BY <1>6, <2>2, <3>2
  <2> QED BY <2>1, <2>2
<1>11. /\ Cardinality(CallsUpTo(ArrivedCalls)') = base + (Height - current) + 1
       /\ Cardinality(CallsUpTo(LeftCalls)') = base
       /\ t \in Sleepers' => Cardinality(Sleepers') = Height - current + 1
       /\ t \notin Sleepers' => Sleepers' = Sleepers
  BY <1>2, <1>4, <1>7, <1>8, CountsMove
<1>12. Rounds'
  <2> HIDE DEF base
  <2>1. CASE current' = 0
    <3>1. /\ current' \in 0..(Height - 1) /\ Posting(t)'
          /\ Cardinality(CallsUpTo(ArrivedCalls)') = base' + Height
          /\ Cardinality(CallsUpTo(LeftCalls)') = base' + current'
          /\ Cardinality(Sleepers') = breeched' + (Height - 1)
      BY <1>1, <1>4, <1>7, <1>8, <1>11, <2>1
    <3>2. \A v, u \in Threads : Posting(v)' => breeched' = 0 /\ ~Leaving(u)' /\ (Posting(u)' => u = v)
      BY <1>1, <1>3, <1>4, <1>7
    <3> QED BY <1>10, <2>1, <3>1, <3>2 DEF Rounds, base
  <2>2. CASE current' # 0
    <3>1. /\ current' \in 1..Height /\ breeched' = 0
          /\ Cardinality(CallsUpTo(ArrivedCalls)') = base' + (Height - current')
          /\ Cardinality(CallsUpTo(LeftCalls)') = base'
          /\ Cardinality(Sleepers') = Height - current'
      BY <1>1, <1>4, <1>7, <1>8, <1>11, <2>2
    <3>2. \A u \in Threads : ~Posting(u)' /\ ~Leaving(u)'
      BY <1>3, <1>4, <1>7, <2>2
    <3> QED BY <1>10, <2>2, <3>1, <3>2 DEF Rounds, base
  <2> QED BY <2>1, <2>2
<1>13. Calling'
  BY <1>1, <1>2, CallingMoves DEF BarrierInv
<1>14. Closed'
  BY <1>1, <1>5 DEF Closed
<1> QED BY <1>9, <1>12, <1>13, <1>14 DEF BarrierInv

LEMMA BarrierPostStep ==
  ASSUME FreshNodes, BarrierInv, LockInv', NEW t \in Threads, BarrierPost(t) PROVE BarrierInv'
<1> DEFINE base == serials * Height
<1>1. /\ op[t] = "barrier_wait" /\ pc[t] = "posting" /\ breeched' = breeched + Height - 1
      /\ UNCHANGED <<mcsVars, current, barrier, serials>>
  BY DEF BarrierPost, In
<1>2. Moves(t, "barrier_wait", "leaving")
  BY <1>1 DEF BarrierPost, Goto, Moves, BarrierInv, Calling
<1>3. pc'[t] = "leaving" /\ op'[t] = "barrier_wait" /\ \A u \in Threads \ {t} : Posting(u)' = Posting(u) /\ Leaving(u)' = Leaving(u)
  BY <1>2, BarrierMoves DEF BarrierInv
<1>4. /\ ~Coming(t) /\ ~Coming(t)' /\ Staying(t) /\ Staying(t)' /\ t \notin Sleepers /\ t \notin Sleepers'
      /\ Posting(t) /\ ~Posting(t)'
  BY <1>1, <1>3 DEF Coming, Staying, Waiting, Inside, Posting, Sleepers, In
<1>5. barrier = "valid"
  BY <1>4, BarrierIsValid
<1>6. Opens /\ Opens'
  BY <1>1, <1>4 DEF BarrierInv, Rounds, Opens, mcsVars
<1>7. /\ current \in 0..(Height - 1) /\ breeched = 0 /\ Height \in Nat \ {0}
      /\ Cardinality(CallsUpTo(ArrivedCalls)) = base + Height
      /\ Cardinality(CallsUpTo(LeftCalls)) = base + current
      /\ Cardinality(Sleepers) = breeched + (Height - 1)
      /\ \A u \in Threads : Posting(u) => u = t
  BY <1>4, <1>6, BarrierAssumption DEF BarrierInv, Rounds
<1>8. base \in Nat /\ base' = base /\ serials \in Nat /\ breeched' \in Nat
  BY <1>1, <1>7 DEF BarrierInv, CountTypes
<1>9. CountTypes'
  BY <1>1, <1>2, <1>4, <1>7, <1>8, CountTypesStep
<1>10. /\ Cardinality(CallsUpTo(ArrivedCalls)') = base + Height
       /\ Cardinality(CallsUpTo(LeftCalls)') = base + current
       /\ Sleepers' = Sleepers
  BY <1>2, <1>4, <1>7, <1>8, CountsMove
<1>11. Rounds'
  <2>1. \A u \in Threads : ~Posting(u)'
    BY <1>3, <1>4, <1>7
  <2> HIDE DEF base
  <2>2. /\ current' \in 0..(Height - 1)
        /\ Cardinality(CallsUpTo(ArrivedCalls)') = base' + Height
        /\ Cardinality(CallsUpTo(LeftCalls)') = base' + current'
        /\ Cardinality(Sleepers') = breeched' + 0
    BY <1>1, <1>7, <1>8, <1>10
  <2> QED BY <1>6, <2>1, <2>2 DEF Rounds, base
<1>12. Calling'
  BY <1>1, <1>2, CallingMoves DEF BarrierInv
<1>13. Closed'
  BY <1>1, <1>5 DEF Closed
<1> QED BY <1>9, <1>11, <1>12, <1>13 DEF BarrierInv

LEMMA BarrierSleepStep ==
  ASSUME FreshNodes, BarrierInv, LockInv', NEW t \in Threads, BarrierSleep(t) PROVE BarrierInv'
<1> DEFINE base == serials * Height
<1>1. /\ op[t] = "barrier_wait" /\ pc[t] = "sleeping" /\ breeched > 0 /\ breeched' = breeched - 1
      /\ UNCHANGED <<mcsVars, current, barrier, serials>>
  BY DEF BarrierSleep, In
<1>2. Moves(t, "barrier_wait", "leaving")
  BY <1>1 DEF BarrierSleep, Goto, Moves, BarrierInv, Calling
<1>3. pc'[t] = "leaving" /\ op'[t] = "barrier_wait" /\ \A u \in Threads \ {t} : Posting(u)' = Posting(u) /\ Leaving(u)' = Leaving(u)
  BY <1>2, BarrierMoves DEF BarrierInv
<1>4. /\ ~Coming(t) /\ ~Coming(t)' /\ Staying(t) /\ Staying(t)' /\ t \in Sleepers /\ t \notin Sleepers'
      /\ ~Posting(t)'
  BY <1>1, <1>3 DEF Coming, Staying, Waiting, Inside, Posting, Sleepers, In
<1>5. barrier = "valid"
  BY <1>4, BarrierIsValid
<1>6. Opens /\ Opens' /\ breeched \in Nat
  BY <1>1 DEF BarrierInv, Rounds, Opens, mcsVars, CountTypes
<1>7. \A u \in Threads : ~Posting(u)
  BY <1>1, <1>6 DEF BarrierInv, Rounds
<1>8. /\ current \in 0..(Height - 1) /\ Height \in Nat \ {0}
      /\ Cardinality(CallsUpTo(ArrivedCalls)) = base + Height
      /\ Cardinality(CallsUpTo(LeftCalls)) = base + current
      /\ Cardinality(Sleepers) = breeched
  BY <1>6, <1>7, BarrierAssumption DEF BarrierInv, Rounds
<1>9. base \in Nat /\ base' = base /\ serials \in Nat /\ breeched' \in Nat
  BY <1>1, <1>6, <1>8 DEF BarrierInv, CountTypes
<1>10. CountTypes'
  BY <1>1, <1>2, <1>4, <1>8, <1>9, CountTypesStep
<1>11. /\ Cardinality(CallsUpTo(ArrivedCalls)') = base + Height
       /\ Cardinality(CallsUpTo(LeftCalls)') = base + current
       /\ Cardinality(Sleepers') = breeched - 1
  BY <1>2, <1>4, <1>8, <1>9, CountsMove
<1>12. Rounds'
  <2>1. \A u \in Threads : ~Posting(u)'
    BY <1>3, <1>4, <1>7
  <2> HIDE DEF base
  <2>2. /\ current' \in 0..(Height - 1)
        /\ Cardinality(CallsUpTo(ArrivedCalls)') = base' + Height
        /\ Cardinality(CallsUpTo(LeftCalls)') = base' + current'
        /\ Cardinality(Sleepers') = breeched' + 0
    BY <1>1, <1>6, <1>8, <1>9, <1>11
  <2> QED BY <1>6, <2>1, <2>2 DEF Rounds, base
<1>13. Calling'
  BY <1>1, <1>2, CallingMoves DEF BarrierInv
<1>14. Closed'
  BY <1>1, <1>5 DEF Closed
<1> QED BY <1>10, <1>12, <1>13, <1>14 DEF BarrierInv

\* A call that has arrived and not left is one of those counted.
LEMMA StaysCounted ==
  ASSUME BarrierInv, NEW t \in Threads, Staying(t), ~Coming(t)
  PROVE  <<t, Begun(t)>> \in CallsUpTo(ArrivedCalls) /\ <<t, Begun(t)>> \notin CallsUpTo(LeftCalls)
<1>1. op[t] = "barrier_wait"
  BY DEF Staying, Waiting
<1>2. Begun(t) \in Nat \ {0} /\ ArrivedCalls[t] = Begun(t) /\ LeftCalls[t] = Begun(t) - 1
  BY <1>1, CallNumbers DEF BarrierInv
<1>3. <<t, Begun(t)>> \in {t} \X (1..ArrivedCalls[t]) /\ Begun(t) \notin 1..LeftCalls[t]
  BY <1>2
<1>4. {t} \X (1..ArrivedCalls[t]) \in {{u} \X (1..ArrivedCalls[u]) : u \in Threads}
  OBVIOUS
<1>5. <<t, Begun(t)>> \in CallsUpTo(ArrivedCalls)
  BY <1>3, <1>4 DEF CallsUpTo
<1>6. <<t, Begun(t)>> \notin CallsUpTo(LeftCalls)
  BY <1>3 DEF CallsUpTo
<1> QED BY <1>5, <1>6

\* When the last of a round leaves, nobody else of that round is in the barrier.
LEMMA LastToLeave ==
  ASSUME BarrierInv, NEW t \in Threads, Leaving(t), current + 1 = Height
  PROVE  \A u \in Threads \ {t} : Staying(u) => Coming(u)
<1> SUFFICES ASSUME NEW u \in Threads \ {t}, Staying(u), ~Coming(u) PROVE FALSE
  OBVIOUS
<1> DEFINE A == CallsUpTo(ArrivedCalls)
           L == CallsUpTo(LeftCalls)
           x == <<t, Begun(t)>>
           y == <<u, Begun(u)>>
           base == serials * Height
<1>1. Staying(t) /\ ~Coming(t)
  BY DEF Leaving, Staying, Waiting, Inside, Coming, In
<1>2. x \in A /\ x \notin L /\ y \in A /\ y \notin L /\ x # y
  BY <1>1, StaysCounted
<1>3. IsFiniteSet(A) /\ IsFiniteSet(L) /\ serials \in Nat /\ current \in Int /\ Height \in Nat
  BY BarrierAssumption DEF BarrierInv, CountTypes
<1>4. Opens
  BY DEF BarrierInv, Rounds
<1>5. Cardinality(A) = base + Height /\ Cardinality(L) = base + current /\ base \in Nat
  BY <1>3, <1>4 DEF BarrierInv, Rounds
<1>6. L \subseteq A
  <2>1. \A v \in Threads : /\ LeftCalls[v] \in Int /\ ArrivedCalls[v] \in Int /\ Begun(v) \in Nat
                           /\ ArrivedCalls[v] = Begun(v) - IF Coming(v) THEN 1 ELSE 0
                           /\ LeftCalls[v] = Begun(v) - IF Staying(v) THEN 1 ELSE 0
    BY CallNumbers DEF BarrierInv
  <2>2. \A v \in Threads : Coming(v) => Staying(v)
    BY DEF Coming, Staying, Waiting, Inside
  <2>3. \A v \in Threads : LeftCalls[v] \in Int /\ ArrivedCalls[v] \in Int /\ LeftCalls[v] <= ArrivedCalls[v]
    BY <2>1, <2>2
  <2> QED BY <1>3, <2>3, FewerCalls
<1> HIDE DEF A, L, x, y, base
<1>7. IsFiniteSet(L \cup {x}) /\ Cardinality(L \cup {x}) = Cardinality(L) + 1
  BY <1>2, <1>3, FS_AddElement
<1>8. L \cup {x} \in SUBSET A /\ Cardinality(A) = Cardinality(L \cup {x})
  BY <1>2, <1>3, <1>5, <1>6, <1>7
<1>9. A = L \cup {x}
  BY <1>3, <1>8, FS_Subset
<1> QED BY <1>2, <1>9

LEMMA BarrierLeaveStep ==
  ASSUME FreshNodes, BarrierInv, LockInv', NEW t \in Threads, BarrierLeave(t) PROVE BarrierInv'
<1> DEFINE base == serials * Height
           last == current' = Height
           f == IF last THEN "barrier_wait" ELSE "none"
           l == IF last THEN "opening" ELSE "idle"
<1>1. /\ op[t] = "barrier_wait" /\ pc[t] = "leaving" /\ current' = current + 1 /\ UNCHANGED <<breeched, barrier>>
      /\ serials' = IF last THEN serials + 1 ELSE serials
  BY DEF BarrierLeave, In
<1>2. Moves(t, f, l)
  BY <1>1 DEF BarrierLeave, Goto, Return, ReturnHolding, Moves, BarrierInv, Calling
<1>3. pc'[t] = l /\ op'[t] = f /\ \A u \in Threads \ {t} : Posting(u)' = Posting(u) /\ Leaving(u)' = Leaving(u)
  BY <1>2, BarrierMoves DEF BarrierInv
<1>4. /\ ~Coming(t) /\ ~Coming(t)' /\ Staying(t) /\ ~Staying(t)' /\ t \notin Sleepers /\ t \notin Sleepers'
      /\ Leaving(t) /\ ~Posting(t)' /\ ~Leaving(t)'
  BY <1>1, <1>3 DEF Coming, Staying, Waiting, Inside, Posting, Leaving, Sleepers, In
<1>5. barrier = "valid"
  BY <1>4, BarrierIsValid
<1>6. Opens
  BY <1>4 DEF BarrierInv, Rounds
<1>7. \A u \in Threads : ~Posting(u)
  BY <1>4, <1>6 DEF BarrierInv, Rounds
<1>8. /\ current \in 0..(Height - 1) /\ Height \in Nat \ {0}
      /\ Cardinality(CallsUpTo(ArrivedCalls)) = base + Height
      /\ Cardinality(CallsUpTo(LeftCalls)) = base + current
      /\ Cardinality(Sleepers) = breeched
  BY <1>6, <1>7, BarrierAssumption DEF BarrierInv, Rounds, CountTypes
<1>9. base \in Nat /\ serials \in Nat /\ breeched \in Nat
  BY <1>8 DEF BarrierInv, CountTypes
<1>10. CountTypes'
  BY <1>1, <1>2, <1>4, <1>8, <1>9, CountTypesStep
<1>11. /\ Cardinality(CallsUpTo(ArrivedCalls)') = base + Height
       /\ Cardinality(CallsUpTo(LeftCalls)') = base + current + 1
       /\ Sleepers' = Sleepers
  BY <1>2, <1>4, <1>8, <1>9, CountsMove
<1>12. Rounds'
  <2>1. CASE last
    <3>1. ptw32_mcs_lock_release(Proxy)
      BY <2>1 DEF BarrierLeave
    <3>2. Proxy \in Nodes /\ {m \in Nodes : at[m] \in Holding} = {Proxy}
      BY <3>1, HolderIsFirst DEF ptw32_mcs_lock_release, BarrierInv, LockInv, Holding, Nodes
    <3>3. ~Opens'
      <4>1. at' = [at EXCEPT ![Proxy] = IF next[Proxy] = NoNode THEN "swap" ELSE "pass"]
        BY <3>1 DEF ptw32_mcs_lock_release
      <4>2. at'[Proxy] # "held" /\ at'[Proxy] # "moving" /\ \A m \in Nodes \ {Proxy} : at'[m] = at[m]
        BY <3>2, <4>1 DEF BarrierInv, LockInv, QueueInv, McsTypes
      <4>3. \A m \in Nodes \ {Proxy} : at[m] # "moving"
        BY <3>2 DEF Holding
      <4> QED BY <4>2, <4>3 DEF Opens
    <3>4. current + 1 = Height
      BY <1>1, <2>1
    <3>5. \A u \in Threads \ {t} : Staying(u) => Coming(u)
      BY <1>4, <3>4, LastToLeave
    <3>6. Sleepers = {} /\ \A u \in Threads \ {t} : ~Leaving(u)
      <4>1. \A u \in Threads : u \in Sleepers \/ Leaving(u) => Staying(u) /\ ~Coming(u)
        BY DEF Sleepers, Leaving, Staying, Waiting, Inside, Coming, In
      <4>2. Sleepers \subseteq Threads
        BY DEF Sleepers
      <4> QED BY <1>4, <3>5, <4>1, <4>2
    <3>7. breeched = 0
      BY <1>8, <3>6, FS_EmptySet
    <3>8. serials' * Height = base + Height
      BY <1>1, <1>8, <1>9, <2>1
    <3> HIDE DEF base
    <3>9. /\ current' \in 1..Height /\ breeched' = 0
          /\ Cardinality(CallsUpTo(ArrivedCalls)') = serials' * Height + (Height - current')
          /\ Cardinality(CallsUpTo(LeftCalls)') = serials' * Height
          /\ Cardinality(Sleepers') = Height - current'
      BY <1>1, <1>8, <1>9, <1>11, <2>1, <3>4, <3>6, <3>7, <3>8, FS_EmptySet
    <3>10. \A u \in Threads : ~Posting(u)' /\ ~Leaving(u)'
      BY <1>3, <1>4, <1>7, <3>6
    <3> QED BY <3>3, <3>9, <3>10 DEF Rounds
  <2>2. CASE ~last
    <3>1. Opens'
      BY <1>6, <2>2 DEF BarrierLeave, mcsVars, Opens
    <3>2. \A u \in Threads : ~Posting(u)'
      BY <1>3, <1>4, <1>7
    <3>3. base' = base
      BY <1>1, <2>2
    <3> HIDE DEF base
    <3>4. /\ current' \in 0..(Height - 1)
          /\ Cardinality(CallsUpTo(ArrivedCalls)') = base' + Height
          /\ Cardinality(CallsUpTo(LeftCalls)') = base' + current'
          /\ Cardinality(Sleepers') = breeched' + 0
      BY <1>1, <1>8, <1>9, <1>11, <2>2, <3>3
    <3> QED BY <3>1, <3>2, <3>4 DEF Rounds, base
  <2> QED BY <2>1, <2>2
<1>13. Calling'
  BY <1>1, <1>2, CallingMoves DEF BarrierInv
<1>14. Closed'
  BY <1>1, <1>5 DEF Closed
<1> QED BY <1>10, <1>12, <1>13, <1>14 DEF BarrierInv

\* A step of a call of pthread_barrier_destroy: it counts nothing.
LEMMA DestroyMove ==
  ASSUME BarrierInv, NEW t \in Threads, NEW f, NEW l, Moves(t, f, l), op[t] = "barrier_destroy", f # "barrier_wait",
         Opens' = Opens, UNCHANGED <<current, breeched, serials>>
  PROVE  CountTypes' /\ Rounds' /\ ~Staying(t)'
<1>1. pc'[t] = l /\ op'[t] = f
  BY BarrierMoves DEF BarrierInv
<1>2. /\ ~Coming(t) /\ ~Coming(t)' /\ ~Staying(t) /\ ~Staying(t)' /\ ~Posting(t) /\ ~Posting(t)'
      /\ ~Leaving(t) /\ ~Leaving(t)' /\ t \notin Sleepers /\ t \notin Sleepers'
  BY <1>1 DEF Coming, Staying, Waiting, Inside, Posting, Leaving, Sleepers, In
<1>3. /\ Coming(t)' = Coming(t) /\ Staying(t)' = Staying(t) /\ Posting(t)' = Posting(t)
      /\ Leaving(t)' = Leaving(t) /\ (t \in Sleepers' <=> t \in Sleepers)
  BY <1>2 DEF Coming, Staying, Posting, Leaving, In
<1> QED BY <1>2, <1>3, PlainMove

LEMMA DestroyReturns ==
  ASSUME BarrierInv, LockInv', NEW t \in Threads, NEW r, op[t] = "barrier_destroy", Return(t, r),
         UNCHANGED <<mcsVars, current, breeched, serials>>, barrier' # "valid" <=> barrier # "valid"
  PROVE  BarrierInv'
<1>1. Moves(t, "none", "idle") /\ pc[t] # "idle"
  BY DEF Return, ReturnHolding, Moves, BarrierInv, Calling
<1>2. Opens' = Opens /\ UNCHANGED at
  BY DEF Opens, mcsVars
<1>3. CountTypes' /\ Rounds' /\ ~Staying(t)'
  BY <1>1, <1>2, DestroyMove
<1>4. Calling'
  BY <1>1, CallingMoves DEF BarrierInv
<1>5. Closed'
  BY <1>1, <1>2, <1>3, ClosedKept DEF BarrierInv, Closed
<1> QED BY <1>3, <1>4, <1>5 DEF BarrierInv

LEMMA BarrierDestroyStep ==
  ASSUME FreshNodes, BarrierInv, LockInv', NEW t \in Threads, BarrierDestroy(t) PROVE BarrierInv'
<1>1. op[t] = "barrier_destroy" /\ pc[t] = "enter" /\ UNCHANGED <<current, breeched, serials>>
  BY DEF BarrierDestroy, In
<1>2. CASE barrier # "valid" \/ tail # NoNode
  <2>1. (Return(t, "EINVAL") \/ Return(t, "EBUSY")) /\ UNCHANGED <<mcsVars, barrier>>
    BY <1>2 DEF BarrierDestroy
  <2> QED BY <1>1, <2>1, DestroyReturns DEF mcsVars
<1>3. CASE barrier = "valid" /\ tail = NoNode
  <2> DEFINE l == IF current < Height THEN "busy" ELSE "destroy"
  <2>1. /\ ptw32_mcs_lock_acquire(Node(t)) /\ Goto(t, l)
        /\ barrier' = IF current < Height THEN barrier ELSE "invalid"
    BY <1>3 DEF BarrierDestroy, ptw32_mcs_lock_try_acquire
  <2>2. Moves(t, "barrier_destroy", l)
    BY <1>1, <2>1 DEF Goto, Moves, BarrierInv, Calling
  <2>3. Node(t) \in Nodes \ {Proxy}
    BY <1>1, OwnNode DEF BarrierInv
  <2>4. ~Opens /\ \A n \in Nodes : at[n] = "out"
    BY <1>3, ClosedWhileFree DEF BarrierInv
  <2>5. Opens' = Opens /\ at'[Proxy] = "out"
    <3>1. Proxy \in Nodes
      BY DEF Nodes
    <3> QED BY <2>1, <2>3, <2>4, <3>1, OpensKept DEF BarrierInv, ptw32_mcs_lock_acquire
  <2>6. CountTypes' /\ Rounds' /\ ~Staying(t)'
    BY <1>1, <2>2, <2>5, DestroyMove
  <2>7. l = "destroy" => barrier' # "valid"
    BY <2>1
  <2>8. Calling'
    BY <1>1, <1>3, <2>2, <2>7, CallingMoves DEF BarrierInv
  <2>9. Closed'
    <3>1. CASE current < Height
      BY <1>3, <2>1, <3>1 DEF Closed
    <3>2. CASE ~(current < Height)
      <4>1. current = Height /\ Cardinality(Sleepers) = 0 /\ \A u \in Threads : ~Posting(u) /\ ~Leaving(u)
        BY <2>4, <3>2, BarrierAssumption DEF BarrierInv, Rounds
      <4>2. Sleepers = {}
        BY <4>1, FS_EmptySet DEF BarrierInv, CountTypes
      <4>3. \A u \in Threads : calls[u] >= Waits[u] /\ ~In(u, "barrier_wait", "enter")
        BY <1>1 DEF BarrierInv, Calling
      <4>4. ASSUME NEW u \in Threads, Staying(u) PROVE FALSE
        <5>1. op[u] = "barrier_wait" /\ pc[u] # "opening" /\ pc[u] # "idle"
          BY <4>4 DEF Staying, Waiting, Inside
        <5>2. at[Node(u)] \in Stages[pc[u]] /\ at[Node(u)] = "out"
          BY <2>4, <5>1, OwnNode DEF BarrierInv
        <5>3. pc[u] = "arriving"
          BY <4>1, <4>2, <4>3, <5>1 DEF BarrierInv, Calling, Sleepers, Posting, Leaving, In
        <5> QED BY <5>2, <5>3 DEF Stages, Queued
      <4>5. \A u \in Threads : ~Staying(u)'
        BY <2>2, <2>6, <4>4, BarrierMoves DEF BarrierInv
      <4> QED BY <2>2, <2>5, <4>3, <4>5 DEF Closed, Moves
    <3> QED BY <3>1, <3>2
  <2> QED BY <2>6, <2>8, <2>9 DEF BarrierInv
<1> QED BY <1>2, <1>3

LEMMA BarrierReleaseStep ==
  ASSUME FreshNodes, BarrierInv, LockInv', NEW t \in Threads, BarrierRelease(t) PROVE BarrierInv'
<1>1. op[t] = "barrier_destroy" /\ UNCHANGED <<current, breeched, serials>>
  BY DEF BarrierRelease
<1>2. CASE pc[t] \in {"busy", "destroy"}
  <2> DEFINE l == IF pc[t] = "busy" THEN "stays" ELSE "free"
  <2>1. ptw32_mcs_lock_release(Node(t)) /\ Goto(t, l) /\ UNCHANGED barrier
    BY <1>2 DEF BarrierRelease
  <2>2. Moves(t, "barrier_destroy", l)
    BY <1>1, <2>1 DEF Goto, Moves, BarrierInv, Calling
  <2>3. Node(t) \in Nodes \ {Proxy}
    BY <1>2, OwnNode DEF BarrierInv
  <2>4. Opens' = Opens /\ at'[Proxy] = at[Proxy]
    <3>1. at' = [at EXCEPT ![Node(t)] = IF next[Node(t)] = NoNode THEN "swap" ELSE "pass"] /\ at[Node(t)] = "held"
      BY <2>1 DEF ptw32_mcs_lock_release
    <3> QED BY <2>3, <3>1, OpensKept DEF BarrierInv
  <2>5. CountTypes' /\ Rounds' /\ ~Staying(t)'
    BY <1>1, <2>2, <2>4, DestroyMove
  <2>6. l = "free" => barrier' # "valid"
    BY <1>1, <1>2, <2>1 DEF BarrierInv, Calling
  <2>7. Calling'
    BY <1>1, <1>2, <2>1, <2>2, <2>6, CallingMoves DEF BarrierInv
  <2>8. Closed'
    BY <2>1, <2>2, <2>4, <2>5, ClosedKept DEF BarrierInv, Closed
  <2> QED BY <2>5, <2>7, <2>8 DEF BarrierInv
<1>3. CASE pc[t] = "stays"
  <2>1. Return(t, "EBUSY") /\ UNCHANGED <<mcsVars, barrier>>
    BY <1>3 DEF BarrierRelease
  <2> QED BY <1>1, <2>1, DestroyReturns DEF mcsVars
<1>4. CASE pc[t] = "free"
  <2>1. Return(t, "0") /\ barrier' = "freed" /\ UNCHANGED mcsVars
    BY <1>4 DEF BarrierRelease
  <2>2. barrier # "valid"
    BY <1>1, <1>4 DEF BarrierInv, Calling
  <2> QED BY <1>1, <2>1, <2>2, DestroyReturns DEF mcsVars
<1> QED BY <1>2, <1>3, <1>4 DEF BarrierRelease

\* The steps of the lock, by a thread that stays where it is.
LEMMA BarrierLockSteps ==
  ASSUME FreshNodes, BarrierInv, LockInv', NEW t \in Threads, UNCHANGED <<callVars, barrierVars>>,
         \/ Inside(t) /\ McsStep(Node(t))
         \/ In(t, "barrier_wait", "opening") /\ McsStep(Proxy)
  PROVE  BarrierInv'
<1>1. Moves(t, op[t], pc[t]) /\ UNCHANGED barrier /\ UNCHANGED <<current, breeched, serials>>
  BY DEF callVars, barrierVars, Moves, BarrierInv, LockInv, Places, Calling
<1>2. UNCHANGED <<pc, op, calls>>
  BY DEF callVars
<1>3. Opens' = Opens /\ (barrier # "valid" => at'[Proxy] = "out")
  <2>1. CASE In(t, "barrier_wait", "opening") /\ McsStep(Proxy)
    <3>1. /\ at[Proxy] \in {"swap", "next", "pass"} /\ at'[Proxy] \in {"swap", "next", "pass", "out"}
          /\ \A m \in Nodes \ {Proxy} : at'[m] = at[m]
      BY <1>2, <2>1, ProxyStep DEF BarrierInv, In, Inside
    <3> QED BY <3>1 DEF Opens, BarrierInv, Closed
  <2>2. CASE Inside(t) /\ McsStep(Node(t))
    <3>1. Node(t) \in Nodes \ {Proxy} /\ at[Node(t)] \in Stages[pc[t]] /\ Proxy \in Nodes
      BY <2>2, OwnNode DEF BarrierInv, Inside, Nodes
    <3>2. CASE Move(Proxy, Node(t))
      <4>1. at[Node(t)] = "moving" /\ at'[Proxy] = "held"
        BY <3>1, <3>2 DEF Move, BarrierInv, LockInv, QueueInv, McsTypes
      <4>2. pc[t] = "posting"
        BY <3>1, <4>1 DEF Stages, Queued, BarrierInv, LockInv, Places
      <4>3. Staying(t)
        BY <4>2 DEF Staying, Waiting, Inside, BarrierInv, Calling
      <4>4. barrier = "valid"
        BY <4>3, BarrierIsValid
      <4> QED BY <3>1, <4>1, <4>4 DEF Opens
    <3>3. CASE ~Move(Proxy, Node(t))
      <4>1. PICK m \in {"telling", "ready", "held", "out", "next", "pass", at[Node(t)]} :
              at' = [at EXCEPT ![Node(t)] = m] /\ at[Node(t)] # "moving"
        <5>1. at = [at EXCEPT ![Node(t)] = at[Node(t)]]
          BY DEF BarrierInv, LockInv, QueueInv, McsTypes
        <5>2. CASE Link(Node(t)) \/ Tell(Node(t))
          BY <5>2 DEF Link, Tell
        <5>3. CASE FlagWait(Node(t), "ready", "held") \/ FlagWait(Node(t), "next", "pass")
          BY <5>1, <5>3 DEF FlagWait
        <5>4. CASE Swap(Node(t)) \/ Pass(Node(t))
          BY <5>4 DEF Swap, Pass
        <5> QED BY <2>2, <3>3, <5>2, <5>3, <5>4 DEF McsStep
      <4>2. Opens' = Opens /\ at'[Proxy] = at[Proxy]
        BY <3>1, <4>1, OpensKept DEF BarrierInv
      <4> QED BY <4>2 DEF BarrierInv, Closed
    <3> QED BY <3>2, <3>3
  <2> QED BY <2>1, <2>2
<1>4. /\ Coming(t)' = Coming(t) /\ Staying(t)' = Staying(t) /\ Posting(t)' = Posting(t) /\ Leaving(t)' = Leaving(t)
      /\ (t \in Sleepers' <=> t \in Sleepers)
  BY <1>2 DEF Coming, Staying, Waiting, Inside, Posting, Leaving, Sleepers, In
<1>5. CountTypes' /\ Rounds'
  BY <1>1, <1>3, <1>4, PlainMove
<1>6. Calling'
  BY <1>1, <1>2 DEF BarrierInv, Calling, In
<1>7. Closed'
  BY <1>1, <1>3, <1>4, ClosedKept
<1> QED BY <1>5, <1>6, <1>7 DEF BarrierInv

\* The program calls the library.
LEMMA BarrierCallStep ==
  ASSUME FreshNodes, BarrierInv, LockInv', NEW t \in Threads, BarrierCalls(t), UNCHANGED <<mcsVars, barrierVars>>
  PROVE  BarrierInv'
<1> DEFINE f == IF calls[t] < Waits[t] THEN "barrier_wait" ELSE "barrier_destroy"
<1>1. /\ Call(t, "barrier", f)
      /\ ~(calls[t] < Waits[t]) => \A u \in Threads : Begun(u) = Waits[u] /\ ~In(u, "barrier_wait", "enter")
  BY DEF BarrierCalls
<1>2. /\ pc[t] = "idle" /\ pc' = [pc EXCEPT ![t] = "enter"] /\ op' = [op EXCEPT ![t] = f]
      /\ calls' = [calls EXCEPT ![t] = @ + 1]
  BY <1>1 DEF Call, Idle
<1>3. /\ pc'[t] = "enter" /\ op'[t] = f /\ op[t] = "none" /\ calls'[t] = calls[t] + 1
      /\ \A u \in Threads \ {t} : pc'[u] = pc[u] /\ op'[u] = op[u] /\ calls'[u] = calls[u]
      /\ op' \in [Threads -> {"none", "barrier_wait", "barrier_destroy"}]
  BY <1>2 DEF BarrierInv, LockInv, Places, Calling
<1>4. \A u \in Threads : calls[u] \in Nat /\ Waits[u] \in Nat /\ Begun(u) \in Nat /\ calls'[u] \in Nat /\ calls'[u] >= calls[u]
  BY <1>3, CallNumbers DEF BarrierInv
<1>5. UNCHANGED <<current, breeched, serials>> /\ UNCHANGED barrier /\ UNCHANGED at
  BY DEF mcsVars, barrierVars
<1>6. \A u \in Threads \ {t} :
        /\ Begun(u)' = Begun(u) /\ Coming(u)' = Coming(u) /\ Staying(u)' = Staying(u)
        /\ In(u, "barrier_wait", "enter")' = In(u, "barrier_wait", "enter")
        /\ Posting(u)' = Posting(u) /\ Leaving(u)' = Leaving(u) /\ (u \in Sleepers' <=> u \in Sleepers)
  BY <1>3 DEF Begun, Coming, Staying, Waiting, Inside, Posting, Leaving, Sleepers, In
<1>7. /\ ~Coming(t) /\ ~Staying(t) /\ ~Posting(t) /\ ~Leaving(t) /\ t \notin Sleepers
      /\ ~Posting(t)' /\ ~Leaving(t)' /\ t \notin Sleepers'
      /\ (Coming(t)' <=> f = "barrier_wait") /\ (Staying(t)' <=> f = "barrier_wait")
  BY <1>3 DEF Coming, Staying, Waiting, Inside, Posting, Leaving, Sleepers, In
<1>8. Begun(t)' = Begun(t) + IF f = "barrier_wait" THEN 1 ELSE 0
  BY <1>3, <1>4 DEF Begun
<1>9. CountTypes' /\ Rounds'
  <2>1. \A u \in Threads : Posting(u)' = Posting(u) /\ Leaving(u)' = Leaving(u) /\ (u \in Sleepers' <=> u \in Sleepers)
    <3>1. Posting(t)' = Posting(t) /\ Leaving(t)' = Leaving(t)
      BY <1>7 DEF Posting, Leaving, In
    <3> QED BY <1>6, <1>7, <3>1
  <2>2. Sleepers' = Sleepers /\ Opens' = Opens
    BY <1>5, <2>1 DEF Sleepers, Opens
  <2>3. \A u \in Threads : /\ (Begun(u) - IF Coming(u) THEN 1 ELSE 0)' = Begun(u) - IF Coming(u) THEN 1 ELSE 0
                           /\ (Begun(u) - IF Staying(u) THEN 1 ELSE 0)' = Begun(u) - IF Staying(u) THEN 1 ELSE 0
    <3>1. ASSUME NEW u \in Threads
          PROVE  /\ Begun(u)' - (IF Coming(u)' THEN 1 ELSE 0) = Begun(u) - IF Coming(u) THEN 1 ELSE 0
                 /\ Begun(u)' - (IF Staying(u)' THEN 1 ELSE 0) = Begun(u) - IF Staying(u) THEN 1 ELSE 0
      <4>1. CASE u = t
        BY <1>4, <1>7, <1>8, <4>1
      <4>2. CASE u # t
        BY <1>6, <4>2
      <4> QED BY <4>1, <4>2
    <3> QED BY <3>1
  <2>4. ArrivedCalls' = ArrivedCalls /\ LeftCalls' = LeftCalls
    BY <2>3 DEF ArrivedCalls, LeftCalls
  <2>5. CallsUpTo(ArrivedCalls)' = CallsUpTo(ArrivedCalls) /\ CallsUpTo(LeftCalls)' = CallsUpTo(LeftCalls)
    BY <2>4 DEF CallsUpTo
  <2>6. IsFiniteSet(CallsUpTo(BegunCalls)')
    <3> DEFINE g == BegunCalls'
    <3>1. \A u \in Threads : g[u] = Begun(u)' /\ BegunCalls[u] = Begun(u)
      BY DEF BegunCalls
    <3>2. CallsUpTo(BegunCalls)' = CallsUpTo(g)
      BY DEF CallsUpTo
    <3>3. IsFiniteSet(CallsUpTo(BegunCalls))
      BY DEF BarrierInv, CountTypes
    <3> HIDE DEF g
    <3>4. CASE f = "barrier_wait"
      <4>1. BegunCalls[t] \in Nat /\ g[t] = BegunCalls[t] + 1 /\ \A u \in Threads \ {t} : g[u] = BegunCalls[u]
        BY <1>4, <1>6, <1>8, <3>1, <3>4
      <4> QED BY <3>2, <3>3, <4>1, OneCallMore
    <3>5. CASE f # "barrier_wait"
      <4>1. \A u \in Threads : g[u] = BegunCalls[u]
        BY <1>4, <1>6, <1>8, <3>1, <3>5
      <4>2. CallsUpTo(g) = CallsUpTo(BegunCalls)
        BY <4>1, SameCalls
      <4> QED BY <3>2, <3>3, <4>2
    <3> QED BY <3>4, <3>5
  <2> QED BY <1>5, <2>1, <2>2, <2>5, <2>6, CountsKept
<1>10. Calling'
  <2>1. f = "barrier_destroy" => \A u \in Threads : calls[u] >= Waits[u]
    BY <1>1, <1>4 DEF Begun
  <2>2. ASSUME NEW u \in Threads, op'[u] = "barrier_destroy", NEW v \in Threads
        PROVE  calls'[v] >= Waits[v] /\ ~In(v, "barrier_wait", "enter")'
    <3>1. calls[v] >= Waits[v] /\ ~In(v, "barrier_wait", "enter") /\ (v = t => f = "barrier_destroy")
      <4>1. CASE u = t
        BY <1>1, <1>3, <2>1, <2>2, <4>1
      <4>2. CASE u # t
        <5>1. \A w \in Threads : calls[w] >= Waits[w] /\ ~In(w, "barrier_wait", "enter")
          BY <1>3, <2>2, <4>2 DEF BarrierInv, Calling
        <5> QED BY <1>4, <5>1
      <4> QED BY <4>1, <4>2
    <3>2. CASE v = t
      BY <1>3, <1>4, <3>1, <3>2 DEF In
    <3>3. CASE v # t
      BY <1>3, <1>6, <3>1, <3>3
    <3> QED BY <3>2, <3>3
  <2>3. ASSUME NEW u \in Threads
        PROVE  /\ pc'[u] = "idle" <=> op'[u] = "none"
               /\ op'[u] = "barrier_wait" =>
                    /\ calls'[u] <= Waits[u]
                    /\ pc'[u] \in {"enter", "arriving", "posting", "sleeping", "leaving", "opening"}
               /\ op'[u] = "barrier_destroy" =>
                    /\ pc'[u] \in {"enter", "busy", "stays", "destroy", "free"}
                    /\ pc'[u] \in {"destroy", "free"} => barrier' # "valid"
    <3>1. CASE u = t
      BY <1>3, <1>4, <3>1
    <3>2. CASE u # t
      BY <1>3, <1>5, <3>2 DEF BarrierInv, Calling
    <3> QED BY <3>1, <3>2
  <2> QED BY <1>3, <2>2, <2>3 DEF Calling
<1>11. Closed'
  <2> SUFFICES ASSUME barrier # "valid" PROVE at[Proxy] = "out" /\ \A u \in Threads : calls'[u] >= Waits[u] /\ ~Staying(u)'
    BY <1>5 DEF Closed
  <2>1. at[Proxy] = "out" /\ \A u \in Threads : calls[u] >= Waits[u] /\ ~Staying(u)
    BY DEF BarrierInv, Closed
  <2>2. f = "barrier_destroy"
    BY <1>4, <2>1
  <2>3. \A u \in Threads : ~Staying(u)'
    BY <1>6, <1>7, <2>1, <2>2
  <2> QED BY <1>4, <2>1, <2>3
<1> QED BY <1>9, <1>10, <1>11 DEF BarrierInv

LEMMA BarrierInvStep ==
  ASSUME FreshNodes, BarrierInv, [BarrierProgram]_<<callVars, mcsVars, barrierVars>> PROVE BarrierInv'
<1>1. LockInv'
  BY BarrierLockStep DEF BarrierInv
<1>2. CASE UNCHANGED <<callVars, mcsVars, barrierVars>>
  <2>1. /\ \A u \in Threads : Posting(u)' = Posting(u) /\ Leaving(u)' = Leaving(u)
        /\ Sleepers' = Sleepers /\ Opens' = Opens /\ UNCHANGED <<current, breeched, serials>>
    BY <1>2 DEF callVars, mcsVars, barrierVars, Posting, Leaving, In, Sleepers, Opens
  <2>2. BegunCalls' = BegunCalls /\ ArrivedCalls' = ArrivedCalls /\ LeftCalls' = LeftCalls
    BY <1>2 DEF callVars, BegunCalls, ArrivedCalls, LeftCalls, Begun, Coming, Staying, Waiting, Inside
  <2>3. /\ CallsUpTo(BegunCalls)' = CallsUpTo(BegunCalls) /\ CallsUpTo(ArrivedCalls)' = CallsUpTo(ArrivedCalls)
        /\ CallsUpTo(LeftCalls)' = CallsUpTo(LeftCalls)
    BY <2>2 DEF CallsUpTo
  <2>4. IsFiniteSet(CallsUpTo(BegunCalls)')
    BY <2>3 DEF BarrierInv, CountTypes
  <2>5. CountTypes' /\ Rounds'
    BY <2>1, <2>3, <2>4, CountsKept
  <2>6. Calling' /\ Closed'
    BY <1>2 DEF callVars, mcsVars, barrierVars, BarrierInv, Calling, Closed, In, Staying, Waiting, Inside
  <2> QED BY <1>1, <2>5, <2>6 DEF BarrierInv
<1>3. ASSUME NEW t \in Threads, pthread_barrier_wait(t) PROVE BarrierInv'
  BY <1>1, <1>3, BarrierEnterStep, BarrierArriveStep, BarrierPostStep, BarrierSleepStep, BarrierLeaveStep,
     BarrierOpenedStep DEF pthread_barrier_wait
<1>4. ASSUME NEW t \in Threads, pthread_barrier_destroy(t) PROVE BarrierInv'
  BY <1>1, <1>4, BarrierDestroyStep, BarrierReleaseStep DEF pthread_barrier_destroy
<1>5. ASSUME NEW t \in Threads, UNCHANGED <<callVars, barrierVars>>,
             \/ Inside(t) /\ McsStep(Node(t))
             \/ In(t, "barrier_wait", "opening") /\ McsStep(Proxy)
      PROVE  BarrierInv'
  BY <1>1, <1>5, BarrierLockSteps
<1>6. ASSUME NEW t \in Threads, BarrierCalls(t), UNCHANGED <<mcsVars, barrierVars>> PROVE BarrierInv'
  BY <1>1, <1>6, BarrierCallStep
<1> QED BY <1>2, <1>3, <1>4, <1>5, <1>6 DEF BarrierProgram

\* A multiple of n that a number reaches is reached by the multiple below it.
LEMMA MultipleBelow ==
  ASSUME NEW b \in Nat, NEW k \in Nat, NEW n \in Nat \ {0}, k * n <= b PROVE k * n <= (b \div n) * n
<1> DEFINE q == b \div n
<1>1. q \in Nat /\ b < (q + 1) * n
  OBVIOUS
<1>2. k <= q
  <2> SUFFICES ASSUME q + 1 <= k PROVE FALSE
    BY <1>1
  <2> HIDE DEF q
  <2>1. (q + 1) * n <= k * n
    BY <1>1
  <2>2. (q + 1) * n \in Nat /\ k * n \in Nat
    BY <1>1
  <2> QED BY <1>1, <2>1, <2>2
<1> HIDE DEF q
<1>3. k * n <= q * n
  BY <1>1, <1>2
<1> QED BY <1>3 DEF q

LEMMA BarrierInvIsEnough == BarrierInv => BarrierInStep
<1> SUFFICES ASSUME BarrierInv PROVE BarrierInStep
  OBVIOUS
<1> DEFINE EndedCalls == [t \in Threads |-> Ended(t)]
           begun == Cardinality(CallsUpTo(BegunCalls))
           arrived == Cardinality(CallsUpTo(ArrivedCalls))
           left == Cardinality(CallsUpTo(LeftCalls))
           ended == Cardinality(CallsUpTo(EndedCalls))
           base == serials * Height
<1>1. /\ IsFiniteSet(CallsUpTo(BegunCalls)) /\ IsFiniteSet(CallsUpTo(ArrivedCalls))
      /\ IsFiniteSet(CallsUpTo(LeftCalls)) /\ serials \in Nat /\ Height \in Nat \ {0}
  BY BarrierAssumption DEF BarrierInv, CountTypes
<1>2. ASSUME NEW t \in Threads
      PROVE  /\ EndedCalls[t] \in Int /\ LeftCalls[t] \in Int /\ ArrivedCalls[t] \in Int /\ BegunCalls[t] \in Int
             /\ EndedCalls[t] <= LeftCalls[t] /\ ArrivedCalls[t] <= BegunCalls[t]
  <2>1. /\ Begun(t) \in Nat /\ BegunCalls[t] = Begun(t)
        /\ ArrivedCalls[t] = Begun(t) - IF Coming(t) THEN 1 ELSE 0
        /\ LeftCalls[t] = Begun(t) - IF Staying(t) THEN 1 ELSE 0
    BY CallNumbers DEF BarrierInv
  <2>2. EndedCalls[t] = Begun(t) - IF Waiting(t) THEN 1 ELSE 0
    BY DEF Ended
  <2>3. Staying(t) => Waiting(t)
    BY DEF Staying
  <2> QED BY <2>1, <2>2, <2>3
<1> HIDE DEF EndedCalls
<1>3. /\ ended <= left /\ arrived <= begun /\ IsFiniteSet(CallsUpTo(EndedCalls))
  <2>1. ended <= left /\ CallsUpTo(EndedCalls) \subseteq CallsUpTo(LeftCalls)
    BY <1>1, <1>2, FewerCalls
  <2>2. arrived <= begun
    BY <1>1, <1>2, FewerCalls
  <2> QED BY <1>1, <2>1, <2>2, FS_Subset
<1>4. ended \in Nat /\ left \in Nat /\ arrived \in Nat /\ begun \in Nat
  BY <1>1, <1>3, FS_CardinalityType
<1>5. base \in Nat /\ (serials + 1) * Height = base + Height
  BY <1>1
<1>6. \/ arrived >= base /\ left = base
      \/ arrived = base + Height /\ left = base + current /\ current \in 0..(Height - 1)
  BY <1>1, <1>4, <1>5 DEF BarrierInv, Rounds
<1>7. ended <= (begun \div Height) * Height
  <2> HIDE DEF ended, left, arrived, begun
  <2>1. CASE arrived >= base /\ left = base
    <3>1. serials * Height <= begun
      BY <1>3, <1>4, <1>5, <2>1
    <3>2. serials * Height <= (begun \div Height) * Height
      BY <1>1, <1>4, <3>1, MultipleBelow
    <3>3. (begun \div Height) \in Nat
      BY <1>1, <1>4
    <3>4. (begun \div Height) * Height \in Nat
      BY <1>1, <3>3
    <3> QED BY <1>3, <1>4, <1>5, <2>1, <3>2, <3>4
  <2>2. CASE arrived = base + Height /\ left = base + current /\ current \in 0..(Height - 1)
    <3>1. (serials + 1) * Height <= begun
      BY <1>3, <1>4, <1>5, <2>2
    <3>2. (serials + 1) * Height <= (begun \div Height) * Height
      <4>1. serials + 1 \in Nat
        BY <1>1
      <4> QED BY <1>1, <1>4, <3>1, <4>1, MultipleBelow
    <3>3. (begun \div Height) \in Nat
      BY <1>1, <1>4
    <3>4. (begun \div Height) * Height \in Nat
      BY <1>1, <3>3
    <3>5. ended <= base + Height
      BY <1>1, <1>3, <1>4, <1>5, <2>2
    <3> HIDE DEF base
    <3> QED BY <1>1, <1>4, <1>5, <3>2, <3>4, <3>5
  <2> QED BY <1>6, <2>1, <2>2
<1>8. ended < (serials + 1) * Height /\ serials * Height <= begun
  <2> HIDE DEF ended, left, arrived, begun
  <2>1. ended < base + Height /\ base <= begun
    <3> HIDE DEF base
    <3> QED BY <1>1, <1>3, <1>4, <1>5, <1>6
  <2> QED BY <1>5, <2>1
<1>9. barrier = "freed" => \A t \in Threads : Waiting(t) => pc[t] = "opening" /\ at[Proxy] = "out"
  BY DEF BarrierInv, Closed, Staying
<1> QED BY <1>7, <1>8, <1>9 DEF BarrierInStep, BegunCalls, EndedCalls

\* Whatever the number of threads, of calls and the height: no thread leaves a
\* barrier before its round is complete, one of each round is the serial one,
\* threads that come back early wait for the round to leave, and the barrier is
\* destroyed only when everybody in it has released its lock.
THEOREM BarrierStaysInStep == ASSUME FreshNodes PROVE BarrierSpec => []BarrierInStep
<1>1. CallsInit({"barrier"}) /\ McsInit /\ pthread_barrier_init => BarrierInv
  BY BarrierInit
<1>2. BarrierInv /\ [BarrierProgram]_<<callVars, mcsVars, barrierVars>> => BarrierInv'
  BY BarrierInvStep
<1> QED BY <1>1, <1>2, BarrierInvIsEnough, PTL DEF BarrierSpec

-----------------------------------------------------------------------------
(* Thread-specific data: chains *)

Distinct(chain) == \A i, j \in DOMAIN chain : chain[i] = chain[j] => i = j

LEMMA PlaceInChain ==
  ASSUME NEW S, NEW c \in Seq(S), Distinct(c), NEW x \in Members(c)
  PROVE  /\ Len(c) \in Nat \ {0} /\ Place(c, x) \in 1..Len(c) /\ c[Place(c, x)] = x
         /\ \A i \in 1..Len(c) : c[i] = x => i = Place(c, x)
<1>1. Len(c) \in Nat /\ DOMAIN c = 1..Len(c)
  OBVIOUS
<1>2. \E i \in DOMAIN c : c[i] = x
  BY DEF Members
<1>3. Place(c, x) \in DOMAIN c /\ c[Place(c, x)] = x
  BY <1>2 DEF Place
<1> QED BY <1>1, <1>3 DEF Distinct

LEMMA WithoutChain ==
  ASSUME NEW S, NEW c \in Seq(S), Distinct(c), NEW x \in Members(c)
  PROVE  /\ Without(c, x) \in Seq(S) /\ Distinct(Without(c, x))
         /\ Members(Without(c, x)) = Members(c) \ {x}
<1> DEFINE p == Place(c, x)
           L == Len(c)
           w == Without(c, x)
<1>1. /\ L \in Nat \ {0} /\ p \in 1..L /\ c[p] = x /\ DOMAIN c = 1..L
      /\ \A i \in 1..L : c[i] \in S /\ (c[i] = x => i = p)
  BY PlaceInChain
<1>2. w = [i \in 1..(L - 1) |-> IF i < p THEN c[i] ELSE c[i + 1]]
  BY DEF Without
<1> HIDE DEF p, L, w
<1>3. DOMAIN w = 1..(L - 1) /\ \A i \in 1..(L - 1) : w[i] = IF i < p THEN c[i] ELSE c[i + 1]
  BY <1>2
<1>4. \A i \in 1..(L - 1) : w[i] \in S
  BY <1>1, <1>3
<1>5. w \in Seq(S)
  BY <1>1, <1>2, <1>3, <1>4
<1>6. Distinct(w)
  <2> SUFFICES ASSUME NEW i \in 1..(L - 1), NEW j \in 1..(L - 1), w[i] = w[j] PROVE i = j
    BY <1>3 DEF Distinct
  <2>1. \A m, n \in 1..L : c[m] = c[n] => m = n
    BY <1>1 DEF Distinct
  <2>2. i \in 1..L /\ i + 1 \in 1..L /\ j \in 1..L /\ j + 1 \in 1..L
    BY <1>1
  <2>3. CASE i < p /\ j < p
    BY <1>3, <2>1, <2>2, <2>3
  <2>4. CASE ~(i < p) /\ ~(j < p)
    <3>1. i + 1 = j + 1
      BY <1>3, <2>1, <2>2, <2>4
    <3> QED BY <3>1
  <2>5. CASE i < p /\ ~(j < p)
    <3>1. i = j + 1
      BY <1>3, <2>1, <2>2, <2>5
    <3> QED BY <1>1, <2>5, <3>1
  <2>6. CASE ~(i < p) /\ j < p
    <3>1. i + 1 = j
      BY <1>3, <2>1, <2>2, <2>6
    <3> QED BY <1>1, <2>6, <3>1
  <2> QED BY <2>3, <2>4, <2>5, <2>6
<1>7. Members(w) = Members(c) \ {x}
  <2>1. ASSUME NEW i \in 1..(L - 1) PROVE w[i] \in Members(c) \ {x}
    <3>1. CASE i < p
      BY <1>1, <1>3, <3>1 DEF Members
    <3>2. CASE ~(i < p)
      <4>1. i + 1 \in 1..L /\ i + 1 # p
        BY <1>1, <3>2
      <4> QED BY <1>1, <1>3, <3>2, <4>1 DEF Members
    <3> QED BY <3>1, <3>2
  <2>2. ASSUME NEW i \in 1..L, c[i] # x PROVE c[i] \in Members(w)
    <3>1. CASE i < p
      <4>1. i \in 1..(L - 1)
        BY <1>1, <3>1
      <4> QED BY <1>3, <3>1, <4>1 DEF Members
    <3>2. CASE ~(i < p)
      <4>1. i - 1 \in 1..(L - 1) /\ ~(i - 1 < p) /\ (i - 1) + 1 = i
        BY <1>1, <2>2, <3>2
      <4> QED BY <1>3, <4>1 DEF Members
    <3> QED BY <3>1, <3>2
  <2> QED BY <1>1, <1>3, <2>1, <2>2 DEF Members
<1> QED BY <1>5, <1>6, <1>7 DEF w

LEMMA BehindInChain ==
  ASSUME NEW c \in Seq(Keys), Distinct(c), NEW k \in Members(c)
  PROVE  /\ Behind(c, k) \in (Members(c) \ {k}) \cup {NoKey}
         /\ k = First(c) => Behind(c, k) = First(Without(c, k))
<1> DEFINE p == Place(c, k)
           L == Len(c)
<1>1. /\ L \in Nat \ {0} /\ p \in 1..L /\ c[p] = k /\ DOMAIN c = 1..L
      /\ \A i \in 1..L : c[i] = k => i = p
  BY PlaceInChain
<1>2. Behind(c, k) = IF p = L THEN NoKey ELSE c[p + 1]
  BY DEF Behind
<1>3. Without(c, k) = [i \in 1..(L - 1) |-> IF i < p THEN c[i] ELSE c[i + 1]]
  BY DEF Without
<1>4. c # <<>> /\ First(c) = c[1]
  BY <1>1 DEF First
<1> HIDE DEF p, L
<1>5. p # L => p + 1 \in 1..L
  BY <1>1
<1>6. Behind(c, k) \in (Members(c) \ {k}) \cup {NoKey}
  BY <1>1, <1>2, <1>5 DEF Members
<1>7. ASSUME k = First(c) PROVE Behind(c, k) = First(Without(c, k))
  <2>1. p = 1
    BY <1>1, <1>4, <1>7
  <2>2. CASE L = 1
    <3>1. Without(c, k) = <<>>
      BY <1>3, <2>2
    <3> QED BY <1>2, <2>1, <2>2, <3>1 DEF First
  <2>3. CASE L # 1
    <3>1. /\ 1 \in 1..(L - 1) /\ DOMAIN Without(c, k) = 1..(L - 1)
          /\ Without(c, k)[1] = c[2]
      BY <1>1, <1>3, <2>1, <2>3
    <3>2. Without(c, k) # <<>>
      <4>1. DOMAIN <<>> = {}
        OBVIOUS
      <4> QED BY <3>1, <4>1
    <3>3. First(Without(c, k)) = Without(c, k)[1]
      BY <3>2 DEF First
    <3> QED BY <1>2, <2>1, <2>3, <3>1, <3>3
  <2> QED BY <2>2, <2>3
<1> QED BY <1>6, <1>7

LEMMA PutInChain ==
  ASSUME NEW S, NEW c \in Seq(S), Distinct(c), NEW x \in S, x \notin Members(c)
  PROVE  /\ <<x>> \o c \in Seq(S) /\ Distinct(<<x>> \o c) /\ <<x>> \o c # <<>>
         /\ Members(<<x>> \o c) = Members(c) \cup {x}
<1> DEFINE L == Len(c)
           d == <<x>> \o c
<1>1. L \in Nat /\ DOMAIN c = 1..L /\ \A i \in 1..L : c[i] \in S
  OBVIOUS
<1>2. /\ d \in Seq(S) /\ Len(d) = L + 1 /\ d[1] = x
      /\ \A i \in 2..(L + 1) : d[i] = c[i - 1]
  <2>1. <<x>> \in Seq(S) /\ Len(<<x>>) = 1 /\ <<x>>[1] = x
    OBVIOUS
  <2> QED BY <1>1, <2>1, ConcatProperties
<1>3. DOMAIN d = 1..(L + 1)
  BY <1>1, <1>2
<1> HIDE DEF L, d
<1>4. \A i \in 1..(L + 1) : i = 1 \/ (i \in 2..(L + 1) /\ i - 1 \in 1..L)
  BY <1>1
<1>5. \A i \in 1..L : i + 1 \in 2..(L + 1) /\ (i + 1) - 1 = i /\ i + 1 \in 1..(L + 1)
  BY <1>1
<1>6. \A i \in 1..L : c[i] # x
  BY <1>1 DEF Members
<1>7. Distinct(d)
  <2> SUFFICES ASSUME NEW i \in 1..(L + 1), NEW j \in 1..(L + 1), d[i] = d[j] PROVE i = j
    BY <1>3 DEF Distinct
  <2>1. CASE i # 1 /\ j # 1
    <3>1. i - 1 = j - 1
      BY <1>1, <1>2, <1>4, <2>1 DEF Distinct
    <3> QED BY <3>1
  <2>2. CASE i = 1 /\ j # 1
    BY <1>2, <1>4, <1>6, <2>2
  <2>3. CASE i # 1 /\ j = 1
    BY <1>2, <1>4, <1>6, <2>3
  <2> QED BY <2>1, <2>2, <2>3
<1>8. Members(d) = Members(c) \cup {x}
  <2>1. \A i \in 1..(L + 1) : d[i] \in Members(c) \cup {x}
    BY <1>1, <1>2, <1>4 DEF Members
  <2>2. \A i \in 1..L : c[i] \in Members(d)
    BY <1>2, <1>3, <1>5 DEF Members
  <2>3. x \in Members(d)
    <3>1. 1 \in 1..(L + 1)
      BY <1>1
    <3> QED BY <1>2, <1>3, <3>1 DEF Members
  <2> QED BY <1>1, <1>3, <2>1, <2>2, <2>3 DEF Members
<1>9. d # <<>>
  BY <1>1, <1>2
<1> QED BY <1>2, <1>7, <1>8, <1>9 DEF d

-----------------------------------------------------------------------------
(* Thread-specific data: the program *)

\* A key is deleted by a program that knows of no thread that ends meanwhile.
CarefulDelete == ~FreeDelete

KeysSpec ==
  /\ CallsInit({"keys"}) /\ KeysInit
  /\ [][\E t \in Threads : KeysNext(t) \/ KeysCalls(t)]_<<callVars, keyVars>>

KeyOps == {"key_create", "setspecific", "getspecific", "key_delete"}

KeyTypes ==
  /\ pc = [t \in Threads |-> pc[t]] /\ op = [t \in Threads |-> op[t]]
  /\ key = [k \in Keys |-> key[k]]
  /\ nextAssoc \in [Threads -> Keys \cup {NoKey}] /\ target = [t \in Threads |-> target[t]]
  /\ isSet \in [Threads -> [Keys -> BOOLEAN]]
  /\ round \in [Threads -> Nat] /\ again \in [Threads -> BOOLEAN]

\* The chains have each member once, and those of keys and threads agree.
Chained ==
  /\ threads \in [Keys -> Seq(Threads)] /\ keys \in [Threads -> Seq(Keys)]
  /\ \A k \in Keys : Distinct(threads[k])
  /\ \A t \in Threads : Distinct(keys[t])
  /\ \A t \in Threads, k \in Keys : t \in Members(threads[k]) <=> k \in Members(keys[t])

\* Only live keys with a destructor have associations, and a value that the
\* destructor is owed has one, until the key is deleted.
Owed ==
  /\ \A k \in Keys : threads[k] # <<>> => key[k] = "live" /\ k \in Destructed
  /\ \A t \in Threads, k \in Keys :
       isSet[t][k] /\ k \in Destructed => k \in Members(keys[t]) \/ ~NoDelete(k)

\* A call knows its key, and one that needs the key finds it.
InCall ==
  \A t \in Threads :
    /\ pc[t] = "idle" <=> op[t] = "none"
    /\ pc[t] = "exited" => op[t] = "exit"
    /\ op[t] \in KeyOps => target[t] \in Keys
    /\ op[t] \in {"setspecific", "key_delete"} => key[target[t]] = "live"

\* A key that is deleted is in no other call, and no thread but the deleting
\* one ends at that time.
Exclusive ==
  \A t \in Threads : op[t] = "key_delete" =>
    /\ \A u \in Threads : op[u] \in KeyOps /\ target[u] = target[t] => u = t
    /\ \A u \in Threads : Ending(u) => u = t
    /\ pc[t] = "unlink" => threads[target[t]] # <<>>
    /\ pc[t] = "free" => threads[target[t]] = <<>>

\* A thread that ends stands at an association of its own, and in a round that
\* ran no destructor it has destroyed what it has passed.
Scans ==
  \A t \in Threads :
    /\ round[t] > 0 => op[t] \in {"exit", "key_delete"}
    /\ op[t] = "exit" /\ pc[t] # "enter" => round[t] > 0
    /\ Ending(t) /\ round[t] > 0 => nextAssoc[t] \in Members(keys[t]) \cup {NoKey}
    /\ op[t] = "exit" /\ pc[t] = "destructor" => again[t]
    /\ op[t] = "key_delete" /\ round[t] > 0 => again[t]
    /\ op[t] = "exit" /\ pc[t] = "scan" /\ ~again[t] => nextAssoc[t] = First(keys[t])
    /\ pc[t] = "exited" => keys[t] = <<>>

KeysInv == KeyTypes /\ Chained /\ Owed /\ InCall /\ Exclusive /\ Scans

LEMMA KeysInvInit == CallsInit({"keys"}) /\ KeysInit => KeysInv
<1> SUFFICES ASSUME CallsInit({"keys"}), KeysInit PROVE KeysInv
  OBVIOUS
<1>1. KeyTypes
  BY DEF CallsInit, KeysInit, KeyTypes
<1>2. Chained
  <2>1. \A S : <<>> \in Seq(S)
    OBVIOUS
  <2>2. Members(<<>>) = {} /\ Distinct(<<>>)
    BY DEF Members, Distinct
  <2>3. threads \in [Keys -> Seq(Threads)] /\ keys \in [Threads -> Seq(Keys)]
    BY <2>1 DEF KeysInit
  <2>4. (\A k \in Keys : threads[k] = <<>>) /\ \A t \in Threads : keys[t] = <<>>
    BY DEF KeysInit
  <2> QED BY <2>2, <2>3, <2>4 DEF Chained
<1>3. \A t \in Threads : pc[t] = "idle" /\ op[t] = "none" /\ round[t] = 0 /\ \A k \in Keys : ~isSet[t][k]
  BY DEF CallsInit, KeysInit
<1>4. Owed
  BY <1>3 DEF KeysInit, Owed
<1>5. InCall /\ Exclusive /\ Scans
  BY <1>3 DEF InCall, Exclusive, Scans, KeyOps, Ending, Inside
<1> QED BY <1>1, <1>2, <1>4, <1>5 DEF KeysInv

LEMMA AssocCreated ==
  ASSUME Chained, NEW t \in Threads, NEW k \in Keys, k \notin Members(keys[t]), ptw32_tkAssocCreate(t, k)
  PROVE  /\ Chained' /\ threads'[k] # <<>>
         /\ \A j \in Keys \ {k} : threads'[j] = threads[j]
         /\ \A u \in Threads \ {t} : keys'[u] = keys[u]
         /\ Members(keys'[t]) = Members(keys[t]) \cup {k} /\ keys'[t] # <<>>
<1> DEFINE c == <<t>> \o threads[k]
           d == <<k>> \o keys[t]
<1>1. /\ threads[k] \in Seq(Threads) /\ Distinct(threads[k]) /\ t \notin Members(threads[k])
      /\ keys[t] \in Seq(Keys) /\ Distinct(keys[t])
  BY DEF Chained
<1>2. c \in Seq(Threads) /\ Distinct(c) /\ c # <<>> /\ Members(c) = Members(threads[k]) \cup {t}
  BY <1>1, PutInChain
<1>3. d \in Seq(Keys) /\ Distinct(d) /\ d # <<>> /\ Members(d) = Members(keys[t]) \cup {k}
  BY <1>1, PutInChain
<1>4. threads' = [threads EXCEPT ![k] = c] /\ keys' = [keys EXCEPT ![t] = d]
  BY DEF ptw32_tkAssocCreate
<1> HIDE DEF c, d
<1>5. /\ threads' \in [Keys -> Seq(Threads)] /\ keys' \in [Threads -> Seq(Keys)]
      /\ \A j \in Keys : threads'[j] = IF j = k THEN c ELSE threads[j]
      /\ \A u \in Threads : keys'[u] = IF u = t THEN d ELSE keys[u]
  BY <1>2, <1>3, <1>4 DEF Chained
<1>6. Chained'
  BY <1>2, <1>3, <1>5 DEF Chained
<1> QED BY <1>2, <1>3, <1>5, <1>6

LEMMA AssocDestroyed ==
  ASSUME Chained, NEW t \in Threads, NEW k \in Members(keys[t]), NEW n, ptw32_tkAssocDestroy(t, k, n)
  PROVE  /\ Chained' /\ k \in Keys
         /\ \A j \in Keys : threads'[j] # <<>> => threads[j] # <<>>
         /\ \A j \in Keys \ {k} : threads'[j] = threads[j]
         /\ \A u \in Threads \ {t} : keys'[u] = keys[u]
         /\ Members(keys'[t]) = Members(keys[t]) \ {k} /\ keys'[t] = Without(keys[t], k)
<1> DEFINE c == Without(threads[k], t)
           d == Without(keys[t], k)
<1>1. /\ keys[t] \in Seq(Keys) /\ Distinct(keys[t]) /\ k \in Keys
  BY DEF Chained, Members
<1>2. /\ threads[k] \in Seq(Threads) /\ Distinct(threads[k]) /\ t \in Members(threads[k])
  BY <1>1 DEF Chained
<1>3. c \in Seq(Threads) /\ Distinct(c) /\ Members(c) = Members(threads[k]) \ {t}
  BY <1>2, WithoutChain
<1>4. d \in Seq(Keys) /\ Distinct(d) /\ Members(d) = Members(keys[t]) \ {k}
  BY <1>1, WithoutChain
<1>5. threads' = [threads EXCEPT ![k] = c] /\ keys' = [keys EXCEPT ![t] = d]
  BY DEF ptw32_tkAssocDestroy
<1> HIDE DEF c, d
<1>6. /\ threads' \in [Keys -> Seq(Threads)] /\ keys' \in [Threads -> Seq(Keys)]
      /\ \A j \in Keys : threads'[j] = IF j = k THEN c ELSE threads[j]
      /\ \A u \in Threads : keys'[u] = IF u = t THEN d ELSE keys[u]
  BY <1>1, <1>3, <1>4, <1>5 DEF Chained
<1>7. Chained'
  BY <1>1, <1>3, <1>4, <1>6 DEF Chained
<1>8. threads[k] # <<>>
  <2>1. Members(<<>>) = {}
    BY DEF Members
  <2> QED BY <1>2, <2>1
<1> QED BY <1>1, <1>4, <1>6, <1>7, <1>8 DEF d

\* Where a thread goes.
LEMMA GoesTo ==
  ASSUME KeyTypes, NEW t \in Threads, NEW f, NEW l,
         op' = [op EXCEPT ![t] = f], pc' = [pc EXCEPT ![t] = l]
  PROVE  /\ pc' = [u \in Threads |-> pc'[u]] /\ op' = [u \in Threads |-> op'[u]]
         /\ pc'[t] = l /\ op'[t] = f
         /\ \A u \in Threads \ {t} : pc'[u] = pc[u] /\ op'[u] = op[u]
<1>1. DOMAIN pc = Threads /\ DOMAIN op = Threads
  BY DEF KeyTypes
<1> QED BY <1>1

\* A step that only goes on in its call, or returns from it.
LEMMA JustGoes ==
  ASSUME KeysInv, NEW t \in Threads, NEW f \in {op[t], "none"}, NEW l,
         op' = [op EXCEPT ![t] = f], pc' = [pc EXCEPT ![t] = l],
         UNCHANGED <<key, threads, keys, nextAssoc, isSet, target, round, again>>,
         op[t] \in KeyOps \cup {"exit"}, Inside(t), l = "idle" <=> f = "none",
         f = "none" => op[t] # "exit" /\ op[t] # "key_delete",
         l = "exited" => f = "exit" /\ keys[t] = <<>>,
         f = "exit" /\ l # "enter" => round[t] > 0,
         f = "exit" /\ l = "destructor" => again[t],
         f = "exit" /\ l = "scan" /\ ~again[t] => nextAssoc[t] = First(keys[t]),
         f = "key_delete" => (l = "unlink" => threads[target[t]] # <<>>)
                             /\ (l = "free" => threads[target[t]] = <<>>)
  PROVE  KeysInv'
<1>1. /\ pc' = [u \in Threads |-> pc'[u]] /\ op' = [u \in Threads |-> op'[u]]
      /\ pc'[t] = l /\ op'[t] = f
      /\ \A u \in Threads \ {t} : pc'[u] = pc[u] /\ op'[u] = op[u]
  BY GoesTo DEF KeysInv
<1>2. KeyTypes' /\ Chained'
  BY <1>1 DEF KeysInv, KeyTypes, Chained
<1>3. \A k \in Keys : NoDelete(k)' => NoDelete(k)
  <2>1. op[t] = "key_delete" => op'[t] = "key_delete"
    BY <1>1
  <2> QED BY <1>1, <2>1 DEF NoDelete
<1>4. Owed'
  BY <1>3 DEF KeysInv, Owed
<1>5. \A u \in Threads : Ending(u)' => Ending(u)
  BY <1>1 DEF Ending, Inside, KeysInv, InCall
<1>6. \A u \in Threads : op'[u] \in KeyOps => op[u] = op'[u]
  BY <1>1 DEF KeyOps
<1>7. InCall'
  BY <1>1, <1>6 DEF KeysInv, InCall, KeyOps
<1>8. Exclusive'
  <2>1. \A u \in Threads : op'[u] = "key_delete" => op[u] = "key_delete"
    BY <1>6 DEF KeyOps
  <2> QED BY <1>1, <1>5, <1>6, <2>1 DEF KeysInv, Exclusive, KeyOps
<1>9. Scans'
  <2> SUFFICES ASSUME NEW u \in Threads
      PROVE  /\ round[u] > 0 => op'[u] \in {"exit", "key_delete"}
             /\ op'[u] = "exit" /\ pc'[u] # "enter" => round[u] > 0
             /\ Ending(u)' /\ round[u] > 0 => nextAssoc[u] \in Members(keys[u]) \cup {NoKey}
             /\ op'[u] = "exit" /\ pc'[u] = "destructor" => again[u]
             /\ op'[u] = "key_delete" /\ round[u] > 0 => again[u]
             /\ op'[u] = "exit" /\ pc'[u] = "scan" /\ ~again[u] => nextAssoc[u] = First(keys[u])
             /\ pc'[u] = "exited" => keys[u] = <<>>
    BY DEF Scans
  <2>1. CASE u = t
    <3>1. f = "none" => ~(round[t] > 0)
      BY DEF KeysInv, Scans
    <3> QED BY <1>1, <1>5, <2>1, <3>1 DEF KeysInv, Scans
  <2>2. CASE u # t
    BY <1>1, <1>5, <2>2 DEF KeysInv, Scans
  <2> QED BY <2>1, <2>2
<1> QED BY <1>2, <1>4, <1>7, <1>8, <1>9 DEF KeysInv

\* The steps that leave chains, values and keys alone.
LEMMA PlainStep ==
  ASSUME KeysInv, NEW t \in Threads,
         \/ pthread_getspecific(t) \/ DeleteEnter(t) \/ DeleteLock(t) \/ DeleteLoop(t) \/ DeleteRelease(t)
         \/ ExitRoundEnds(t)
  PROVE  KeysInv'
<1>1. op' = [op EXCEPT ![t] = op[t]] <=> op' = op
  BY DEF KeysInv, KeyTypes
<1>2. op[t] = "key_delete" => Inside(t) /\ target[t] \in Keys
  BY DEF KeysInv, InCall, Inside, KeyOps
<1>3. CASE pthread_getspecific(t)
  BY <1>3, JustGoes DEF pthread_getspecific, In, Return, ReturnHolding, keyVars, Inside, KeyOps
<1>4. CASE DeleteEnter(t)
  <2> DEFINE l == IF threads[target[t]] # <<>> /\ target[t] \in Destructed THEN "lock" ELSE "free"
  <2>1. /\ op[t] = "key_delete" /\ pc' = [pc EXCEPT ![t] = l] /\ op' = [op EXCEPT ![t] = op[t]]
        /\ UNCHANGED <<key, threads, keys, nextAssoc, isSet, target, round, again>>
    BY <1>1, <1>4 DEF DeleteEnter, In, Goto, keyVars
  <2>2. l = "free" => threads[target[t]] = <<>>
    BY <1>2, <2>1 DEF KeysInv, Owed
  <2>3. l # "idle" /\ l # "exited" /\ l # "unlink"
    OBVIOUS
  <2> HIDE DEF l
  <2> QED BY <1>2, <2>1, <2>2, <2>3, JustGoes DEF KeyOps
<1>5. CASE DeleteLock(t)
  <2>1. /\ op[t] = "key_delete" /\ pc' = [pc EXCEPT ![t] = "loop"] /\ op' = [op EXCEPT ![t] = op[t]]
        /\ UNCHANGED <<key, threads, keys, nextAssoc, isSet, target, round, again>>
    BY <1>1, <1>5 DEF DeleteLock, In, Goto
  <2> QED BY <1>2, <2>1, JustGoes DEF KeyOps
<1>6. CASE DeleteLoop(t)
  <2> DEFINE l == IF threads[target[t]] = <<>> THEN "free" ELSE "unlink"
  <2>1. /\ op[t] = "key_delete" /\ pc' = [pc EXCEPT ![t] = l] /\ op' = [op EXCEPT ![t] = op[t]]
        /\ UNCHANGED <<key, threads, keys, nextAssoc, isSet, target, round, again>>
    BY <1>1, <1>6 DEF DeleteLoop, In, Goto, keyVars
  <2>2. /\ l = "free" => threads[target[t]] = <<>>
        /\ l = "unlink" => threads[target[t]] # <<>>
        /\ l # "idle" /\ l # "exited"
    OBVIOUS
  <2> HIDE DEF l
  <2> QED BY <1>2, <2>1, <2>2, JustGoes DEF KeyOps
<1>7. CASE DeleteRelease(t)
  <2>1. /\ op[t] = "key_delete" /\ pc' = [pc EXCEPT ![t] = "loop"] /\ op' = [op EXCEPT ![t] = op[t]]
        /\ UNCHANGED <<key, threads, keys, nextAssoc, isSet, target, round, again>>
    BY <1>1, <1>7 DEF DeleteRelease, In, Goto
  <2> QED BY <1>2, <2>1, JustGoes DEF KeyOps
<1>8. CASE ExitRoundEnds(t)
  <2>1. /\ op[t] = "exit" /\ pc[t] = "scan" /\ nextAssoc[t] = NoKey /\ op' = [op EXCEPT ![t] = op[t]]
        /\ UNCHANGED <<key, threads, keys, nextAssoc, isSet, target, round, again>>
    BY <1>1, <1>8 DEF ExitRoundEnds, In, Goto, Exit, keyVars
  <2>2. CASE again[t]
    <3>1. pc' = [pc EXCEPT ![t] = "enter"]
      BY <1>8, <2>2 DEF ExitRoundEnds, Goto
    <3> QED BY <2>1, <3>1, JustGoes DEF Inside
  <2>3. CASE ~again[t]
    <3>1. pc' = [pc EXCEPT ![t] = "exited"] /\ round[t] > 0
      BY <1>8, <2>1, <2>3 DEF ExitRoundEnds, Exit, KeysInv, Scans
    <3>2. keys[t] = <<>>
      <4>1. First(keys[t]) = NoKey
        BY <2>1, <2>3 DEF KeysInv, Scans
      <4>2. keys[t] # <<>> => Head(keys[t]) \in Keys
        BY DEF KeysInv, Chained
      <4> QED BY <4>1, <4>2, KeysAssumption DEF First
    <3> QED BY <2>1, <3>1, <3>2, JustGoes DEF Inside
  <2> QED BY <2>2, <2>3
<1> QED BY <1>3, <1>4, <1>5, <1>6, <1>7, <1>8

LEMMA KeyCreateStep == ASSUME KeysInv, NEW t \in Threads, pthread_key_create(t) PROVE KeysInv'
<1>1. /\ op[t] = "key_create" /\ pc[t] = "enter"
      /\ op' = [op EXCEPT ![t] = "none"] /\ pc' = [pc EXCEPT ![t] = "idle"]
      /\ UNCHANGED <<threads, keys, nextAssoc, isSet, target, round, again>>
  BY DEF pthread_key_create, In, Return, ReturnHolding
<1>2. CASE UNCHANGED key
  BY <1>1, <1>2, JustGoes DEF Inside, KeyOps
<1>3. CASE key' = [key EXCEPT ![target[t]] = "live"]
  <2>1. /\ pc' = [u \in Threads |-> pc'[u]] /\ op' = [u \in Threads |-> op'[u]]
        /\ pc'[t] = "idle" /\ op'[t] = "none"
        /\ \A u \in Threads \ {t} : pc'[u] = pc[u] /\ op'[u] = op[u]
    BY <1>1, GoesTo DEF KeysInv
  <2>2. target[t] \in Keys /\ \A k \in Keys : key'[k] = IF k = target[t] THEN "live" ELSE key[k]
    BY <1>1, <1>3 DEF KeysInv, InCall, KeyTypes, KeyOps
  <2>3. KeyTypes' /\ Chained'
    BY <1>1, <1>3, <2>1 DEF KeysInv, KeyTypes, Chained
  <2>4. \A k \in Keys : NoDelete(k)' => NoDelete(k)
    BY <1>1, <2>1 DEF NoDelete
  <2>5. Owed'
    BY <1>1, <2>2, <2>4 DEF KeysInv, Owed
  <2>6. InCall'
    BY <1>1, <2>1, <2>2 DEF KeysInv, InCall, KeyOps
  <2>7. \A u \in Threads : (op'[u] \in KeyOps => op[u] = op'[u]) /\ (Ending(u)' => Ending(u))
    BY <1>1, <2>1 DEF KeyOps, Ending, Inside
  <2>8. Exclusive'
    BY <1>1, <2>1, <2>7 DEF KeysInv, Exclusive, KeyOps
  <2>9. Scans'
    BY <1>1, <2>1, <2>7 DEF KeysInv, Scans
  <2> QED BY <2>3, <2>5, <2>6, <2>8, <2>9 DEF KeysInv
<1> QED BY <1>2, <1>3 DEF pthread_key_create

\* A value is set, by pthread_setspecific or in a destructor, or only its association made.
LEMMA SetStep ==
  ASSUME KeysInv, NEW t \in Threads, NEW k \in Keys, NEW v \in BOOLEAN, Associated(t, k, v),
         isSet' = [isSet EXCEPT ![t][k] = v] \/ UNCHANGED isSet,
         key[k] = "live", NoDelete(k), NEW f, NEW l,
         op' = [op EXCEPT ![t] = f], pc' = [pc EXCEPT ![t] = l],
         UNCHANGED <<key, nextAssoc, target, round, again>>,
         \/ op[t] = "setspecific" /\ f = "none" /\ l = "idle"
         \/ op[t] = "exit" /\ pc[t] = "destructor" /\ f = "exit" /\ l = "scan"
  PROVE  KeysInv'
<1>1. /\ pc' = [u \in Threads |-> pc'[u]] /\ op' = [u \in Threads |-> op'[u]]
      /\ pc'[t] = l /\ op'[t] = f
      /\ \A u \in Threads \ {t} : pc'[u] = pc[u] /\ op'[u] = op[u]
  BY GoesTo DEF KeysInv
<1>2. /\ Chained'
      /\ \A j \in Keys \ {k} : threads'[j] = threads[j]
      /\ threads'[k] # <<>> => key[k] = "live" /\ k \in Destructed
      /\ \A u \in Threads \ {t} : keys'[u] = keys[u]
      /\ Members(keys[t]) \subseteq Members(keys'[t])
      /\ v /\ k \in Destructed => k \in Members(keys'[t])
  <2>1. CASE v /\ k \in Destructed /\ k \notin Members(keys[t])
    <3>1. ptw32_tkAssocCreate(t, k)
      BY <2>1 DEF Associated
    <3> QED BY <2>1, <3>1, AssocCreated DEF KeysInv
  <2>2. CASE ~(v /\ k \in Destructed /\ k \notin Members(keys[t]))
    <3>1. UNCHANGED <<threads, keys>>
      BY <2>2 DEF Associated
    <3> QED BY <2>2, <3>1 DEF KeysInv, Chained, Owed
  <2> QED BY <2>1, <2>2
<1>3. /\ isSet' \in [Threads -> [Keys -> BOOLEAN]]
      /\ \A u \in Threads, j \in Keys : isSet'[u][j] => isSet[u][j] \/ (u = t /\ j = k /\ v)
  <2>1. isSet \in [Threads -> [Keys -> BOOLEAN]]
    BY DEF KeysInv, KeyTypes
  <2>2. CASE isSet' = [isSet EXCEPT ![t][k] = v]
    BY ONLY <2>1, <2>2, t \in Threads, k \in Keys, v \in BOOLEAN
  <2>3. CASE UNCHANGED isSet
    BY <2>1, <2>3
  <2> QED BY <2>2, <2>3
<1>4. KeyTypes'
  BY <1>1, <1>3 DEF KeysInv, KeyTypes
<1>5. \A j \in Keys : NoDelete(j)' <=> NoDelete(j)
  BY <1>1 DEF NoDelete
<1>6. Owed'
  <2>1. \A j \in Keys : threads'[j] # <<>> => key[j] = "live" /\ j \in Destructed
    BY <1>2 DEF KeysInv, Owed
  <2>2. ASSUME NEW u \in Threads, NEW j \in Keys, isSet'[u][j], j \in Destructed
        PROVE  j \in Members(keys'[u]) \/ ~NoDelete(j)'
    <3>1. CASE u = t /\ j = k /\ v
      BY <1>2, <2>2, <3>1
    <3>2. CASE isSet[u][j]
      <4>1. j \in Members(keys[u]) \/ ~NoDelete(j)
        BY <2>2, <3>2 DEF KeysInv, Owed
      <4> QED BY <1>2, <1>5, <4>1
    <3> QED BY <1>3, <2>2, <3>1, <3>2
  <2> QED BY <2>1, <2>2 DEF Owed
<1>7. \A u \in Threads : (op'[u] \in KeyOps => op[u] = op'[u]) /\ (Ending(u)' => Ending(u))
  BY <1>1 DEF KeyOps, Ending, Inside, KeysInv, InCall
<1>8. InCall'
  BY <1>1, <1>7 DEF KeysInv, InCall, KeyOps
<1>9. Exclusive'
  <2> SUFFICES ASSUME NEW u \in Threads, op'[u] = "key_delete"
      PROVE  /\ \A w \in Threads : op'[w] \in KeyOps /\ target[w] = target[u] => w = u
             /\ \A w \in Threads : Ending(w)' => w = u
             /\ pc'[u] = "unlink" => threads'[target[u]] # <<>>
             /\ pc'[u] = "free" => threads'[target[u]] = <<>>
    BY DEF Exclusive
  <2>1. op[u] = "key_delete" /\ pc'[u] = pc[u] /\ target[u] \in Keys
    BY <1>1, <1>7 DEF KeyOps, KeysInv, InCall
  <2>2. target[u] # k
    BY <2>1 DEF NoDelete
  <2> QED BY <1>2, <1>7, <2>1, <2>2 DEF KeysInv, Exclusive
<1>10. Scans'
  <2>1. f = "exit" => again[t] /\ round[t] > 0
    BY DEF KeysInv, Scans
  <2>2. f = "none" => ~(round[t] > 0)
    BY DEF KeysInv, Scans
  <2> QED BY <1>1, <1>2, <1>7, <2>1, <2>2 DEF KeysInv, Scans
<1> QED BY <1>2, <1>4, <1>6, <1>8, <1>9, <1>10 DEF KeysInv

LEMMA SetspecificStep == ASSUME KeysInv, NEW t \in Threads, pthread_setspecific(t) PROVE KeysInv'
<1>1. /\ op[t] = "setspecific" /\ pc[t] = "enter" /\ UNCHANGED <<key, nextAssoc, target, round, again>>
      /\ op' = [op EXCEPT ![t] = "none"] /\ pc' = [pc EXCEPT ![t] = "idle"]
  BY DEF pthread_setspecific, In, Return, ReturnHolding
<1>2. target[t] \in Keys /\ key[target[t]] = "live" /\ NoDelete(target[t])
  BY <1>1 DEF KeysInv, InCall, Exclusive, KeyOps, NoDelete
<1>3. ASSUME NEW v \in BOOLEAN, Associated(t, target[t], v),
             isSet' = [isSet EXCEPT ![t][target[t]] = v] \/ UNCHANGED isSet
      PROVE  KeysInv'
  BY <1>1, <1>2, <1>3, SetStep
<1>4. CASE UNCHANGED <<isSet, threads, keys>>
  BY <1>1, <1>4, JustGoes DEF Inside, KeyOps
<1> QED BY <1>3, <1>4 DEF pthread_setspecific, SetValue

LEMMA DeleteUnlinkStep == ASSUME KeysInv, NEW t \in Threads, DeleteUnlink(t) PROVE KeysInv'
<1> DEFINE k == target[t]
           u == Head(threads[k])
<1>1. /\ op[t] = "key_delete" /\ pc[t] = "unlink" /\ ptw32_tkAssocDestroy(u, k, nextAssoc[u])
      /\ op' = [op EXCEPT ![t] = "key_delete"] /\ pc' = [pc EXCEPT ![t] = "release"]
      /\ UNCHANGED <<key, isSet, target, round, again>>
  BY DEF DeleteUnlink, In, Goto, KeysInv, KeyTypes
<1>2. /\ pc' = [w \in Threads |-> pc'[w]] /\ op' = [w \in Threads |-> op'[w]]
      /\ pc'[t] = "release" /\ op'[t] = op[t]
      /\ \A w \in Threads \ {t} : pc'[w] = pc[w] /\ op'[w] = op[w]
  BY <1>1, GoesTo DEF KeysInv
<1>3. k \in Keys /\ threads[k] \in Seq(Threads) /\ threads[k] # <<>>
  BY <1>1 DEF KeysInv, InCall, KeyOps, Exclusive, Chained
<1>4. u \in Threads /\ k \in Members(keys[u])
  <2>1. u \in Threads /\ u \in Members(threads[k])
    <3>1. Len(threads[k]) \in Nat \ {0} /\ DOMAIN threads[k] = 1..Len(threads[k]) /\ u = threads[k][1]
      BY <1>3
    <3>2. 1 \in 1..Len(threads[k])
      BY <3>1
    <3> QED BY <1>3, <3>1, <3>2 DEF Members
  <2> QED BY <1>3, <2>1 DEF KeysInv, Chained
<1> HIDE DEF u, k
<1>5. /\ Chained'
      /\ \A j \in Keys : threads'[j] # <<>> => threads[j] # <<>>
      /\ \A j \in Keys \ {k} : threads'[j] = threads[j]
      /\ \A w \in Threads \ {u} : keys'[w] = keys[w]
      /\ Members(keys'[u]) = Members(keys[u]) \ {k}
  BY <1>1, <1>4, AssocDestroyed DEF KeysInv
<1>6. /\ Behind(keys[u], k) \in (Members(keys[u]) \ {k}) \cup {NoKey}
      /\ Members(keys[u]) \subseteq Keys
  <2>1. keys[u] \in Seq(Keys) /\ Distinct(keys[u])
    BY <1>4 DEF KeysInv, Chained
  <2>2. Members(keys[u]) \subseteq Keys
    BY <2>1 DEF Members
  <2> QED BY <1>4, <2>1, <2>2, BehindInChain
<1>7. /\ nextAssoc' \in [Threads -> Keys \cup {NoKey}]
      /\ nextAssoc'[u] = IF nextAssoc[u] = k THEN Behind(keys[u], k) ELSE nextAssoc[u]
      /\ \A w \in Threads \ {u} : nextAssoc'[w] = nextAssoc[w]
  BY <1>1, <1>4, <1>6 DEF ptw32_tkAssocDestroy, KeysInv, KeyTypes
<1>8. KeyTypes'
  BY <1>1, <1>2, <1>7 DEF KeysInv, KeyTypes
<1>9. Owed'
  <2>1. \A j \in Keys : NoDelete(j)' <=> NoDelete(j)
    BY <1>1, <1>2 DEF NoDelete
  <2>2. ~NoDelete(k)
    BY <1>1 DEF NoDelete, k
  <2> QED BY <1>1, <1>5, <2>1, <2>2 DEF KeysInv, Owed
<1>10. InCall'
  BY <1>1, <1>2 DEF KeysInv, InCall, KeyOps
<1>11. \A w \in Threads : (Ending(w)' => Ending(w)) /\ (Ending(w) => w = t)
  BY <1>1, <1>2 DEF Ending, Inside, KeysInv, Exclusive
<1>12. Exclusive'
  <2> SUFFICES ASSUME NEW w \in Threads, op'[w] = "key_delete"
      PROVE  /\ \A x \in Threads : op'[x] \in KeyOps /\ target[x] = target[w] => x = w
             /\ \A x \in Threads : Ending(x)' => x = w
             /\ pc'[w] = "unlink" => threads'[target[w]] # <<>>
             /\ pc'[w] = "free" => threads'[target[w]] = <<>>
    BY <1>1 DEF Exclusive
  <2>1. op[w] = "key_delete" /\ \A x \in Threads : op'[x] = op[x]
    BY <1>2
  <2>2. w # t => target[w] \in Keys \ {k}
    BY <1>1, <2>1 DEF KeysInv, InCall, Exclusive, KeyOps, k
  <2> QED BY <1>2, <1>5, <1>11, <2>1, <2>2 DEF KeysInv, Exclusive
<1>13. Scans'
  <2> SUFFICES ASSUME NEW w \in Threads
      PROVE  /\ round[w] > 0 => op'[w] \in {"exit", "key_delete"}
             /\ op'[w] = "exit" /\ pc'[w] # "enter" => round[w] > 0
             /\ Ending(w)' /\ round[w] > 0 => nextAssoc'[w] \in Members(keys'[w]) \cup {NoKey}
             /\ op'[w] = "exit" /\ pc'[w] = "destructor" => again[w]
             /\ op'[w] = "key_delete" /\ round[w] > 0 => again[w]
             /\ op'[w] = "exit" /\ pc'[w] = "scan" /\ ~again[w] => nextAssoc'[w] = First(keys'[w])
             /\ pc'[w] = "exited" => keys'[w] = <<>>
    BY <1>1 DEF Scans
  <2>1. Ending(w)' /\ round[w] > 0 => nextAssoc'[w] \in Members(keys'[w]) \cup {NoKey}
    BY <1>5, <1>6, <1>7, <1>11 DEF KeysInv, Scans
  <2>2. op'[w] = "exit" /\ pc'[w] = "scan" /\ ~again[w] => nextAssoc'[w] = First(keys'[w])
    BY <1>1, <1>2, <1>11 DEF Ending, Inside
  <2>3. pc'[w] = "exited" => keys'[w] = <<>>
    <3> SUFFICES ASSUME pc'[w] = "exited" PROVE keys'[w] = <<>>
      OBVIOUS
    <3>1. keys[w] = <<>>
      BY <1>2 DEF KeysInv, Scans
    <3>2. w # u
      BY <1>4, <3>1 DEF Members
    <3> QED BY <1>5, <3>1, <3>2
  <2> QED BY <1>1, <1>2, <2>1, <2>2, <2>3 DEF KeysInv, Scans
<1> QED BY <1>5, <1>8, <1>9, <1>10, <1>12, <1>13 DEF KeysInv

LEMMA DeleteFreeStep == ASSUME KeysInv, NEW t \in Threads, DeleteFree(t) PROVE KeysInv'
<1> DEFINE k == target[t]
           f == IF round[t] = 0 THEN "none" ELSE "exit"
           l == IF round[t] = 0 THEN "idle" ELSE "scan"
<1>1. /\ op[t] = "key_delete" /\ pc[t] = "free"
      /\ op' = [op EXCEPT ![t] = f] /\ pc' = [pc EXCEPT ![t] = l]
      /\ UNCHANGED <<threads, keys, nextAssoc, target, round, again>>
  BY DEF DeleteFree, Deleted, In, Return, ReturnHolding
<1>2. /\ pc' = [w \in Threads |-> pc'[w]] /\ op' = [w \in Threads |-> op'[w]]
      /\ pc'[t] = l /\ op'[t] = f
      /\ \A w \in Threads \ {t} : pc'[w] = pc[w] /\ op'[w] = op[w]
  BY <1>1, GoesTo DEF KeysInv
<1>3. k \in Keys /\ threads[k] = <<>>
  BY <1>1 DEF KeysInv, InCall, KeyOps, Exclusive
<1>4. \A w \in Threads \ {t} : op[w] \in KeyOps => target[w] # k
  BY <1>1 DEF KeysInv, Exclusive
<1> HIDE DEF k
<1>5. /\ key' = [j \in Keys |-> key'[j]] /\ \A j \in Keys \ {k} : key'[j] = key[j]
      /\ isSet' \in [Threads -> [Keys -> BOOLEAN]]
      /\ \A w \in Threads, j \in Keys : isSet'[w][j] <=> isSet[w][j] /\ j # k
  BY <1>3 DEF DeleteFree, KeysInv, KeyTypes, k
<1>6. KeyTypes' /\ Chained'
  BY <1>1, <1>2, <1>5 DEF KeysInv, KeyTypes, Chained
<1>7. Owed'
  <2>1. \A j \in Keys \ {k} : ~NoDelete(j) => ~NoDelete(j)'
    BY <1>1, <1>2 DEF NoDelete, k
  <2> QED BY <1>1, <1>3, <1>5, <2>1 DEF KeysInv, Owed
<1>8. \A w \in Threads : (op'[w] \in KeyOps => w # t /\ op[w] = op'[w]) /\ (Ending(w)' => Ending(w))
  <2>1. round[t] = 0 <=> ~(round[t] > 0)
    BY DEF KeysInv, KeyTypes
  <2> QED BY <1>1, <1>2, <2>1 DEF KeyOps, Ending, Inside
<1>9. InCall'
  <2> SUFFICES ASSUME NEW w \in Threads
      PROVE  /\ pc'[w] = "idle" <=> op'[w] = "none"
             /\ pc'[w] = "exited" => op'[w] = "exit"
             /\ op'[w] \in KeyOps => target[w] \in Keys
             /\ op'[w] \in {"setspecific", "key_delete"} => key'[target[w]] = "live"
    BY <1>1 DEF InCall
  <2>1. op'[w] \in KeyOps => target[w] \in Keys \ {k}
    BY <1>4, <1>8 DEF KeysInv, InCall
  <2>2. op'[w] \in {"setspecific", "key_delete"} => op'[w] \in KeyOps /\ op[w] = op'[w]
    BY <1>8 DEF KeyOps
  <2> QED BY <1>2, <1>5, <2>1, <2>2 DEF KeysInv, InCall
<1>10. Exclusive'
  <2>1. \A w \in Threads : op'[w] = "key_delete" => w # t /\ op[w] = "key_delete"
    BY <1>8 DEF KeyOps
  <2> QED BY <1>1, <1>2, <1>8, <2>1 DEF KeysInv, Exclusive
<1>11. Scans'
  <2>1. round[t] > 0 => again[t] /\ Ending(t)
    BY <1>1 DEF KeysInv, Scans, Ending, Inside
  <2>2. round[t] = 0 <=> ~(round[t] > 0)
    BY DEF KeysInv, KeyTypes
  <2> HIDE DEF f, l
  <2>3. \/ round[t] > 0 /\ f = "exit" /\ l = "scan"
        \/ ~(round[t] > 0) /\ f = "none" /\ l = "idle"
    BY <2>2 DEF f, l
  <2> QED BY <1>1, <1>2, <1>8, <2>1, <2>3 DEF KeysInv, Scans
<1> QED BY <1>6, <1>7, <1>9, <1>10, <1>11 DEF KeysInv

LEMMA ExitRoundStep == ASSUME KeysInv, NEW t \in Threads, ExitRound(t) PROVE KeysInv'
<1>1. /\ op[t] = "exit" /\ pc[t] = "enter" /\ UNCHANGED <<key, threads, keys, isSet, target>>
      /\ op' = [op EXCEPT ![t] = "exit"] /\ pc' = [pc EXCEPT ![t] = "scan"]
  BY DEF ExitRound, In, Goto, KeysInv, KeyTypes
<1>2. /\ pc' = [w \in Threads |-> pc'[w]] /\ op' = [w \in Threads |-> op'[w]]
      /\ pc'[t] = "scan" /\ op'[t] = "exit"
      /\ \A w \in Threads \ {t} : pc'[w] = pc[w] /\ op'[w] = op[w]
  BY <1>1, GoesTo DEF KeysInv
<1>3. First(keys[t]) \in Members(keys[t]) \cup {NoKey} /\ First(keys[t]) \in Keys \cup {NoKey}
  <2>1. keys[t] \in Seq(Keys)
    BY DEF KeysInv, Chained
  <2>2. CASE keys[t] = <<>>
    BY <2>2 DEF First
  <2>3. CASE keys[t] # <<>>
    <3>1. Len(keys[t]) \in Nat \ {0} /\ DOMAIN keys[t] = 1..Len(keys[t]) /\ Head(keys[t]) = keys[t][1]
      BY <2>1, <2>3
    <3>2. 1 \in 1..Len(keys[t])
      BY <3>1
    <3> QED BY <2>1, <2>3, <3>1, <3>2 DEF First, Members
  <2> QED BY <2>2, <2>3
<1>4. /\ nextAssoc' \in [Threads -> Keys \cup {NoKey}] /\ nextAssoc'[t] = First(keys[t])
      /\ round' \in [Threads -> Nat] /\ round'[t] > 0
      /\ again' \in [Threads -> BOOLEAN] /\ ~again'[t]
      /\ \A w \in Threads \ {t} : nextAssoc'[w] = nextAssoc[w] /\ round'[w] = round[w] /\ again'[w] = again[w]
  BY <1>3 DEF ExitRound, KeysInv, KeyTypes
<1>5. KeyTypes' /\ Chained'
  BY <1>1, <1>2, <1>4 DEF KeysInv, KeyTypes, Chained
<1>6. \A w \in Threads : op'[w] = op[w]
  BY <1>1, <1>2
<1>7. Owed'
  BY <1>1, <1>6 DEF KeysInv, Owed, NoDelete
<1>8. InCall'
  BY <1>1, <1>2, <1>6 DEF KeysInv, InCall
<1>9. \A w \in Threads : Ending(w)' => Ending(w)
  BY <1>1, <1>2, <1>4 DEF Ending, Inside
<1>10. Exclusive'
  BY <1>1, <1>2, <1>6, <1>9 DEF KeysInv, Exclusive
<1>11. Scans'
  <2> SUFFICES ASSUME NEW w \in Threads
      PROVE  /\ round'[w] > 0 => op'[w] \in {"exit", "key_delete"}
             /\ op'[w] = "exit" /\ pc'[w] # "enter" => round'[w] > 0
             /\ Ending(w)' /\ round'[w] > 0 => nextAssoc'[w] \in Members(keys[w]) \cup {NoKey}
             /\ op'[w] = "exit" /\ pc'[w] = "destructor" => again'[w]
             /\ op'[w] = "key_delete" /\ round'[w] > 0 => again'[w]
             /\ op'[w] = "exit" /\ pc'[w] = "scan" /\ ~again'[w] => nextAssoc'[w] = First(keys[w])
             /\ pc'[w] = "exited" => keys[w] = <<>>
    BY <1>1 DEF Scans
  <2>1. CASE w = t
    BY <1>2, <1>3, <1>4, <2>1
  <2>2. CASE w # t
    BY <1>2, <1>4, <1>9, <2>2 DEF KeysInv, Scans
  <2> QED BY <2>1, <2>2
<1> QED BY <1>5, <1>7, <1>8, <1>10, <1>11 DEF KeysInv

LEMMA ExitScanStep == ASSUME KeysInv, NEW t \in Threads, ExitScan(t) PROVE KeysInv'
<1> DEFINE k == nextAssoc[t]
           n == Behind(keys[t], k)
<1>1. /\ op[t] = "exit" /\ pc[t] = "scan" /\ round[t] > 0 /\ k # NoKey
      /\ UNCHANGED <<key, target, round>>
      /\ isSet' = [isSet EXCEPT ![t][k] = FALSE]
  BY DEF ExitScan, In, KeysInv, Scans
<1>2. Ending(t) /\ k \in Members(keys[t]) /\ keys[t] \in Seq(Keys) /\ Distinct(keys[t])
  BY <1>1 DEF KeysInv, Scans, Chained, Ending, Inside
<1>3. k \in Keys
  BY <1>2 DEF Members
<1>4. /\ n \in (Members(keys[t]) \ {k}) \cup {NoKey} /\ n \in Keys \cup {NoKey}
      /\ k = First(keys[t]) => n = First(Without(keys[t], k))
  <2>1. Members(keys[t]) \subseteq Keys
    BY <1>2 DEF Members
  <2> QED BY <1>2, <2>1, BehindInChain
<1>5. /\ isSet' \in [Threads -> [Keys -> BOOLEAN]]
      /\ \A w \in Threads, j \in Keys : isSet'[w][j] <=> isSet[w][j] /\ ~(w = t /\ j = k)
  BY <1>1, <1>3 DEF KeysInv, KeyTypes
<1>6. \A w \in Threads : op[w] = "key_delete" => FALSE
  BY <1>1, <1>2 DEF KeysInv, Exclusive
<1> HIDE DEF k, n
<1>7. CASE nextAssoc' = [nextAssoc EXCEPT ![t] = n] /\ again' = [again EXCEPT ![t] = TRUE]
           /\ Goto(t, "destructor") /\ UNCHANGED <<threads, keys>>
  <2>1. op' = op /\ pc' = [pc EXCEPT ![t] = "destructor"] /\ op' = [op EXCEPT ![t] = "exit"]
    BY <1>1, <1>7 DEF Goto, KeysInv, KeyTypes
  <2>2. /\ pc' = [w \in Threads |-> pc'[w]] /\ pc'[t] = "destructor"
        /\ \A w \in Threads \ {t} : pc'[w] = pc[w]
    BY <2>1, GoesTo DEF KeysInv
  <2>3. /\ nextAssoc' \in [Threads -> Keys \cup {NoKey}] /\ nextAssoc'[t] = n
        /\ again' \in [Threads -> BOOLEAN] /\ again'[t]
        /\ \A w \in Threads \ {t} : nextAssoc'[w] = nextAssoc[w] /\ again'[w] = again[w]
    BY <1>4, <1>7 DEF KeysInv, KeyTypes
  <2>4. KeyTypes' /\ Chained'
    BY <1>1, <1>5, <1>7, <2>1, <2>2, <2>3 DEF KeysInv, KeyTypes, Chained
  <2>5. Owed'
    BY <1>1, <1>5, <1>7, <2>1 DEF KeysInv, Owed, NoDelete
  <2>6. InCall'
    BY <1>1, <2>1, <2>2 DEF KeysInv, InCall
  <2>7. Exclusive'
    BY <1>6, <2>1 DEF Exclusive
  <2>8. Scans'
    BY <1>1, <1>2, <1>4, <1>7, <2>1, <2>2, <2>3 DEF KeysInv, Scans, Ending, Inside
  <2> QED BY <2>4, <2>5, <2>6, <2>7, <2>8 DEF KeysInv
<1>8. CASE ptw32_tkAssocDestroy(t, k, n) /\ UNCHANGED <<callVars, again>>
  <2>1. pc' = pc /\ op' = op /\ again' = again
    BY <1>8 DEF callVars
  <2>2. /\ Chained'
        /\ \A j \in Keys : threads'[j] # <<>> => threads[j] # <<>>
        /\ \A w \in Threads \ {t} : keys'[w] = keys[w]
        /\ Members(keys'[t]) = Members(keys[t]) \ {k} /\ keys'[t] = Without(keys[t], k)
    BY <1>2, <1>8, AssocDestroyed DEF KeysInv
  <2>3. n # k
    BY <1>1, <1>4
  <2>4. /\ nextAssoc' \in [Threads -> Keys \cup {NoKey}] /\ nextAssoc'[t] = n
        /\ \A w \in Threads \ {t} : nextAssoc'[w] = nextAssoc[w]
    BY <1>4, <1>8, <2>3 DEF ptw32_tkAssocDestroy, KeysInv, KeyTypes
  <2>5. KeyTypes'
    BY <1>1, <1>5, <2>1, <2>4 DEF KeysInv, KeyTypes
  <2>6. Owed'
    BY <1>1, <1>5, <2>1, <2>2 DEF KeysInv, Owed, NoDelete
  <2>7. InCall' /\ Exclusive'
    BY <1>1, <1>6, <2>1 DEF KeysInv, InCall, Exclusive
  <2>8. Scans'
    <3> SUFFICES ASSUME NEW w \in Threads
        PROVE  /\ round[w] > 0 => op[w] \in {"exit", "key_delete"}
               /\ op[w] = "exit" /\ pc[w] # "enter" => round[w] > 0
               /\ Ending(w)' /\ round[w] > 0 => nextAssoc'[w] \in Members(keys'[w]) \cup {NoKey}
               /\ op[w] = "exit" /\ pc[w] = "destructor" => again[w]
               /\ op[w] = "key_delete" /\ round[w] > 0 => again[w]
               /\ op[w] = "exit" /\ pc[w] = "scan" /\ ~again[w] => nextAssoc'[w] = First(keys'[w])
               /\ pc[w] = "exited" => keys'[w] = <<>>
      BY <1>1, <2>1 DEF Scans
    <3>1. Ending(w)' <=> Ending(w)
      BY <1>1, <2>1 DEF Ending, Inside
    <3>2. CASE w = t
      <4>1. ~again[t] => k = First(keys[t])
        BY <1>1 DEF KeysInv, Scans, k
      <4> QED BY <1>1, <1>4, <2>2, <2>4, <3>2, <4>1
    <3>3. CASE w # t
      BY <2>2, <2>4, <3>1, <3>3 DEF KeysInv, Scans
    <3> QED BY <3>2, <3>3
  <2> QED BY <2>2, <2>5, <2>6, <2>7, <2>8 DEF KeysInv
<1> QED BY <1>7, <1>8 DEF ExitScan, k, n

\* A call begins, or a destructor calls pthread_key_delete.
LEMMA Begins ==
  ASSUME KeysInv, NEW t \in Threads, NEW f \in KeyOps \cup {"exit"},
         op' = [op EXCEPT ![t] = f], pc' = [pc EXCEPT ![t] = "enter"],
         target' = [target EXCEPT ![t] = target'[t]],
         UNCHANGED <<key, threads, keys, nextAssoc, isSet, round, again>>,
         f \in KeyOps => target'[t] \in Keys,
         f \in {"setspecific", "key_delete"} => key[target'[t]] = "live",
         \/ op[t] = "none"
         \/ f = "key_delete" /\ op[t] = "exit" /\ Inside(t) /\ again[t],
         f \in KeyOps \ {"key_delete"} => NoDelete(target'[t]),
         f = "exit" => \A u \in Threads : op[u] # "key_delete",
         f = "key_delete" => /\ \A u \in Threads \ {t} : Inside(u) => target[u] # target'[t]
                             /\ \A u \in Threads \ {t} : ~Ending(u)
  PROVE  KeysInv'
<1>1. /\ pc' = [u \in Threads |-> pc'[u]] /\ op' = [u \in Threads |-> op'[u]]
      /\ pc'[t] = "enter" /\ op'[t] = f
      /\ \A u \in Threads \ {t} : pc'[u] = pc[u] /\ op'[u] = op[u]
  BY GoesTo DEF KeysInv
<1>2. target' = [u \in Threads |-> target'[u]] /\ \A u \in Threads \ {t} : target'[u] = target[u]
  BY DEF KeysInv, KeyTypes
<1>3. KeyTypes' /\ Chained'
  BY <1>1, <1>2 DEF KeysInv, KeyTypes, Chained
<1>4. op[t] \notin KeyOps
  BY DEF KeyOps
<1>5. Owed'
  <2>1. \A k \in Keys : ~NoDelete(k) => ~NoDelete(k)'
    BY <1>1, <1>2, <1>4 DEF NoDelete, KeyOps
  <2> QED BY <2>1 DEF KeysInv, Owed
<1>6. InCall'
  BY <1>1, <1>2 DEF KeysInv, InCall, KeyOps
<1>7. \A u \in Threads : op[u] \in KeyOps => Inside(u) /\ op[u] # "none"
  BY DEF KeysInv, InCall, Inside, KeyOps
<1>8. round[t] > 0 => op[t] = "exit" /\ f = "key_delete" /\ again[t] /\ Ending(t)
  BY DEF KeysInv, Scans, Ending
<1>9. \A u \in Threads \ {t} : Ending(u)' <=> Ending(u)
  BY <1>1 DEF Ending, Inside
<1>10. Exclusive'
  <2> SUFFICES ASSUME NEW u \in Threads, op'[u] = "key_delete"
      PROVE  /\ \A w \in Threads : op'[w] \in KeyOps /\ target'[w] = target'[u] => w = u
             /\ \A w \in Threads : Ending(w)' => w = u
             /\ pc'[u] = "unlink" => threads[target'[u]] # <<>>
             /\ pc'[u] = "free" => threads[target'[u]] = <<>>
    BY DEF Exclusive
  <2>1. CASE u = t
    BY <1>1, <1>2, <1>7, <1>9, <2>1
  <2>2. CASE u # t
    <3>1. op[u] = "key_delete" /\ target'[u] = target[u] /\ pc'[u] = pc[u]
      BY <1>1, <1>2, <2>2
    <3>2. ~Ending(t) /\ f # "exit"
      BY <2>2, <3>1 DEF KeysInv, Exclusive
    <3>3. ~(round[t] > 0)
      BY <1>8, <3>2
    <3>4. f \in KeyOps => target'[t] # target[u]
      <4>1. CASE f = "key_delete"
        BY <1>7, <2>2, <3>1, <4>1 DEF KeyOps
      <4>2. CASE f # "key_delete"
        BY <3>1, <4>2 DEF NoDelete
      <4> QED BY <4>1, <4>2
    <3>5. ~Ending(t)'
      BY <1>1, <3>2, <3>3 DEF Ending
    <3> QED BY <1>1, <1>2, <1>9, <2>2, <3>1, <3>4, <3>5 DEF KeysInv, Exclusive
  <2> QED BY <2>1, <2>2
<1>11. Scans'
  <2> SUFFICES ASSUME NEW u \in Threads
      PROVE  /\ round[u] > 0 => op'[u] \in {"exit", "key_delete"}
             /\ op'[u] = "exit" /\ pc'[u] # "enter" => round[u] > 0
             /\ Ending(u)' /\ round[u] > 0 => nextAssoc[u] \in Members(keys[u]) \cup {NoKey}
             /\ op'[u] = "exit" /\ pc'[u] = "destructor" => again[u]
             /\ op'[u] = "key_delete" /\ round[u] > 0 => again[u]
             /\ op'[u] = "exit" /\ pc'[u] = "scan" /\ ~again[u] => nextAssoc[u] = First(keys[u])
             /\ pc'[u] = "exited" => keys[u] = <<>>
    BY DEF Scans
  <2>1. CASE u = t
    BY <1>1, <1>8, <2>1 DEF KeysInv, Scans
  <2>2. CASE u # t
    BY <1>1, <1>9, <2>2 DEF KeysInv, Scans
  <2> QED BY <2>1, <2>2
<1> QED BY <1>3, <1>5, <1>6, <1>10, <1>11 DEF KeysInv

LEMMA DestructorStep == ASSUME CarefulDelete, KeysInv, NEW t \in Threads, Destructor(t) PROVE KeysInv'
<1>1. op[t] = "exit" /\ pc[t] = "destructor" /\ UNCHANGED <<key, nextAssoc, round, again>>
  BY DEF Destructor, In
<1>2. again[t] /\ round[t] > 0 /\ Inside(t)
  BY <1>1 DEF KeysInv, Scans, Inside
<1>3. CASE Goto(t, "scan") /\ UNCHANGED <<isSet, threads, keys, resets, target>>
  <2>1. op' = [op EXCEPT ![t] = op[t]] /\ pc' = [pc EXCEPT ![t] = "scan"]
    BY <1>3 DEF Goto, KeysInv, KeyTypes
  <2> QED BY <1>1, <1>2, <1>3, <2>1, JustGoes
<1>4. ASSUME NEW k \in Keys, key[k] = "live", NoDelete(k), SetValue(t, k, TRUE),
             Goto(t, "scan"), UNCHANGED target
      PROVE  KeysInv'
  <2>1. op' = [op EXCEPT ![t] = "exit"] /\ pc' = [pc EXCEPT ![t] = "scan"]
    BY <1>1, <1>4 DEF Goto, KeysInv, KeyTypes
  <2> QED BY <1>1, <1>4, <2>1, SetStep DEF SetValue
<1>5. ASSUME NEW k \in Keys, MayDelete(t, k), target' = [target EXCEPT ![t] = k],
             op' = [op EXCEPT ![t] = "key_delete"], pc' = [pc EXCEPT ![t] = "enter"],
             UNCHANGED <<isSet, threads, keys>>
      PROVE  KeysInv'
  <2>1. target'[t] = k /\ target' = [target EXCEPT ![t] = target'[t]]
    <3>1. DOMAIN target = Threads
      BY DEF KeysInv, KeyTypes
    <3> QED BY <1>5, <3>1
  <2>2. /\ key[k] = "live" /\ \A u \in Threads \ {t} : Inside(u) => target[u] # k
        /\ \A u \in Threads \ {t} : ~Ending(u)
    BY <1>5 DEF MayDelete, CarefulDelete
  <2> QED BY <1>1, <1>2, <1>5, <2>1, <2>2, Begins DEF KeyOps
<1> QED BY <1>3, <1>4, <1>5 DEF Destructor

LEMMA KeysCallsStep == ASSUME CarefulDelete, KeysInv, NEW t \in Threads, KeysCalls(t) PROVE KeysInv'
<1>1. UNCHANGED <<key, threads, keys, nextAssoc, isSet, round, again>>
  BY DEF KeysCalls
<1>2. ASSUME NEW f, Call(t, "keys", f)
      PROVE  op' = [op EXCEPT ![t] = f] /\ pc' = [pc EXCEPT ![t] = "enter"] /\ op[t] = "none"
  BY <1>2 DEF Call, Idle, KeysInv, InCall
<1>3. ASSUME NEW k \in Keys, target' = [target EXCEPT ![t] = k], key[k] = "none", Call(t, "keys", "key_create")
      PROVE  KeysInv'
  <2>1. target'[t] = k /\ target' = [target EXCEPT ![t] = target'[t]]
    BY <1>3 DEF KeysInv, KeyTypes
  <2>2. NoDelete(k)
    BY <1>3 DEF NoDelete, KeysInv, InCall
  <2>3. op' = [op EXCEPT ![t] = "key_create"] /\ pc' = [pc EXCEPT ![t] = "enter"] /\ op[t] = "none"
    BY <1>2, <1>3
  <2> QED BY <1>1, <2>1, <2>2, <2>3, Begins DEF KeyOps
<1>4. ASSUME NEW k \in Keys, target' = [target EXCEPT ![t] = k], key[k] = "live", NoDelete(k),
             NEW f \in {"setspecific", "getspecific"}, Call(t, "keys", f)
      PROVE  KeysInv'
  <2>1. target'[t] = k /\ target' = [target EXCEPT ![t] = target'[t]]
    BY <1>4 DEF KeysInv, KeyTypes
  <2>2. op' = [op EXCEPT ![t] = f] /\ pc' = [pc EXCEPT ![t] = "enter"] /\ op[t] = "none"
    BY <1>2, <1>4
  <2>3. f \in KeyOps \ {"key_delete"} /\ f # "exit" /\ key[target'[t]] = "live" /\ NoDelete(target'[t])
    BY <1>4, <2>1 DEF KeyOps
  <2> QED BY <1>1, <2>1, <2>2, <2>3, Begins
<1>5. ASSUME NEW k \in Keys, target' = [target EXCEPT ![t] = k], MayDelete(t, k), Call(t, "keys", "key_delete")
      PROVE  KeysInv'
  <2>1. target'[t] = k /\ target' = [target EXCEPT ![t] = target'[t]]
    BY <1>5 DEF KeysInv, KeyTypes
  <2>2. /\ key[k] = "live" /\ \A u \in Threads \ {t} : Inside(u) => target[u] # k
        /\ \A u \in Threads \ {t} : ~Ending(u)
    BY <1>5 DEF MayDelete, CarefulDelete
  <2>3. op' = [op EXCEPT ![t] = "key_delete"] /\ pc' = [pc EXCEPT ![t] = "enter"] /\ op[t] = "none"
    BY <1>2, <1>5
  <2> QED BY <1>1, <2>1, <2>2, <2>3, Begins DEF KeyOps
<1>6. CASE /\ FreeDelete \/ \A u \in Threads : op[u] # "key_delete"
           /\ Call(t, "keys", "exit") /\ UNCHANGED target
  <2>1. target' = [target EXCEPT ![t] = target'[t]]
    BY <1>6 DEF KeysInv, KeyTypes
  <2>2. "exit" \notin KeyOps
    BY DEF KeyOps
  <2> QED BY <1>1, <1>2, <1>6, <2>1, <2>2, Begins DEF CarefulDelete
<1> QED BY <1>3, <1>4, <1>5, <1>6 DEF KeysCalls

LEMMA KeysInvStep ==
  ASSUME CarefulDelete, KeysInv, [\E t \in Threads : KeysNext(t) \/ KeysCalls(t)]_<<callVars, keyVars>>
  PROVE  KeysInv'
<1>1. CASE UNCHANGED <<callVars, keyVars>>
  <2>1. UNCHANGED <<pc, op, key, threads, keys, nextAssoc, isSet, target, round, again>>
    BY <1>1 DEF callVars, keyVars
  <2>2. KeyTypes' /\ Chained'
    BY <2>1 DEF KeysInv, KeyTypes, Chained
  <2>3. Owed' /\ InCall'
    BY <2>1 DEF KeysInv, Owed, InCall, NoDelete
  <2>4. Exclusive' /\ Scans'
    BY <2>1 DEF KeysInv, Exclusive, Scans, Ending, Inside
  <2> QED BY <2>2, <2>3, <2>4 DEF KeysInv
<1>2. ASSUME NEW t \in Threads, KeysNext(t) PROVE KeysInv'
  BY <1>2, KeyCreateStep, SetspecificStep, PlainStep, DeleteUnlinkStep, DeleteFreeStep, ExitRoundStep,
     ExitScanStep, DestructorStep
  DEF KeysNext, pthread_key_delete, ptw32_callUserDestroyRoutines
<1> QED BY <1>1, <1>2, KeysCallsStep

LEMMA KeysInvIsEnough == KeysInv => TsdInStep
<1> SUFFICES ASSUME KeysInv PROVE TsdInStep
  OBVIOUS
<1>1. ASSUME NEW t \in Threads, NEW k \in Keys
      PROVE  /\ t \in Members(threads[k]) <=> k \in Members(keys[t])
             /\ isSet[t][k] /\ k \in Destructed => k \in Members(keys[t]) \/ ~NoDelete(k)
             /\ key[k] # "live" => threads[k] = <<>>
             /\ pc[t] = "exited" /\ NoDelete(k) => ~(k \in Destructed /\ isSet[t][k]) /\ keys[t] = <<>>
  <2>1. Members(<<>>) = {}
    BY DEF Members
  <2> QED BY <2>1 DEF KeysInv, Chained, Owed, Scans
<1>2. ASSUME NEW t \in Threads, op[t] \in {"exit", "key_delete"}, round[t] > 0, Inside(t)
      PROVE  nextAssoc[t] \in Members(keys[t]) \cup {NoKey}
  BY <1>2 DEF KeysInv, Scans, Ending
<1> QED BY <1>1, <1>2 DEF TsdInStep

\* Whatever the keys, the threads, the values that destructors set again and
\* the rounds they get: when a key is deleted only while no thread ends, the
\* chains of keys and threads agree, no association outlives its key, a scan
\* stands at an association that is still there, and a thread that has ended
\* owes no destructor a value.
THEOREM ChainsStayInStep == ASSUME CarefulDelete PROVE KeysSpec => []TsdInStep
<1>1. CallsInit({"keys"}) /\ KeysInit => KeysInv
  BY KeysInvInit
<1>2. KeysInv /\ [\E t \in Threads : KeysNext(t) \/ KeysCalls(t)]_<<callVars, keyVars>> => KeysInv'
  BY KeysInvStep
<1>3. KeysInv => TsdInStep
  BY KeysInvIsEnough
<1> QED BY <1>1, <1>2, <1>3, PTL DEF KeysSpec
=============================================================================
