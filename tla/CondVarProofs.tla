--------------------------- MODULE CondVarProofs ---------------------------
(***************************************************************************)
(* Theorems about the condition variables of pthreads-w32, for any number  *)
(* of threads, of calls and of items, with waiters that are signalled,     *)
(* time out and are cancelled as they come.  They are about the part of    *)
(* MCWaits' specification in which the program uses a condition variable.  *)
(***************************************************************************)
EXTENDS CondVar, FiniteSetTheorems, TLAPS

\* The threads call, are cancelled, and take the library's steps.
CondStep ==
  \E t \in Threads : CondNext(t) \/ CondCalls(t) \/ (Cancel(t) /\ UNCHANGED condVars)

CondSpec == CallsInit({"cond"}) /\ CondInit /\ [][CondStep]_<<callVars, condVars>>

-----------------------------------------------------------------------------
(* The invariant of the counters *)

CondTypes ==
  /\ pc = [t \in Threads |-> pc[t]] /\ op = [t \in Threads |-> op[t]]
  /\ holds = [t \in Threads |-> 0] /\ object = "cond"
  /\ IsFiniteSet(Within)

CondNumbers ==
  /\ cond \in {"static", "null", "valid"}
  /\ blocked \in Nat /\ toUnblock \in Nat /\ gone \in Nat /\ gate \in {0, 1}
  /\ queue \in Nat /\ issue \in [Threads -> Nat] /\ items \in Nat

Balance == blocked + toUnblock - gone = Cardinality(Within)

\* Woken threads that are counted keep the gate closed, and so does one that
\* comes through it or is about to open it, or took its post when cancelled.
AtGate == {"entered", "reopen"}
GateHeld ==
  /\ gateLost \in BOOLEAN /\ (gateLost => toUnblock = 0 /\ cond = "valid")
  /\ gate = 1 => toUnblock = 0 /\ ~gateLost /\ \A t \in Threads : pc[t] \notin AtGate
  /\ toUnblock > 0 \/ gateLost => \A t \in Threads : pc[t] \notin AtGate
  /\ gate = 0 => toUnblock > 0 \/ gateLost \/ \E t \in Threads : pc[t] \in AtGate
  /\ \A t, u \in Threads : pc[t] \in AtGate /\ pc[u] \in AtGate => t = u

\* While a thread keeps mtxUnblockLock from one step to the next, no woken
\* threads are counted.
Unblocking == {"trim", "close"}
UnblockerHeld ==
  /\ unblocker \in Threads \cup {NoThread}
  /\ \A t \in Threads : pc[t] \in Unblocking <=> unblocker = t
  /\ unblocker # NoThread => toUnblock = 0
  /\ \A t \in Threads : pc[t] = "close" => blocked > gone

\* Only a variable that is there has waiters and signals under way, ...
InUse == {"gate", "entered", "unlock", "asleep", "cleanup", "reopen", "trim", "close"}
UsedIsValid == cond # "valid" => \A t \in Threads : pc[t] \notin InUse

\* ... one thread at a time initialises it, and who destroys it finds the
\* others asleep or on their way out.
Initialising(t) == In(t, "cond_init", "enter")
Leaving == {"asleep", "cleanup", "trim", "reopen", "relock", "test", "idle", "exited"}
Destroying(t) == op[t] = "cond_destroy" /\ pc[t] \in {"enter", "closing"}
Apart ==
  /\ \A t \in Threads : Initialising(t) =>
       cond = "null" /\ \A u \in Threads \ {t} : ~Initialising(u)
  /\ \A t \in Threads : Destroying(t) => \A u \in Threads \ {t} : pc[u] \in Leaving

CondInv ==
  CondTypes /\ CondNumbers /\ Balance /\ GateHeld /\ UnblockerHeld /\ UsedIsValid /\ Apart

LEMMA CondInvInit == CallsInit({"cond"}) /\ CondInit => CondInv
<1> SUFFICES ASSUME CallsInit({"cond"}), CondInit PROVE CondInv
  OBVIOUS
<1>1. \A t \in Threads : pc[t] = "idle" /\ op[t] = "none"
  BY DEF CallsInit
<1>2. Within = {}
  BY <1>1 DEF Within
<1>3. CondTypes
  BY <1>2, FS_EmptySet DEF CondTypes, CallsInit
<1>4. CondNumbers
  BY DEF CondNumbers, CondInit
<1>5. Balance
  BY <1>2, FS_EmptySet DEF Balance, CondInit
<1>6. GateHeld /\ UnblockerHeld
  <2>1. gateLost = FALSE /\ gateLost \in BOOLEAN /\ gate = 1 /\ toUnblock = 0
    BY DEF CondInit
  <2>2. \A t \in Threads : pc[t] \notin AtGate
    BY <1>1 DEF AtGate
  <2>3. GateHeld
    BY <2>1, <2>2 DEF GateHeld
  <2>4. UnblockerHeld
    BY <1>1, CallsAssumption DEF UnblockerHeld, Unblocking, CondInit
  <2> QED BY <2>3, <2>4
<1>7. UsedIsValid /\ Apart
  BY <1>1 DEF UsedIsValid, InUse, Apart, Initialising, Destroying, In
<1> QED BY <1>3, <1>4, <1>5, <1>6, <1>7 DEF CondInv

-----------------------------------------------------------------------------
(* The kinds of steps *)

\* Thread t goes to l in function f.
Goes(t, f, l) ==
  /\ pc' = [pc EXCEPT ![t] = l] /\ op' = [op EXCEPT ![t] = f]
  /\ UNCHANGED <<object, holds>>

LEMMA CallMoves ==
  ASSUME CondTypes, NEW t \in Threads
  PROVE  /\ \A r : Return(t, r) => Goes(t, "none", "idle")
         /\ Exit(t) => Goes(t, op[t], "exited")
         /\ \A l : Goto(t, l) => Goes(t, op[t], l)
         /\ \A f, l : Turn(t, f, l) => Goes(t, f, l)
BY DEF CondTypes, Return, ReturnHolding, Exit, Goto, Turn, Goes

LEMMA Elsewhere ==
  ASSUME CondTypes, NEW t \in Threads, NEW f, NEW l, Goes(t, f, l)
  PROVE  \A u \in Threads : pc'[u] = (IF u = t THEN l ELSE pc[u]) /\ op'[u] = (IF u = t THEN f ELSE op[u])
BY DEF CondTypes, Goes

\* What a thread at l counts for in Within.
WithinAt == {"entered", "unlock", "asleep", "cleanup"}
Count(l) == IF l \in WithinAt THEN 1 ELSE 0

LEMMA WithinChange ==
  ASSUME CondTypes, NEW t \in Threads, NEW f, NEW l, Goes(t, f, l)
  PROVE  /\ IsFiniteSet(Within') /\ Cardinality(Within) \in Nat
         /\ Cardinality(Within') = Cardinality(Within) + Count(l) - Count(pc[t])
<1>1. Within' = IF l \in WithinAt THEN Within \cup {t} ELSE Within \ {t}
  BY DEF CondTypes, Goes, Within, WithinAt
<1>2. t \in Within <=> pc[t] \in WithinAt
  BY DEF Within, WithinAt
<1>3. IsFiniteSet(Within) /\ Cardinality(Within) \in Nat
  BY FS_CardinalityType DEF CondTypes
<1>4. CASE l \in WithinAt
  BY <1>1, <1>2, <1>3, <1>4, FS_AddElement DEF Count
<1>5. CASE l \notin WithinAt
  BY <1>1, <1>2, <1>3, <1>5, FS_RemoveElement DEF Count
<1> QED BY <1>4, <1>5

\* Thread t does not start to destroy the variable or to wait for it.
LEMMA ApartKept ==
  ASSUME CondInv, NEW t \in Threads, NEW f, NEW l, Goes(t, f, l),
         cond' = cond \/ cond' = "null" \/ cond = "static" \/ Initialising(t),
         l \notin {"enter", "closing"}, l \in Leaving \/ pc[t] \notin Leaving
  PROVE  Apart'
<1>1. \A u \in Threads : pc'[u] = (IF u = t THEN l ELSE pc[u]) /\ op'[u] = (IF u = t THEN f ELSE op[u])
  BY Elsewhere DEF CondInv
<1>2. ASSUME NEW u \in Threads, Initialising(u)'
      PROVE  cond' = "null" /\ \A v \in Threads \ {u} : ~Initialising(v)'
  <2>1. u # t /\ Initialising(u)
    BY <1>1, <1>2 DEF Initialising, In
  <2>2. cond = "null" /\ \A v \in Threads \ {u} : ~Initialising(v)
    BY <2>1 DEF CondInv, Apart
  <2>3. \A v \in Threads : Initialising(v)' => Initialising(v)
    BY <1>1 DEF Initialising, In
  <2>4. cond' = "null"
    BY <2>1, <2>2
  <2>5. ASSUME NEW v \in Threads \ {u} PROVE ~Initialising(v)'
    BY <2>2, <2>3
  <2> QED BY <2>4, <2>5
<1>3. ASSUME NEW u \in Threads, Destroying(u)', NEW v \in Threads \ {u} PROVE pc'[v] \in Leaving
  <2>1. u # t /\ Destroying(u)
    BY <1>1, <1>3 DEF Destroying
  <2>2. \A w \in Threads \ {u} : pc[w] \in Leaving
    BY <2>1 DEF CondInv, Apart
  <2> QED BY <1>1, <2>1, <2>2
<1> QED BY <1>2, <1>3 DEF Apart

LEMMA UsedKept ==
  ASSUME CondInv, NEW t \in Threads, NEW f, NEW l, Goes(t, f, l),
         cond' # "valid" => /\ l \notin InUse
                            /\ cond # "valid" \/ \A u \in Threads \ {t} : pc[u] \notin InUse
  PROVE  UsedIsValid'
BY Elsewhere DEF CondInv, UsedIsValid

\* A step of the library in the call of thread t.
LEMMA LibraryMoves ==
  ASSUME CondInv, NEW t \in Threads, NEW f, NEW l, Goes(t, f, l), cond' = cond,
         l \notin {"enter", "closing"}, l \in Leaving \/ pc[t] \notin Leaving,
         l \in InUse => cond = "valid",
         CondNumbers', GateHeld', UnblockerHeld',
         blocked' + toUnblock' - gone' = blocked + toUnblock - gone + Count(l) - Count(pc[t])
  PROVE  CondInv'
<1>1. CondTypes' /\ Balance'
  BY WithinChange DEF CondInv, CondTypes, Balance, Goes
<1>2. Apart'
  BY ApartKept
<1>3. UsedIsValid'
  BY UsedKept DEF CondInv
<1> QED BY <1>1, <1>2, <1>3 DEF CondInv

\* A step that leaves the gate and who may signal as they are.
LEMMA QuietMoves ==
  ASSUME CondInv, NEW t \in Threads, NEW f, NEW l, Goes(t, f, l),
         UNCHANGED <<cond, blocked, toUnblock, gone, gate, unblocker>>,
         l \notin {"enter", "closing"}, l \in Leaving \/ pc[t] \notin Leaving,
         l \in InUse => cond = "valid",
         queue' \in Nat, issue' \in [Threads -> Nat], items' \in Nat, UNCHANGED gateLost,
         {pc[t], l} \cap (AtGate \cup Unblocking) = {}, Count(l) = Count(pc[t])
  PROVE  CondInv'
<1>1. \A u \in Threads : pc'[u] = (IF u = t THEN l ELSE pc[u])
  BY Elsewhere DEF CondInv
<1>2. pc[t] \notin AtGate /\ l \notin AtGate /\ pc[t] \notin Unblocking /\ l \notin Unblocking
  OBVIOUS
<1>3. CondNumbers'
  BY DEF CondInv, CondNumbers
<1>4. GateHeld'
  BY <1>1, <1>2 DEF CondInv, GateHeld
<1>5. UnblockerHeld'
  BY <1>1, <1>2 DEF CondInv, UnblockerHeld, Unblocking
<1>6. blocked' + toUnblock' - gone' = blocked + toUnblock - gone + Count(l) - Count(pc[t])
  BY DEF CondInv, CondNumbers, Count
<1> QED BY <1>3, <1>4, <1>5, <1>6, LibraryMoves

-----------------------------------------------------------------------------
(* The steps of a waiter *)

LEMMA WaitEnterStep ==
  ASSUME CondInv, NEW t \in Threads, WaitEnter(t), UNCHANGED gateLost
  PROVE  CondInv'
<1>1. PICK f, l : Goes(t, f, l) /\ l \in {"test", "needInit", "gate"} /\ (l = "gate" => cond = "valid")
  BY CallMoves DEF CondInv, CondNumbers, WaitEnter
<1>2. pc[t] = "enter" /\ UNCHANGED <<cv, items>>
  BY DEF WaitEnter
<1> QED BY <1>1, <1>2, QuietMoves
        DEF cv, CondInv, CondNumbers, Leaving, InUse, AtGate, Unblocking, Count, WithinAt

\* The variable is made, or cannot be; nothing of an old one is left.
LEMMA NewCondMoves ==
  ASSUME CondInv, NEW t \in Threads, NEW f, NEW l, Goes(t, f, l), NEW ok \in BOOLEAN, NewCond(ok),
         cond = "static" \/ Initialising(t), l \in {"gate", "test", "idle"}, l = "gate" => cond' = "valid",
         l \in Leaving \/ pc[t] \notin Leaving, UNCHANGED <<items, gateLost>>
  PROVE  CondInv'
<1>1. \A u \in Threads : pc'[u] = (IF u = t THEN l ELSE pc[u])
  BY Elsewhere DEF CondInv
<1>2. cond # "valid" /\ \A u \in Threads : pc[u] \notin InUse
  BY DEF CondInv, UsedIsValid, Apart, Initialising
<1>3. CondNumbers'
  BY DEF CondInv, CondNumbers, NewCond
<1>4. l \notin AtGate /\ l \notin Unblocking /\ l \notin WithinAt
  BY DEF AtGate, Unblocking, WithinAt
<1>5. \A u \in Threads : pc[u] \notin AtGate /\ pc[u] \notin Unblocking /\ pc[u] \notin WithinAt
  BY <1>2 DEF InUse, AtGate, Unblocking, WithinAt
<1>6. unblocker = NoThread
  BY <1>5 DEF CondInv, UnblockerHeld
<1>7. GateHeld'
  BY <1>1, <1>2, <1>4, <1>5 DEF CondInv, GateHeld, NewCond
<1>8. UnblockerHeld'
  BY <1>1, <1>4, <1>5, <1>6, CallsAssumption DEF UnblockerHeld, NewCond, Unblocking
<1>9. Within = {}
  BY <1>5 DEF Within, WithinAt
<1>10. CondTypes' /\ Balance'
  BY <1>4, <1>5, <1>9, WithinChange, FS_EmptySet DEF CondInv, CondTypes, Balance, Goes, Count, NewCond
<1>11. UsedIsValid'
  BY <1>2, UsedKept DEF NewCond, InUse
<1>12. Apart'
  BY ApartKept
<1> QED BY <1>3, <1>7, <1>8, <1>10, <1>11, <1>12 DEF CondInv

LEMMA NeedInitStep ==
  ASSUME CondInv, NEW t \in Threads, ptw32_cond_check_need_init(t), UNCHANGED gateLost
  PROVE  CondInv'
<1>1. pc[t] = "needInit" /\ items' = items /\ pc[t] \notin Leaving
  BY DEF ptw32_cond_check_need_init, Leaving
<1>2. CASE cond = "static" /\ NewCond(TRUE) /\ Goto(t, "gate")
  <2>1. Goes(t, op[t], "gate")
    BY <1>2, CallMoves DEF CondInv
  <2>2. cond' = "valid"
    BY <1>2 DEF NewCond
  <2> QED BY <1>1, <1>2, <2>1, <2>2, NewCondMoves
<1>3. CASE cond = "static" /\ NewCond(FALSE) /\ Turn(t, "failed", "test")
  <2>1. Goes(t, "failed", "test")
    BY <1>3, CallMoves DEF CondInv
  <2>2. \E ok \in BOOLEAN : NewCond(ok)
    BY <1>3
  <2> QED BY <1>1, <1>3, <2>1, <2>2, NewCondMoves
<1>4. CASE /\ UNCHANGED cv
           /\ Turn(t, "failed", "test") \/ (cond = "valid" /\ Goto(t, "gate"))
  <2>1. PICK f, l : Goes(t, f, l) /\ l \in {"test", "gate"} /\ (l = "gate" => cond = "valid")
    BY <1>4, CallMoves DEF CondInv
  <2> QED BY <1>1, <1>4, <2>1, QuietMoves
          DEF cv, CondInv, CondNumbers, Leaving, InUse, AtGate, Unblocking, Count, WithinAt
<1> QED BY <1>2, <1>3, <1>4 DEF ptw32_cond_check_need_init

LEMMA WaitGateStep ==
  ASSUME CondInv, NEW t \in Threads, WaitGate(t), UNCHANGED gateLost
  PROVE  CondInv'
<1>1. pc[t] = "gate" /\ cond = "valid" /\ UNCHANGED <<cond, toUnblock, gone, unblocker, queue, issue, items>>
  BY DEF WaitGate, CondInv, UsedIsValid, InUse
<1>2. CASE gate > 0 /\ gate' = gate - 1 /\ blocked' = blocked + 1 /\ Goto(t, "entered")
  <2>1. Goes(t, op[t], "entered")
    BY <1>2, CallMoves DEF CondInv
  <2>2. \A u \in Threads : pc'[u] = (IF u = t THEN "entered" ELSE pc[u])
    BY <2>1, Elsewhere DEF CondInv
  <2>3. gate = 1 /\ gate' = 0 /\ toUnblock = 0
    BY <1>2 DEF CondInv, CondNumbers, GateHeld
  <2>4. CondNumbers'
    BY <1>1, <1>2, <2>3 DEF CondInv, CondNumbers
  <2>5. GateHeld'
    BY <1>1, <2>2, <2>3 DEF CondInv, GateHeld, AtGate
  <2>6. UnblockerHeld'
    BY <1>1, <1>2, <2>2 DEF CondInv, CondNumbers, UnblockerHeld, Unblocking
  <2>7. blocked' + toUnblock' - gone' = blocked + toUnblock - gone + Count("entered") - Count(pc[t])
    BY <1>1, <1>2 DEF CondInv, CondNumbers, Count, WithinAt
  <2> QED BY <1>1, <2>1, <2>4, <2>5, <2>6, <2>7, LibraryMoves DEF Leaving
<1>3. CASE (Turn(t, "dying", "test") \/ Turn(t, "dying", "gate")) /\ UNCHANGED <<gate, blocked>>
  <2>1. PICK l \in {"test", "gate"} : Goes(t, "dying", l)
    BY <1>3, CallMoves DEF CondInv
  <2> QED BY <1>1, <1>3, <2>1, QuietMoves
          DEF CondInv, CondNumbers, Leaving, InUse, AtGate, Unblocking, Count, WithinAt
<1> QED BY <1>2, <1>3 DEF WaitGate

LEMMA GateCancelledStep ==
  ASSUME CondInv, NEW t \in Threads, GateCancelled(t), Lost(t)
  PROVE  CondInv'
<1>1. /\ pc[t] = "gate" /\ op[t] = "dying" /\ cond = "valid"
      /\ UNCHANGED <<cond, blocked, toUnblock, gone, unblocker, queue, issue, items>>
  BY DEF GateCancelled, In, CondInv, UsedIsValid, InUse
<1>2. Goes(t, "dying", "test")
  BY CallMoves DEF GateCancelled, CondInv
<1>3. CASE UNCHANGED gate
  <2>1. UNCHANGED gateLost
    <3>1. gateLost \in BOOLEAN
      BY DEF CondInv, GateHeld
    <3>2. ~(gate' < gate)
      BY <1>3 DEF CondInv, CondNumbers
    <3> QED BY <3>1, <3>2 DEF Lost
  <2> QED BY <1>1, <1>2, <1>3, <2>1, QuietMoves
          DEF CondInv, CondNumbers, Leaving, InUse, AtGate, Unblocking, Count, WithinAt
<1>4. CASE gate > 0 /\ gate' = gate - 1
  <2>1. \A u \in Threads : pc'[u] = (IF u = t THEN "test" ELSE pc[u])
    BY <1>2, Elsewhere DEF CondInv
  <2>2. gate = 1 /\ gate' = 0 /\ toUnblock = 0 /\ \A u \in Threads : pc[u] \notin AtGate
    BY <1>4 DEF CondInv, CondNumbers, GateHeld
  <2>3. gateLost' /\ gateLost' \in BOOLEAN
    <3>1. In(t, "dying", "gate") /\ gate' < gate
      BY <1>1, <2>2 DEF In
    <3> QED BY <3>1, Zenon DEF Lost
  <2>4. CondNumbers'
    BY <1>1, <2>2 DEF CondInv, CondNumbers
  <2>5. GateHeld'
    <3>1. gate' = 0 /\ toUnblock' = 0 /\ cond' = "valid" /\ \A u \in Threads : pc'[u] \notin AtGate
      BY <1>1, <2>1, <2>2 DEF AtGate
    <3> QED BY <2>3, <3>1 DEF GateHeld
  <2>6. UnblockerHeld'
    BY <1>1, <2>1 DEF CondInv, UnblockerHeld, Unblocking
  <2>7. blocked' + toUnblock' - gone' = blocked + toUnblock - gone + Count("test") - Count(pc[t])
    BY <1>1 DEF CondInv, CondNumbers, Count, WithinAt
  <2> QED BY <1>1, <1>2, <2>4, <2>5, <2>6, <2>7, LibraryMoves DEF Leaving, InUse
<1> QED BY <1>3, <1>4 DEF GateCancelled

\* Who comes through the gate, or is about to open it, is the only one to do so.
LEMMA GateOpens ==
  ASSUME CondInv, NEW t \in Threads, pc[t] \in AtGate, UNCHANGED gateLost
  PROVE  /\ gate = 0 /\ toUnblock = 0 /\ \A u \in Threads : pc[u] \in AtGate => u = t
         /\ gateLost' = FALSE
<1>1. ~(toUnblock > 0) /\ gateLost = FALSE
  BY DEF CondInv, GateHeld
<1>2. gate = 0 /\ \A u \in Threads : pc[u] \in AtGate => u = t
  BY DEF CondInv, CondNumbers, GateHeld
<1> QED BY <1>1, <1>2 DEF CondInv, CondNumbers

LEMMA WaitEnteredStep ==
  ASSUME CondInv, NEW t \in Threads, WaitEntered(t), UNCHANGED gateLost
  PROVE  CondInv'
<1>1. pc[t] = "entered" /\ cond = "valid" /\ gate' = gate + 1
      /\ UNCHANGED <<cond, blocked, toUnblock, gone, unblocker, queue, issue, items>>
  BY DEF WaitEntered, CondInv, UsedIsValid, InUse
<1>2. Goes(t, op[t], "unlock")
  BY CallMoves DEF WaitEntered, CondInv
<1>3. \A u \in Threads : pc'[u] = (IF u = t THEN "unlock" ELSE pc[u])
  BY <1>2, Elsewhere DEF CondInv
<1>4. /\ gate = 0 /\ toUnblock = 0 /\ \A u \in Threads : pc[u] \in AtGate => u = t
      /\ gateLost' = FALSE
  BY <1>1, GateOpens DEF AtGate
<1>5. CondNumbers'
  BY <1>1, <1>4 DEF CondInv, CondNumbers
<1>6. GateHeld'
  <2>1. gate' = 1 /\ toUnblock' = 0 /\ ~gateLost' /\ \A u \in Threads : pc'[u] \notin AtGate
    BY <1>1, <1>3, <1>4 DEF AtGate
  <2>2. gateLost' \in BOOLEAN
    BY <1>4
  <2> QED BY <2>1, <2>2 DEF GateHeld
<1>7. UnblockerHeld'
  BY <1>1, <1>3 DEF CondInv, UnblockerHeld, Unblocking
<1>8. blocked' + toUnblock' - gone' = blocked + toUnblock - gone + Count("unlock") - Count(pc[t])
  BY <1>1 DEF CondInv, CondNumbers, Count, WithinAt
<1> QED BY <1>1, <1>2, <1>5, <1>6, <1>7, <1>8, LibraryMoves DEF Leaving

LEMMA WaitUnlockStep ==
  ASSUME CondInv, NEW t \in Threads, WaitUnlock(t), UNCHANGED gateLost
  PROVE  CondInv'
<1>1. pc[t] = "unlock" /\ cond = "valid" /\ UNCHANGED <<cv, items>>
  BY DEF WaitUnlock, CondInv, UsedIsValid, InUse
<1>2. Goes(t, op[t], "asleep")
  BY CallMoves DEF WaitUnlock, CondInv
<1> QED BY <1>1, <1>2, QuietMoves
        DEF cv, CondInv, CondNumbers, Leaving, InUse, AtGate, Unblocking, Count, WithinAt

LEMMA WaitAsleepStep ==
  ASSUME CondInv, NEW t \in Threads, WaitAsleep(t), UNCHANGED gateLost
  PROVE  CondInv'
<1>1. pc[t] = "asleep" /\ cond = "valid"
      /\ UNCHANGED <<cond, blocked, toUnblock, gone, gate, unblocker, issue, items>>
  BY DEF WaitAsleep, CondInv, UsedIsValid, InUse
<1>2. PICK f, l : Goes(t, f, l) /\ l \in {"cleanup", "asleep"}
  BY CallMoves DEF WaitAsleep, CondInv
<1>3. queue' \in Nat
  BY DEF WaitAsleep, CondInv, CondNumbers
<1> QED BY <1>1, <1>2, <1>3, QuietMoves
        DEF CondInv, CondNumbers, Leaving, InUse, AtGate, Unblocking, Count, WithinAt

LEMMA AsleepCancelledStep ==
  ASSUME CondInv, NEW t \in Threads, AsleepCancelled(t), UNCHANGED gateLost
  PROVE  CondInv'
<1>1. pc[t] = "asleep" /\ cond = "valid"
      /\ UNCHANGED <<cond, blocked, toUnblock, gone, gate, unblocker, issue, items>>
  BY DEF AsleepCancelled, In, CondInv, UsedIsValid, InUse
<1>2. Goes(t, "dying", "cleanup")
  BY CallMoves DEF AsleepCancelled, CondInv
<1>3. queue' \in Nat
  BY DEF AsleepCancelled, CondInv, CondNumbers
<1> QED BY <1>1, <1>2, <1>3, QuietMoves
        DEF CondInv, CondNumbers, Leaving, InUse, AtGate, Unblocking, Count, WithinAt

LEMMA CleanupCountStep ==
  ASSUME CondInv, NEW t \in Threads, CleanupCount(t), UNCHANGED gateLost
  PROVE  CondInv'
<1>1. pc[t] = "cleanup" /\ cond = "valid" /\ unblocker = NoThread
      /\ UNCHANGED <<cond, blocked, gate, queue, issue, items>>
  BY DEF CleanupCount, CondInv, UsedIsValid, InUse
<1>2. \A u \in Threads : pc[u] \notin Unblocking
  BY <1>1, CallsAssumption DEF CondInv, UnblockerHeld
<1>3. CASE toUnblock # 0
  <2> DEFINE l == IF toUnblock = 1 THEN "reopen" ELSE "relock"
  <2>1. toUnblock' = toUnblock - 1 /\ Goto(t, l) /\ UNCHANGED <<gone, unblocker>>
    BY <1>3 DEF CleanupCount
  <2>2. Goes(t, op[t], l)
    BY <2>1, CallMoves DEF CondInv
  <2>3. \A u \in Threads : pc'[u] = (IF u = t THEN l ELSE pc[u])
    BY <2>2, Elsewhere DEF CondInv
  <2>4. /\ toUnblock \in Nat /\ toUnblock > 0 /\ gate = 0 /\ \A u \in Threads : pc[u] \notin AtGate
        /\ gateLost' = FALSE
    BY <1>3 DEF CondInv, CondNumbers, GateHeld
  <2>5. l \in {"reopen", "relock"} /\ (l = "reopen" <=> toUnblock = 1)
    OBVIOUS
  <2> HIDE DEF l
  <2>6. CondNumbers'
    BY <1>1, <2>1, <2>4 DEF CondInv, CondNumbers
  <2>7. GateHeld'
    <3>1. /\ toUnblock' \in Nat /\ gate' = 0 /\ ~gateLost'
          /\ toUnblock' > 0 \/ (l = "reopen" /\ toUnblock' = 0)
      BY <1>1, <2>1, <2>4, <2>5
    <3>2. \A u \in Threads : pc'[u] \in AtGate <=> u = t /\ l = "reopen"
      BY <2>3, <2>4, <2>5 DEF AtGate
    <3>3. toUnblock' > 0 => l # "reopen"
      BY <2>1, <2>4, <2>5
    <3>4. gateLost' \in BOOLEAN
      BY <2>4
    <3> QED BY <3>1, <3>2, <3>3, <3>4 DEF GateHeld
  <2>8. UnblockerHeld'
    BY <1>1, <1>2, <2>1, <2>3, <2>5, CallsAssumption DEF UnblockerHeld, Unblocking
  <2>9. blocked' + toUnblock' - gone' = blocked + toUnblock - gone + Count(l) - Count(pc[t])
    BY <1>1, <2>1, <2>5 DEF CondInv, CondNumbers, Count, WithinAt
  <2>10. l \notin {"enter", "closing"} /\ l \in Leaving
    BY <2>5 DEF Leaving
  <2> QED BY <1>1, <2>2, <2>6, <2>7, <2>8, <2>9, <2>10, LibraryMoves
<1>4. CASE toUnblock = 0
  <2> DEFINE l == IF gone' = GoneLimit THEN "trim" ELSE "relock"
  <2>1. /\ gone' = gone + 1 /\ Goto(t, l) /\ toUnblock' = 0
        /\ unblocker' = (IF gone' = GoneLimit THEN t ELSE NoThread)
    BY <1>4 DEF CleanupCount
  <2>2. Goes(t, op[t], l)
    BY <2>1, CallMoves DEF CondInv
  <2>3. \A u \in Threads : pc'[u] = (IF u = t THEN l ELSE pc[u])
    BY <2>2, Elsewhere DEF CondInv
  <2>4. \/ l = "relock" /\ unblocker' = NoThread
        \/ l = "trim" /\ unblocker' = t
    <3>1. unblocker' = (IF gone' = GoneLimit THEN t ELSE NoThread)
      BY <2>1
    <3> QED BY <3>1, Zenon
  <2> HIDE DEF l
  <2>5. CondNumbers'
    BY <1>1, <1>4, <2>1 DEF CondInv, CondNumbers
  <2>6. GateHeld'
    BY <1>1, <1>4, <2>1, <2>3, <2>4 DEF CondInv, GateHeld, AtGate
  <2>7. UnblockerHeld'
    BY <1>1, <1>2, <2>1, <2>3, <2>4, CallsAssumption DEF UnblockerHeld, Unblocking
  <2>8. blocked' + toUnblock' - gone' = blocked + toUnblock - gone + Count(l) - Count(pc[t])
    BY <1>1, <1>4, <2>1, <2>4 DEF CondInv, CondNumbers, Count, WithinAt
  <2>9. l \notin {"enter", "closing"} /\ l \in Leaving
    BY <2>4 DEF Leaving
  <2> QED BY <1>1, <2>2, <2>5, <2>6, <2>7, <2>8, <2>9, LibraryMoves
<1> QED BY <1>3, <1>4

\* With mtxUnblockLock held nobody is counted as woken, so that no fewer are
\* blocked than gone.
LEMMA CleanupTrimStep ==
  ASSUME CondInv, NEW t \in Threads, CleanupTrim(t), UNCHANGED gateLost
  PROVE  CondInv'
<1>1. pc[t] = "trim" /\ gate > 0 /\ blocked' = blocked - gone /\ gone' = 0 /\ unblocker' = NoThread
      /\ UNCHANGED <<cond, toUnblock, gate, queue, issue, items>>
  BY DEF CleanupTrim
<1>2. Goes(t, op[t], "relock")
  BY CallMoves DEF CleanupTrim, CondInv
<1>3. \A u \in Threads : pc'[u] = (IF u = t THEN "relock" ELSE pc[u])
  BY <1>2, Elsewhere DEF CondInv
<1>4. unblocker = t /\ toUnblock = 0
  BY <1>1, CallsAssumption DEF CondInv, UnblockerHeld, Unblocking
<1>5. blocked - gone \in Nat
  BY <1>4, FS_CardinalityType DEF CondInv, CondTypes, CondNumbers, Balance
<1>6. CondNumbers'
  BY <1>1, <1>5 DEF CondInv, CondNumbers
<1>7. GateHeld'
  BY <1>1, <1>3 DEF CondInv, GateHeld, AtGate
<1>8. UnblockerHeld'
  BY <1>1, <1>3, <1>4, CallsAssumption DEF CondInv, UnblockerHeld, Unblocking
<1>9. blocked' + toUnblock' - gone' = blocked + toUnblock - gone + Count("relock") - Count(pc[t])
  BY <1>1 DEF CondInv, CondNumbers, Count, WithinAt
<1> QED BY <1>1, <1>2, <1>6, <1>7, <1>8, <1>9, LibraryMoves DEF Leaving, InUse

LEMMA CleanupReopenStep ==
  ASSUME CondInv, NEW t \in Threads, CleanupReopen(t), UNCHANGED gateLost
  PROVE  CondInv'
<1>1. pc[t] = "reopen" /\ gate' = gate + 1
      /\ UNCHANGED <<cond, blocked, toUnblock, gone, unblocker, queue, issue, items>>
  BY DEF CleanupReopen
<1>2. Goes(t, op[t], "relock")
  BY CallMoves DEF CleanupReopen, CondInv
<1>3. \A u \in Threads : pc'[u] = (IF u = t THEN "relock" ELSE pc[u])
  BY <1>2, Elsewhere DEF CondInv
<1>4. /\ gate = 0 /\ toUnblock = 0 /\ \A u \in Threads : pc[u] \in AtGate => u = t
      /\ gateLost' = FALSE
  BY <1>1, GateOpens DEF AtGate
<1>5. CondNumbers'
  BY <1>1, <1>4 DEF CondInv, CondNumbers
<1>6. GateHeld'
  <2>1. gate' = 1 /\ toUnblock' = 0 /\ ~gateLost' /\ \A u \in Threads : pc'[u] \notin AtGate
    BY <1>1, <1>3, <1>4 DEF AtGate
  <2>2. gateLost' \in BOOLEAN
    BY <1>4
  <2> QED BY <2>1, <2>2 DEF GateHeld
<1>7. UnblockerHeld'
  BY <1>1, <1>3 DEF CondInv, UnblockerHeld, Unblocking
<1>8. blocked' + toUnblock' - gone' = blocked + toUnblock - gone + Count("relock") - Count(pc[t])
  BY <1>1 DEF CondInv, CondNumbers, Count, WithinAt
<1> QED BY <1>1, <1>2, <1>5, <1>6, <1>7, <1>8, LibraryMoves DEF Leaving, InUse

LEMMA CleanupRelockStep ==
  ASSUME CondInv, NEW t \in Threads, CleanupRelock(t), UNCHANGED gateLost
  PROVE  CondInv'
<1>1. pc[t] = "relock" /\ UNCHANGED <<cv, items>>
  BY DEF CleanupRelock
<1>2. Goes(t, op[t], "test")
  BY CallMoves DEF CleanupRelock, CondInv
<1> QED BY <1>1, <1>2, QuietMoves
        DEF cv, CondInv, CondNumbers, Leaving, InUse, AtGate, Unblocking, Count, WithinAt

-----------------------------------------------------------------------------
(* The steps of the program *)

\* Only a thread that is cancelled at the gate takes its post and keeps it.
LEMMA GateKept ==
  ASSUME CondInv, NEW t \in Threads, Lost(t), ~In(t, "dying", "gate")
  PROVE  UNCHANGED gateLost
BY DEF Lost, CondInv, GateHeld

\* Thread t begins function f.
LEMMA Begins ==
  ASSUME CondInv, NEW t \in Threads, NEW f, Goes(t, f, "enter"), pc[t] \in {"idle", "test"},
         UNCHANGED <<cv, gateLost>>, items' \in Nat,
         f = "cond_init" => cond = "null" /\ \A u \in Threads \ {t} : ~Inside(u),
         f = "cond_destroy" => \A u \in Threads \ {t} : pc[u] \in Leaving,
         \A u \in Threads \ {t} : ~Destroying(u)
  PROVE  CondInv'
<1>1. \A u \in Threads :
        pc'[u] = (IF u = t THEN "enter" ELSE pc[u]) /\ op'[u] = (IF u = t THEN f ELSE op[u])
  BY Elsewhere DEF CondInv
<1>2. pc[t] \notin AtGate /\ pc[t] \notin Unblocking /\ Count(pc[t]) = 0 /\ Count("enter") = 0
  BY DEF AtGate, Unblocking, Count, WithinAt
<1>3. CondNumbers'
  BY DEF CondInv, CondNumbers, cv
<1>4. GateHeld'
  BY <1>1, <1>2 DEF CondInv, GateHeld, AtGate, cv
<1>5. UnblockerHeld'
  BY <1>1, <1>2 DEF CondInv, UnblockerHeld, Unblocking, cv
<1>6. CondTypes' /\ Balance'
  <2>1. CondTypes
    BY DEF CondInv
  <2>2. IsFiniteSet(Within') /\ Cardinality(Within') = Cardinality(Within)
    BY <1>2, <2>1, WithinChange
  <2>3. CondTypes'
    BY <2>1, <2>2 DEF CondTypes, Goes
  <2>4. blocked' + toUnblock' - gone' = blocked + toUnblock - gone
    BY DEF cv
  <2> QED BY <2>2, <2>3, <2>4 DEF CondInv, Balance
<1>7. UsedIsValid'
  BY UsedKept DEF cv, InUse, CondInv, UsedIsValid
<1>8. ASSUME NEW u \in Threads, Initialising(u)', NEW v \in Threads \ {u} PROVE cond' = "null" /\ ~Initialising(v)'
  <2>1. cond' = cond
    BY DEF cv
  <2>2. CASE u = t
    <3>1. f = "cond_init" /\ v # t
      BY <1>1, <1>8, <2>2 DEF Initialising, In
    <3>2. ~Initialising(v) /\ cond = "null"
      BY <3>1 DEF Initialising, In, Inside
    <3> QED BY <1>1, <2>1, <3>1, <3>2 DEF Initialising, In
  <2>3. CASE u # t
    <3>1. Initialising(u)
      BY <1>1, <1>8, <2>3 DEF Initialising, In
    <3>2. cond = "null" /\ ~Initialising(v) /\ f # "cond_init"
      BY <2>3, <3>1 DEF CondInv, Apart, Initialising, In, Inside
    <3> QED BY <1>1, <2>1, <3>2 DEF Initialising, In
  <2> QED BY <2>2, <2>3
<1>9. ASSUME NEW u \in Threads, Initialising(u)' PROVE cond' = "null"
  BY <1>1, <1>9 DEF CondInv, Apart, Initialising, In, cv
<1>10. ASSUME NEW u \in Threads, Destroying(u)', NEW v \in Threads \ {u} PROVE pc'[v] \in Leaving
  <2>1. u = t /\ f = "cond_destroy"
    BY <1>1, <1>10 DEF Destroying
  <2> QED BY <1>1, <2>1
<1>11. Apart'
  BY <1>8, <1>9, <1>10 DEF Apart
<1> QED BY <1>3, <1>4, <1>5, <1>6, <1>7, <1>11 DEF CondInv

LEMMA RetestStep ==
  ASSUME CondInv, NEW t \in Threads, Retest(t), UNCHANGED gateLost
  PROVE  CondInv'
<1>1. pc[t] = "test" /\ UNCHANGED cv
  BY DEF Retest
<1>2. CASE /\ op[t] \in CondWaits /\ \A u \in Threads : op[u] # "cond_destroy"
           /\ Goto(t, "enter") /\ items' = items
  <2>1. Goes(t, op[t], "enter")
    BY <1>2, CallMoves DEF CondInv
  <2> QED BY <1>1, <1>2, <2>1, Begins DEF CondInv, CondNumbers, CondWaits, Destroying
<1>3. CASE /\ IF op[t] = "dying" THEN Exit(t) ELSE Return(t, "0")
           /\ items' = IF op[t] = "dying" \/ items = 0 THEN items ELSE items - 1
  <2>1. PICK f, l : Goes(t, f, l) /\ l \in {"idle", "exited"}
    BY <1>3, CallMoves DEF CondInv
  <2>2. items' \in Nat
    BY <1>3 DEF CondInv, CondNumbers
  <2> QED BY <1>1, <2>1, <2>2, QuietMoves
          DEF cv, CondInv, CondNumbers, Leaving, InUse, AtGate, Unblocking, Count, WithinAt
<1> QED BY <1>2, <1>3 DEF Retest

LEMMA Begun ==
  ASSUME CondInv, NEW t \in Threads, NEW f, Call(t, "cond", f)
  PROVE  Goes(t, f, "enter") /\ pc[t] = "idle"
BY DEF CondInv, CondTypes, Call, Idle, Goes

LEMMA CallsFromIdle == ASSUME CondInv, NEW t \in Threads, CondCalls(t) PROVE pc[t] = "idle"
<1>1. CASE \E f : Call(t, "cond", f)
  BY <1>1, Begun
<1>2. CASE Idle(t)
  BY <1>2 DEF Idle
<1> QED BY <1>1, <1>2 DEF CondCalls

LEMMA CondCallsStep == ASSUME CondInv, NEW t \in Threads, CondCalls(t) PROVE CondInv'
<1>1. UNCHANGED <<cv, gateLost>>
  <2>1. \A l : l \in {"gate", "asleep"} => ~In(t, "dying", l)
    <3>1. pc[t] \notin {"gate", "asleep"}
      BY CallsFromIdle
    <3> QED BY <3>1 DEF In
  <2> QED BY <2>1, GateKept DEF CondCalls
<1>2. ASSUME NEW u \in Threads \ {t} PROVE ~Destroying(u)
  <2>1. holds[u] = 0
    BY DEF CondInv, CondTypes
  <2> QED BY <2>1 DEF CondCalls, Open, Undisturbed, Destroying, In
<1>3. CASE (\E f \in CondWaits : Call(t, "cond", f)) /\ items' = items
  <2>1. PICK f \in CondWaits : Call(t, "cond", f)
    BY <1>3
  <2>2. f \notin {"cond_init", "cond_destroy"}
    BY <2>1 DEF CondWaits
  <2>3. Goes(t, f, "enter") /\ pc[t] = "idle"
    BY <2>1, Begun
  <2> QED BY <1>1, <1>2, <1>3, <2>2, <2>3, Begins DEF CondInv, CondNumbers
<1>4. CASE items > 0 /\ items' = items - 1 /\ UNCHANGED <<callVars, outer>>
  <2>1. UNCHANGED Within
    BY <1>4 DEF callVars, Within
  <2> QED BY <1>1, <1>4, <2>1
          DEF callVars, cv, CondInv, CondTypes, CondNumbers, Balance, GateHeld, UnblockerHeld,
              UsedIsValid, Apart, Initialising, Destroying, In
<1>5. CASE (\E f \in {"cond_signal", "cond_broadcast"} : Call(t, "cond", f)) /\ items' = items + 1
  <2>1. PICK f \in {"cond_signal", "cond_broadcast"} : Call(t, "cond", f)
    BY <1>5
  <2>2. f \notin {"cond_init", "cond_destroy"}
    BY <2>1
  <2>3. Goes(t, f, "enter") /\ pc[t] = "idle"
    BY <2>1, Begun
  <2> QED BY <1>1, <1>2, <1>5, <2>2, <2>3, Begins DEF CondInv, CondNumbers
<1>6. CASE Call(t, "cond", "timechange") /\ items' = items
  <2>1. Goes(t, "timechange", "enter") /\ pc[t] = "idle"
    BY <1>6, Begun
  <2> QED BY <1>1, <1>2, <1>6, <2>1, Begins DEF CondInv, CondNumbers
<1>7. CASE cond = "null" /\ Quiet(t) /\ Call(t, "cond", "cond_init") /\ items' = items
  <2>1. Goes(t, "cond_init", "enter") /\ pc[t] = "idle"
    BY <1>7, Begun
  <2> QED BY <1>1, <1>2, <1>7, <2>1, Begins DEF CondInv, CondNumbers, Quiet
<1>8. CASE /\ \A u \in Threads \ {t} : Inside(u) =>
                pc[u] \in {"asleep", "cleanup", "trim", "reopen", "relock"}
           /\ Call(t, "cond", "cond_destroy") /\ items' = items
  <2>1. Goes(t, "cond_destroy", "enter") /\ pc[t] = "idle"
    BY <1>8, Begun
  <2>2. \A u \in Threads \ {t} : pc[u] \in Leaving
    BY <1>8 DEF Inside, Leaving
  <2> QED BY <1>1, <1>2, <1>8, <2>1, <2>2, Begins DEF CondInv, CondNumbers
<1> QED BY <1>3, <1>4, <1>5, <1>6, <1>7, <1>8 DEF CondCalls

LEMMA CancelStep == ASSUME CondInv, NEW t \in Threads, Cancel(t), UNCHANGED condVars PROVE CondInv'
<1>1. UNCHANGED <<object, pc, op, holds, cv, items, gateLost>>
  BY DEF Cancel, condVars
<1>2. UNCHANGED Within
  BY <1>1 DEF Within
<1> QED BY <1>1, <1>2
        DEF cv, CondInv, CondTypes, CondNumbers, Balance, GateHeld, UnblockerHeld, UsedIsValid, Apart,
            Initialising, Destroying, In

-----------------------------------------------------------------------------
(* The steps of signals and of the end of the variable *)

LEMMA TimechangeLockStep ==
  ASSUME CondInv, NEW t \in Threads, TimechangeLock(t), UNCHANGED gateLost
  PROVE  CondInv'
<1>1. pc[t] = "enter"
      /\ UNCHANGED <<cond, blocked, toUnblock, gone, gate, unblocker, queue, issue, items>>
  BY DEF TimechangeLock, In
<1>2. PICK f, l : Goes(t, f, l) /\ l \in {"unblock", "idle"}
  BY CallMoves DEF TimechangeLock, CondInv
<1> QED BY <1>1, <1>2, QuietMoves
        DEF CondInv, CondNumbers, Leaving, InUse, AtGate, Unblocking, Count, WithinAt

\* More waiters are counted as woken while the gate is closed.
LEMMA MoreWoken ==
  ASSUME CondInv, NEW t \in Threads, pc[t] \in {"enter", "unblock"}, unblocker = NoThread,
         toUnblock # 0, NEW n \in Nat, n <= blocked, n > 0,
         toUnblock' = toUnblock + n, blocked' = blocked - n, issue' = [issue EXCEPT ![t] = n],
         Goto(t, "post"), UNCHANGED <<cond, gone, gate, unblocker, queue, items, gateLost>>
  PROVE  CondInv'
<1>1. Goes(t, op[t], "post")
  BY CallMoves DEF CondInv
<1>2. \A u \in Threads : pc'[u] = (IF u = t THEN "post" ELSE pc[u])
  BY <1>1, Elsewhere DEF CondInv
<1>3. toUnblock > 0 /\ toUnblock' > 0
  BY DEF CondInv, CondNumbers
<1>4. CondNumbers'
  BY DEF CondInv, CondNumbers
<1>5. GateHeld'
  BY <1>2, <1>3 DEF CondInv, GateHeld, AtGate
<1>6. UnblockerHeld'
  BY <1>2, CallsAssumption DEF CondInv, UnblockerHeld, Unblocking
<1>7. blocked' + toUnblock' - gone' = blocked + toUnblock - gone + Count("post") - Count(pc[t])
  BY DEF CondInv, CondNumbers, Count, WithinAt
<1> QED BY <1>1, <1>4, <1>5, <1>6, <1>7, LibraryMoves DEF Leaving, InUse

LEMMA SignalLockStep ==
  ASSUME CondInv, NEW t \in Threads, SignalLock(t), UNCHANGED gateLost
  PROVE  CondInv'
<1>1. pc[t] \in {"enter", "unblock"} /\ UNCHANGED <<cond, gone, gate, queue, items>>
  BY DEF SignalLock
<1>2. CASE Signalled(t) /\ UNCHANGED <<toUnblock, blocked, issue, unblocker>>
  <2>1. Goes(t, "none", "idle")
    BY <1>2, CallMoves DEF Signalled, CondInv
  <2> QED BY <1>1, <1>2, <2>1, QuietMoves
          DEF CondInv, CondNumbers, Leaving, InUse, AtGate, Unblocking, Count, WithinAt
<1>3. CASE /\ cond = "valid" /\ unblocker = NoThread /\ toUnblock = 0 /\ blocked > gone
           /\ unblocker' = t /\ Goto(t, "close") /\ UNCHANGED <<toUnblock, blocked, issue>>
  <2>1. Goes(t, op[t], "close")
    BY <1>3, CallMoves DEF CondInv
  <2>2. \A u \in Threads : pc'[u] = (IF u = t THEN "close" ELSE pc[u])
    BY <2>1, Elsewhere DEF CondInv
  <2>3. CondNumbers'
    BY <1>1, <1>3 DEF CondInv, CondNumbers
  <2>4. GateHeld'
    BY <1>1, <1>3, <2>2 DEF CondInv, GateHeld, AtGate
  <2>5. UnblockerHeld'
    BY <1>1, <1>3, <2>2, CallsAssumption DEF CondInv, UnblockerHeld, Unblocking
  <2>6. blocked' + toUnblock' - gone' = blocked + toUnblock - gone + Count("close") - Count(pc[t])
    BY <1>1, <1>3 DEF CondInv, CondNumbers, Count, WithinAt
  <2> QED BY <1>1, <1>3, <2>1, <2>3, <2>4, <2>5, <2>6, LibraryMoves DEF Leaving
<1>4. CASE /\ cond = "valid" /\ unblocker = NoThread /\ toUnblock # 0 /\ blocked > 0
           /\ LET n == IF op[t] = "cond_signal" THEN 1 ELSE blocked IN
              /\ toUnblock' = toUnblock + n /\ blocked' = blocked - n
              /\ issue' = [issue EXCEPT ![t] = n]
           /\ Goto(t, "post") /\ UNCHANGED unblocker
  <2>1. blocked \in Nat
    BY DEF CondInv, CondNumbers
  <2>2. PICK n \in Nat : /\ n <= blocked /\ n > 0 /\ toUnblock' = toUnblock + n /\ blocked' = blocked - n
                         /\ issue' = [issue EXCEPT ![t] = n]
    <3>1. PICK n : n = IF op[t] = "cond_signal" THEN 1 ELSE blocked
      OBVIOUS
    <3>2. n \in Nat /\ n <= blocked /\ n > 0
      BY <1>4, <2>1, <3>1
    <3>3. toUnblock' = toUnblock + n /\ blocked' = blocked - n /\ issue' = [issue EXCEPT ![t] = n]
      BY <1>4, <3>1
    <3> QED BY <3>2, <3>3
  <2> QED BY <1>1, <1>4, <2>2, MoreWoken
<1> QED BY <1>2, <1>3, <1>4 DEF SignalLock

LEMMA SignalCloseStep ==
  ASSUME CondInv, NEW t \in Threads, SignalClose(t), UNCHANGED gateLost
  PROVE  CondInv'
<1>1. pc[t] = "close" /\ gate > 0 /\ cond = "valid" /\ UNCHANGED <<cond, queue, items>>
      /\ gone' = 0 /\ gate' = gate - 1 /\ unblocker' = NoThread
  BY DEF SignalClose, CondInv, UsedIsValid, InUse
<1>2. Goes(t, op[t], "post")
  BY CallMoves DEF SignalClose, CondInv
<1>3. \A u \in Threads : pc'[u] = (IF u = t THEN "post" ELSE pc[u])
  BY <1>2, Elsewhere DEF CondInv
<1>4. unblocker = t /\ toUnblock = 0 /\ blocked > gone /\ gate = 1 /\ blocked \in Nat /\ gone \in Nat
  BY <1>1, CallsAssumption DEF CondInv, UnblockerHeld, Unblocking, CondNumbers
<1>5. PICK n \in Nat : /\ n > 0 /\ n <= blocked - gone /\ toUnblock' = n /\ blocked' = blocked - gone - n
                       /\ issue' = [issue EXCEPT ![t] = n]
  <2>1. PICK n : n = IF op[t] = "cond_signal" THEN 1 ELSE blocked - gone
    OBVIOUS
  <2>2. n \in Nat /\ n <= blocked - gone /\ n > 0
    BY <1>4, <2>1
  <2>3. toUnblock' = n /\ blocked' = blocked - gone - n /\ issue' = [issue EXCEPT ![t] = n]
    BY <2>1 DEF SignalClose
  <2> QED BY <2>2, <2>3
<1>6. CondNumbers'
  BY <1>1, <1>4, <1>5 DEF CondInv, CondNumbers
<1>7. GateHeld'
  BY <1>1, <1>3, <1>4, <1>5 DEF CondInv, GateHeld, AtGate
<1>8. UnblockerHeld'
  BY <1>1, <1>3, <1>4, CallsAssumption DEF CondInv, UnblockerHeld, Unblocking
<1>9. blocked' + toUnblock' - gone' = blocked + toUnblock - gone + Count("post") - Count(pc[t])
  BY <1>1, <1>4, <1>5 DEF Count, WithinAt
<1> QED BY <1>1, <1>2, <1>6, <1>7, <1>8, <1>9, LibraryMoves DEF Leaving, InUse

LEMMA SignalPostStep ==
  ASSUME CondInv, NEW t \in Threads, SignalPost(t), UNCHANGED gateLost
  PROVE  CondInv'
<1>1. pc[t] = "post" /\ UNCHANGED <<cond, blocked, toUnblock, gone, gate, unblocker, items>>
      /\ queue' = queue + issue[t] /\ issue' = [issue EXCEPT ![t] = 0]
  BY DEF SignalPost
<1>2. Goes(t, "none", "idle")
  BY CallMoves DEF SignalPost, Signalled, CondInv
<1>3. queue' \in Nat /\ issue' \in [Threads -> Nat]
  BY <1>1 DEF CondInv, CondNumbers
<1> QED BY <1>1, <1>2, <1>3, QuietMoves
        DEF CondInv, CondNumbers, Leaving, InUse, AtGate, Unblocking, Count, WithinAt

LEMMA InitStep ==
  ASSUME CondInv, NEW t \in Threads, pthread_cond_init(t), UNCHANGED gateLost
  PROVE  CondInv'
<1>1. Goes(t, "none", "idle") /\ Initialising(t) /\ items' = items
  BY CallMoves DEF pthread_cond_init, Initialising, CondInv
<1>2. \E ok \in BOOLEAN : NewCond(ok)
  BY DEF pthread_cond_init
<1> QED BY <1>1, <1>2, NewCondMoves DEF Leaving

\* A variable that nobody is in is forgotten.
LEMMA Forgets ==
  ASSUME CondInv, NEW t \in Threads, Goes(t, "none", "idle"), cond' = "null",
         UNCHANGED <<blocked, toUnblock, gone, gate, unblocker, queue, issue, items, gateLost>>,
         ~gateLost, \A u \in Threads : pc[u] \notin InUse
  PROVE  CondInv'
<1>1. \A u \in Threads : pc'[u] = (IF u = t THEN "idle" ELSE pc[u])
  BY Elsewhere DEF CondInv
<1>2. pc[t] \notin AtGate /\ pc[t] \notin Unblocking /\ Count(pc[t]) = 0 /\ Count("idle") = 0
  BY DEF InUse, AtGate, Unblocking, Count, WithinAt
<1>3. CondNumbers'
  BY DEF CondInv, CondNumbers
<1>4. GateHeld'
  BY <1>1, <1>2 DEF CondInv, GateHeld, AtGate
<1>5. UnblockerHeld'
  BY <1>1, <1>2 DEF CondInv, UnblockerHeld, Unblocking
<1>6. CondTypes' /\ Balance'
  <2>1. CondTypes
    BY DEF CondInv
  <2>2. IsFiniteSet(Within') /\ Cardinality(Within') = Cardinality(Within)
    BY <1>2, <2>1, WithinChange
  <2>3. CondTypes'
    BY <2>1, <2>2 DEF CondTypes, Goes
  <2> QED BY <2>2, <2>3 DEF CondInv, Balance
<1>7. UsedIsValid'
  BY <1>1 DEF UsedIsValid, InUse
<1>8. Apart'
  BY ApartKept DEF Leaving
<1> QED BY <1>3, <1>4, <1>5, <1>6, <1>7, <1>8 DEF CondInv

LEMMA DestroyStep ==
  ASSUME CondInv, NEW t \in Threads, pthread_cond_destroy(t), UNCHANGED gateLost
  PROVE  CondInv'
<1>1. op[t] = "cond_destroy" /\ UNCHANGED <<blocked, toUnblock, gone, gate, unblocker, queue, issue, items>>
  BY DEF pthread_cond_destroy
<1>2. CASE pc[t] = "enter" /\ Goto(t, "closing") /\ UNCHANGED cond
  <2>1. Goes(t, op[t], "closing")
    BY <1>2, CallMoves DEF CondInv
  <2>2. \A u \in Threads :
          pc'[u] = (IF u = t THEN "closing" ELSE pc[u]) /\ op'[u] = (IF u = t THEN op[t] ELSE op[u])
    BY <2>1, Elsewhere DEF CondInv
  <2>3. Destroying(t) /\ \A u \in Threads \ {t} : pc[u] \in Leaving
    BY <1>1, <1>2 DEF Destroying, CondInv, Apart
  <2>4. CondNumbers'
    BY <1>1, <1>2 DEF CondInv, CondNumbers
  <2>5. GateHeld'
    BY <1>1, <1>2, <2>2 DEF CondInv, GateHeld, AtGate
  <2>6. UnblockerHeld'
    BY <1>1, <1>2, <2>2 DEF CondInv, UnblockerHeld, Unblocking
  <2>7. CondTypes' /\ Balance'
    <3>1. CondTypes
      BY DEF CondInv
    <3>2. Count("closing") = 0 /\ Count(pc[t]) = 0
      BY <1>2 DEF Count, WithinAt
    <3>3. IsFiniteSet(Within') /\ Cardinality(Within') = Cardinality(Within)
      BY <2>1, <3>1, <3>2, WithinChange
    <3>4. CondTypes'
      BY <2>1, <3>1, <3>3 DEF CondTypes, Goes
    <3> QED BY <1>1, <3>3, <3>4 DEF CondInv, Balance
  <2>8. UsedIsValid'
    BY <1>2, <2>2 DEF CondInv, UsedIsValid, InUse
  <2>9. Apart'
    <3>1. \A u \in Threads : ~Initialising(u)'
      BY <1>1, <2>2, <2>3 DEF Initialising, In, Leaving
    <3>2. ASSUME NEW u \in Threads, Destroying(u)', NEW v \in Threads \ {u} PROVE pc'[v] \in Leaving
      <4>1. u = t
        BY <2>2, <2>3, <3>2 DEF Destroying, Leaving
      <4> QED BY <2>2, <2>3, <4>1
    <3> QED BY <3>1, <3>2 DEF Apart
  <2> QED BY <2>4, <2>5, <2>6, <2>7, <2>8, <2>9 DEF CondInv
<1>3. CASE pc[t] \in {"closing", "static"} /\ Return(t, "EBUSY") /\ UNCHANGED cond
  <2>1. Goes(t, "none", "idle")
    BY <1>3, CallMoves DEF CondInv
  <2> QED BY <1>1, <1>3, <2>1, QuietMoves
          DEF CondInv, CondNumbers, Leaving, InUse, AtGate, Unblocking, Count, WithinAt
<1>4. CASE /\ pc[t] = "closing" /\ gate > 0 /\ unblocker = NoThread /\ ~(blocked > gone)
           /\ Return(t, "0") /\ cond' = "null"
  <2>1. Goes(t, "none", "idle")
    BY <1>4, CallMoves DEF CondInv
  <2>2. gate = 1 /\ toUnblock = 0 /\ ~gateLost /\ \A u \in Threads : pc[u] \notin AtGate
    BY <1>4 DEF CondInv, CondNumbers, GateHeld
  <2>3. \A u \in Threads : pc[u] \notin Unblocking
    BY <1>4, CallsAssumption DEF CondInv, UnblockerHeld
  <2>4. Within = {}
    <3>1. IsFiniteSet(Within) /\ Cardinality(Within) \in Nat
      BY FS_CardinalityType DEF CondInv, CondTypes
    <3>2. Cardinality(Within) = 0
      BY <1>4, <2>2, <3>1 DEF CondInv, CondNumbers, Balance
    <3> QED BY <3>1, <3>2, FS_EmptySet
  <2>5. \A u \in Threads : pc[u] # "gate"
    BY <1>1, <1>4 DEF CondInv, Apart, Destroying, Leaving
  <2>6. \A u \in Threads : pc[u] \notin InUse
    BY <2>2, <2>3, <2>4, <2>5 DEF InUse, AtGate, Unblocking, Within
  <2> QED BY <1>1, <1>4, <2>1, <2>2, <2>6, Forgets
<1>5. CASE pc[t] = "enter" /\ Goto(t, "static") /\ UNCHANGED cond
  <2>1. Goes(t, op[t], "static")
    BY <1>5, CallMoves DEF CondInv
  <2> QED BY <1>1, <1>5, <2>1, QuietMoves
          DEF CondInv, CondNumbers, Leaving, InUse, AtGate, Unblocking, Count, WithinAt
<1>6. CASE pc[t] = "static" /\ cond = "static" /\ cond' = "null" /\ Return(t, "0")
  <2>1. Goes(t, "none", "idle")
    BY <1>6, CallMoves DEF CondInv
  <2>2. ~gateLost /\ \A u \in Threads : pc[u] \notin InUse
    BY <1>6 DEF CondInv, UsedIsValid, GateHeld
  <2> QED BY <1>1, <1>6, <2>1, <2>2, Forgets
<1> QED BY <1>2, <1>3, <1>4, <1>5, <1>6 DEF pthread_cond_destroy

-----------------------------------------------------------------------------
(* The counters agree with the threads *)

LEMMA CondNextStep == ASSUME CondInv, NEW t \in Threads, CondNext(t) PROVE CondInv'
<1>1. Lost(t)
  BY DEF CondNext
<1>2. CASE GateCancelled(t)
  BY <1>1, <1>2, GateCancelledStep
<1>3. CASE ~GateCancelled(t)
  <2>1. ~In(t, "dying", "gate")
    BY <1>3 DEF CondNext, pthread_cond_init, pthread_cond_wait, pthread_cond_timedwait,
                ptw32_cond_cancelled, AsleepCancelled, ptw32_cond_wait_cleanup, CleanupCount,
                CleanupTrim, CleanupReopen, CleanupRelock, Retest, pthread_cond_signal,
                pthread_cond_broadcast, pthread_timechange_handler_np, TimechangeLock,
                pthread_cond_destroy, In
  <2>2. UNCHANGED gateLost
    BY <1>1, <2>1, GateKept
  <2>3. CASE ptw32_cond_timedwait(t)
    BY <2>2, <2>3, WaitEnterStep, NeedInitStep, WaitGateStep, WaitEnteredStep, WaitUnlockStep,
       WaitAsleepStep
    DEF ptw32_cond_timedwait
  <2>4. CASE ptw32_cond_wait_cleanup(t)
    BY <2>2, <2>4, CleanupCountStep, CleanupTrimStep, CleanupReopenStep, CleanupRelockStep
    DEF ptw32_cond_wait_cleanup
  <2>5. CASE ptw32_cond_unblock(t)
    BY <2>2, <2>5, SignalLockStep, SignalCloseStep, SignalPostStep DEF ptw32_cond_unblock
  <2> QED BY <1>3, <2>2, <2>3, <2>4, <2>5, InitStep, RetestStep, TimechangeLockStep, DestroyStep,
             AsleepCancelledStep
          DEF CondNext, pthread_cond_wait, pthread_cond_timedwait, ptw32_cond_cancelled,
              pthread_cond_signal, pthread_cond_broadcast, pthread_timechange_handler_np
<1> QED BY <1>2, <1>3

LEMMA CondInvStep == CondInv /\ [CondStep]_<<callVars, condVars>> => CondInv'
<1> SUFFICES ASSUME CondInv, [CondStep]_<<callVars, condVars>> PROVE CondInv'
  OBVIOUS
<1>1. CASE UNCHANGED <<callVars, condVars>>
  <2>1. UNCHANGED <<object, pc, op, holds, cv, items, gateLost>>
    BY <1>1 DEF callVars, condVars
  <2>2. UNCHANGED Within
    BY <2>1 DEF Within
  <2> QED BY <2>1, <2>2
          DEF cv, CondInv, CondTypes, CondNumbers, Balance, GateHeld, UnblockerHeld, UsedIsValid, Apart,
              Initialising, Destroying, In
<1>2. CASE CondStep
  BY <1>2, CondNextStep, CondCallsStep, CancelStep DEF CondStep
<1> QED BY <1>1, <1>2

LEMMA CondInvHolds == CondSpec => []CondInv
BY CondInvInit, CondInvStep, PTL DEF CondSpec

\* CondBalance: in every state of a program that uses a condition variable,
\* the counters under the gate and mtxUnblockLock agree with the threads that
\* wait, whichever of them are signalled, time out or are cancelled; the gate
\* is shut only while woken threads are on their way, or when a thread that was
\* cancelled at it has taken its post; and nobody is in a variable that is
\* destroyed.
THEOREM CountersAgree == CondSpec => []CondBalance
<1>1. CondInv => CondBalance
  <2> SUFFICES ASSUME CondInv PROVE CondBalance
    OBVIOUS
  <2>1. blocked >= 0 /\ gone >= 0 /\ gate \in {0, 1}
    BY DEF CondInv, CondNumbers
  <2>2. gate = 0 => gateLost \/ toUnblock > 0 \/ \E t \in Threads : pc[t] \in {"entered", "reopen"}
    BY DEF CondInv, GateHeld, AtGate
  <2>3. cond # "valid" => Within = {} /\ \A t \in Threads : pc[t] \notin {"reopen", "trim", "close"}
    BY DEF CondInv, UsedIsValid, InUse, Within
  <2> QED BY <2>1, <2>2, <2>3 DEF CondInv, Balance, CondBalance
<1> QED BY <1>1, CondInvHolds, PTL

-----------------------------------------------------------------------------
(* The invariant of the wakeups *)

\* A thread on its way to sleep has the program's mutex and has seen no item.
Settling == {"enter", "needInit", "gate", "entered", "unlock"}
Waiting == CondWaits \cup {"dying"}
SeesNone ==
  /\ outer \in Threads \cup {NoThread}
  /\ \A t \in Threads : op[t] \in Waiting /\ pc[t] \in Settling => outer = t /\ items = 0
  /\ \A t \in Threads : pc[t] = "test" => outer = t

\* The tokens posted and those that a signal has still to post.
Posting == {p \in Threads \X Nat : p[2] \in 1 .. issue[p[1]]}
Tokens == queue + Cardinality(Posting)

\* The threads that have still to wake somebody or to look at the items, the
\* sleepers, and those that sleep no more and have not counted themselves out.
Rousing(f, l) ==
  \/ f \in {"cond_signal", "cond_broadcast"} /\ l \in {"enter", "close"}
  \/ f # "dying" /\ l \in {"cleanup", "trim", "reopen", "relock", "test"}
Rousers == {t \in Threads : Rousing(op[t], pc[t])}
Asleep == {t \in Threads : pc[t] = "asleep"}
Paying(l) == l = "cleanup"
Paid == {t \in Threads : Paying(pc[t])}

WakeTypes ==
  /\ IsFiniteSet(Posting) /\ IsFiniteSet(Rousers)
  /\ \A t \in Threads : issue[t] > 0 => pc[t] = "post"
  /\ swallowed \in Nat

\* There is a token for every thread that is counted as woken and has had none, ...
TokensCover == toUnblock <= Tokens + Cardinality(Paid)

\* ... and somebody for every item whose token was not taken by a thread that was
\* being cancelled, unless each sleeper is to have a token.
WorkIsSeen ==
  items <= swallowed + Tokens + Cardinality(Rousers) \/ Cardinality(Asleep) <= Tokens

\* A step in which no such thread takes a token.
NoneTaken == swallowed' = IF items' = 0 THEN 0 ELSE swallowed

WakeInv == SeesNone /\ WakeTypes /\ TokensCover /\ WorkIsSeen

LEMMA WakeInvInit == CallsInit({"cond"}) /\ CondInit => WakeInv
<1> SUFFICES ASSUME CallsInit({"cond"}), CondInit PROVE WakeInv
  OBVIOUS
<1>1. \A t \in Threads : pc[t] = "idle" /\ op[t] = "none" /\ issue[t] = 0
  BY DEF CallsInit, CondInit
<1>2. SeesNone
  BY <1>1 DEF SeesNone, Waiting, CondWaits, CondInit
<1>3. Posting = {} /\ Rousers = {} /\ Paid = {} /\ Asleep = {}
  BY <1>1 DEF Posting, Rousers, Rousing, Paid, Paying, Asleep
<1>4. WakeTypes
  BY <1>1, <1>3, FS_EmptySet DEF WakeTypes, CondInit
<1>5. Tokens = 0 /\ Cardinality(Paid) = 0 /\ Cardinality(Asleep) = 0
  BY <1>3, FS_EmptySet DEF Tokens, CondInit
<1>6. TokensCover /\ WorkIsSeen
  BY <1>5 DEF TokensCover, WorkIsSeen, CondInit
<1> QED BY <1>2, <1>4, <1>6 DEF WakeInv

-----------------------------------------------------------------------------
(* How the counts change *)

One(b) == IF b THEN 1 ELSE 0

\* A set of threads after t has come, stayed or gone.
LEMMA SetChange ==
  ASSUME NEW S, NEW T, NEW t, IsFiniteSet(S), T \ {t} = S \ {t}
  PROVE  /\ IsFiniteSet(T) /\ Cardinality(S) \in Nat /\ Cardinality(T) \in Nat
         /\ Cardinality(T) = Cardinality(S) + One(t \in T) - One(t \in S)
<1>1. Cardinality(S) \in Nat
  BY FS_CardinalityType
<1>2. CASE t \in T
  <2>1. T = S \cup {t}
    BY <1>2
  <2> QED BY <1>1, <1>2, <2>1, FS_AddElement, FS_CardinalityType DEF One
<1>3. CASE t \notin T
  <2>1. T = S \ {t}
    BY <1>3
  <2> QED BY <1>1, <1>3, <2>1, FS_RemoveElement, FS_CardinalityType DEF One
<1> QED BY <1>2, <1>3

\* The tokens 1 to n of t, beside a set of others.
Own(t, n) == {<<t, i>> : i \in 1 .. n}

LEMMA TokensOf ==
  ASSUME NEW S, IsFiniteSet(S), NEW t, NEW n \in Nat, S \cap Own(t, n) = {}
  PROVE  IsFiniteSet(S \cup Own(t, n)) /\ Cardinality(S \cup Own(t, n)) = Cardinality(S) + n
<1> DEFINE pair == [i \in 1 .. n |-> <<t, i>>]
<1>1. pair \in Bijection(1 .. n, Own(t, n))
  BY DEF Own, Bijection, Injection, Surjection, IsInjective
<1>2. ExistsBijection(1 .. n, Own(t, n))
  BY <1>1 DEF ExistsBijection
<1>3. IsFiniteSet(1 .. n) /\ Cardinality(1 .. n) = n
  BY FS_Interval
<1>4. IsFiniteSet(Own(t, n)) /\ Cardinality(Own(t, n)) = n
  BY <1>2, <1>3, FS_Bijection
<1>5. Cardinality(S \cap Own(t, n)) = 0
  BY FS_EmptySet
<1>6. Cardinality(S) \in Nat
  BY FS_CardinalityType
<1>7. /\ IsFiniteSet(S \cup Own(t, n))
      /\ Cardinality(S \cup Own(t, n)) = Cardinality(S) + Cardinality(Own(t, n)) - Cardinality(S \cap Own(t, n))
  BY <1>4, FS_Union
<1> QED BY <1>4, <1>5, <1>6, <1>7

LEMMA WakeChange ==
  ASSUME CondInv, WakeInv, NEW t \in Threads, NEW f, NEW l, Goes(t, f, l)
  PROVE  /\ IsFiniteSet(Rousers') /\ Cardinality(Rousers) \in Nat /\ Cardinality(Rousers') \in Nat
         /\ Cardinality(Rousers') = Cardinality(Rousers) + One(Rousing(f, l)) - One(Rousing(op[t], pc[t]))
         /\ Cardinality(Paid) \in Nat /\ Cardinality(Paid') \in Nat
         /\ Cardinality(Paid') = Cardinality(Paid) + One(Paying(l)) - One(Paying(pc[t]))
         /\ Cardinality(Asleep) \in Nat /\ Cardinality(Asleep') \in Nat
         /\ Cardinality(Asleep') = Cardinality(Asleep) + One(l = "asleep") - One(pc[t] = "asleep")
<1>1. \A u \in Threads : pc'[u] = (IF u = t THEN l ELSE pc[u]) /\ op'[u] = (IF u = t THEN f ELSE op[u])
  BY Elsewhere DEF CondInv
<1>2. IsFiniteSet(Rousers) /\ IsFiniteSet(Paid) /\ IsFiniteSet(Asleep)
  <2>1. Paid \in SUBSET Within /\ Asleep \in SUBSET Within
    BY DEF Paid, Paying, Asleep, Within
  <2> QED BY <2>1, FS_Subset DEF CondInv, CondTypes, WakeInv, WakeTypes
<1>3. /\ Rousers' \ {t} = Rousers \ {t} /\ (t \in Rousers' <=> Rousing(f, l))
      /\ (t \in Rousers <=> Rousing(op[t], pc[t]))
  BY <1>1 DEF Rousers
<1>4. /\ Paid' \ {t} = Paid \ {t} /\ (t \in Paid' <=> Paying(l)) /\ (t \in Paid <=> Paying(pc[t]))
  BY <1>1 DEF Paid
<1>5. /\ Asleep' \ {t} = Asleep \ {t} /\ (t \in Asleep' <=> l = "asleep") /\ (t \in Asleep <=> pc[t] = "asleep")
  BY <1>1 DEF Asleep
<1>6. /\ IsFiniteSet(Rousers') /\ Cardinality(Rousers) \in Nat /\ Cardinality(Rousers') \in Nat
      /\ Cardinality(Rousers') = Cardinality(Rousers) + One(Rousing(f, l)) - One(Rousing(op[t], pc[t]))
  BY <1>2, <1>3, SetChange DEF One
<1>7. /\ Cardinality(Paid) \in Nat /\ Cardinality(Paid') \in Nat
      /\ Cardinality(Paid') = Cardinality(Paid) + One(Paying(l)) - One(Paying(pc[t]))
  BY <1>2, <1>4, SetChange DEF One
<1>8. /\ Cardinality(Asleep) \in Nat /\ Cardinality(Asleep') \in Nat
      /\ Cardinality(Asleep') = Cardinality(Asleep) + One(l = "asleep") - One(pc[t] = "asleep")
  BY <1>2, <1>5, SetChange DEF One
<1> QED BY <1>6, <1>7, <1>8

\* The mutex and the items after a step of t.
LEMMA SeesKept ==
  ASSUME CondInv, WakeInv, NEW t \in Threads, NEW f, NEW l, Goes(t, f, l),
         outer' \in {outer, NoThread, t},
         (outer' = outer /\ items' = items) \/ outer = NoThread \/ outer = t,
         f \in Waiting /\ l \in Settling => outer' = t /\ items' = 0,
         l = "test" => outer' = t
  PROVE  SeesNone'
<1>1. \A u \in Threads : pc'[u] = (IF u = t THEN l ELSE pc[u]) /\ op'[u] = (IF u = t THEN f ELSE op[u])
  BY Elsewhere DEF CondInv
<1>2. SeesNone /\ outer' \in Threads \cup {NoThread}
  BY DEF WakeInv, SeesNone
<1>3. ASSUME NEW u \in Threads, op'[u] \in Waiting, pc'[u] \in Settling PROVE outer' = u /\ items' = 0
  BY <1>1, <1>2, <1>3, CallsAssumption DEF SeesNone
<1>4. ASSUME NEW u \in Threads, pc'[u] = "test" PROVE outer' = u
  BY <1>1, <1>2, <1>4, CallsAssumption DEF SeesNone
<1> QED BY <1>2, <1>3, <1>4 DEF SeesNone

\* A step of t with k tokens more, or fewer.
LEMMA WakeMoves ==
  ASSUME CondInv, WakeInv, NEW t \in Threads, NEW f, NEW l, Goes(t, f, l),
         SeesNone', items' \in Nat, toUnblock' \in Nat, NoneTaken,
         IsFiniteSet(Posting'), \A u \in Threads : issue'[u] > 0 => pc'[u] = "post",
         NEW k \in Int, Tokens \in Nat, Tokens' \in Nat, Tokens' = Tokens + k,
         \/ toUnblock' = 0
         \/ toUnblock' + One(Paying(pc[t])) <= toUnblock + One(Paying(l)) + k,
         \/ items' = 0
         \/ Cardinality(Asleep') <= Tokens'
         \/ /\ items' + One(Rousing(op[t], pc[t])) <= items + One(Rousing(f, l)) + k
            /\ One(l = "asleep") <= One(pc[t] = "asleep") + k
  PROVE  WakeInv'
<1>1. /\ IsFiniteSet(Rousers') /\ Cardinality(Rousers) \in Nat /\ Cardinality(Rousers') \in Nat
      /\ Cardinality(Rousers') = Cardinality(Rousers) + One(Rousing(f, l)) - One(Rousing(op[t], pc[t]))
      /\ Cardinality(Paid) \in Nat /\ Cardinality(Paid') \in Nat
      /\ Cardinality(Paid') = Cardinality(Paid) + One(Paying(l)) - One(Paying(pc[t]))
      /\ Cardinality(Asleep) \in Nat /\ Cardinality(Asleep') \in Nat
      /\ Cardinality(Asleep') = Cardinality(Asleep) + One(l = "asleep") - One(pc[t] = "asleep")
  BY WakeChange
<1>2. \A b : One(b) \in {0, 1}
  BY DEF One
<1>3. One(Rousing(f, l)) \in Int /\ One(Rousing(op[t], pc[t])) \in Int /\ One(Paying(l)) \in Int
      /\ One(Paying(pc[t])) \in Int /\ One(l = "asleep") \in Int /\ One(pc[t] = "asleep") \in Int
  BY <1>2
<1>4. toUnblock \in Nat /\ items \in Nat
  BY DEF CondInv, CondNumbers
<1>5. WakeTypes' /\ swallowed \in Nat /\ (items' = 0 \/ swallowed' = swallowed)
  BY <1>1 DEF WakeTypes, WakeInv, NoneTaken
<1>6. TokensCover'
  BY <1>1, <1>3, <1>4 DEF WakeInv, TokensCover
<1>7. WorkIsSeen'
  BY <1>1, <1>3, <1>4, <1>5 DEF WakeInv, WorkIsSeen, WakeTypes
<1> QED BY <1>5, <1>6, <1>7 DEF WakeInv

LEMMA NoneTakenIn ==
  ASSUME WakeInv, NEW t \in Threads, Lost(t), ~In(t, "dying", "asleep")
  PROVE  NoneTaken
BY DEF Lost, WakeInv, WakeTypes, NoneTaken

LEMMA TokensAreNat == ASSUME CondInv, WakeInv PROVE Tokens \in Nat /\ queue \in Nat
BY FS_CardinalityType DEF CondInv, CondNumbers, WakeInv, WakeTypes, Tokens

\* A step that posts no token, takes none and is about to post none.
LEMMA QuietWakes ==
  ASSUME CondInv, WakeInv, NEW t \in Threads, NEW f, NEW l, Goes(t, f, l),
         UNCHANGED <<queue, issue>>, pc[t] # "post", items' \in Nat, toUnblock' \in Nat, NoneTaken,
         outer' \in {outer, NoThread, t},
         (outer' = outer /\ items' = items) \/ outer = NoThread \/ outer = t,
         f \in Waiting /\ l \in Settling => outer' = t /\ items' = 0,
         l = "test" => outer' = t,
         \/ toUnblock' = 0
         \/ toUnblock' + One(Paying(pc[t])) <= toUnblock + One(Paying(l)),
         \/ items' = 0
         \/ /\ items' + One(Rousing(op[t], pc[t])) <= items + One(Rousing(f, l))
            /\ One(l = "asleep") <= One(pc[t] = "asleep")
  PROVE  WakeInv'
<1>1. SeesNone'
  BY SeesKept
<1>2. UNCHANGED Posting
  BY DEF Posting
<1>3. Tokens \in Nat /\ Tokens' = Tokens
  BY <1>2, TokensAreNat DEF Tokens
<1>4. IsFiniteSet(Posting')
  BY <1>2 DEF WakeInv, WakeTypes
<1>5. ASSUME NEW u \in Threads, issue'[u] > 0 PROVE pc'[u] = "post"
  <2>1. pc[u] = "post"
    BY <1>5 DEF WakeInv, WakeTypes
  <2> QED BY <2>1, Elsewhere DEF CondInv
<1>6. \A b : One(b) \in {0, 1}
  BY DEF One
<1>7. toUnblock \in Nat /\ items \in Nat
  BY DEF CondInv, CondNumbers
<1>8. One(Rousing(f, l)) \in Int /\ One(Paying(l)) \in Int /\ One(pc[t] = "asleep") \in Int
  BY <1>6
<1> DEFINE k == 0
<1>9. Tokens' = Tokens + k
  BY <1>3
<1>10. \/ toUnblock' = 0
       \/ toUnblock' + One(Paying(pc[t])) <= toUnblock + One(Paying(l)) + k
  BY <1>7, <1>8
<1>11. \/ items' = 0
       \/ Cardinality(Asleep') <= Tokens'
       \/ /\ items' + One(Rousing(op[t], pc[t])) <= items + One(Rousing(f, l)) + k
          /\ One(l = "asleep") <= One(pc[t] = "asleep") + k
  BY <1>7, <1>8
<1> QED BY <1>1, <1>3, <1>4, <1>5, <1>9, <1>10, <1>11, WakeMoves

-----------------------------------------------------------------------------
(* The wakeups in the steps of a waiter *)

LEMMA WaitEnterWakes ==
  ASSUME CondInv, WakeInv, NEW t \in Threads, WaitEnter(t), NoneTaken
  PROVE  WakeInv'
<1>1. PICK f, l : /\ Goes(t, f, l) /\ f \in {op[t], "failed"} /\ l \in {"test", "needInit", "gate"}
  BY CallMoves DEF CondInv, CondNumbers, WaitEnter
<1>2. pc[t] = "enter" /\ op[t] \in CondWaits /\ UNCHANGED <<cv, outer, items>>
  BY DEF WaitEnter
<1>3. outer = t /\ items = 0
  BY <1>2 DEF WakeInv, SeesNone, Settling, Waiting
<1>4. ~Paying(pc[t])
  BY <1>2 DEF Paying
<1> QED BY <1>1, <1>2, <1>3, <1>4, QuietWakes DEF cv, CondInv, CondNumbers, One

\* A new variable: it has no sleepers.
LEMMA NewCondWakes ==
  ASSUME CondInv, WakeInv, NEW t \in Threads, NEW f, NEW l, Goes(t, f, l), NEW ok \in BOOLEAN, NewCond(ok),
         cond = "static" \/ Initialising(t), l \in {"gate", "test", "idle"}, pc[t] # "post",
         UNCHANGED <<outer, items>>, NoneTaken,
         f \in Waiting \/ l = "test" => outer = t /\ items = 0
  PROVE  WakeInv'
<1>1. SeesNone'
  BY SeesKept DEF CondInv, CondNumbers
<1>2. cond # "valid" /\ \A u \in Threads : pc[u] \notin InUse
  BY DEF CondInv, UsedIsValid, Apart, Initialising
<1>3. UNCHANGED <<Posting, issue>>
  BY DEF Posting, NewCond
<1>4. IsFiniteSet(Posting)
  BY DEF WakeInv, WakeTypes
<1>5. Cardinality(Posting) \in Nat
  BY <1>4, FS_CardinalityType
<1>6. Tokens \in Nat
  BY TokensAreNat
<1>7. Tokens' = Cardinality(Posting)
  BY <1>3, <1>5 DEF Tokens, NewCond
<1>8. PICK k \in Int : Tokens' = Tokens + k
  <2>1. Tokens' - Tokens \in Int /\ Tokens' = Tokens + (Tokens' - Tokens)
    BY <1>5, <1>6, <1>7
  <2> QED BY <2>1
<1>9. ASSUME NEW u \in Threads, issue'[u] > 0 PROVE pc'[u] = "post"
  <2>1. pc[u] = "post"
    BY <1>3, <1>9 DEF WakeInv, WakeTypes
  <2> QED BY <2>1, Elsewhere DEF CondInv
<1>10. Asleep' = {}
  BY <1>2, Elsewhere DEF CondInv, Asleep, InUse
<1>11. Cardinality(Asleep') = 0
  BY <1>10, FS_EmptySet
<1>12. toUnblock' = 0 /\ toUnblock' \in Nat /\ items' \in Nat
  BY DEF NewCond, CondInv, CondNumbers
<1>13. Cardinality(Asleep') <= Tokens'
  BY <1>5, <1>7, <1>11
<1> QED BY <1>1, <1>3, <1>4, <1>5, <1>6, <1>7, <1>8, <1>9, <1>12, <1>13, WakeMoves

LEMMA NeedInitWakes ==
  ASSUME CondInv, WakeInv, NEW t \in Threads, ptw32_cond_check_need_init(t), NoneTaken
  PROVE  WakeInv'
<1>1. pc[t] = "needInit" /\ op[t] \in CondWaits /\ UNCHANGED <<outer, items>>
  BY DEF ptw32_cond_check_need_init
<1>2. outer = t /\ items = 0
  BY <1>1 DEF WakeInv, SeesNone, Settling, Waiting
<1>3. PICK f, l : Goes(t, f, l) /\ l \in {"test", "gate"}
  BY CallMoves DEF ptw32_cond_check_need_init, CondInv
<1>4. CASE cond = "static" /\ \E ok \in BOOLEAN : NewCond(ok)
  BY <1>1, <1>2, <1>3, <1>4, NewCondWakes
<1>5. CASE UNCHANGED cv
  <2>1. ~Paying(pc[t])
    BY <1>1 DEF Paying
  <2> QED BY <1>1, <1>2, <1>3, <1>5, <2>1, QuietWakes DEF cv, CondInv, CondNumbers, One
<1> QED BY <1>4, <1>5 DEF ptw32_cond_check_need_init

LEMMA WaitGateWakes ==
  ASSUME CondInv, WakeInv, NEW t \in Threads, WaitGate(t), NoneTaken
  PROVE  WakeInv'
<1>1. pc[t] = "gate" /\ op[t] \in CondWaits /\ UNCHANGED <<toUnblock, queue, issue, outer, items>>
  BY DEF WaitGate
<1>2. outer = t /\ items = 0
  BY <1>1 DEF WakeInv, SeesNone, Settling, Waiting
<1>3. PICK f, l : Goes(t, f, l)
  BY CallMoves DEF WaitGate, CondInv
<1>4. ~Paying(pc[t])
  BY <1>1 DEF Paying
<1> QED BY <1>1, <1>2, <1>3, <1>4, QuietWakes DEF CondInv, CondNumbers, One

LEMMA WaitEnteredWakes ==
  ASSUME CondInv, WakeInv, NEW t \in Threads, WaitEntered(t), NoneTaken
  PROVE  WakeInv'
<1>1. pc[t] = "entered" /\ op[t] \in CondWaits /\ UNCHANGED <<toUnblock, queue, issue, outer, items>>
  BY DEF WaitEntered
<1>2. outer = t /\ items = 0
  BY <1>1 DEF WakeInv, SeesNone, Settling, Waiting
<1>3. Goes(t, op[t], "unlock")
  BY CallMoves DEF WaitEntered, CondInv
<1>4. ~Paying(pc[t])
  BY <1>1 DEF Paying
<1> QED BY <1>1, <1>2, <1>3, <1>4, QuietWakes DEF CondInv, CondNumbers, One

\* Who goes to sleep has seen no item, and held the mutex since.
LEMMA WaitUnlockWakes ==
  ASSUME CondInv, WakeInv, NEW t \in Threads, WaitUnlock(t), NoneTaken
  PROVE  WakeInv'
<1>1. pc[t] = "unlock" /\ op[t] \in CondWaits /\ UNCHANGED <<cv, items>> /\ outer' = NoThread
  BY DEF WaitUnlock
<1>2. outer = t /\ items = 0
  BY <1>1 DEF WakeInv, SeesNone, Settling, Waiting
<1>3. Goes(t, op[t], "asleep")
  BY CallMoves DEF WaitUnlock, CondInv
<1>4. ~Paying(pc[t])
  BY <1>1 DEF Paying
<1> QED BY <1>1, <1>2, <1>3, <1>4, QuietWakes DEF cv, CondInv, CondNumbers, One, Settling

\* A sleeper turns a token into a thread that will look at the items.
LEMMA WaitAsleepWakes ==
  ASSUME CondInv, WakeInv, NEW t \in Threads, WaitAsleep(t), NoneTaken
  PROVE  WakeInv'
<1>1. pc[t] = "asleep" /\ op[t] \in CondWaits /\ UNCHANGED <<toUnblock, issue, outer, items>>
  BY DEF WaitAsleep
<1>2. ~Paying(pc[t]) /\ ~Rousing(op[t], pc[t])
  BY <1>1 DEF Paying, Rousing
<1>3. CASE queue > 0 /\ queue' = queue - 1 /\ Goto(t, "cleanup")
  <2>1. Goes(t, op[t], "cleanup")
    BY <1>3, CallMoves DEF CondInv
  <2>2. Paying("cleanup") /\ Rousing(op[t], "cleanup")
    BY <1>1 DEF Paying, Rousing, CondWaits
  <2>3. SeesNone'
    BY <1>1, <2>1, SeesKept DEF Settling
  <2>4. UNCHANGED Posting
    BY <1>1 DEF Posting
  <2>5. IsFiniteSet(Posting) /\ Cardinality(Posting) \in Nat
    BY FS_CardinalityType DEF WakeInv, WakeTypes
  <2>6. Tokens \in Nat /\ queue \in Nat
    BY TokensAreNat
  <2>7. Tokens' = Tokens + (-1) /\ Tokens' \in Nat
    BY <1>3, <2>4, <2>5, <2>6 DEF Tokens
  <2>8. ASSUME NEW u \in Threads, issue'[u] > 0 PROVE pc'[u] = "post"
    <3>1. pc[u] = "post"
      BY <1>1, <2>8 DEF WakeInv, WakeTypes
    <3> QED BY <1>1, <2>1, <3>1, Elsewhere DEF CondInv
  <2>9. toUnblock \in Nat /\ items \in Nat
    BY DEF CondInv, CondNumbers
  <2>10. toUnblock' + One(Paying(pc[t])) <= toUnblock + One(Paying("cleanup")) + (-1)
    BY <1>1, <1>2, <2>2, <2>9 DEF One
  <2>11. /\ items' + One(Rousing(op[t], pc[t])) <= items + One(Rousing(op[t], "cleanup")) + (-1)
         /\ One("cleanup" = "asleep") <= One(pc[t] = "asleep") + (-1)
    BY <1>1, <1>2, <2>2, <2>9 DEF One
  <2> QED BY <1>1, <2>1, <2>3, <2>4, <2>5, <2>6, <2>7, <2>8, <2>9, <2>10, <2>11, WakeMoves
<1>4. CASE UNCHANGED queue /\ \E f : Turn(t, f, "cleanup") \/ Turn(t, f, "asleep")
  <2>1. \E f, l : Goes(t, f, l) /\ l \in {"cleanup", "asleep"}
    BY <1>4, CallMoves DEF CondInv
  <2>2. PICK f, l : Goes(t, f, l) /\ l \in {"cleanup", "asleep"}
    BY <2>1
  <2>3. items \in Nat /\ toUnblock \in Nat
    BY DEF CondInv, CondNumbers
  <2>4. toUnblock' + One(Paying(pc[t])) <= toUnblock + One(Paying(l))
    BY <1>1, <1>2, <2>3 DEF One
  <2>5. items' + One(Rousing(op[t], pc[t])) <= items + One(Rousing(f, l))
    BY <1>1, <1>2, <2>3 DEF One
  <2>6. One(l = "asleep") <= One(pc[t] = "asleep")
    BY <1>1 DEF One
  <2> QED BY <1>1, <1>4, <2>2, <2>3, <2>4, <2>5, <2>6, QuietWakes DEF Settling
<1> QED BY <1>3, <1>4 DEF WaitAsleep

\* A thread that is being cancelled may take a token along.
LEMMA AsleepCancelledWakes ==
  ASSUME CondInv, WakeInv, NEW t \in Threads, AsleepCancelled(t), Lost(t)
  PROVE  WakeInv'
<1>1. /\ pc[t] = "asleep" /\ op[t] = "dying" /\ UNCHANGED <<toUnblock, issue, outer, items>>
      /\ queue' = IF queue > 0 THEN queue - 1 ELSE queue
  BY DEF AsleepCancelled, In
<1>2. Goes(t, "dying", "cleanup")
  BY CallMoves DEF AsleepCancelled, CondInv
<1>3. /\ Cardinality(Rousers) \in Nat /\ Cardinality(Paid) \in Nat /\ Cardinality(Asleep) \in Nat
      /\ IsFiniteSet(Rousers') /\ Cardinality(Rousers') = Cardinality(Rousers)
      /\ Cardinality(Paid') = Cardinality(Paid) + 1
      /\ Cardinality(Asleep') = Cardinality(Asleep) - 1
  BY <1>1, <1>2, WakeChange DEF One, Rousing, Paying
<1>4. SeesNone'
  BY <1>1, <1>2, SeesKept DEF Settling
<1>5. UNCHANGED Posting
  BY <1>1 DEF Posting
<1>6. IsFiniteSet(Posting) /\ Cardinality(Posting) \in Nat
  BY FS_CardinalityType DEF WakeInv, WakeTypes
<1>7. queue \in Nat /\ toUnblock \in Nat /\ items \in Nat /\ swallowed \in Nat
  BY DEF CondInv, CondNumbers, WakeInv, WakeTypes
<1>8. swallowed' = IF items = 0 THEN 0 ELSE swallowed + (queue - queue')
  BY <1>1 DEF Lost, In
<1>9. \/ Tokens' = Tokens - 1 /\ swallowed' = IF items = 0 THEN 0 ELSE swallowed + 1
      \/ Tokens' = Tokens /\ swallowed' = IF items = 0 THEN 0 ELSE swallowed
  BY <1>1, <1>5, <1>6, <1>7, <1>8 DEF Tokens
<1>10. Tokens \in Nat /\ Tokens' \in Nat
  <2>1. Tokens \in Nat
    BY TokensAreNat
  <2> QED BY <1>1, <1>5, <1>6, <1>7, <2>1 DEF Tokens
<1>11. ASSUME NEW u \in Threads, issue'[u] > 0 PROVE pc'[u] = "post"
  <2>1. pc[u] = "post"
    BY <1>1, <1>11 DEF WakeInv, WakeTypes
  <2> QED BY <1>1, <1>2, <2>1, Elsewhere DEF CondInv
<1>12. WakeTypes'
  BY <1>3, <1>5, <1>6, <1>7, <1>9, <1>11 DEF WakeTypes
<1>13. TokensCover'
  BY <1>1, <1>3, <1>7, <1>9, <1>10 DEF WakeInv, TokensCover
<1>14. WorkIsSeen'
  BY <1>1, <1>3, <1>7, <1>9, <1>10 DEF WakeInv, WorkIsSeen
<1> QED BY <1>4, <1>12, <1>13, <1>14 DEF WakeInv

LEMMA GateCancelledWakes ==
  ASSUME CondInv, WakeInv, NEW t \in Threads, GateCancelled(t), NoneTaken
  PROVE  WakeInv'
<1>1. pc[t] = "gate" /\ op[t] = "dying" /\ UNCHANGED <<toUnblock, queue, issue, outer, items>>
  BY DEF GateCancelled, In
<1>2. outer = t /\ items = 0
  BY <1>1 DEF WakeInv, SeesNone, Settling, Waiting
<1>3. Goes(t, "dying", "test")
  BY CallMoves DEF GateCancelled, CondInv
<1>4. ~Paying(pc[t])
  BY <1>1 DEF Paying
<1>5. items' = 0 /\ items' \in Nat /\ toUnblock' \in Nat
  BY <1>1, <1>2 DEF CondInv, CondNumbers
<1>6. toUnblock' + One(Paying(pc[t])) <= toUnblock + One(Paying("test"))
  BY <1>1, <1>4, <1>5 DEF One
<1> QED BY <1>1, <1>2, <1>3, <1>5, <1>6, QuietWakes DEF Settling

\* Who counts itself out with a token was counted as woken, or nobody is.
LEMMA CleanupCountWakes ==
  ASSUME CondInv, WakeInv, NEW t \in Threads, CleanupCount(t), NoneTaken
  PROVE  WakeInv'
<1>1. pc[t] = "cleanup" /\ UNCHANGED <<queue, issue, outer, items>>
  BY DEF CleanupCount
<1>2. PICK l : Goes(t, op[t], l) /\ l \in {"trim", "reopen", "relock"}
  BY CallMoves DEF CleanupCount, CondInv
<1>3. toUnblock \in Nat /\ items \in Nat
  BY DEF CondInv, CondNumbers
<1>4. toUnblock' \in Nat /\ (toUnblock' = 0 \/ toUnblock' = toUnblock - 1)
  BY <1>3 DEF CleanupCount
<1>5. One(Rousing(op[t], pc[t])) = One(Rousing(op[t], l))
  BY <1>1, <1>2 DEF Rousing, One
<1>6. toUnblock' = 0 \/ toUnblock' + One(Paying(pc[t])) <= toUnblock + One(Paying(l))
  <2>1. One(Paying(pc[t])) \in {0, 1}
    BY DEF One
  <2>2. One(Paying(l)) = 0
    BY <1>2 DEF Paying, One
  <2> QED BY <1>3, <1>4, <2>1, <2>2
<1>7. One(l = "asleep") <= One(pc[t] = "asleep")
  BY <1>1, <1>2 DEF One
<1>8. items' + One(Rousing(op[t], pc[t])) <= items + One(Rousing(op[t], l))
  BY <1>1, <1>3, <1>5 DEF One
<1> QED BY <1>1, <1>2, <1>3, <1>4, <1>6, <1>7, <1>8, QuietWakes DEF Settling

LEMMA CleanupEndWakes ==
  ASSUME CondInv, WakeInv, NEW t \in Threads, CleanupTrim(t) \/ CleanupReopen(t) \/ CleanupRelock(t),
         NoneTaken
  PROVE  WakeInv'
<1>1. pc[t] \in {"trim", "reopen", "relock"} /\ UNCHANGED <<toUnblock, queue, issue, items>>
  BY DEF CleanupTrim, CleanupReopen, CleanupRelock, cv
<1>2. PICK l : /\ Goes(t, op[t], l)
               /\ \/ l = "relock" /\ outer' = outer
                  \/ l = "test" /\ outer = NoThread /\ outer' = t
  <2>1. CASE Goto(t, "relock") /\ outer' = outer
    BY <2>1, CallMoves DEF CondInv
  <2>2. CASE Goto(t, "test") /\ outer = NoThread /\ outer' = t
    BY <2>2, CallMoves DEF CondInv
  <2> QED BY <2>1, <2>2 DEF CleanupTrim, CleanupReopen, CleanupRelock
<1>3. toUnblock \in Nat /\ items \in Nat
  BY DEF CondInv, CondNumbers
<1>4. One(Rousing(op[t], pc[t])) = One(Rousing(op[t], l))
  BY <1>1, <1>2 DEF Rousing, One
<1>5. toUnblock' + One(Paying(pc[t])) <= toUnblock + One(Paying(l))
  BY <1>1, <1>2, <1>3 DEF Paying, One
<1>6. One(l = "asleep") <= One(pc[t] = "asleep")
  BY <1>1, <1>2 DEF One
<1>7. items' + One(Rousing(op[t], pc[t])) <= items + One(Rousing(op[t], l))
  BY <1>1, <1>3, <1>4 DEF One
<1> QED BY <1>1, <1>2, <1>3, <1>5, <1>6, <1>7, QuietWakes DEF Settling

-----------------------------------------------------------------------------
(* The wakeups in the steps of the program *)

LEMMA RetestWakes ==
  ASSUME CondInv, WakeInv, NEW t \in Threads, Retest(t), NoneTaken
  PROVE  WakeInv'
<1>1. pc[t] = "test" /\ UNCHANGED cv
  BY DEF Retest
<1>2. outer = t
  BY <1>1 DEF WakeInv, SeesNone
<1>3. toUnblock \in Nat /\ items \in Nat /\ UNCHANGED <<toUnblock, queue, issue>>
  BY <1>1 DEF CondInv, CondNumbers, cv
<1>4. ~Paying(pc[t])
  BY <1>1 DEF Paying
<1>5. CASE items = 0 /\ Goto(t, "enter") /\ UNCHANGED <<outer, items>>
  <2>1. Goes(t, op[t], "enter")
    BY <1>5, CallMoves DEF CondInv
  <2> QED BY <1>1, <1>2, <1>3, <1>4, <1>5, <2>1, QuietWakes DEF One
<1>6. CASE /\ IF op[t] = "dying" THEN Exit(t) ELSE Return(t, "0")
           /\ outer' = NoThread
           /\ items' = IF op[t] = "dying" \/ items = 0 THEN items ELSE items - 1
  <2>1. PICK f, l : Goes(t, f, l) /\ l \in {"idle", "exited"}
    BY <1>6, CallMoves DEF CondInv
  <2>2. items' \in Nat
    BY <1>3, <1>6
  <2>3. ~Rousing(f, l)
    BY <2>1 DEF Rousing
  <2>4. Rousing(op[t], pc[t]) <=> op[t] # "dying"
    BY <1>1 DEF Rousing
  <2>5. items' = 0 \/ items' + One(Rousing(op[t], pc[t])) <= items + One(Rousing(f, l))
    BY <1>3, <1>6, <2>3, <2>4 DEF One
  <2>6. toUnblock' + One(Paying(pc[t])) <= toUnblock + One(Paying(l))
    BY <1>3, <1>4 DEF One
  <2>7. One(l = "asleep") <= One(pc[t] = "asleep")
    BY <2>1 DEF One
  <2> QED BY <1>1, <1>2, <1>3, <1>6, <2>1, <2>2, <2>5, <2>6, <2>7, QuietWakes DEF Settling
<1> QED BY <1>5, <1>6 DEF Retest

LEMMA CondCallsWakes == ASSUME CondInv, WakeInv, NEW t \in Threads, CondCalls(t) PROVE WakeInv'
<1>1. /\ toUnblock \in Nat /\ items \in Nat /\ UNCHANGED <<toUnblock, queue, issue>>
      /\ swallowed \in Nat /\ NoneTaken
  <2>1. \A l : l \in {"gate", "asleep"} => ~In(t, "dying", l)
    <3>1. pc[t] \notin {"gate", "asleep"}
      BY CallsFromIdle
    <3> QED BY <3>1 DEF In
  <2>2. NoneTaken
    BY <2>1, NoneTakenIn DEF CondCalls
  <2> QED BY <2>2 DEF CondCalls, CondInv, CondNumbers, cv, WakeInv, WakeTypes
<1>2. CASE /\ outer = NoThread /\ items = 0 /\ outer' = t /\ items' = items
           /\ \E f \in CondWaits : Call(t, "cond", f)
  <2>1. PICK f \in CondWaits : Goes(t, f, "enter") /\ pc[t] = "idle"
    BY <1>2, Begun
  <2>2. ~Paying(pc[t])
    BY <2>1 DEF Paying
  <2> QED BY <1>1, <1>2, <2>1, <2>2, QuietWakes DEF One
<1>3. CASE outer = NoThread /\ items > 0 /\ items' = items - 1 /\ UNCHANGED <<callVars, outer>>
  <2>1. UNCHANGED <<Posting, Rousers, Paid, Asleep>>
    BY <1>1, <1>3 DEF callVars, Posting, Rousers, Paid, Asleep
  <2>2. UNCHANGED Tokens
    BY <1>1, <2>1 DEF Tokens
  <2>3. IsFiniteSet(Rousers) /\ Cardinality(Rousers) \in Nat /\ Tokens \in Nat
    BY FS_CardinalityType, TokensAreNat DEF WakeInv, WakeTypes
  <2>4. SeesNone'
    BY <1>3, CallsAssumption DEF WakeInv, SeesNone, callVars
  <2>5. WakeTypes' /\ TokensCover'
    BY <1>1, <1>3, <2>1, <2>2 DEF WakeInv, WakeTypes, TokensCover, callVars, NoneTaken
  <2>6. WorkIsSeen'
    BY <1>1, <1>3, <2>1, <2>2, <2>3 DEF WakeInv, WorkIsSeen, NoneTaken
  <2> QED BY <2>4, <2>5, <2>6 DEF WakeInv
<1>4. CASE /\ outer = NoThread /\ items' = items + 1 /\ UNCHANGED outer
           /\ \E f \in {"cond_signal", "cond_broadcast"} : Call(t, "cond", f)
  <2>1. PICK f \in {"cond_signal", "cond_broadcast"} : Goes(t, f, "enter") /\ pc[t] = "idle"
    BY <1>4, Begun
  <2>2. ~Paying(pc[t]) /\ ~Rousing(op[t], pc[t]) /\ Rousing(f, "enter") /\ f \notin Waiting
    BY <2>1 DEF Paying, Rousing, Waiting, CondWaits
  <2>3. items' + One(Rousing(op[t], pc[t])) <= items + One(Rousing(f, "enter"))
    BY <1>1, <1>4, <2>2 DEF One
  <2>4. toUnblock' + One(Paying(pc[t])) <= toUnblock + One(Paying("enter"))
    BY <1>1, <2>2 DEF One
  <2>5. One("enter" = "asleep") <= One(pc[t] = "asleep")
    BY DEF One
  <2> QED BY <1>1, <1>4, <2>1, <2>2, <2>3, <2>4, <2>5, QuietWakes
<1>5. CASE UNCHANGED <<outer, items>> /\ \E f \in {"timechange", "cond_init", "cond_destroy"} : Call(t, "cond", f)
  <2>1. PICK f \in {"timechange", "cond_init", "cond_destroy"} : Goes(t, f, "enter") /\ pc[t] = "idle"
    BY <1>5, Begun
  <2>2. ~Paying(pc[t]) /\ ~Rousing(op[t], pc[t]) /\ f \notin Waiting
    BY <2>1 DEF Paying, Rousing, Waiting, CondWaits
  <2>3. items' + One(Rousing(op[t], pc[t])) <= items + One(Rousing(f, "enter"))
    BY <1>1, <1>5, <2>2 DEF One
  <2>4. toUnblock' + One(Paying(pc[t])) <= toUnblock + One(Paying("enter"))
    BY <1>1, <2>2 DEF One
  <2>5. One("enter" = "asleep") <= One(pc[t] = "asleep")
    BY DEF One
  <2> QED BY <1>1, <1>5, <2>1, <2>2, <2>3, <2>4, <2>5, QuietWakes
<1> QED BY <1>2, <1>3, <1>4, <1>5 DEF CondCalls

LEMMA UnchangedWakes ==
  ASSUME WakeInv, UNCHANGED <<pc, op, condVars>>
  PROVE  WakeInv'
<1>1. UNCHANGED <<Posting, Rousers, Paid, Asleep>>
  BY DEF condVars, cv, Posting, Rousers, Paid, Asleep
<1>2. UNCHANGED Tokens
  BY <1>1 DEF Tokens, condVars, cv
<1> QED BY <1>1, <1>2 DEF condVars, cv, WakeInv, SeesNone, WakeTypes, TokensCover, WorkIsSeen

-----------------------------------------------------------------------------
(* The wakeups in the steps of signals and of the end of the variable *)

LEMMA TimechangeLockWakes ==
  ASSUME CondInv, WakeInv, NEW t \in Threads, TimechangeLock(t), NoneTaken
  PROVE  WakeInv'
<1>1. pc[t] = "enter" /\ op[t] = "timechange" /\ UNCHANGED <<toUnblock, queue, issue, outer, items>>
  BY DEF TimechangeLock, In
<1>2. PICK f, l : Goes(t, f, l) /\ f \in {"timechange", "none"} /\ l \in {"unblock", "idle"}
  BY <1>1, CallMoves DEF TimechangeLock, CondInv
<1>3. ~Paying(pc[t]) /\ ~Rousing(op[t], pc[t])
  BY <1>1 DEF Paying, Rousing
<1>4. toUnblock \in Nat /\ items \in Nat
  BY DEF CondInv, CondNumbers
<1>5. items' + One(Rousing(op[t], pc[t])) <= items + One(Rousing(f, l))
  BY <1>1, <1>3, <1>4 DEF One
<1>6. toUnblock' + One(Paying(pc[t])) <= toUnblock + One(Paying(l))
  BY <1>1, <1>3, <1>4 DEF One
<1>7. One(l = "asleep") <= One(pc[t] = "asleep")
  BY <1>2 DEF One
<1> QED BY <1>1, <1>2, <1>4, <1>5, <1>6, <1>7, QuietWakes DEF Settling

\* Thread t has n threads counted as woken and is to post n tokens.
LEMMA IssueWakes ==
  ASSUME CondInv, WakeInv, NEW t \in Threads, op[t] \in Signals, pc[t] \in {"enter", "unblock", "close"},
         Goto(t, "post"), NEW n \in Nat, n > 0, issue' = [issue EXCEPT ![t] = n],
         toUnblock' = toUnblock + n, UNCHANGED <<queue, outer, items>>, NoneTaken
  PROVE  WakeInv'
<1>1. Goes(t, op[t], "post")
  BY CallMoves DEF CondInv
<1>2. ~Paying(pc[t])
  BY DEF Paying
<1>3. SeesNone'
  BY <1>1, SeesKept DEF Settling
<1>4. issue[t] = 0 /\ \A u \in Threads : issue'[u] = IF u = t THEN n ELSE issue[u]
  BY DEF CondInv, CondNumbers, WakeInv, WakeTypes
<1>5. Posting' = Posting \cup Own(t, n)
  <2>1. \A p \in Threads \X Nat : p \in Posting' <=> p \in Posting \/ p \in Own(t, n)
    <3> SUFFICES ASSUME NEW u \in Threads, NEW i \in Nat
                 PROVE  <<u, i>> \in Posting' <=> <<u, i>> \in Posting \/ (u = t /\ i \in 1 .. n)
      BY DEF Own
    <3> QED BY <1>4 DEF Posting, Own
  <2>2. Own(t, n) \subseteq Threads \X Nat
    BY DEF Own
  <2> QED BY <2>1, <2>2 DEF Posting
<1>6. Posting \cap Own(t, n) = {}
  BY <1>4 DEF Posting, Own
<1>7. IsFiniteSet(Posting) /\ Cardinality(Posting) \in Nat
  BY FS_CardinalityType DEF WakeInv, WakeTypes
<1>8. IsFiniteSet(Posting') /\ Cardinality(Posting') = Cardinality(Posting) + n
  BY <1>5, <1>6, <1>7, TokensOf
<1>9. Tokens \in Nat /\ queue \in Nat
  BY TokensAreNat
<1>10. Tokens' \in Nat /\ Tokens' = Tokens + n
  BY <1>7, <1>8, <1>9 DEF Tokens
<1>11. ASSUME NEW u \in Threads, issue'[u] > 0 PROVE pc'[u] = "post"
  BY <1>1, <1>4, <1>11, Elsewhere DEF CondInv, WakeInv, WakeTypes
<1>12. toUnblock \in Nat /\ items \in Nat
  BY DEF CondInv, CondNumbers
<1>13. toUnblock' + One(Paying(pc[t])) <= toUnblock + One(Paying("post")) + n
  BY <1>2, <1>12 DEF One
<1>14. /\ items' + One(Rousing(op[t], pc[t])) <= items + One(Rousing(op[t], "post")) + n
       /\ One("post" = "asleep") <= One(pc[t] = "asleep") + n
  BY <1>12 DEF One
<1> QED BY <1>1, <1>3, <1>8, <1>9, <1>10, <1>11, <1>12, <1>13, <1>14, WakeMoves

\* A signal that wakes nobody finds nobody to wake: there is no waiter, or
\* every one is counted as woken.
LEMMA NobodyToWake ==
  ASSUME CondInv, WakeInv, NEW t \in Threads, op[t] \in Signals, pc[t] \in {"enter", "unblock"},
         cond # "valid" \/ (toUnblock # 0 /\ ~(blocked > 0)) \/ (toUnblock = 0 /\ ~(blocked > gone)),
         Return(t, "0"), UNCHANGED <<toUnblock, queue, issue, outer, items>>, NoneTaken
  PROVE  WakeInv'
<1>1. Goes(t, "none", "idle")
  BY CallMoves DEF CondInv
<1>2. ~Paying(pc[t]) /\ pc[t] # "post"
  BY DEF Paying
<1>3. SeesNone'
  BY <1>1, SeesKept DEF Settling
<1>4. UNCHANGED Posting
  BY DEF Posting
<1>5. Tokens \in Nat /\ Tokens' = Tokens
  BY <1>4, TokensAreNat DEF Tokens
<1>6. toUnblock \in Nat /\ items \in Nat /\ blocked \in Nat /\ gone \in Nat
  BY DEF CondInv, CondNumbers
<1>7. /\ Cardinality(Paid) \in Nat /\ Cardinality(Asleep) \in Nat
      /\ Cardinality(Asleep') = Cardinality(Asleep) + One("idle" = "asleep") - One(pc[t] = "asleep")
  BY <1>1, WakeChange
<1>8. Cardinality(Asleep') = Cardinality(Asleep)
  BY <1>7 DEF One
<1>9. IsFiniteSet(Within) /\ IsFiniteSet(Asleep) /\ IsFiniteSet(Paid)
  <2>1. Paid \in SUBSET Within /\ Asleep \in SUBSET Within
    BY DEF Paid, Paying, Asleep, Within
  <2> QED BY <2>1, FS_Subset DEF CondInv, CondTypes
<1>10. Cardinality(Asleep) + Cardinality(Paid) <= Cardinality(Within)
  <2>1. Asleep \cap Paid = {}
    BY DEF Asleep, Paid, Paying
  <2>2. Cardinality(Asleep \cap Paid) = 0
    BY <2>1, FS_EmptySet
  <2>3. Cardinality(Asleep \cup Paid) = Cardinality(Asleep) + Cardinality(Paid) - Cardinality(Asleep \cap Paid)
    BY <1>9, FS_Union
  <2>4. Asleep \cup Paid \in SUBSET Within
    BY DEF Asleep, Paid, Paying, Within
  <2>5. Cardinality(Asleep \cup Paid) <= Cardinality(Within)
    BY <1>9, <2>4, FS_Subset
  <2> QED BY <1>7, <2>2, <2>3, <2>5
<1>11. Cardinality(Asleep) <= Tokens
  <2>1. CASE cond # "valid"
    <3>1. Asleep = {}
      BY <2>1 DEF CondInv, UsedIsValid, InUse, Asleep
    <3> QED BY <1>5, <3>1, FS_EmptySet
  <2>2. CASE toUnblock # 0 /\ ~(blocked > 0)
    <3>1. Cardinality(Within) \in Nat /\ blocked + toUnblock - gone = Cardinality(Within)
      BY <1>9, FS_CardinalityType DEF CondInv, Balance
    <3>2. toUnblock <= Tokens + Cardinality(Paid)
      BY DEF WakeInv, TokensCover
    <3> QED BY <1>5, <1>6, <1>7, <1>10, <2>2, <3>1, <3>2
  <2>3. CASE toUnblock = 0 /\ ~(blocked > gone)
    <3>1. Cardinality(Within) \in Nat /\ blocked + toUnblock - gone = Cardinality(Within)
      BY <1>9, FS_CardinalityType DEF CondInv, Balance
    <3> QED BY <1>5, <1>6, <1>7, <1>10, <2>3, <3>1
  <2> QED BY <2>1, <2>2, <2>3
<1>12. ASSUME NEW u \in Threads, issue'[u] > 0 PROVE pc'[u] = "post"
  BY <1>1, <1>2, <1>12, Elsewhere DEF CondInv, WakeInv, WakeTypes
<1> DEFINE k == 0
<1>13. Tokens' = Tokens + k /\ Tokens' \in Nat
  BY <1>5
<1>14. toUnblock' + One(Paying(pc[t])) <= toUnblock + One(Paying("idle")) + k
  BY <1>2, <1>6 DEF One
<1>15. Cardinality(Asleep') <= Tokens'
  BY <1>5, <1>8, <1>11
<1>16. IsFiniteSet(Posting')
  BY <1>4 DEF WakeInv, WakeTypes
<1> QED BY <1>1, <1>3, <1>5, <1>6, <1>12, <1>13, <1>14, <1>15, <1>16, WakeMoves

LEMMA SignalLockWakes ==
  ASSUME CondInv, WakeInv, NEW t \in Threads, SignalLock(t), NoneTaken
  PROVE  WakeInv'
<1>1. op[t] \in Signals /\ pc[t] \in {"enter", "unblock"} /\ UNCHANGED <<queue, outer, items>>
  BY DEF SignalLock
<1>2. toUnblock \in Nat /\ items \in Nat /\ blocked \in Nat
  BY DEF CondInv, CondNumbers
<1>3. CASE /\ cond # "valid" \/ (toUnblock # 0 /\ ~(blocked > 0)) \/ (toUnblock = 0 /\ ~(blocked > gone))
           /\ Return(t, "0") /\ UNCHANGED <<toUnblock, issue>>
  BY <1>1, <1>3, NobodyToWake
<1>4. CASE Goto(t, "close") /\ UNCHANGED <<toUnblock, issue>>
  <2>1. Goes(t, op[t], "close")
    BY <1>4, CallMoves DEF CondInv
  <2>2. ~Paying(pc[t]) /\ (Rousing(op[t], pc[t]) => Rousing(op[t], "close"))
    BY <1>1 DEF Paying, Rousing, Signals
  <2>3. items' + One(Rousing(op[t], pc[t])) <= items + One(Rousing(op[t], "close"))
    BY <1>1, <1>2, <2>2 DEF One
  <2>4. toUnblock' + One(Paying(pc[t])) <= toUnblock + One(Paying("close"))
    BY <1>2, <1>4, <2>2 DEF One
  <2>5. One("close" = "asleep") <= One(pc[t] = "asleep")
    BY DEF One
  <2> QED BY <1>1, <1>2, <1>4, <2>1, <2>3, <2>4, <2>5, QuietWakes DEF Settling
<1>5. CASE /\ toUnblock # 0 /\ blocked > 0
           /\ LET n == IF op[t] = "cond_signal" THEN 1 ELSE blocked IN
              /\ toUnblock' = toUnblock + n /\ blocked' = blocked - n
              /\ issue' = [issue EXCEPT ![t] = n]
           /\ Goto(t, "post")
  <2>1. PICK n : n = IF op[t] = "cond_signal" THEN 1 ELSE blocked
    OBVIOUS
  <2>2. n \in Nat /\ n > 0
    BY <1>2, <1>5, <2>1
  <2>3. toUnblock' = toUnblock + n /\ issue' = [issue EXCEPT ![t] = n]
    BY <1>5, <2>1
  <2> QED BY <1>1, <1>5, <2>2, <2>3, IssueWakes
<1> QED BY <1>3, <1>4, <1>5 DEF SignalLock, Signalled

LEMMA SignalCloseWakes ==
  ASSUME CondInv, WakeInv, NEW t \in Threads, op[t] \in Signals, SignalClose(t), NoneTaken
  PROVE  WakeInv'
<1>1. pc[t] = "close" /\ Goto(t, "post") /\ UNCHANGED <<queue, outer, items>>
  BY DEF SignalClose
<1>2. toUnblock = 0 /\ blocked > gone /\ blocked \in Nat /\ gone \in Nat
  BY <1>1, CallsAssumption DEF CondInv, UnblockerHeld, Unblocking, CondNumbers
<1>3. PICK n : n = IF op[t] = "cond_signal" THEN 1 ELSE blocked - gone
  OBVIOUS
<1>4. n \in Nat /\ n > 0
  BY <1>2, <1>3
<1>5. toUnblock' = toUnblock + n /\ issue' = [issue EXCEPT ![t] = n]
  <2>1. toUnblock' = n /\ issue' = [issue EXCEPT ![t] = n]
    BY <1>3 DEF SignalClose
  <2> QED BY <1>2, <1>4, <2>1
<1> QED BY <1>1, <1>4, <1>5, IssueWakes

\* The tokens of t go to the semaphore.
LEMMA SignalPostWakes ==
  ASSUME CondInv, WakeInv, NEW t \in Threads, SignalPost(t), NoneTaken
  PROVE  WakeInv'
<1>1. pc[t] = "post" /\ queue' = queue + issue[t] /\ issue' = [issue EXCEPT ![t] = 0]
      /\ UNCHANGED <<toUnblock, outer, items>>
  BY DEF SignalPost
<1>2. Goes(t, "none", "idle")
  BY CallMoves DEF SignalPost, Signalled, CondInv
<1>3. ~Paying(pc[t]) /\ ~Rousing(op[t], pc[t])
  BY <1>1 DEF Paying, Rousing
<1>4. SeesNone'
  BY <1>1, <1>2, SeesKept DEF Settling
<1>5. issue[t] \in Nat /\ \A u \in Threads : issue'[u] = IF u = t THEN 0 ELSE issue[u]
  BY <1>1 DEF CondInv, CondNumbers
<1>6. Posting = Posting' \cup Own(t, issue[t])
  <2>1. \A p \in Threads \X Nat : p \in Posting <=> p \in Posting' \/ p \in Own(t, issue[t])
    <3> SUFFICES ASSUME NEW u \in Threads, NEW i \in Nat
                 PROVE  <<u, i>> \in Posting <=> <<u, i>> \in Posting' \/ (u = t /\ i \in 1 .. issue[t])
      BY DEF Own
    <3> QED BY <1>5 DEF Posting, Own
  <2>2. Own(t, issue[t]) \subseteq Threads \X Nat
    BY <1>5 DEF Own
  <2> QED BY <2>1, <2>2 DEF Posting
<1>7. Posting' \cap Own(t, issue[t]) = {}
  BY <1>5 DEF Posting, Own
<1>8. IsFiniteSet(Posting) /\ IsFiniteSet(Posting') /\ Cardinality(Posting') \in Nat
  <2>1. IsFiniteSet(Posting) /\ Posting' \in SUBSET Posting
    BY <1>6 DEF WakeInv, WakeTypes
  <2>2. IsFiniteSet(Posting')
    BY <2>1, FS_Subset
  <2> QED BY <2>1, <2>2, FS_CardinalityType
<1>9. Cardinality(Posting) = Cardinality(Posting') + issue[t]
  BY <1>5, <1>6, <1>7, <1>8, TokensOf
<1>10. Tokens \in Nat /\ queue \in Nat
  BY TokensAreNat
<1> DEFINE k == 0
<1>11. Tokens' = Tokens + k /\ Tokens' \in Nat
  BY <1>1, <1>5, <1>8, <1>9, <1>10 DEF Tokens
<1>12. ASSUME NEW u \in Threads, issue'[u] > 0 PROVE pc'[u] = "post"
  BY <1>2, <1>5, <1>12, Elsewhere DEF CondInv, WakeInv, WakeTypes
<1>13. toUnblock \in Nat /\ items \in Nat
  BY DEF CondInv, CondNumbers
<1>14. toUnblock' + One(Paying(pc[t])) <= toUnblock + One(Paying("idle")) + k
  BY <1>1, <1>3, <1>13 DEF One
<1>15. /\ items' + One(Rousing(op[t], pc[t])) <= items + One(Rousing("none", "idle")) + k
       /\ One("idle" = "asleep") <= One(pc[t] = "asleep") + k
  BY <1>1, <1>3, <1>13 DEF One
<1> QED BY <1>1, <1>2, <1>4, <1>8, <1>10, <1>11, <1>12, <1>13, <1>14, <1>15, WakeMoves

LEMMA InitWakes ==
  ASSUME CondInv, WakeInv, NEW t \in Threads, pthread_cond_init(t), NoneTaken
  PROVE  WakeInv'
<1>1. Goes(t, "none", "idle") /\ Initialising(t) /\ pc[t] # "post" /\ UNCHANGED <<outer, items>>
  BY CallMoves DEF pthread_cond_init, Initialising, In, CondInv
<1>2. \E ok \in BOOLEAN : NewCond(ok)
  BY DEF pthread_cond_init
<1> QED BY <1>1, <1>2, NewCondWakes DEF Waiting, CondWaits

LEMMA DestroyWakes ==
  ASSUME CondInv, WakeInv, NEW t \in Threads, pthread_cond_destroy(t), NoneTaken
  PROVE  WakeInv'
<1>1. op[t] = "cond_destroy" /\ pc[t] \in {"enter", "closing", "static"}
      /\ UNCHANGED <<toUnblock, queue, issue, outer, items>>
  BY DEF pthread_cond_destroy
<1>2. PICK f, l : Goes(t, f, l) /\ f \in {"cond_destroy", "none"} /\ l \in {"closing", "static", "idle"}
  BY <1>1, CallMoves DEF pthread_cond_destroy, CondInv
<1>3. ~Paying(pc[t]) /\ ~Rousing(op[t], pc[t])
  BY <1>1 DEF Paying, Rousing
<1>4. toUnblock \in Nat /\ items \in Nat
  BY DEF CondInv, CondNumbers
<1>5. items' + One(Rousing(op[t], pc[t])) <= items + One(Rousing(f, l))
  BY <1>1, <1>3, <1>4 DEF One
<1>6. toUnblock' + One(Paying(pc[t])) <= toUnblock + One(Paying(l))
  BY <1>1, <1>3, <1>4 DEF One
<1>7. One(l = "asleep") <= One(pc[t] = "asleep")
  BY <1>2 DEF One
<1> QED BY <1>1, <1>2, <1>4, <1>5, <1>6, <1>7, QuietWakes DEF Settling

-----------------------------------------------------------------------------
(* Nobody sleeps on work *)

LEMMA CondNextWakes == ASSUME CondInv, WakeInv, NEW t \in Threads, CondNext(t) PROVE WakeInv'
<1>1. Lost(t)
  BY DEF CondNext
<1>2. CASE AsleepCancelled(t)
  BY <1>1, <1>2, AsleepCancelledWakes
<1>3. CASE ~AsleepCancelled(t)
  <2>1. ~In(t, "dying", "asleep")
    BY <1>3 DEF CondNext, pthread_cond_init, pthread_cond_wait, pthread_cond_timedwait,
                ptw32_cond_cancelled, GateCancelled, ptw32_cond_wait_cleanup, CleanupCount,
                CleanupTrim, CleanupReopen, CleanupRelock, Retest, pthread_cond_signal,
                pthread_cond_broadcast, pthread_timechange_handler_np, TimechangeLock,
                pthread_cond_destroy, In
  <2>2. NoneTaken
    BY <1>1, <2>1, NoneTakenIn
  <2>3. CASE ptw32_cond_timedwait(t)
    BY <2>2, <2>3, WaitEnterWakes, NeedInitWakes, WaitGateWakes, WaitEnteredWakes, WaitUnlockWakes,
       WaitAsleepWakes
    DEF ptw32_cond_timedwait
  <2>4. CASE ptw32_cond_wait_cleanup(t)
    BY <2>2, <2>4, CleanupCountWakes, CleanupEndWakes DEF ptw32_cond_wait_cleanup
  <2>5. CASE op[t] \in Signals /\ ptw32_cond_unblock(t)
    BY <2>2, <2>5, SignalLockWakes, SignalCloseWakes, SignalPostWakes DEF ptw32_cond_unblock
  <2> QED BY <1>3, <2>2, <2>3, <2>4, <2>5, InitWakes, RetestWakes, TimechangeLockWakes, DestroyWakes,
             GateCancelledWakes
          DEF CondNext, pthread_cond_wait, pthread_cond_timedwait, ptw32_cond_cancelled,
              pthread_cond_signal, pthread_cond_broadcast, pthread_timechange_handler_np, Signals
<1> QED BY <1>2, <1>3

LEMMA WakeInvStep == CondInv /\ WakeInv /\ [CondStep]_<<callVars, condVars>> => WakeInv'
<1> SUFFICES ASSUME CondInv, WakeInv, [CondStep]_<<callVars, condVars>> PROVE WakeInv'
  OBVIOUS
<1>1. CASE UNCHANGED <<callVars, condVars>>
  BY <1>1, UnchangedWakes DEF callVars
<1>2. CASE CondStep
  <2> PICK t \in Threads : CondNext(t) \/ CondCalls(t) \/ (Cancel(t) /\ UNCHANGED condVars)
    BY <1>2 DEF CondStep
  <2>1. CASE Cancel(t) /\ UNCHANGED condVars
    BY <2>1, UnchangedWakes DEF Cancel
  <2> QED BY <2>1, CondNextWakes, CondCallsWakes
<1> QED BY <1>1, <1>2

\* NobodySleepsOnWork: a signal given with an item is lost only to a thread that
\* is being cancelled: while there are more items than such threads have taken
\* tokens along, and somebody is asleep, there is a token for a sleeper or a
\* thread awake in a call, whatever timeouts and cancellations come between the
\* signals, the tokens and the threads that leave.
THEOREM NoWakeupIsLost == CondSpec => []NobodySleepsOnWork
<1>1. CondInv /\ WakeInv => NobodySleepsOnWork
  <2> SUFFICES ASSUME CondInv, WakeInv, items > swallowed, queue = 0,
                      \A t \in Threads : Inside(t) => pc[t] = "asleep",
                      NEW s \in Threads, Inside(s)
               PROVE  FALSE
    BY DEF NobodySleepsOnWork
  <2>1. \A t \in Threads : pc[t] \in {"idle", "exited", "asleep"}
    BY DEF Inside
  <2>2. Rousers = {}
    BY <2>1 DEF Rousers, Rousing
  <2>3. \A t \in Threads : issue[t] = 0
    BY <2>1 DEF CondInv, CondNumbers, WakeInv, WakeTypes
  <2>4. Posting = {}
    BY <2>3 DEF Posting
  <2>5. Tokens = 0 /\ Cardinality(Rousers) = 0
    BY <2>2, <2>4, FS_EmptySet DEF Tokens
  <2>6. Asleep \in SUBSET Within /\ s \in Asleep
    BY DEF Asleep, Within
  <2>7. IsFiniteSet(Asleep)
    BY <2>6, FS_Subset DEF CondInv, CondTypes
  <2>8. Cardinality(Asleep) \in Nat /\ Cardinality(Asleep) # 0
    BY <2>6, <2>7, FS_CardinalityType, FS_EmptySet
  <2>9. items \in Nat /\ swallowed \in Nat
    BY DEF CondInv, CondNumbers, WakeInv, WakeTypes
  <2> QED BY <2>5, <2>8, <2>9 DEF WakeInv, WorkIsSeen
<1>2. CondInv /\ WakeInv /\ [CondStep]_<<callVars, condVars>> => (CondInv /\ WakeInv)'
  BY CondInvStep, WakeInvStep
<1> QED BY <1>1, <1>2, CondInvInit, WakeInvInit, PTL DEF CondSpec

=============================================================================
