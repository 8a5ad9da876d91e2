------------------------------ MODULE MCWaits ------------------------------
(***************************************************************************)
(* Small programs with a mutex, a condition variable or a read/write lock.  *)
(***************************************************************************)
EXTENDS Mutex, CondVar, RwLock, TLC

CONSTANTS Objects, Victims, t1, t2, t3

MCMaxCalls ==
  LET C(a, b, c) == (t1 :> a) @@ (t2 :> b) @@ (t3 :> c) IN
  [cond |-> C(2, 1, 1), rwlock |-> C(2, 1, 1), mutex |-> C(2, 1, 1)]
MCKinds == {"normal", "recursive", "errorcheck"} \X BOOLEAN

allVars == <<callVars, condVars, rwVars, lockVars>>

Init ==
  /\ CallsInit(Objects) /\ CondInit /\ RwInit /\ MutexInit
  \* one choice is enough for the object that is not used
  /\ object # "cond" => cond = "valid"
  /\ object # "rwlock" => rwlock = "valid"
  /\ object # "mutex" => mutex = "valid" /\ mx = NewMutex(CHOOSE k \in Kinds : TRUE)

Library(t) ==
  \/ CondNext(t) /\ UNCHANGED <<rwVars, lockVars>>
  \/ RwNext(t) /\ UNCHANGED <<condVars, lockVars>>
  \/ object = "mutex" /\ MutexNext(t) /\ UNCHANGED <<condVars, rwVars>>

\* Who holds a lock lets go of it.
Ends(t) == (RwUnlockCall(t) \/ MutexUnlockCall(t)) /\ UNCHANGED <<condVars, rwVars, lockVars>>

Program(t) ==
  \/ CondCalls(t) /\ UNCHANGED <<rwVars, lockVars>>
  \/ (RwCalls(t) \/ MutexCalls(t)) /\ UNCHANGED <<condVars, rwVars, lockVars>>
  \/ /\ object # "mutex" /\ t \in Victims /\ Cancel(t)
     /\ UNCHANGED <<condVars, rwVars, lockVars>>

Next == \E t \in Threads : Library(t) \/ Ends(t) \/ Program(t)

Spec ==
  /\ Init /\ [][Next]_allVars
  /\ \A t \in Threads : WF_allVars(Library(t) \/ Ends(t))

\* Threads that a signal has woken leave, and the gate opens again.
GateReopens == toUnblock > 0 ~> toUnblock = 0

\* A thread gets a read/write lock or a mutex, or gives up, when the others
\* unlock it: no wakeup is lost between a timeout, the end of an owner and an
\* unlock.  Except that a robust normal mutex that pthread_mutex_timedlock found
\* free can never be unlocked: nobody is recorded as its owner.
LocksReturn ==
  LET Unrecorded == /\ mx.robust /\ mx.idx # 0 /\ mx.owner = NoThread
                    /\ \A t \in Threads : pc[t] # "exchange"
  IN \A t \in Threads : (object # "cond" /\ Inside(t)) ~> (~Inside(t) \/ Unrecorded)
=============================================================================
