------------------------------ MODULE SpinLock ------------------------------
(***************************************************************************)
(* Spin locks: an interlocked word on a machine of several processors, a   *)
(* mutex on a machine of one, and a static initializer that the first user *)
(* turns into either of them under ptw32_spinlock_test_init_lock.          *)
(***************************************************************************)
EXTENDS Calls

VARIABLES
  spin,     \* *lock: "static", "null", or the lock's interlock
  cpus,     \* what ptw32_getprocessors finds
  inner     \* the thread that holds u.mutex

spinVars == <<spin, cpus, inner>>

SpinInit ==
  /\ spin \in {"static", "null"} /\ cpus \in {1, 2} /\ inner = NoThread

\* pthread_spin_init, in the state it leaves.
NewSpin == IF cpus > 1 THEN "unlocked" ELSE "mutex"

pthread_spin_init(t) ==
  /\ In(t, "spin_init", "enter") /\ spin = "null"
  /\ \/ spin' = NewSpin /\ Return(t, "0")
     \/ Return(t, "ENOMEM") /\ UNCHANGED spin
  /\ UNCHANGED <<cpus, inner>>

SpinEnter(t) ==
  /\ op[t] \in {"spin_lock", "spin_trylock"} /\ pc[t] = "enter"
  /\ IF spin = "null" THEN Return(t, "EINVAL")
     ELSE Goto(t, IF spin = "static" THEN "needInit" ELSE "spin")
  /\ UNCHANGED spinVars

\* A faulty version: it is initialised whether it is still static or not.
SpinNeedInitNoRecheck(t) ==
  /\ pc[t] = "needInit" /\ op[t] \in {"spin_lock", "spin_trylock"}
  /\ spin' = NewSpin /\ Goto(t, "spin")
  /\ UNCHANGED <<cpus, inner>>

\* Whether it is still static is looked at again under the lock.
ptw32_spinlock_check_need_init(t) ==
  /\ pc[t] = "needInit" /\ op[t] \in {"spin_lock", "spin_trylock"}
  /\ \/ spin = "static" /\ spin' = NewSpin /\ Goto(t, "spin")
     \/ spin = "static" /\ Return(t, "ENOMEM") /\ UNCHANGED spin
     \/ spin = "static" /\ cpus = 1 /\ spin' = "null" /\ Return(t, "ENOMEM")    \* no mutex
     \/ spin = "null" /\ Return(t, "EINVAL") /\ UNCHANGED spin
     \/ spin \notin {"static", "null"} /\ Goto(t, "spin") /\ UNCHANGED spin
  /\ UNCHANGED <<cpus, inner>>

pthread_spin_lock(t) ==
  /\ In(t, "spin_lock", "spin")
  /\ \/ spin = "unlocked" /\ spin' = "locked" /\ ReturnHolding(t, "0", 1) /\ UNCHANGED inner
     \/ /\ spin = "mutex" /\ inner = NoThread
        /\ inner' = t /\ ReturnHolding(t, "0", 1) /\ UNCHANGED spin
  /\ UNCHANGED cpus

pthread_spin_trylock(t) ==
  /\ In(t, "spin_trylock", "spin")
  /\ \/ spin = "unlocked" /\ spin' = "locked" /\ ReturnHolding(t, "0", 1) /\ UNCHANGED inner
     \/ spin = "locked" /\ Return(t, "EBUSY") /\ UNCHANGED <<spin, inner>>
     \/ /\ spin = "mutex" /\ inner = NoThread
        /\ inner' = t /\ ReturnHolding(t, "0", 1) /\ UNCHANGED spin
     \/ spin = "mutex" /\ inner # NoThread /\ Return(t, "EBUSY") /\ UNCHANGED <<spin, inner>>
  /\ UNCHANGED cpus

\* Called by a thread that holds the lock, or before the lock is used at all.
pthread_spin_unlock(t) ==
  /\ In(t, "spin_unlock", "enter")
  /\ \/ spin = "static" /\ Return(t, "EPERM") /\ UNCHANGED <<spin, inner>>
     \/ /\ spin \in {"locked", "unlocked"}
        /\ spin' = "unlocked" /\ ReturnHolding(t, "0", -1) /\ UNCHANGED inner
     \/ spin = "mutex" /\ inner' = NoThread /\ ReturnHolding(t, "0", -1) /\ UNCHANGED spin
  /\ UNCHANGED cpus

pthread_spin_destroy(t) ==
  /\ op[t] = "spin_destroy"
  /\ \/ /\ pc[t] = "enter"
        /\ \/ spin = "static" /\ Goto(t, "static") /\ UNCHANGED spin
           \/ spin \in {"null", "locked"} /\ Return(t, "EINVAL") /\ UNCHANGED spin
           \/ spin = "mutex" /\ inner # NoThread /\ Return(t, "EBUSY") /\ UNCHANGED spin
           \/ /\ spin \in {"unlocked", "mutex"} /\ inner = NoThread
              /\ spin' = "null" /\ Return(t, "0")
     \/ /\ pc[t] = "static"      \* under ptw32_spinlock_test_init_lock
        /\ IF spin = "static" THEN spin' = "null" /\ Return(t, "0")
           ELSE Return(t, "EBUSY") /\ UNCHANGED spin
  /\ UNCHANGED <<cpus, inner>>

SpinNext(t) ==
  \/ pthread_spin_init(t) \/ SpinEnter(t) \/ ptw32_spinlock_check_need_init(t)
  \/ pthread_spin_lock(t) \/ pthread_spin_trylock(t)
  \/ pthread_spin_unlock(t) \/ pthread_spin_destroy(t)

SpinUnlockCall(t) == holds[t] > 0 /\ Again(t, "spin", "spin_unlock")

\* The program calls what it may: init when there is no lock, destroy when
\* no other thread is in a call ("We are relying on the application ...").
SpinCalls(t) ==
  /\ Open(t)
  /\ \/ \E f \in {"spin_lock", "spin_trylock"} : holds[t] = 0 /\ Call(t, "spin", f)
     \/ SpinUnlockCall(t)
     \/ spin = "static" /\ Quiet(t) /\ Call(t, "spin", "spin_unlock")
     \/ spin = "null" /\ Quiet(t) /\ Call(t, "spin", "spin_init")
     \/ Quiet(t) /\ Call(t, "spin", "spin_destroy")
=============================================================================
