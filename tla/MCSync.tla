------------------------------- MODULE MCSync -------------------------------
(***************************************************************************)
(* Small programs, each of which uses one object of pthreads-w32: the      *)
(* variable object says of which kind.  All of the kinds are checked in    *)
(* one run, with the properties they share.                                *)
(***************************************************************************)
EXTENDS Once, Barrier, SpinLock, Semaphore, Keys, Threads, TLC

CONSTANTS Objects, PostMeetsCancel, Victims, t1, t2, t3, k1, k2, s1, s2, s3

MCMaxCalls ==
  LET C(a, b, c) == (t1 :> a) @@ (t2 :> b) @@ (t3 :> c) IN
  [mcs |-> C(2, 1, 1), once |-> C(1, 1, 1), barrier |-> C(3, 1, 1), spin |-> C(2, 2, 1),
   semaphore |-> C(2, 1, 1), keys |-> C(4, 2, 0), threads |-> C(3, 2, 0)]
MCWaitCalls == (t1 :> 2) @@ (t2 :> 1) @@ (t3 :> 1)
MCProxy == <<NoThread, 1>>

syncVars == <<mcsVars, onceVars, barrierVars, spinVars, semVars>>
allVars == <<callVars, syncVars, keyVars, threadVars>>

Init ==
  /\ CallsInit(Objects)
  /\ McsInit /\ OnceInit /\ pthread_barrier_init /\ SpinInit /\ SemInit
  /\ KeysInit /\ ThreadsInit
  \* one choice is enough for the objects that are not used
  /\ object # "spin" => spin = "static" /\ cpus = 1

OnceObject(t) ==
  /\ \/ pthread_once(t)
     \/ Inside(t) /\ McsStep(Node(t)) /\ UNCHANGED <<callVars, onceVars>>
  /\ UNCHANGED <<barrierVars, spinVars, semVars>>

McsObject(t) ==
  /\ \/ McsCall(t)
     \/ Inside(t) /\ McsStep(Node(t)) /\ UNCHANGED callVars
  /\ UNCHANGED <<onceVars, barrierVars, spinVars, semVars>>

BarrierObject(t) ==
  /\ \/ pthread_barrier_wait(t) \/ pthread_barrier_destroy(t)
     \/ Inside(t) /\ McsStep(Node(t)) /\ UNCHANGED <<callVars, barrierVars>>
     \/ In(t, "barrier_wait", "opening") /\ McsStep(Proxy) /\ UNCHANGED <<callVars, barrierVars>>
  /\ UNCHANGED <<onceVars, spinVars, semVars>>

SpinObject(t) ==
  SpinNext(t) /\ UNCHANGED <<mcsVars, onceVars, barrierVars, semVars>>

SemObject(t) ==
  /\ PostMeetsCancel \/ PostApart(t)
  /\ SemNext(t) /\ UNCHANGED <<mcsVars, onceVars, barrierVars, spinVars>>

\* The library, in the call of thread t.
Library(t) ==
  \/ /\ \/ object = "mcs" /\ McsObject(t)
        \/ object = "once" /\ OnceObject(t)
        \/ object = "barrier" /\ BarrierObject(t)
        \/ object = "spin" /\ SpinObject(t)
        \/ object = "semaphore" /\ SemObject(t)
     /\ UNCHANGED <<keyVars, threadVars>>
  \/ KeysNext(t) /\ UNCHANGED <<syncVars, threadVars>>
  \/ ThreadsNext(t) /\ UNCHANGED <<syncVars, keyVars>>

\* The program.
Program(t) ==
  \/ /\ \/ Call(t, "mcs", "mcs")
        \/ Call(t, "once", "once")
        \/ BarrierCalls(t)
        \/ SpinCalls(t) \/ SemCalls(t)
        \/ object \in {"once", "semaphore"} /\ t \in Victims /\ Cancel(t)
     /\ UNCHANGED <<syncVars, keyVars, threadVars>>
  \/ KeysCalls(t) /\ UNCHANGED <<syncVars, threadVars>>
  \/ ThreadsCalls(t) /\ UNCHANGED <<syncVars, keyVars>>

\* What it does in the end: unlock, and return from its threads.
Ends(t) ==
  \/ /\ SpinUnlockCall(t)
     /\ UNCHANGED <<syncVars, keyVars, threadVars>>
  \/ /\ object = "threads" /\ (StartReturns(t) \/ PopCall(t))
     /\ UNCHANGED <<syncVars, keyVars>>

Next == \E t \in Threads : Library(t) \/ Program(t) \/ Ends(t)

Spec ==
  /\ Init /\ [][Next]_allVars
  /\ \A t \in Threads : WF_allVars(Library(t) \/ Ends(t))

\* The MCS lock is a fair lock: first come, first served, one holder at a
\* time, and a release with somebody in the queue always reaches the next
\* node, whatever the order of its link, its flag and the event in the flag.
McsImplementsFifoLock == Lock!Spec

\* A call returns, or its thread ends in it, unless it waits for something
\* nobody is bound to do: a post, or a barrier wait that was never called.
\* So joins return, a key is deleted, and destructors come to an end.
CallsReturn ==
  \A t \in Threads :
    (Inside(t) /\ object \notin {"barrier", "semaphore"}) ~> ~Inside(t)
=============================================================================
