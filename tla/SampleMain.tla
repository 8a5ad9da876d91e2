----------------------------- MODULE SampleMain -----------------------------
(***************************************************************************)
(* The program of src/main.c over the pool of module ThreadPool: main      *)
(* opens one database connection for each worker, submits a task a round,  *)
(* each with an argument from malloc, destroys the pool and closes the     *)
(* connections; doThreadTask reads its argument and its worker's           *)
(* connection, sleeps and frees the argument.                              *)
(***************************************************************************)
EXTENDS ThreadPool

CONSTANTS
  main,      \* the thread of main
  Rounds     \* how many tasks it submits, 1000 in the source

ASSUME SampleAssumption ==
  /\ Rounds \in Nat
  /\ Tasks = 1..Rounds
  /\ Clients = {main}
  /\ \A x \in Threads : Calls[x] = IF x = main THEN {"add", "destroy"} ELSE {}
  /\ \A t \in Tasks : ArgSize[t] <= TaskArgSize

VARIABLES
  mpc,        \* where main is
  round,      \* main's counter
  argument,   \* the malloc'ed argument of each task: "none", "allocated", "freed"
  closed      \* how many connections of dbpool are freed

poolState == <<lock, poolVars, lifeVars, workerVars, callVars, historyVars>>
allVars == <<poolState, mpc, round, argument, closed>>

-----------------------------------------------------------------------------
(* Faulty versions of definitions below, not used here. *)

\* DoThreadTask: the argument is not freed.
DoThreadTaskKeeps(w) == WorkerFinish(w) /\ UNCHANGED argument

\* Added: main frees the argument of a submission that failed.
AddedFrees ==
  /\ mpc = "adding" /\ cpc[main] = "idle"
  /\ mpc' = "loop"
  /\ argument' = IF ret[main] = "success" THEN argument ELSE [argument EXCEPT ![round] = "freed"]
  /\ UNCHANGED <<poolState, round, closed>>

-----------------------------------------------------------------------------
SampleInit ==
  /\ Init
  /\ mpc = "loop" /\ round = 0
  /\ argument = [t \in Tasks |-> "none"]
  /\ closed = 0

\* The next round: malloc, then the call of threadpool_add.
Submit ==
  /\ mpc = "loop" /\ round < Rounds
  /\ mpc' = "adding"
  /\ round' = round + 1
  /\ argument' = [argument EXCEPT ![round + 1] = "allocated"]
  /\ AddCall(main, round + 1)
  /\ UNCHANGED closed

\* threadpool_add has returned: an error is printed, the argument is kept.
Added ==
  /\ mpc = "adding" /\ cpc[main] = "idle"
  /\ mpc' = "loop"
  /\ UNCHANGED <<poolState, round, argument, closed>>

LeaveLoop ==
  /\ mpc = "loop" /\ round = Rounds
  /\ mpc' = "destroying"
  /\ DestroyCall(main)
  /\ UNCHANGED <<round, argument, closed>>

\* threadpool_destroy has returned, whatever it returned.
CloseConnection ==
  /\ mpc = "destroying" /\ cpc[main] \in {"idle", "retired"}
  /\ closed < ThreadCount
  /\ closed' = closed + 1
  /\ UNCHANGED <<poolState, mpc, round, argument>>

Return0 ==
  /\ mpc = "destroying" /\ closed = ThreadCount
  /\ mpc' = "ended"
  /\ UNCHANGED <<poolState, round, argument, closed>>

\* main inside threadpool_add or threadpool_destroy.
MainInCall ==
  /\ AddNext(main) \/ DestroyNext(main)
  /\ UNCHANGED <<mpc, round, argument, closed>>

\* The function of the task returns; the last it does is free(argument).
DoThreadTask(w) ==
  WorkerFinish(w) /\ argument' = [argument EXCEPT ![taskcpy[w].task] = "freed"]

\* The worker's loop around it.
WorkerLoop(w) ==
  /\ wpc[w] # "run"
  /\ WorkerNext(w)
  /\ UNCHANGED argument

Main == Submit \/ Added \/ LeaveLoop \/ CloseConnection \/ Return0 \/ MainInCall

Worker(w) ==
  /\ mpc # "ended"   \* the process exits when main returns
  /\ DoThreadTask(w) \/ WorkerLoop(w)
  /\ UNCHANGED <<mpc, round, closed>>

SampleNext ==
  \/ Main
  \/ \E w \in Workers : Worker(w)
  \/ mpc = "ended" /\ UNCHANGED allVars

SampleSpec ==
  /\ SampleInit /\ [][SampleNext]_allVars
  /\ WF_allVars(Main) /\ \A w \in Workers : WF_allVars(Worker(w))

-----------------------------------------------------------------------------
(* Properties *)

\* While doThreadTask runs, its argument is allocated and the connection of
\* its worker is open: neither an argument freed after a failed submission,
\* nor a task taken twice, nor main's clean-up pulls the memory from under it.
TaskReadsLiveMemory ==
  \A w \in Workers :
    wpc[w] = "run" => argument[taskcpy[w].task] = "allocated" /\ w > closed

\* When main returns, the arguments never freed are those of tasks that were
\* refused or were still in the queue when the pool was shut down: nobody but
\* doThreadTask frees one.
LeaksOnlyUnstarted ==
  mpc = "ended" =>
    \A t \in Tasks :
      argument[t] = "allocated" => outcome[t] = "rejected" \/ t \in Queued
=============================================================================
