---------------------------- MODULE MCThreadPool ----------------------------
(***************************************************************************)
(* Small instances of ThreadPool for TLC.                                  *)
(***************************************************************************)
EXTENDS ThreadPool, TLC

CONSTANTS a, b, t1, t2, t3, t4

\* One task fills task_arg, one half of it, one has none, one is too large.
MCTasks2 == {t1, t2}
MCTasks3 == {t1, t2, t3}
MCTasks4 == {t1, t2, t3, t4}
MCArgSize2 == (t1 :> 2) @@ (t2 :> 1)
MCArgSize3 == MCArgSize2 @@ (t3 :> 0)
MCArgSize4 == MCArgSize3 @@ (t4 :> 3)

\* Who calls what: a submits and destroys, b submits; the tasks submit too;
\* a asks for free places before it submits, and the tasks destroy the pool.
CallsTwoClients ==
  [x \in Threads |-> CASE x = a -> {"add", "destroy"} [] x = b -> {"add"} [] OTHER -> {}]
CallsTasksAdd ==
  [x \in Threads |-> IF x = a THEN {"add", "destroy"} ELSE {"add"}]
CallsTasksDestroy ==
  [x \in Threads |-> IF x = a THEN {"add", "unused_queues"} ELSE {"destroy"}]
=============================================================================
