---------------------------- MODULE MCSampleMain ----------------------------
(***************************************************************************)
(* A small instance of SampleMain for TLC: the queue is shorter than the   *)
(* number of rounds, so that it fills up.                                  *)
(***************************************************************************)
EXTENDS SampleMain

MCTasks == 1..Rounds
MCArgSize == [t \in 1..Rounds |-> 1]
MCCalls == [x \in Threads |-> IF x = main THEN {"add", "destroy"} ELSE {}]
=============================================================================
