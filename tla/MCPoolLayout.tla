---------------------------- MODULE MCPoolLayout ----------------------------
(***************************************************************************)
(* PoolLayout with a header of one byte, task_args of none or two and      *)
(* rings of one to three.  Slots of three bytes lie at 0, 3 and 6 then: an *)
(* int up to 7 holds every offset, one up to 3 does not, just as an int of *)
(* 32 bits does not hold 131071 * (32 + 16384).                            *)
(***************************************************************************)
EXTENDS PoolLayout

MCQueueSizes == 1..3
MCTaskArgSizes == {0, 2}
MCArgSizes == {-1, 1, 2, 3}
=============================================================================
