---------------------------- MODULE MCPoolCreate ----------------------------
(***************************************************************************)
(* PoolCreate with small limits.  The header lets a build choose them, see *)
(* the #ifndef around POOL_MAX_THREADS and its like.                       *)
(***************************************************************************)
EXTENDS PoolCreate

\* Below, at and above every limit of the checks.
MCThreadCounts == {-1, 0, 1, 4, 5}
MCQueueSizes == {-1, 0, 2, 3}
MCArgSizes == {0, 4, 5}
MCAffinities == {-1, 0, 1, 2, 3, 5, 7}

\* The CPUs with the lowest ids are online.
AllOnline == {0..(n - 1) : n \in 1..7}
=============================================================================
