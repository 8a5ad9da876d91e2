---------------------------- MODULE CpuAffinity ----------------------------
(***************************************************************************)
(* thread_set_affinity_cpus of src/threadpool.c: as many cpu ids as there  *)
(* are CPUs online are cut into groups of affinity_cpus, and a thread runs *)
(* on the CPUs of one group.  Below n is what get_nprocs() returns and a   *)
(* the affinity_cpus that Capped makes of the argument.                    *)
(***************************************************************************)
EXTENDS Integers

CONSTANTS
  CpuIdMax,      \* POOL_CPU_ID_MAX, the last cpu id
  SetSize        \* CPU_SETSIZE: CPU_SET drops a cpu id from there on

ASSUME CpuAssumption == CpuIdMax \in Nat /\ SetSize \in Nat \ {0}

CpuIds == 0..(SetSize - 1)

-----------------------------------------------------------------------------
(* Faulty versions of definitions below, not used here. *)

\* CpusOf: the last cpu id is included.
CpusOfOneMore(grp_id, a) == (a * grp_id) .. (a * (grp_id + 1)) \cap CpuIds

-----------------------------------------------------------------------------
\* -1, and whatever exceeds the largest cpu id, asks for all CPUs.
Capped(affinity_cpus) ==
  IF affinity_cpus = -1 \/ affinity_cpus > CpuIdMax THEN CpuIdMax + 1 ELSE affinity_cpus

\* cpu_grps
Groups(n, a) == IF a > 0 /\ n \div a >= 1 THEN n \div a ELSE 1

\* grp_id
GroupOf(thrid, n, a) == thrid % Groups(n, a)

\* The CPUs of a group; CPU_SET ignores what a cpu_set_t cannot hold.
CpusOf(grp_id, a) == (a * grp_id) .. (a * (grp_id + 1) - 1) \cap CpuIds

\* The cpuset of the thread thrid.
thread_set_affinity_cpus(thrid, affinity_cpus, n) ==
  LET a == Capped(affinity_cpus) IN CpusOf(GroupOf(thrid, n, a), a)
=============================================================================
