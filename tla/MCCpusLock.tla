----------------------------- MODULE MCCpusLock -----------------------------
(* CpusLock for TLC: CPUs and threads are interchangeable. *)
EXTENDS CpusLock, TLC

Symmetry == Permutations(CPUs) \cup Permutations(Threads)
=============================================================================
