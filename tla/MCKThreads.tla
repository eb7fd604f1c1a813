----------------------------- MODULE MCKThreads -----------------------------
(* Instances of KThreads for TLC: processes only on two CPUs, and kernel     *)
(* threads on one CPU; see the .cfg files.                                  *)
EXTENDS KThreads, TLC

Perms == Permutations(CPU)
=============================================================================
