---------------------------- MODULE MCTargetedRd -----------------------------
(***************************************************************************)
(* TargetedRd for TLC: the CPUs, and the threads other than Main, are      *)
(* interchangeable.                                                        *)
(***************************************************************************)
EXTENDS TargetedRd, TLC

Symmetry == Permutations(Cpus) \cup Permutations(Tids \ {Main})

==============================================================================
