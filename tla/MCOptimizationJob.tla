-------------------------- MODULE MCOptimizationJob --------------------------
(* Bounded instances of OptimizationJob for TLC.                            *)
EXTENDS OptimizationJob, TLC

(* Requests and processes are told apart by identity alone.                 *)
Symmetry == Permutations(Workers) \cup Permutations(Applies)
==============================================================================
