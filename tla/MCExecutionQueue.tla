-------------------------- MODULE MCExecutionQueue --------------------------
(* A small instance of ExecutionQueue for TLC: the two process incarnations *)
(* are interchangeable, the jobs are too (they are told apart by the order  *)
(* of their admission).                                                     *)
EXTENDS ExecutionQueue, TLC

CONSTANTS j1, j2, a, b

MCJobs == {j1, j2}
MCOwners == {a, b}
Symmetry == Permutations(MCJobs) \cup Permutations(MCOwners)
=============================================================================
