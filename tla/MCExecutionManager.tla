------------------------ MODULE MCExecutionManager --------------------------
(* Instances of ExecutionManager for TLC. *)
EXTENDS ExecutionManager, TLC

NameSymmetry == Permutations(Names)
=============================================================================
