-------------------------- MODULE MCPhasedCellAsync --------------------------
(* Model-checking instance of PhasedCellAsync. *)
EXTENDS PhasedCellAsync, TLC

\* Tasks are interchangeable: sound for the safety run only.
TaskSymmetry == Permutations(Tasks)
==============================================================================
