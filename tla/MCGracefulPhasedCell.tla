------------------------- MODULE MCGracefulPhasedCell -------------------------
(* Model-checking instance of GracefulPhasedCell. *)
EXTENDS GracefulPhasedCell, TLC

\* Threads that keep to the contract are interchangeable.
ThreadSymmetry == Permutations(Threads \ Misusers)
==============================================================================
