----------------------- MODULE MCGracefulPhasedCellAsync -----------------------
(* Model-checking instance of GracefulPhasedCellAsync. *)
EXTENDS GracefulPhasedCellAsync, TLC

CONSTANTS MaxAccidents   \* how many kinds of accident one behaviour may have

\* Tasks are interchangeable.
TaskSymmetry == Permutations(Tasks)

\* Nor does anybody call try_lock: what it does is PhasedCellAsync's, and changes
\* nothing that a waiting task looks at.
BoundedNext ==
    /\ GracefulNext
    /\ Cardinality(accidents') <= MaxAccidents
    /\ \A t \in Tasks : call'[t] # "try_lock"

BoundedSpec == GracefulInit /\ [][BoundedNext]_vars
==============================================================================
