--------------------------- MODULE MCJobScheduler ---------------------------
(* Instances of JobScheduler for TLC. *)
EXTENDS JobScheduler, TLC

CONSTANTS p, q
ProcessSymmetry == Permutations({p, q})
=============================================================================
