--------------------------- MODULE MCJobLifecycle ---------------------------
(* Small instances of JobLifecycle for TLC. *)
EXTENDS JobLifecycle, TLC

CONSTANTS u1

\* Every job belongs to one user, so that jobs compete for the cap.
OneOwner == [j \in Jobs |-> u1]

\* Every action and every property treats jobs of one owner alike.
JobSymmetry == Permutations(Jobs)
=============================================================================
