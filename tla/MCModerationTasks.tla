------------------------- MODULE MCModerationTasks -------------------------
(***************************************************************************)
(* Instances of ModerationTasks for TLC; the .cfg files set the bounds.    *)
(***************************************************************************)
EXTENDS ModerationTasks, TLC

Symmetry == Permutations(Processes)

=============================================================================
