-------------------------------- MODULE MCJobs --------------------------------
(***************************************************************************)
(* Symmetry for the runs of Jobs that check no liveness: nothing there     *)
(* tells two rows or two requests apart.                                   *)
(***************************************************************************)
EXTENDS Jobs, TLC

Alike == Permutations(Job) \cup Permutations(Post)
=============================================================================
