----------------------------- MODULE MCJobQueue -----------------------------
(* JobQueue for TLC; symmetry of the workers is not used, since the run checks liveness. *)
EXTENDS JobQueue
=============================================================================
