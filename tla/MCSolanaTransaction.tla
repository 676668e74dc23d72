------------------------ MODULE MCSolanaTransaction ------------------------
(* SolanaTransaction for TLC; one worker, so there is no symmetry. *)
EXTENDS SolanaTransaction
=============================================================================
