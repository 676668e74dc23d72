----------------------------- MODULE MCEvmNonce -----------------------------
(* EvmNonce for TLC.  Symmetry is for the safety run only. *)
EXTENDS EvmNonce, TLC

Symmetry == Permutations(Txs) \cup Permutations(Fillers)

=============================================================================
