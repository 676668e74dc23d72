-------------------------- MODULE MCEvmTransaction --------------------------
EXTENDS EvmTransaction, TLC

Symmetry == Permutations(Workers)

=============================================================================
