----------------------- MODULE MCStellarTransaction -----------------------
EXTENDS StellarTransaction, TLC

Symmetry == Permutations(Workers)

=============================================================================
