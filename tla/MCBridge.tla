------------------------------ MODULE MCBridge ------------------------------
EXTENDS HistoryInvariant, TLC
Symmetry == Permutations(Workers)
=============================================================================
