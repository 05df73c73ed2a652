------------------------- MODULE MCSessionOwnership -------------------------
EXTENDS SessionOwnership, TLC
Symmetry == Permutations(Node)
=============================================================================
