---------------------------- MODULE MCBulkBatch ----------------------------
EXTENDS BulkBatch, TLC
Symmetry == Permutations(Procs)
=============================================================================
