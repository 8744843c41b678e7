--------------------------- MODULE MCLockManager ---------------------------
EXTENDS LockManager, TLC

Symmetry == Permutations(Txns) \cup Permutations(Rids)
=============================================================================
