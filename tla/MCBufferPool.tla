---------------------------- MODULE MCBufferPool ----------------------------
EXTENDS BufferPoolManager, TLC

Symmetry == Permutations(Handles)
=============================================================================
