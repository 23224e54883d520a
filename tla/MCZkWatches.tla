---------------------------- MODULE MCZkWatches ----------------------------
EXTENDS ZkWatches
CONSTANTS p1, w1, w2

Symmetry == Permutations(Watchers)
=============================================================================
