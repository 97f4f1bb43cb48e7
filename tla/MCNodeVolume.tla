---------------------------- MODULE MCNodeVolume ----------------------------
EXTENDS NodeVolume, TLC
CONSTANTS v1, v2, l1, l2, p1, p2
Symmetry == Permutations({p1, p2}) \cup Permutations({v1, v2}) \cup Permutations({l1, l2})
=============================================================================
