-------------------------- MODULE MCLeaseCapacity --------------------------
EXTENDS LeaseCapacity, TLC

Symmetry == Permutations(Attempts) \cup Permutations(Workers)
============================================================================
