----------------------------- MODULE MCQueryGate -----------------------------
EXTENDS QueryGate, TLC
Symmetry == Permutations(Sockets) \cup Permutations(Queries)
=============================================================================
