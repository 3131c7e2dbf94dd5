------------------------- MODULE MCBackendConnection -------------------------
\* Three sockets let one be dialled while two replaced ones still drain.
EXTENDS BackendConnection, TLC
Symmetry == Permutations(Sockets) \cup Permutations(Requests)
=============================================================================
