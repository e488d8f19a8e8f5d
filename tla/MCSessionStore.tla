--------------------------- MODULE MCSessionStore ---------------------------
EXTENDS SessionStoreInv, TLC
Symmetry == Permutations(Procs) \cup Permutations(Sessions)
=============================================================================
