--------------------------- MODULE MCTurnAdmission ---------------------------
EXTENDS TurnAdmission
\* Works are alike, and no property names one.
Symmetry == Permutations(Works)
=============================================================================
