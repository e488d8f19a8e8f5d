----------------------------- MODULE MCTurnFrontend -----------------------------
EXTENDS TurnFrontend, TLC
=============================================================================
