--------------------------- MODULE MCTurnTranscript ---------------------------
EXTENDS TurnTranscript
=============================================================================
