----------------------------- MODULE MCProcessGroups -----------------------------
EXTENDS ProcessGroups, TLC
ASSUME ProcsAssumption
=============================================================================
