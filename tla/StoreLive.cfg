\* Fairness, and one death: every call ends.
CONSTANTS
  Procs = {p1, p2}
  Sessions = {s1}
  None = None
  Calls = {"create", "start", "save", "discard"}
  MaxCrashes = 1
  Faults = FALSE
  LeftRemoval = FALSE
SPECIFICATION FairSpec
PROPERTY CallsEnd
\* An id whose maker died is never named again.
CHECK_DEADLOCK FALSE
INVARIANT IInv
