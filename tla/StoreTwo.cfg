\* Two processes over two sessions: index writes that interleave.
CONSTANTS
  Procs = {p1, p2}
  Sessions = {s1, s2}
  None = None
  Calls = {"create", "fork", "start", "save", "delete"}
  MaxCrashes = 0
  Faults = FALSE
  LeftRemoval = FALSE
SPECIFICATION Spec
SYMMETRY Symmetry
PROPERTIES NoLostEntry ForkListedBacked
