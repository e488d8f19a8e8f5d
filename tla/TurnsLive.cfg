\* Fairness: every admitted work settles, and a session left is let go of.
CONSTANTS
  Sessions = {s1}
  Works = {w1, w2}
  None = None
  System = System
  Foreign = Foreign
  MaxSteers = 1
  MaxIter = 2
  MaxForeign = 0
  Kinds = {"turn", "compact"}
SPECIFICATION FairSpec
CHECK_DEADLOCK FALSE
PROPERTIES KeepsContract WorkSettles
