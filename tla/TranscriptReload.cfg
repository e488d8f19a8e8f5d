\* A /reload whose rewrite does not reach the disk.
CONSTANTS
  Starts = {"new"}
  Keep = 1
  Whole = 1
  MaxCalls = 1
  MaxMade = 3
  MaxFaults = 1
  MaxDeaths = 0
  MaxChanges = 0
SPECIFICATION Spec
CHECK_DEADLOCK FALSE
INVARIANT SavesGoThrough
