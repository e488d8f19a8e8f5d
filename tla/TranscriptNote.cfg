\* A mode change told to the model, with no write failing.
CONSTANTS
  Starts = {"new"}
  Keep = 1
  Whole = 1
  MaxCalls = 1
  MaxMade = 3
  MaxFaults = 0
  MaxDeaths = 0
  MaxChanges = 1
SPECIFICATION Spec
CHECK_DEADLOCK FALSE
INVARIANT ClosedIsSaved
