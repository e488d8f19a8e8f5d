\* One session of any start: two failing writes, two deaths, a mode change.
CONSTANTS
  Starts = {"new", "stray", "bare", "shortened"}
  Keep = 1
  Whole = 1
  MaxCalls = 2
  MaxMade = 3
  MaxFaults = 2
  MaxDeaths = 2
  MaxChanges = 1
SPECIFICATION Spec
CHECK_DEADLOCK FALSE
INVARIANTS ResumesFaithfully RequestsAnswered
PROPERTY NothingLost
