\* Two sessions, one prompt and one steer or queued text, and a compaction.
CONSTANTS
  Sessions = {s1, s2}
  None = None
  MaxTyped = 2
  MaxCompacts = 1
  MaxMail = 2
  DeletesRunning = TRUE
  CompactsEarly = FALSE
SPECIFICATION FSpec
\* Everything typed may be said.
CHECK_DEADLOCK FALSE
INVARIANT SpinnerTrue
