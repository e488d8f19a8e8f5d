CONSTANTS
  None = none
  Pids = {p1, p2}
  Calls = {c1, c2}
  MaxStart = 2
SPECIFICATION Spec
CHECK_DEADLOCK FALSE
INVARIANTS NoStrangerSignalled ExitStopsAll
PROPERTIES CommandsEnd LeftBehindStops
