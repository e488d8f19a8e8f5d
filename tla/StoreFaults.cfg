\* Two processes over one session, a damaged index and failing writes.
CONSTANTS
  Procs = {p1, p2}
  Sessions = {s1}
  None = None
  Calls = {"attach","start","create","delete","discard","detach","save","sidecar"}
  MaxCrashes = 0
  Faults = TRUE
  LeftRemoval = FALSE
SPECIFICATION Spec
SYMMETRY Symmetry
\* An id is handed out at most once: one deleted, none is left for a call to
\* name.
CHECK_DEADLOCK FALSE
INVARIANTS OneOwner EventLogOwned
PROPERTIES NoForeignRemoval NoResurrection ImplementsLeases DiscardKeepsHistory
