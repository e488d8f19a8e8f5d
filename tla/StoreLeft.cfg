\* A frontend removes a session it left while its turn was running there.
CONSTANTS
  Procs = {p1, p2}
  Sessions = {s1}
  None = None
  Calls = {"create", "start", "attach", "delete", "detach"}
  MaxCrashes = 0
  Faults = FALSE
  LeftRemoval = TRUE
SPECIFICATION Spec
SYMMETRY Symmetry
PROPERTY NoForeignRemoval
