\* A project's first approval, and a death in it.
SPECIFICATION Spec
SYMMETRY Symmetry
CONSTANTS
    Writers = {w1}
    Readers = {r1}
    Paths = {p1}
    Contents = {c1, c2}
    None = None
    Observed = 0
    Acts = {"approve"}
    MaxActs = 1
    MaxFaults = 0
    MaxCuts = 1
INVARIANTS NoFalseTamper
CHECK_DEADLOCK FALSE
