\* One writer and one gate, over a ledger an earlier build may have left short of
\* its pin: failing writes, deaths and power cuts.
SPECIFICATION Spec
SYMMETRY Symmetry
CONSTANTS
    Writers = {w1}
    Readers = {r1}
    Paths = {p1}
    Contents = {c1, c2}
    None = None
    Observed = 2
    Acts = {"approve", "forget", "repair"}
    MaxActs = 2
    MaxFaults = 1
    MaxCuts = 2
INVARIANTS PinNamesLog OnlyFinishedActsCount
PROPERTIES NothingDestroyed RepairHeals
