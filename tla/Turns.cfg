\* One session and two works: turns, compactions and a reload, steers, panics
\* at every place and another process that takes the session between them.
CONSTANTS
  Sessions = {s1}
  Works = {w1, w2}
  None = None
  System = System
  Foreign = Foreign
  MaxSteers = 2
  MaxIter = 2
  MaxForeign = 1
  Kinds = {"turn", "compact", "reload"}
SPECIFICATION Spec
SYMMETRY Symmetry
\* Every work may be used up.
CHECK_DEADLOCK FALSE
INVARIANTS OneWorkOneTranscript SteersInOrder
PROPERTY TranscriptGrows
