\* Two replies; two changes of the mode, the rules or a tool's code in all.
CONSTANTS
  edit = edit
  ext = ext
  bad = bad
  Tools = {edit, ext}
  Mutating = {edit}
  External = {ext}
  Editor = edit
  Malformed = bad
  Replies <- MCReplies
  Starts = {"ask", "auto"}
  Books <- MCBooks
  Vetted <- MCVetted
  Broken = broken
  Parallelism = 1
  AgentSpawned = FALSE
  MaxChanges = 2
SPECIFICATION Spec
CHECK_DEADLOCK FALSE
INVARIANTS CallsAreBound AnsweredInOrder
PROPERTY TurnEnds
