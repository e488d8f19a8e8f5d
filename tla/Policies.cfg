CONSTANTS
  top = top
  nested = nested
  human = human
  second = second
  Roots = {top, nested}
  Chain <- MCChain
  Procs = {human, second}
  Project <- MCProject
  Worktree <- MCWorktree
  Teams <- MCTeams
  Default = "ask"
  Stores <- MCStores
  MaxWrites = 2
  mine = mine
  theirs = theirs
  other = other
  gate = gate
  ending = ending
  look = look
  prompt = prompt
  script = script
  one = one
  two = two
  Files = {mine, theirs, other}
  Global = {theirs}
  Stem <- MCStem
  Manifests = {gate, ending, prompt, look}
  Event <- MCEvent
  Installed <- MCInstalled
  Shipped <- MCShipped
  Blocking = {ending}
  Script <- MCScript
  Scripts = {script}
  Bodies = {one, two}
  Unstartable = {prompt}
  Absent = absent
  Junk = junk
  None = none
  Null = null
  Modes = {"ask", "auto"}
  Cap = 1
  MaxRefusals = 1
  MaxEdits = 1
  MaxActs = 1
  MaxCalls = 2
  Apis = {"chat", "responses", "messages"}
  Plans <- MCPlans
  Dialects = {"indexed", "repeating", "minting", "one index", "ids", "whole", "spelled"}
  MaxAttempts = 3
  MaxUnreached = 2
SPECIFICATION MCSpec
INVARIANTS ModesAreTold NoLostTrust GatesHold UnapprovedNeverRuns AutoNeverLocksOut RepliesAreMeant
PROPERTIES RequestOver OnlySelectionLoosens
