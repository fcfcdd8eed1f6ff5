SPECIFICATION Spec
CONSTANTS
  h1 = h1
  h2 = h2
  f1 = f1
  f2 = f2
  k1 = k1
  k2 = k2
  base = base
  x = x
  y = y
  Absent = Absent
  NoTree = NoTree
  NoHunt = NoHunt
  Main = main
  DevContent = dev
  Hunts = {h1, h2}
  Files = {f1}
  Drafts = {base, x}
  Contents = {base, x, dev}
  Branches = {k1, k2}
  MaxAttempts = 2
  Faults = {"git"}
  DevMoves = {"stage"}
  MaxDevMoves = 1
  DevMeanwhile = TRUE
  Flock = FALSE
  Relevant = {f1}
  Excluded = {}
  Unreadable = {}
  SuffixOf = {}
  FindingOf <- TwoFindings
  BaseTree <- OnlyF1
INVARIANTS
  SealedRepairIsEarned
