SPECIFICATION Spec
CONSTANTS
  h1 = h1
  h2 = h2
  f1 = f1
  f2 = f2
  k1 = k1
  k2 = k2
  base = base
  x = x
  y = y
  Absent = Absent
  NoTree = NoTree
  NoHunt = NoHunt
  Main = main
  DevContent = dev
  Hunts = {h1}
  Files = {f1, f2}
  Drafts = {x}
  Contents = {base, x, dev}
  Branches = {k1, k2}
  MaxAttempts = 2
  Faults = {}
  DevMoves = {}
  MaxDevMoves = 0
  DevMeanwhile = TRUE
  Flock = TRUE
  Relevant = {f1}
  Excluded = {}
  Unreadable = {}
  SuffixOf = {}
  FindingOf <- OneFinding
  BaseTree <- AllPresent
PROPERTIES
  PublishedTreeWasTested
