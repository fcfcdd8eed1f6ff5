SPECIFICATION FairSpec
CONSTANTS
  h1 = h1
  h2 = h2
  f1 = f1
  f2 = f2
  k1 = k1
  k2 = k2
  base = base
  x = x
  y = y
  Absent = Absent
  NoTree = NoTree
  NoHunt = NoHunt
  Main = main
  DevContent = dev
  Hunts = {h1, h2}
  Files = {f1, f2}
  Drafts = {x}
  Contents = {base, x, dev}
  Branches = {k1, k2}
  MaxAttempts = 1
  Faults = {"push", "commit", "crash"}
  DevMoves = {}
  MaxDevMoves = 0
  DevMeanwhile = TRUE
  Flock = TRUE
  Relevant = {f1}
  Excluded = {}
  Unreadable = {}
  SuffixOf = {}
  FindingOf <- TwoFindings
  BaseTree <- AllPresent
INVARIANTS
  TypeOK
  LockMatchesHolder
  OneHuntInside
  NothingHeldAfterwards
  RefusalLeavesNoTrace
PROPERTIES
  PromotionOntoBoundCommit
  PushCarriesTestedFiles
  AuditBacksThePush
  EveryHuntEnds
