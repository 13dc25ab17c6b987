CONSTANTS
  h1 = h1
  h2 = h2
  Null = Null
  Missing = Missing
  Folder = Folder
  project = p1
  Hash = {h1, h2}
  Path <- MCPath
  Dir <- MCDir
  Inside <- MCInside
  Node <- MCNode
  Under <- MCUnder
  NodeOf <- MCNodeOf
  Rank <- MCRank
  Packed = {"n/"}
  Mine = {"b"}
  Theirs = {"a", "a/", "a/f", "a/g", "n/"}
  Trees <- SmallTrees
  Keeps = {1}
  Summarize = {TRUE}
  Folding = {}
  Crowding = {}
  Interrupts = FALSE
  GcKeepsUp = TRUE
  MaxFaults = 0
  MaxVersion = 4
SPECIFICATION Spec
INVARIANTS TypeOK Synced
CHECK_DEADLOCK FALSE
