CONSTANTS
  h1 = h1
  h2 = h2
  Null = Null
  Missing = Missing
  Folder = Folder
  project = p1
  Hash = {h1, h2}
  Path <- MCPath
  Dir <- MCDir
  Inside <- MCInside
  Node <- MCNode
  Under <- MCUnder
  NodeOf <- MCNodeOf
  Rank <- MCRank
  Packed = {"n/"}
  Mine = {}
  Theirs = {"a", "a/", "a/f", "a/g", "n/"}
  Trees <- FileTrees
  Keeps = {}
  Summarize = {TRUE, FALSE}
  Folding = {}
  Crowding = {}
  Interrupts = FALSE
  GcKeepsUp = TRUE
  MaxFaults = 2
  MaxVersion = 3
SPECIFICATION FairSpec
PROPERTIES CatchUp RetryExact
CHECK_DEADLOCK FALSE
