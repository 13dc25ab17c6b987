CONSTANTS
  h1 = h1
  h2 = h2
  none = none
  Null = Null
  Path <- MCPath
  Dir <- MCDir
  Inside <- MCInside
  PackPatterns <- MCPatterns
  NoPatterns = none
  Hash = {h1, h2}
  Project = {p1}
  Session = {s1, s2}
  Streams <- PlainStreams
  Keeps = {1}
  Samples <- MCSamples
  Froms = {0}
  Templates = {}
  Rollbacks = {}
  FreshIds = TRUE
  QuiescentGc = FALSE
  StableClones = TRUE
  MaxVersion = 2
SPECIFICATION Spec
INVARIANTS ContentsAvailable
