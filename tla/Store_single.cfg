CONSTANTS
  h1 = h1
  h2 = h2
  none = none
  Null = Null
  Path <- MCPath
  Dir <- MCDir
  Inside <- MCInside
  PackPatterns <- MCPatterns
  NoPatterns = none
  Hash = {h1, h2}
  Project = {p1}
  Session = {s1}
  Streams <- MixedStreams
  Keeps = {1, 2}
  Samples <- MCSamples
  Froms = {0, 1}
  Templates = {}
  Rollbacks = {p1}
  FreshIds = TRUE
  QuiescentGc = TRUE
  StableClones = TRUE
  MaxVersion = 3
SPECIFICATION Spec
INVARIANTS TypeOK DisjointLives ContentsAvailable QueriesExact
PROPERTIES BatchPublished StableVersions
