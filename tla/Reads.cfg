CONSTANTS
  h1 = h1
  h2 = h2
  none = none
  Null = Null
  Path <- MCPath
  Dir <- MCDir
  Inside <- MCInside
  PackPatterns <- MCPatterns
  NoPatterns = none
  Hash = {h1, h2}
  Project = {p1}
  Session = {s1}
  Streams <- ReadStreams
  Keeps = {1}
  Samples <- MCSamples
  Froms = {0}
  Templates = {}
  Rollbacks = {p1}
  FreshIds = TRUE
  QuiescentGc = TRUE
  StableClones = TRUE
  MaxVersion = 2
  Reader = {r1}
  Packed = {"n/"}
  Wanted = {Null, 1}
  Queries <- MCQueries
  ChunkSize = 1
SPECIFICATION ReadSpec
INVARIANTS ReadTypeOK ReadExact
