CONSTANTS
  h1 = h1
  h2 = h2
  none = none
  Null = Null
  Path <- MCPath
  Dir <- MCDir
  Inside <- MCInside
  PackPatterns <- MCPatterns
  NoPatterns = none
  Hash = {h1, h2}
  Project = {p1, p2}
  Session = {s1, s2}
  Streams <- PlainStreams
  Keeps = {}
  Samples = {}
  Froms = {0}
  Templates = {p1}
  Rollbacks = {p2}
  FreshIds = TRUE
  QuiescentGc = TRUE
  StableClones = TRUE
  MaxVersion = 2
SYMMETRY Sessions
SPECIFICATION Spec
INVARIANTS NoFutureRows StoreInv
PROPERTIES CloneExact StableVersions
