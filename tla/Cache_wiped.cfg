CONSTANTS
  Proc = {p1, p2}
  Hash = {h1, h2}
  Part = {f1, f2}
  Limit = 2
  Collects = {}
  Faults = {}
  MaxFaults = 0
  MaxVersion = 2
  None = None
SPECIFICATION Spec
INVARIANTS CacheComplete
