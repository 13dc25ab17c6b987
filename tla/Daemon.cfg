CONSTANTS
  Proc = {p1, p2}
  Hash = {h1, h2}
  Part = {f1, f2}
  Limit = 2
  Collects = {h2}
  Faults = {"crash", "break", "first", "write", "stop"}
  MaxFaults = 1
  MaxVersion = 2
  None = None
  Target = {d1}
  Env = "dev"
  Overlap = FALSE
SPECIFICATION DaemonFairSpec
INVARIANTS DaemonTypeOK CacheComplete VolumeWhole
PROPERTIES Published
