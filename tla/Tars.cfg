CONSTANTS
  h1 = h1
  h2 = h2
  Workers = {w1, w2}
  Capacity = 1
  Answers <- MCAnswers
  RecvMayFail = TRUE
  WriteMayFail = TRUE
  CallerMayCancel = TRUE
  None = None
  Deleted = Deleted
  Vanished = Vanished
  Diffs <- MCDiffs
  Packs <- MCPacks
  PackedPaths = {1, 2, 3}
  ObjectRoom = 1
  ReadMayFail = TRUE
SPECIFICATION UpdateFairSpec
INVARIANTS UpdateTypeOK Complete PublishedWhole SuccessPublished MergeExact MergeAgain
PROPERTIES CallReturns
CHECK_DEADLOCK FALSE
