CONSTANTS
  Update = {"u1", "u2", "u3"}
  Admin = {}
  Read = {}
  ProjectOf <- MCProjectOf
  Inserts = 2
  Size = 3
  MaxLeaks = 0
  Stops = FALSE
SPECIFICATION FairSpec
PROPERTIES Answered
CHECK_DEADLOCK FALSE
