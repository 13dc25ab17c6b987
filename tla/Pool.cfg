CONSTANTS
  Update = {"u1"}
  Admin = {"c1"}
  Read = {"r1"}
  ProjectOf <- MCProjectOf
  Inserts = 2
  Size = 3
  MaxLeaks = 2
  Stops = TRUE
SPECIFICATION FairSpec
INVARIANTS TypeOK ClosedWhenIdle SomebodyRuns
PROPERTIES AnsweredIfSpare ExhaustionReported HealthReturns Exits
CHECK_DEADLOCK FALSE
