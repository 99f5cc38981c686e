SPECIFICATION LiveSpec
CONSTANTS
  Local <- MCLocal
  Lookahead = 8
  Ids = {1, 2}
  Expression <- MCExpression
  Zone <- MCZone
  Policy <- MCPolicy
  Workers = {"m1", "m2"}
  Limit = 2
  ClockLag = 1
  Operated = {2}
  Horizon = 3
  MaxCrashes = 1
CHECK_DEADLOCK FALSE
INVARIANTS
  NoCollision
  OneExecution
  NoMinuteLost
  NoOverlap
PROPERTIES
  CatchesUp
  BufferedStarts
