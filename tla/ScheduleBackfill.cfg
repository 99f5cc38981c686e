SPECIFICATION LiveSpec
CONSTANTS
  Local <- MCLocal
  Lookahead = 8
  Ids = {1, 2}
  Expression <- MCExpression
  Zone <- MCZone
  Policy <- MCPolicy
  Workers = {"m1"}
  Limit = 2
  ClockLag = 0
  Operated = {1}
  Horizon = 2
  MaxCrashes = 0
CHECK_DEADLOCK FALSE
PROPERTIES
  AlwaysCatchesUp
