SPECIFICATION Spec
CONSTANTS
  Local <- MCLocal
  Lookahead = 8
  Ids = {1, 2}
  Expression <- MCExpression
  Zone <- MCZone
  Policy <- MCPolicy
  Workers = {"m1", "m2"}
  Limit = 2
  ClockLag = 0
  Operated = {}
  Horizon = 3
  MaxCrashes = 0
CHECK_DEADLOCK FALSE
INVARIANTS
  OneAtATime
