SPECIFICATION Spec
CONSTANTS
  Rows = {r1, r2}
  Delays = {0, 2}
  Timeouts = {1}
  LeaseTime = 1
  RouteDelay = 1
  Horizon = 4
  MaxWait = 2
  MaxPauses = 2
SYMMETRY Symmetry
VIEW View
CHECK_DEADLOCK FALSE
INVARIANTS
  NoManufacturedTimeout
