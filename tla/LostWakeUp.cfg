SPECIFICATION Spec
CONSTANTS
  Workflows = {"w1"}
  Roots = {"w1"}
  NoWorkflow = "none"
  Signals = {"s1"}
  Updates = {}
  Fingerprints <- Prints
  MaxAttempts = 1
  Deadlines = {}
  Processes = 1
  Replay <- MCReplay
  Child <- MCChild
  Operated = {"w1"}
  MaxPauses = 0
  MaxFaults = 0
  Scenario = "early"
CHECK_DEADLOCK FALSE
INVARIANTS
  NoLostWakeUp
