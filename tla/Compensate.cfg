SPECIFICATION Spec
CONSTANTS
  Workflows = {"w1"}
  Roots = {"w1"}
  NoWorkflow = "none"
  Signals = {}
  Updates = {}
  Fingerprints <- Prints
  MaxAttempts = 1
  Deadlines = {}
  Processes = 1
  Replay <- MCReplay
  Child <- MCChild
  Operated = {"w1"}
  MaxPauses = 0
  MaxFaults = 0
  Scenario = "compensate"
CHECK_DEADLOCK FALSE
INVARIANTS
  NeverDiverges
