SPECIFICATION LiveSpec
CONSTANTS
  Workflows = {"w1", "w2", "w3", "w4", "w5"}
  Roots = {"w1"}
  NoWorkflow = "none"
  Signals = {}
  Updates = {}
  Fingerprints <- Prints
  MaxAttempts = 2
  Deadlines = {}
  Processes = 2
  Replay <- MCReplay
  Child <- MCChild
  Operated = {"w1", "w2"}
  MaxPauses = 0
  MaxFaults = 1
  Scenario = "family"
CHECK_DEADLOCK FALSE
INVARIANTS
  StatusMatchesHistory
  ClosedFenced
  NoOrphans
  ParentInformed
PROPERTIES
  ClosedForever
  ImplementsLifecycle
  EventuallyCloses
