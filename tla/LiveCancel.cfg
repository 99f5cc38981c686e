SPECIFICATION LiveSpec
CONSTANTS
  Workflows = {"w1"}
  Roots = {"w1"}
  NoWorkflow = "none"
  Signals = {}
  Updates = {"u1"}
  Fingerprints <- Prints
  MaxAttempts = 1
  Deadlines = {}
  Processes = 2
  Replay <- MCReplay
  Child <- MCChild
  Operated = {"w1"}
  MaxPauses = 0
  MaxFaults = 1
  Scenario = "update"
CHECK_DEADLOCK FALSE
INVARIANTS
  RecordReplays
  TypeOK
  UpdatesSettled
  SingleOwner
  NoLostWakeUp
PROPERTIES
  CancellationTakesEffect
  ImplementsLifecycle
