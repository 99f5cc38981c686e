SPECIFICATION Spec
CONSTANTS
  Workflows = {"w1", "w2"}
  Roots = {"w1", "w2"}
  NoWorkflow = "none"
  Signals = {}
  Updates = {}
  Fingerprints <- Prints
  MaxAttempts = 2
  Deadlines = {"schedule_to_start", "start_to_close", "heartbeat"}
  Processes = 2
  Replay <- MCReplay
  Child <- MCChild
  Operated = {"w1"}
  MaxPauses = 1
  MaxFaults = 1
  Scenario = "retry"
CHECK_DEADLOCK FALSE
INVARIANTS
  OneAttempt
  AttemptsBounded
  NoStartAfterCancel
