SPECIFICATION LiveSpec
CONSTANTS
  Procs = {"old", "new", "dev"}
  Files <- MCFiles
  Checksum <- MCChecksum
  Registry <- MCRegistry
  Versions = {1, 2}
  Roles = {"workflow"}
  NoHash = NoHash
  NoProc = NoProc
  MaxFaults = 1
CHECK_DEADLOCK FALSE
INVARIANTS
  AppliedInOrder
  NoFalseAlarm
  SchemaReady
  SameCode
  StoppedMeansStopped
PROPERTIES
  NoSilentWorker
  EventuallyServes
