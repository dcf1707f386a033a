SPECIFICATION Spec
CONSTANTS
  PSU = PSU
  DMM = DMM
  MaxTasks = 3
  MaxResumes = 1
  CellCount = 2
  Policy = "fifo"
  StopOnFailure = TRUE
  Backoff = 0
  MaxRetries <- MCRetrySecond
  Priority <- MCPriority
  LockNames <- MCLockNames
  ResourceLocks <- MCNoLocks
  SaveMayFail = TRUE
INVARIANTS
  SlotsSound
PROPERTIES
  NoStartAfterHalt
