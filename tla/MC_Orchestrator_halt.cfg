SPECIFICATION FairSpec
CONSTANTS
  PSU = PSU
  DMM = DMM
  MaxTasks = 2
  MaxResumes = 0
  CellCount = 2
  Policy = "priority"
  StopOnFailure = TRUE
  Backoff = 1
  MaxRetries <- MCRetrySecond
  Priority <- MCPriority
  LockNames <- MCLockNames
  ResourceLocks <- MCNoLocks
  SaveMayFail = FALSE
PROPERTIES
  EveryRunEnds
