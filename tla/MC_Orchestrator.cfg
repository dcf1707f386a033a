SPECIFICATION FairSpec
CONSTANTS
  PSU = PSU
  DMM = DMM
  MaxTasks = 3
  MaxResumes = 1
  CellCount = 2
  Policy = "priority"
  StopOnFailure = FALSE
  Backoff = 1
  MaxRetries <- MCOneRetry
  Priority <- MCPriority
  LockNames <- MCLockNames
  ResourceLocks <- MCLocks
  SaveMayFail = FALSE
INVARIANTS
  LocksSound
  ExitCodeTruthful
  AttemptsBounded
  StateFileCurrent
PROPERTIES
  RefinesPool
  EveryRunEnds
