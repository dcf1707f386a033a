SPECIFICATION FairSpec
CONSTANTS
  Threads = {t1, t2}
  Monitor = Monitor
  Resources = {r1, r2}
  Modes <- ExclusiveOnly
  MaxLeases = 4
  UseMonitor = FALSE
  Preempt = FALSE
  NoThread = NoThread
  NoResource = NoResource
INVARIANTS
  DeadlocksDetected
PROPERTIES
  CallsReturn
CHECK_DEADLOCK FALSE
