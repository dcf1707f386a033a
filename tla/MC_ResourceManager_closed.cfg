SPECIFICATION Spec
CONSTANTS
  Threads = {t1, t2}
  Monitor = Monitor
  Resources = {r1}
  Modes <- ExclusiveOnly
  MaxLeases = 2
  UseMonitor = TRUE
  Preempt = FALSE
  NoThread = NoThread
  NoResource = NoResource
SYMMETRY ThreadSymmetry
PROPERTIES
  ClosedWithoutLeases
CHECK_DEADLOCK FALSE
