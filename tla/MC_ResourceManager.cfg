SPECIFICATION Spec
CONSTANTS
  Threads = {t1, t2}
  Monitor = Monitor
  Resources = {r1}
  Modes <- BothModes
  MaxLeases = 3
  UseMonitor = TRUE
  Preempt = TRUE
  NoThread = NoThread
  NoResource = NoResource
SYMMETRY ThreadSymmetry
INVARIANTS
  LeasesSound
  NoMissedWakeup
PROPERTIES
  RefinesLeases
CHECK_DEADLOCK FALSE
