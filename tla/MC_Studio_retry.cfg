SPECIFICATION Spec

CONSTANTS
  Cells = {1, 2}
  NoCell = 0
  MaxRuns = 2
  MaxClicks = 2
  MaxFails = 1
  ShownTasks = {1, 2}
  w1 = w1
  w2 = w2
  s1 = s1
  WorkflowFor <- WorkflowsOfTasks
  ShownSteps = {s1}
  StepIdBase = 1000
  MaxReports = 2
  Judged = {w2}
  MaxAttempts = 2
  MaxOrchestrations = 2
  StepIds = {1, 2}
  NoId = 0
  Files <- HandWritten
  Typed = {0, 1}
  MaxNodes = 3
  MaxLinks = 2
  Tables <- HandTables
  Definitions <- SavedDefinitions
  DeviceTable <- Devices
  Inferred <- PluginOfType
  Blank = Blank
  Characters = {"key", "equals", "comma", "open", "close", "quote"}
  MaxText = 5

INVARIANT
  FailedAreRetried

CHECK_DEADLOCK FALSE
