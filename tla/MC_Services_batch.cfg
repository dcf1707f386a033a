SPECIFICATION BatchSpec
CONSTANTS
  MaxJobs = 2
  RetryLimits = {0, 2}
  MaxStarts = 2
  MaxSteps = 3
  MaxCellStarts = 3
  c1 = c1
  c2 = c2
  Clients <- ClientSet
  Batches <- WholeBatches
  MaxBatches = 3
  Rules = {"r1", "r2"}
  Cooldown = 2
  Lock = Lock
  None = None
  TaskDescriptors <- MCTaskDescriptors
  MaxTasks = 3
  HeldSets <- MCHeldSets
  NowMs <- MCNowMs
  Graphs <- MCGraphs
  Requests <- MCRequests
  Unknown = None
  MaxResRuns = 2
  MaxResSteps = 2
  NoImage = NoImage
  Editors = {"first", "second"}
  VersionNames = {"1.0", "1.1"}
  NoRecipe = NoRecipe
  MaxSaves = 3
  MaxSeconds = 2
  ByteBits = 2
  WordBytes = 2
  Payloads <- MCPayloads
  Formulas <- MCFormulas
  MaxTokens = 7
  PluginIds = {"a", "b"}
  PluginDirectories <- MCDirectories
  Capabilities = {"c", "d"}
  Undeclared = None
  MaxPluginLoads = 2
  MaxRegistered = 3
  InstrumentLists <- MCInstrumentLists
  Ports = {"COM1", "COM2"}
  MaxConnects = 3
  Subjects = {"matrix"}
INVARIANT BatchesAreWhole
CHECK_DEADLOCK FALSE
