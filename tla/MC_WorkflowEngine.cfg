SPECIFICATION FairSpec
CONSTANTS
  StepIds <- MCStepIds
  NoStep = NoStep
  NoGroup = NoGroup
  Workflows <- MCWorkflows
  kMaxTransitions = 4
  kMaxVisits = 2
  MaxRetries = 1
INVARIANTS
  WithinLimits
  NothingForgotten
  SessionsClosed
  VerdictTruthful
PROPERTIES
  RefinesSaga
  RunEnds
