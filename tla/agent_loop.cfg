SPECIFICATION LoopSpec
CONSTANTS
  Order <- TheOrder
  Deps <- TheDeps
  RepeatThreshold = 1
  Warn = 2
  Hard = 3
  Window = 3
  FreqWarn = 3
  FreqHard = 4
  MaxRecovery = 2
  MaxSchema = 1
  MaxConcurrent = 2
  MaxPrimary = 1
  Tools <- TheTools
  Replies <- AllReplies
  Scenarios <- AllScenarios
  MaxRuns = 2
  MaxDeferred = 1
INVARIANTS
  TurnsAreGuarded
PROPERTIES
  TurnsEnd
CHECK_DEADLOCK FALSE
