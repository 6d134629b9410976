SPECIFICATION LifeSpec
CONSTANTS
  Tasks <- AllTasks
  Workers = 1
  Capacity = 2
  NTurns = 3
  NRequests = 2
  NQuestions = 1
  NRuns = 2
  MaxAttempts = 2
  MaxStale = 1
  Workloads <- AllWorkloads
  Idle <- MCIdle
  ToolUpdates <- MCToolUpdates
  UserEdits <- MCUserEdits
  Gates <- MCGates
  Questions = {1, 2}
  Batches = {1, 2}
  MaxEvaluations = 2
  MaxDraftRevisions = 2
  PrWorkloads <- MCPrWorkloads
  Unasked <- MCUnasked
INVARIANTS
  PermitsBalance
  OneHandoffPerWindow
  PlanIsSound
PROPERTIES
  PlanGoesOn
CHECK_DEADLOCK FALSE
