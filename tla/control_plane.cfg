SPECIFICATION Spec
CONSTANTS
  NRuns = 2
  NJobs = 1
  NEntries = 1
  NThreads = 2
  MaxPhases = 1
  MaxOcc = 2
  Workloads <- AllWorkloads
INVARIANTS
  ApprovalsHold
  OncePerOccurrence
PROPERTIES
  RunsGoOn
