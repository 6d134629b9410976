CONSTANTS
  t1 = t1
  t2 = t2
  thA = thA
  thB = thB
  Tasks <- TwoTasks
  Threads <- BothThreads
  ThreadOf <- OwnersApart
  MaxWorkers = 1
  Timeout = 2
  Buffer = 1
  Calls <- TwoCalls
  Commands = {"write"}
  Traced = {"task"}
  LongRunning = {"task"}
  Reporting = {"task"}
  TraceKept = 4
  MaxSignals = 1
  MaxReports = 1
  MaxRetries = 1
  MwNames <- SmallNames
  MwListed = 3
  Windows <- SomeWindows
  Triggers <- SomeTriggers
  Keeps <- SomeKeeps
  ListLength = 2
  MaxStops = 1
  MaxTorn = 1
  Limit = 5
  MinLimit = 3
  Crossings <- HalfAndMore
  OnFailure = "skip"
  MaxAttempts = 2
  MaxRuns = 3
  MaxCalls = 4
  ToolNames <- SomeTools
  Builders = {"one"}
  BuildKinds <- SomeKinds
  Servers <- SomeServers
  Breakable = {"write_todos"}
  MaxSwitches = 1
SPECIFICATION AllSpec
INVARIANTS
  SuccessHasResult
  SettledCancelIsFailed
  NeverDisappears
  PollTimeoutMeansQueued
  RecordsAreWhole
  AssemblyIsSound
  ResultsMatch
  TurnsAreBounded
  OfferIsSound
PROPERTIES
  NoOrphanStart
  QueuedTasksRun
CHECK_DEADLOCK FALSE
