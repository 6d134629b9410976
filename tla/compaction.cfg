CONSTANTS
  a = a
  b = b
  MaxLen = 6
  Ids <- TwoIds
  KeepRecent = 3
  MinMessages = 4
  Histories <- AnyHistory
  MaxMade = 7
  Trigger = 4
  Keep = 3
  Grace = 2
  SkillCount = 2
  SkillTokens = 2
  SkillSizes <- MCSkillSizes
  OperationalCount = 1
  MaxCalls = 2
  Budgets <- MCBudgets
  HfThreads <- MCHfThreads
  HfRequests <- MCHfRequests
  HfNames <- MCHfNames
  MaxEdits = 2
  HfLoads <- MCHfLoads
SPECIFICATION BothSpec
INVARIANTS
  CutoffIsBest
  HistoryIsWhole
PROPERTIES
  GraceIsBounded
  HandoffsEnd
CHECK_DEADLOCK FALSE
