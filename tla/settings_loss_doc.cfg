SPECIFICATION AllSpec
CONSTANTS
  t1 = t1
  t2 = t2
  f1 = f1
  f2 = f2
  r1 = r1
  r2 = r2
  i1 = i1
  s1 = s1
  s2 = s2
  s3 = s3
  Facts <- MCFacts
  Rules <- MCRules
  Threads <- MCThreads
  Immediates <- MCImmediates
  Updaters <- MCUpdaters
  MaxFacts = 1
  Workloads <- MCNoMemory
  Saves <- MCSaves
  SettingsLoads <- MCOneSave
  Params <- MCParams
PROPERTIES OnlyTheToolsSection
CHECK_DEADLOCK FALSE
