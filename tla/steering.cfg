CONSTANTS
  Items = {i1, i2}
  Runs = {r1, r2}
  MaxFailures = 3
  MaxKills = 1
SPECIFICATION FairSpec
INVARIANTS
  AtMostOnce
  SteeredIsStored
PROPERTIES
  KeepsPromise
  StoredIsInjected
CHECK_DEADLOCK FALSE
