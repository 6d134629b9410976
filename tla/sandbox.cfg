CONSTANTS
  p1 = p1
  p2 = p2
  thA = thA
  thB = thB
  r1 = r1
  r2 = r2
  Procs <- TwoProcs
  Threads <- TwoThreads
  Runs <- TwoRuns
  Placements <- EvictAndProcs
  Borrowers <- NoBorrower
  Replicas = 1
  MaxStarts = 2
  c1 = c1
  c2 = c2
  c3 = c3
  Creators <- ThreeCreators
  Home <- Homes3
  Boxes <- TwoBoxes
  LastPort = 3
  MaxTries = 2
  MaxRuns = 4
  Clients <- TwoProcs
  MaxRequests = 4
  MaxFaults = 3
  Startups <- ThreeStartups
  SteadyLooks = 1
  MaxStops = 1
  MaxRestarts = 1
SPECIFICATION AllSpec
INVARIANTS
  ContainersAreSound
  PortsAreSound
  PodsAreKnown
  StartupsAreSound
SYMMETRY Alike
