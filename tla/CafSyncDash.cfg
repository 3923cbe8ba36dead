CONSTANTS
  Jobs <- MCDashJobs
  Shuffles <- MCShuffles
  SyncOuter = 2
  SyncInner = 8
  SyncMaxNeigh = 12
SPECIFICATION Spec
INVARIANTS
  NeighboursMatch
