CONSTANTS
  Jobs <- MCJobs
  Shuffles <- MCShuffles
  SyncOuter = 2
  SyncInner = 8
  SyncMaxNeigh = 12
SPECIFICATION Spec
INVARIANTS
  TypeOK
  NeighboursMatch
  AsManyNeighbours
  SyncSeparatesIterations
  TimerCoversTheTrial
  NoOverheadOfItsOwn
PROPERTY Termination
