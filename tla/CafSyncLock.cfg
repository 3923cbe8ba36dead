CONSTANTS
  Jobs <- MCLockJobs
  Shuffles <- MCShuffles
  SyncOuter = 2
  SyncInner = 9
  SyncMaxNeigh = 12
SPECIFICATION Spec
INVARIANTS
  NoOverheadOfItsOwn
