CONSTANTS
  NumThreads = 3
  NumSizes = 3
  LastSmall = 1
  SmallRuns <- MCSmallRuns
  LargeRuns <- MCLargeRuns
SPECIFICATION Spec
INVARIANTS
  IInv
  EqualSize
  TripCountAgreed
  SharesCoverTheRun
PROPERTIES
  ImplementsBarrier
  Termination
