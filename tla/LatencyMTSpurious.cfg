CONSTANTS
  NumThreads = 2
  NumSizes = 2
  LastSmall = 1
  SmallRuns <- MCSmallRuns
  LargeRuns <- MCLargeRuns
SPECIFICATION SpuriousSpec
INVARIANT EqualSize
