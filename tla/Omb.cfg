CONSTANTS
  NumSizes = 2
  LastSmall = 1
  Options <- MCOptions
  WindowSize = 2
  WindowLarge = 3
  DefaultWindow = 2
  IterationsLarge = 3
  FixedSkip = 1
  FixedSkipLarge = 0
  NumProbes = 1
  WindowSizeLarge = 2
  Benchmarks <- MCBenchmarks
SPECIFICATION WinSpec
INVARIANTS
  WinTypeOK
  SameTrial
  CollectivesMatch
  AverageOverTheTimedCalls
  TransferOverWhenTimerStops
  PairsTimedTogether
  IterationsSeparated
  MemoryAtRest
  AccessesHitTheWindow
  UpdatesSeparated
  OneWayAtATime
  TimedOperations
  SyncArraysFree
PROPERTY Termination
