CONSTANTS
  NumSizes = 2
  LastSmall = 1
  Options <- GivenOptions
  WindowSize = 2
  WindowLarge = 3
  DefaultWindow = 2
  IterationsLarge = 3
  FixedSkip = 2
  FixedSkipLarge = 0
  NumProbes = 1
  WindowSizeLarge = 2
  Benchmarks <- MCVector
SPECIFICATION WinSpec
INVARIANT OptionsAsGiven
