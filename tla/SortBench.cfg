CONSTANTS
  Builds <- MCBuilds
  Keys = {1, 2}
  Iterations = 3
  MaxFaults = 1
SPECIFICATION Spec
CHECK_DEADLOCK FALSE
INVARIANTS
  AlarmsAreReal
  DisorderNoticed
  TimerCoversTheSort
PROPERTY SortEnds
