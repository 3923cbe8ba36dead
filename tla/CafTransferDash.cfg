CONSTANTS
  Builds <- MCDashBuilds
  MaxNrep = 2
SPECIFICATION Spec
INVARIANT LeaveTogether
