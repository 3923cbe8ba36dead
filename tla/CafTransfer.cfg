CONSTANTS
  Builds <- MCBuilds
  MaxNrep = 2
SPECIFICATION Spec
INVARIANTS
  TransferTypeOK
  NoFalseAlarm
  FaultNoticed
  SameRepetitions
  LeaveTogether
  TimerCoversTransfers
  NoRace
  PairsAgree
PROPERTY Termination
