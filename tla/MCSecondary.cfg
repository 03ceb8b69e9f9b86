CONSTANTS
  MaxSockets = 2
  MaxEvents = 3
SPECIFICATION Spec
CHECK_DEADLOCK FALSE
INVARIANT TypeOK
PROPERTIES
  OnlyStopLeavesFlag
  OnlyFlagStrands
  Connects
  StatesAreHeard
