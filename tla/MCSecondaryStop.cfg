CONSTANTS
  MaxSockets = 2
  MaxEvents = 2
SPECIFICATION Spec
CHECK_DEADLOCK FALSE
PROPERTY StopIsFinal
