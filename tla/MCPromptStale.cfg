CONSTANTS
  Instances = {i1}
  None = None
  MaxRequests = 2
  MaxClicks = 1
SPECIFICATION Spec
CHECK_DEADLOCK FALSE
INVARIANT
  ShownIsInStore
