CONSTANTS
  Instances = {i1, i2}
  None = None
  MaxRequests = 3
  MaxClicks = 2
SPECIFICATION Spec
CHECK_DEADLOCK FALSE
INVARIANTS
  PromptsFollow
  AnswersStayHome
PROPERTIES
  KeepsContract
