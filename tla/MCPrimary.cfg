CONSTANTS
  n1 = n1
  n2 = n2
  k1 = k1
  k2 = k2
  Nodes = {n1, n2}
  Primary = primary
  Requests = {k1, k2}
  Origin <- MCOrigin
  Target <- MCTarget
  Listened = {k2}
  MaxConns <- MCMaxConns
  MaxSockets <- MCMaxSockets
  MaxUp = 1
  MaxStarts = 2
SPECIFICATION Spec
CHECK_DEADLOCK FALSE
INVARIANTS
  TypeOK
  OnlineIsRegistered
  RegisteredIsKnown
  NothingComesEarly
  RegisteredAreTold
PROPERTIES
  KeepsRequests
