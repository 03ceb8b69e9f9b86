\* Any mode, in a pooled terminal or not; two graceful kills may overlap.
CONSTANTS
  Setups <- AnySetup
  Kills = {k1, k2}
SPECIFICATION FairSpec
CHECK_DEADLOCK FALSE
INVARIANTS
  TypeOK
  EndIsHeard
  ExitedOrHeard
PROPERTIES
  KilledStays
  KeepsContract
  KillIsHeard
