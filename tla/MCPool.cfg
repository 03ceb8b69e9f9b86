\* Five terminals; a pool of two idle and at most three shells that is switched on and off and
\* shut down; two spawn failures in a row disable it.
CONSTANTS
  Terminals = {a, b, c, d, e}
  Configs <- SwitchConfigs
  MaxFailures = 2
SYMMETRY TerminalSymmetry
SPECIFICATION Spec
INVARIANTS
  TypeOK
  NoStrayShell
  TimeoutsHitIdleOnly
  ShutDownForGood
  RefillPending
