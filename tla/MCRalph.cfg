\* One task and every request on it, every way an instance start can fail, ends
\* that are not noticed and restarts, with a loop of up to 3 iterations.
CONSTANTS
  Tasks = {t1}
  Projects = {p}
  ProjectOf <- OneProject
  MaxLoop = 3
  StartOutcomes = {"running", "stillborn", "threw", "unwritable"}
  UserOps = {"create", "edit", "delete", "start", "stop", "completeAny", "help", "respond", "processAll", "stopAll", "restart"}
  MaxQueueTimers = 2
SPECIFICATION FairSpec
CHECK_DEADLOCK FALSE
INVARIANTS
  TypeOK
  CurrentInstanceTracked
  IterationBudget
  EverySpawnCounted
PROPERTIES
  PauseHolds
  LoopsGoOn
  LoopParks
  EventuallyQuiet
