\* Three tasks started by the queue only; agents report completion.
CONSTANTS
  Tasks = {t1, t2, t3}
  Projects = {p}
  ProjectOf <- OneProject
  MaxLoop = 1
  StartOutcomes = {"running"}
  UserOps = {"create", "complete", "processAll"}
  MaxQueueTimers = 2
SYMMETRY TaskSymmetry
SPECIFICATION Spec
CHECK_DEADLOCK FALSE
INVARIANT OneTaskAtATime
