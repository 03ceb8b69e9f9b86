\* One task that is started, stopped and resumed.
CONSTANTS
  Tasks = {t1}
  Projects = {p}
  ProjectOf <- OneProject
  MaxLoop = 2
  StartOutcomes = {"running"}
  UserOps = {"create", "start", "stop"}
  MaxQueueTimers = 1
SPECIFICATION ResumeSpec
CHECK_DEADLOCK FALSE
INVARIANT ResumeIsHeard
