--------------------------- MODULE MCRalphResume ---------------------------
(* RalphLoop with a record of the button that was pressed last.  On a task *)
(* in "doing" that is paused the board labels it Resume.                   *)
EXTENDS RalphLoop, TLC

VARIABLE resumed   \* the task of a Resume in the last step, if any

OneProject == [t \in Tasks |-> CHOOSE p \in Projects : TRUE]

Resume(t) ==
  /\ task[t].status = "doing" /\ task[t].isPaused
  /\ \E o \in StartOutcomes : StartTask(t, o)
  /\ resumed' = {t}

ResumeSpec ==
  /\ Init /\ resumed = {}
  /\ [][(\E t \in Tasks : Resume(t)) \/ (Next /\ resumed' = {})]_<<vars, resumed>>

(* "Resume" on the button of a paused task: after it the task goes on, as  *)
(* long as it has iterations left and its instance can be started.         *)
ResumeIsHeard ==
  \A t \in resumed : ~task[t].isPaused \/ task[t].loopCount >= MaxLoop
=============================================================================
