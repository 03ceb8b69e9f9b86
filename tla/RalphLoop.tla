----------------------------- MODULE RalphLoop -----------------------------
(***************************************************************************)
(* The Ralph loop: tasks on a board (rows of the ralph_tasks table), and   *)
(* the automation that keeps starting a Claude instance on a task until    *)
(* the task is done (RalphTaskLoop over RalphTaskManager and DataStore).   *)
(*                                                                         *)
(* Node runs each handler, timer callback and event listener to completion,*)
(* so each of them is one action.  What interleaves are the requests of    *)
(* the board, of the web API and of the CLI (curl), the exits of instances,*)
(* and two kinds of 2 s timers: one restarts a task's loop after its       *)
(* instance exited, the other moves a project's queue to its next task.    *)
(*                                                                         *)
(* Instance ids are natural numbers in creation order: UUIDs in the code,  *)
(* compared only for equality, and the order in which a JavaScript Map     *)
(* enumerates its keys.  0 stands for NULL.                                *)
(***************************************************************************)
EXTENDS Integers, FiniteSets

CONSTANTS
  Tasks,           \* ids of the tasks that are ever created
  Projects,        \* ids of the projects
  ProjectOf,       \* the project of each task
  MaxLoop,         \* MAX_LOOP_ITERATIONS
  StartOutcomes,   \* how an attempt to start an instance may end
  UserOps,         \* the kinds of requests users and agents make
  MaxQueueTimers   \* bound on the pending queue timers of a project

Status == {"todo", "doing", "done"}

(***************************************************************************)
(* "running":    the instance starts and exits some time later             *)
(* "stillborn":  spawning its process fails, which ClaudeInstance.start    *)
(*               catches: the instance exists but never emits 'exit'       *)
(* "threw":      createInstance throws                                     *)
(* "unwritable": writing the context file throws, outside runLoop's try    *)
(***************************************************************************)
Outcomes == {"running", "stillborn", "threw", "unwritable"}

Ops == {"create", "edit", "delete", "start", "stop", "complete", "help",
        "respond", "processAll", "stopAll", "restart", "completeAny"}

ASSUME ProjectOfAssumption == ProjectOf \in [Tasks -> Projects]
ASSUME MaxLoopAssumption == MaxLoop \in Nat \ {0}
ASSUME OutcomesAssumption == StartOutcomes \subseteq Outcomes
ASSUME UserOpsAssumption == UserOps \subseteq Ops
ASSUME MaxQueueTimersAssumption == MaxQueueTimers \in Nat

VARIABLES
  task,               \* the ralph_tasks table, absent rows included
  runningTasks,       \* RalphTaskLoop.runningTasks, a Map by instance id
  processingAllQueue, \* RalphTaskLoop.processingAllQueue, by project
  restartTimers,      \* pending restart timers of handleInstanceExit, by task
  queueTimers,        \* pending timers of checkProcessNextInQueue, by project
  live,               \* the instances, with their ralphTaskId, whose CLI
                      \* has not ended
  nextInstance,       \* the id the next instance gets
  boot                \* nextInstance when the application was last started

instanceVars == <<runningTasks, live, nextInstance>>
timerVars == <<restartTimers, queueTimers>>
vars == <<task, processingAllQueue, boot, instanceVars, timerVars>>

Row == [status: Status \cup {"none", "deleted"}, isPaused: BOOLEAN,
        instanceId: Nat, loopCount: Nat]

Running == [instanceId: Nat, taskId: Tasks]

NewRow == [status |-> "none", isPaused |-> FALSE, instanceId |-> 0, loopCount |-> 0]

Init ==
  /\ task = [t \in Tasks |-> NewRow]
  /\ runningTasks = {}
  /\ processingAllQueue = [p \in Projects |-> FALSE]
  /\ restartTimers = [t \in Tasks |-> 0]
  /\ queueTimers = [p \in Projects |-> 0]
  /\ live = {}
  /\ nextInstance = 1
  /\ boot = 1

----------------------------------------------------------------------------
(* RalphTaskManager: each write is an updateTask on one row of the table.  *)

Exists(t) == task[t].status \in Status

MoveTask(tbl, t, s) == [tbl EXCEPT ![t].status = s]

PauseTask(tbl, t) == [tbl EXCEPT ![t].isPaused = TRUE]

ResumeTask(tbl, t) == [tbl EXCEPT ![t].isPaused = FALSE]

SetTaskInstance(tbl, t, i) == [tbl EXCEPT ![t].instanceId = i]

(* Defect: the counter is taken for the iterations that are left.          *)
CountDown(tbl, t) == [tbl EXCEPT ![t].loopCount = @ - 1]

IncrementLoopCount(tbl, t) == [tbl EXCEPT ![t].loopCount = @ + 1]

(* Defect: a completed task keeps the id of its instance.                  *)
MarkDoneAssigned(tbl, t) == [tbl EXCEPT ![t].status = "done", ![t].isPaused = FALSE]

(* Defect: completing a task grants it a new budget of iterations.         *)
MarkDoneAfresh(tbl, t) ==
  [tbl EXCEPT ![t].status = "done", ![t].isPaused = FALSE, ![t].instanceId = 0,
              ![t].loopCount = 0]

MarkDone(tbl, t) ==
  [tbl EXCEPT ![t].status = "done", ![t].isPaused = FALSE, ![t].instanceId = 0]

(***************************************************************************)
(* The tasks getNextPendingTask may return.  It takes the todo task with   *)
(* the smallest orderIndex, and users reorder a column at any time.        *)
(***************************************************************************)
PendingTasks(p) == {t \in Tasks : ProjectOf[t] = p /\ task[t].status = "todo"}

ActiveTasks(p) == {t \in Tasks : ProjectOf[t] = p /\ task[t].status = "doing"}

----------------------------------------------------------------------------
(* RalphTaskLoop.runningTasks.                                             *)

Entries(t) == {r \in runningTasks : r.taskId = t}

(* The entry Array.from(runningTasks.values()).find(...) returns.          *)
FirstEntry(t) ==
  CHOOSE r \in Entries(t) : \A s \in Entries(t) : r.instanceId =< s.instanceId

FirstEntries(ts) == {FirstEntry(t) : t \in {u \in ts : Entries(u) # {}}}

----------------------------------------------------------------------------
(* Defect: the loop looks at the column of a task only.                    *)
MayIteratePaused(tbl, t) == tbl[t].status \in {"todo", "doing"}

(* Defect: one iteration too many.                                         *)
AtMostLimit(tbl, t) == tbl[t].loopCount =< MaxLoop

(***************************************************************************)
(* runLoop on the row of t in tbl, with o the outcome of an instance start.*)
(* (A task whose project is not found has no row: it goes with the row of  *)
(* its project, by the foreign key of the table.)                          *)
(***************************************************************************)
MayIterate(tbl, t) == tbl[t].status \in {"todo", "doing"} /\ ~tbl[t].isPaused

BelowLimit(tbl, t) == tbl[t].loopCount < MaxLoop

Spawn(tbl, t, o) ==
  /\ o \in {"running", "stillborn"}
  /\ task' = IncrementLoopCount(SetTaskInstance(tbl, t, nextInstance), t)
  /\ LET r == [instanceId |-> nextInstance, taskId |-> t]
     IN  /\ runningTasks' = runningTasks \cup {r}
         /\ live' = IF o = "running" THEN live \cup {r} ELSE live
  /\ nextInstance' = nextInstance + 1

FailToSpawn(tbl, t, o) ==
  /\ o \in {"threw", "unwritable"}
  /\ task' = IF o = "threw" THEN PauseTask(tbl, t) ELSE tbl
  /\ UNCHANGED instanceVars

RunLoop(tbl, t, o) ==
  \/ /\ ~MayIterate(tbl, t)
     /\ task' = tbl
     /\ UNCHANGED instanceVars
  \/ /\ MayIterate(tbl, t)
     /\ ~BelowLimit(tbl, t)
     /\ task' = PauseTask(tbl, t)
     /\ UNCHANGED instanceVars
  \/ /\ MayIterate(tbl, t)
     /\ BelowLimit(tbl, t)
     /\ Spawn(tbl, t, o) \/ FailToSpawn(tbl, t, o)

RunStartTask(t, o) == RunLoop(MoveTask(task, t, "doing"), t, o)

----------------------------------------------------------------------------
(* Requests of the board, the web API and the agents.                      *)

(* A row is created by the board, the API or a Jira import.                *)
CreateTask(t, s) ==
  /\ "create" \in UserOps
  /\ task[t].status = "none"
  /\ task' = [task EXCEPT ![t].status = s]
  /\ UNCHANGED <<processingAllQueue, boot, instanceVars, timerVars>>

(* updateTask, moveTask and reorderTasks: none of them talks to the loop.  *)
EditTask(t, s, paused) ==
  /\ "edit" \in UserOps
  /\ Exists(t)
  /\ task' = [task EXCEPT ![t].status = s, ![t].isPaused = paused]
  /\ UNCHANGED <<processingAllQueue, boot, instanceVars, timerVars>>

(* deleteTask removes the row, not what runs for it.                       *)
DeleteTask(t) ==
  /\ "delete" \in UserOps
  /\ Exists(t)
  /\ task' = [task EXCEPT ![t].status = "deleted", ![t].isPaused = FALSE,
                          ![t].instanceId = 0]
  /\ UNCHANGED <<processingAllQueue, boot, instanceVars, timerVars>>

StartTask(t, o) ==
  /\ "start" \in UserOps
  /\ Exists(t)
  /\ RunStartTask(t, o)
  /\ UNCHANGED <<processingAllQueue, boot, timerVars>>

(***************************************************************************)
(* stopTask on the tasks ts.  The killed instance only exits later: the    *)
(* graceful kill is asynchronous, and its exit is then not in the Map.     *)
(***************************************************************************)
StopTasks(ts) ==
  /\ runningTasks' = runningTasks \ FirstEntries(ts)
  /\ task' = [t \in Tasks |->
                IF t \in ts /\ Exists(t)
                THEN [task[t] EXCEPT !.isPaused = TRUE, !.instanceId = 0]
                ELSE task[t]]

StopTask(t) ==
  /\ "stop" \in UserOps
  /\ task[t].status # "none"
  /\ StopTasks({t})
  /\ UNCHANGED <<processingAllQueue, boot, live, nextInstance, timerVars>>

(***************************************************************************)
(* The complete endpoint, called with curl, has no authentication and no   *)
(* check that the task is being worked on: the agent may repeat the call,  *)
(* and a prompt copied from the board may be run by any instance           *)
(* ("completeAny").  completeTask does not kill the instance.              *)
(***************************************************************************)
CompleteTask(t) ==
  LET p == ProjectOf[t] IN
  /\ \/ "completeAny" \in UserOps
     \/ "complete" \in UserOps /\ \E r \in live : r.taskId = t
  /\ task[t].status # "none"
  /\ runningTasks' = runningTasks \ FirstEntries({t})
  /\ \/ /\ ~Exists(t)
        /\ UNCHANGED <<task, queueTimers>>
     \/ /\ Exists(t)
        /\ task' = MarkDone(task, t)
        /\ ~processingAllQueue[p]
        /\ UNCHANGED queueTimers
     \/ /\ Exists(t)
        /\ task' = MarkDone(task, t)
        /\ processingAllQueue[p]
        /\ queueTimers[p] < MaxQueueTimers
        /\ queueTimers' = [queueTimers EXCEPT ![p] = @ + 1]
  /\ UNCHANGED <<processingAllQueue, boot, live, nextInstance, restartTimers>>

RequestHelp(t) ==
  /\ "help" \in UserOps
  /\ Exists(t)
  /\ task' = PauseTask(task, t)
  /\ UNCHANGED <<processingAllQueue, boot, instanceVars, timerVars>>

(* The answer is appended to the context file, which may fail before       *)
(* anything is changed; then the row is resumed and the loop runs.         *)
RespondToHelp(t, o) ==
  /\ "respond" \in UserOps
  /\ Exists(t)
  /\ task[t].isPaused
  /\ \/ o = "unwritable" /\ UNCHANGED <<task, instanceVars>>
     \/ RunLoop(ResumeTask(task, t), t, o)
  /\ UNCHANGED <<processingAllQueue, boot, timerVars>>

----------------------------------------------------------------------------
(* The queue of a project.                                                 *)

(* An exception from the start of the first task clears the flag again.    *)
Crashes(t, o) == o = "unwritable" /\ MayIterate(task, t) /\ BelowLimit(task, t)

ProcessAll(p, o) ==
  /\ "processAll" \in UserOps
  /\ ~processingAllQueue[p]
  /\ \E t \in PendingTasks(p) :
       /\ RunStartTask(t, o)
       /\ processingAllQueue' = [processingAllQueue EXCEPT ![p] = ~Crashes(t, o)]
  /\ UNCHANGED <<boot, timerVars>>

StopProcessAll(p) ==
  /\ "stopAll" \in UserOps
  /\ processingAllQueue' = [processingAllQueue EXCEPT ![p] = FALSE]
  /\ StopTasks(ActiveTasks(p))
  /\ UNCHANGED <<boot, live, nextInstance, timerVars>>

(* processNextTask, called by the timer of checkProcessNextInQueue.        *)
QueueTimer(p, o) ==
  /\ queueTimers[p] > 0
  /\ queueTimers' = [queueTimers EXCEPT ![p] = @ - 1]
  /\ \/ /\ processingAllQueue[p]
        /\ \E t \in PendingTasks(p) : RunStartTask(t, o)
        /\ UNCHANGED processingAllQueue
     \/ /\ ~processingAllQueue[p] \/ PendingTasks(p) = {}
        /\ processingAllQueue' = [processingAllQueue EXCEPT ![p] = FALSE]
        /\ UNCHANGED <<task, instanceVars>>
  /\ UNCHANGED <<boot, restartTimers>>

----------------------------------------------------------------------------
(* The life of an instance, and of the application.                        *)

(* Defect: the entry is dropped before it is looked up, so no exit is the  *)
(* loop's own.                                                             *)
InstanceExitForgotten(r) ==
  /\ r \in live
  /\ live' = live \ {r}
  /\ runningTasks' = runningTasks \ {r}
  /\ task' = IF Exists(r.taskId) THEN SetTaskInstance(task, r.taskId, 0) ELSE task
  /\ UNCHANGED <<processingAllQueue, boot, nextInstance, timerVars>>

(***************************************************************************)
(* ProcessManager emits instanceExited and handleInstanceExit decides      *)
(* whether the loop goes on.  A deleted task's row is not in the table.    *)
(***************************************************************************)
InstanceExit(r) ==
  /\ r \in live
  /\ live' = live \ {r}
  /\ \/ /\ r \notin runningTasks
        /\ UNCHANGED <<task, runningTasks, restartTimers>>
     \/ /\ r \in runningTasks
        /\ runningTasks' = runningTasks \ {r}
        /\ task' = IF Exists(r.taskId) THEN SetTaskInstance(task, r.taskId, 0) ELSE task
        /\ restartTimers' = IF MayIterate(task, r.taskId)
                            THEN [restartTimers EXCEPT ![r.taskId] = @ + 1]
                            ELSE restartTimers
  /\ UNCHANGED <<processingAllQueue, boot, nextInstance, queueTimers>>

(***************************************************************************)
(* The CLI of an instance ends and no exit is announced: in a pooled       *)
(* terminal, after a result that is an error (ClaudeInstance shows how).   *)
(***************************************************************************)
EndUnnoticed(r) ==
  /\ r \in live
  /\ live' = live \ {r}
  /\ UNCHANGED <<task, processingAllQueue, boot, runningTasks, nextInstance, timerVars>>

(* Defect: an interval instead of a timeout.                               *)
RestartInterval(t, o) ==
  /\ restartTimers[t] > 0
  /\ IF task[t].status = "doing" /\ ~task[t].isPaused
     THEN RunLoop(task, t, o)
     ELSE UNCHANGED <<task, instanceVars>>
  /\ UNCHANGED <<processingAllQueue, boot, timerVars>>

(* Defect: while something of the task is in the Map, the timer is set     *)
(* again.                                                                  *)
RestartPatiently(t, o) ==
  /\ restartTimers[t] > 0
  /\ restartTimers' = IF Entries(t) = {} THEN [restartTimers EXCEPT ![t] = @ - 1]
                                         ELSE restartTimers
  /\ IF Entries(t) = {} /\ task[t].status = "doing" /\ ~task[t].isPaused
     THEN RunLoop(task, t, o)
     ELSE UNCHANGED <<task, instanceVars>>
  /\ UNCHANGED <<processingAllQueue, boot, queueTimers>>

(* The callback reads the row again: much may have happened in 2 s.        *)
RestartTimer(t, o) ==
  /\ restartTimers[t] > 0
  /\ restartTimers' = [restartTimers EXCEPT ![t] = @ - 1]
  /\ IF task[t].status = "doing" /\ ~task[t].isPaused
     THEN RunLoop(task, t, o)
     ELSE UNCHANGED <<task, instanceVars>>
  /\ UNCHANGED <<processingAllQueue, boot, queueTimers>>

(***************************************************************************)
(* The application quits or crashes and is started again: the table        *)
(* persists, the rest is rebuilt empty, and the ptys of its instances are  *)
(* gone.                                                                   *)
(***************************************************************************)
Restart ==
  /\ "restart" \in UserOps
  /\ runningTasks' = {}
  /\ processingAllQueue' = [p \in Projects |-> FALSE]
  /\ restartTimers' = [t \in Tasks |-> 0]
  /\ queueTimers' = [p \in Projects |-> 0]
  /\ live' = {}
  /\ boot' = nextInstance
  /\ UNCHANGED <<task, nextInstance>>

----------------------------------------------------------------------------
Next ==
  \/ \E t \in Tasks :
       \/ \E s \in Status : CreateTask(t, s)
       \/ \E s \in Status, paused \in BOOLEAN : EditTask(t, s, paused)
       \/ DeleteTask(t)
       \/ \E o \in StartOutcomes : StartTask(t, o)
       \/ StopTask(t)
       \/ CompleteTask(t)
       \/ RequestHelp(t)
       \/ \E o \in StartOutcomes : RespondToHelp(t, o)
       \/ \E o \in StartOutcomes : RestartTimer(t, o)
  \/ \E p \in Projects :
       \/ \E o \in StartOutcomes : ProcessAll(p, o)
       \/ StopProcessAll(p)
       \/ \E o \in StartOutcomes : QueueTimer(p, o)
  \/ \E r \in live : InstanceExit(r) \/ EndUnnoticed(r)
  \/ Restart

Spec == Init /\ [][Next]_vars

----------------------------------------------------------------------------
TypeOK ==
  /\ task \in [Tasks -> Row]
  /\ runningTasks \subseteq Running
  /\ processingAllQueue \in [Projects -> BOOLEAN]
  /\ restartTimers \in [Tasks -> Nat]
  /\ queueTimers \in [Projects -> Nat]
  /\ live \subseteq Running
  /\ nextInstance \in Nat \ {0}
  /\ boot \in 1 .. nextInstance

(***************************************************************************)
(* The database and the loop's memory agree: the instance a row names, if  *)
(* this run of the application started it, is in runningTasks for the same *)
(* task.  Every handler that drops an entry clears the row, in any order   *)
(* of exits, stops and completions.                                        *)
(***************************************************************************)
CurrentInstanceTracked ==
  \A t \in Tasks :
    Exists(t) /\ task[t].instanceId >= boot
      => [instanceId |-> task[t].instanceId, taskId |-> t] \in runningTasks

(***************************************************************************)
(* The iteration limit is a budget: what is tracked as running for a task  *)
(* and what is scheduled to run for it never exceed the iterations         *)
(* counted, which never exceed the limit.  No exit is answered by two      *)
(* restarts, whatever starts, answers and timers overlap.                  *)
(***************************************************************************)
IterationBudget ==
  \A t \in Tasks :
    /\ restartTimers[t] + Cardinality(Entries(t)) =< task[t].loopCount
    /\ task[t].loopCount =< MaxLoop

(* The iterations counted on the rows of the table, deleted ones included. *)
Counted == UNION {{t} \X (1 .. task[t].loopCount) : t \in Tasks}

(***************************************************************************)
(* Every instance the loop ever started is counted on exactly one task, in *)
(* loopCount, across pauses, completions, deletions and application        *)
(* restarts: the limit bounds the CLI processes a board can start.         *)
(***************************************************************************)
EverySpawnCounted == Cardinality(Counted) = nextInstance - 1

(***************************************************************************)
(* Left alone, a task that is done or paused stays at rest: a timer that   *)
(* was set before, or the queue, starts no iteration of it; only a request *)
(* for this task does.  (An answer to its help request does.  startTask,   *)
(* which the board offers as Resume, may: see ResumeIsHeard in             *)
(* MCRalphResume.)                                                         *)
(***************************************************************************)
PauseHolds ==
  [][\A r \in runningTasks' \ runningTasks :
       /\ MayIterate(task', r.taskId)
       /\ task[r.taskId].isPaused
            => \E o \in Outcomes : RespondToHelp(r.taskId, o) \/ StartTask(r.taskId, o)]_vars

(***************************************************************************)
(* Timers fire.  That the CLI of an instance ends is an assumption about   *)
(* Claude, without which the loop makes no progress; that the end is       *)
(* announced is not assumed.                                               *)
(***************************************************************************)
Fairness ==
  /\ WF_vars(\E r \in live : InstanceExit(r) \/ EndUnnoticed(r))
  /\ \A t \in Tasks : WF_vars(\E o \in StartOutcomes : RestartTimer(t, o))
  /\ \A p \in Projects : WF_vars(\E o \in StartOutcomes : QueueTimer(p, o))

FairSpec == Spec /\ Fairness

(* Something will make the loop of t take its next step.                   *)
HasLoop(t) == restartTimers[t] > 0 \/ Entries(t) \cap live # {}

Working(t) == task[t].status = "doing" /\ ~task[t].isPaused /\ HasLoop(t)

Parked(t) == task[t].status # "doing" \/ task[t].isPaused

(***************************************************************************)
(* What loses the loop of a task, and nothing else does: the application   *)
(* is restarted; the CLI ends and no exit is announced; or the restart     *)
(* finds that the instance cannot be spawned or the context file not be    *)
(* written, neither of which the timer's callback deals with.  Whatever    *)
(* else happens to a task at work, an instance of it is alive or its       *)
(* restart is pending, or it has left the column "doing" or is paused.     *)
(***************************************************************************)
LoopsGoOn ==
  [][\A t \in Tasks :
       Working(t) => \/ Working(t)' \/ Parked(t)'
                     \/ Restart
                     \/ \E r \in live : EndUnnoticed(r)
                     \/ \E o \in {"stillborn", "unwritable"} : RestartTimer(t, o)]_vars

(***************************************************************************)
(* No loop works forever: a task at work is parked, at the latest at the   *)
(* iteration limit, or its loop is lost, in which case LoopsGoOn says by   *)
(* what.  Nothing can keep the timers of a task going round without an     *)
(* iteration that counts.                                                  *)
(***************************************************************************)
LoopParks == \A t \in Tasks : Working(t) ~> Parked(t) \/ ~HasLoop(t)

(***************************************************************************)
(* Whatever users and agents keep asking for, the automation comes to rest:*)
(* in the end the CLI of no Ralph instance is at work and no restart is    *)
(* pending.  (That each CLI ends is assumed.)                              *)
(***************************************************************************)
EventuallyQuiet == <>[](live = {} /\ \A t \in Tasks : restartTimers[t] = 0)

----------------------------------------------------------------------------
(* What a comment says, and the code does not do.                          *)

(***************************************************************************)
(* "Process all pending tasks in sequence" (processAll): where the queue   *)
(* is the only one to start tasks, one task of a project is at work.       *)
(***************************************************************************)
OneTaskAtATime ==
  \A t, u \in Tasks :
    Working(t) /\ Working(u) /\ ProjectOf[t] = ProjectOf[u] => t = u
=============================================================================
