----------------------------- MODULE AutoReview -----------------------------
(***************************************************************************)
(* AutoReviewService: when an instance reports a completed task over the   *)
(* post-tool hook, a review of its project is requested.  Requests are     *)
(* debounced for 500 ms, dropped while the project cools down or is under  *)
(* review, and otherwise start a reviewing instance, which is polled every *)
(* second until it ends and killed after five minutes.                     *)
(*                                                                         *)
(* Every callback runs to completion.  What interleaves are hooks, changes *)
(* of the project, the timers, and the lives of the reviewing instances,   *)
(* of which the service only reads the status.                             *)
(***************************************************************************)
EXTENDS Naturals, InstanceView

CONSTANTS
  Projects,   \* ids of the projects
  Reviews     \* ids of reviewing instances (a bound on their number)

VARIABLES
  project,         \* the row of a project, with its autoReview setting
  pendingReviews,  \* projects with a request
  debounceTimers,  \* projects with a pending debounce timer
  cooling,         \* projects a review was started for less than 30 s ago
  activeReviews,   \* the Map of reviews by instance id, as a set of entries
  polling,         \* instances with a polling interval
  safetyTimers,    \* instances with a pending safety timeout
  status,          \* what ProcessManager says of a reviewing instance
  reported,        \* how often review:completed was emitted for an instance
  closed           \* was the last window closed?  The web server is then down

requestVars == <<pendingReviews, debounceTimers>>
watchVars == <<activeReviews, polling, safetyTimers, reported>>
vars == <<project, requestVars, cooling, watchVars, status, closed>>

ProjectState == {"reviewed", "optedOut", "deleted"}

Review == [instanceId: Reviews, projectId: Projects]

Init ==
  /\ project \in [Projects -> {"reviewed", "optedOut"}]
  /\ pendingReviews = {}
  /\ debounceTimers = {}
  /\ cooling = {}
  /\ activeReviews = {}
  /\ polling = {}
  /\ safetyTimers = {}
  /\ status = [r \in Reviews |-> "absent"]
  /\ reported = [r \in Reviews |-> 0]
  /\ closed = FALSE

----------------------------------------------------------------------------
ActiveIds == {a.instanceId : a \in activeReviews}

UnderReview(p) == \E a \in activeReviews : a.projectId = p

(* The post-tool hook of an instance of p, a reviewing one included.       *)
QueueReview(p) ==
  /\ ~closed
  /\ project[p] = "reviewed"
  /\ pendingReviews' = pendingReviews \cup {p}
  /\ debounceTimers' = debounceTimers \cup {p}
  /\ UNCHANGED <<project, cooling, watchVars, status, closed>>

(* createInstance succeeds, though the CLI may fail to start, or throws.   *)
StartReview(p) ==
  \/ \E r \in Reviews, s \in After("absent") :
       /\ status[r] = "absent"
       /\ status' = [status EXCEPT ![r] = s]
       /\ activeReviews' = activeReviews \cup {[instanceId |-> r, projectId |-> p]}
       /\ polling' = polling \cup {r}
       /\ safetyTimers' = safetyTimers \cup {r}
       /\ UNCHANGED reported
  \/ UNCHANGED <<watchVars, status>>

(* Defect: a request made while the project cools down is kept.            *)
KeepRequest(p) ==
  /\ pendingReviews' = IF p \in cooling THEN pendingReviews ELSE pendingReviews \ {p}
  /\ \/ /\ p \in cooling \/ UnderReview(p)
        /\ UNCHANGED <<cooling, watchVars, status>>
     \/ /\ p \notin cooling
        /\ ~UnderReview(p)
        /\ cooling' = cooling \cup {p}
        /\ IF project[p] = "deleted" THEN UNCHANGED <<watchVars, status>> ELSE StartReview(p)

(* Defect: only the cooldown keeps two reviews of a project apart.         *)
ReviewAnyway(p) ==
  /\ pendingReviews' = pendingReviews \ {p}
  /\ \/ /\ p \in cooling
        /\ UNCHANGED <<cooling, watchVars, status>>
     \/ /\ p \notin cooling
        /\ cooling' = cooling \cup {p}
        /\ IF project[p] = "deleted" THEN UNCHANGED <<watchVars, status>> ELSE StartReview(p)

(* The opt-out is not looked at again, and failing starts the cooldown too.*)
ProcessReview(p) ==
  /\ pendingReviews' = pendingReviews \ {p}
  /\ \/ /\ p \in cooling \/ UnderReview(p)
        /\ UNCHANGED <<cooling, watchVars, status>>
     \/ /\ p \notin cooling
        /\ ~UnderReview(p)
        /\ cooling' = cooling \cup {p}
        /\ IF project[p] = "deleted" THEN UNCHANGED <<watchVars, status>> ELSE StartReview(p)

DebounceTimer(p) ==
  /\ p \in debounceTimers
  /\ debounceTimers' = debounceTimers \ {p}
  /\ IF p \in pendingReviews
     THEN ProcessReview(p)
     ELSE UNCHANGED <<pendingReviews, cooling, watchVars, status>>
  /\ UNCHANGED <<project, closed>>

CooldownEnds(p) ==
  /\ p \in cooling
  /\ cooling' = cooling \ {p}
  /\ UNCHANGED <<project, requestVars, watchVars, status, closed>>

----------------------------------------------------------------------------
HandleReviewComplete(r) ==
  /\ activeReviews' = {a \in activeReviews : a.instanceId # r}
  /\ reported' = IF r \in ActiveIds THEN [reported EXCEPT ![r] = @ + 1] ELSE reported

(* Defect: an instance whose record was removed is not taken for ended.    *)
PollRecord(r) ==
  /\ r \in polling
  /\ status[r] \in {"ended", "killed", "removed"}
  /\ polling' = polling \ {r}
  /\ IF status[r] = "removed"
     THEN UNCHANGED <<activeReviews, reported>>
     ELSE HandleReviewComplete(r)
  /\ UNCHANGED <<project, requestVars, cooling, safetyTimers, status, closed>>

(* A tick of the interval at which the instance has ended.                 *)
Poll(r) ==
  /\ r \in polling
  /\ status[r] \in {"ended", "killed", "removed"}
  /\ polling' = polling \ {r}
  /\ HandleReviewComplete(r)
  /\ UNCHANGED <<project, requestVars, cooling, safetyTimers, status, closed>>

(* Defect: it is not asked whether the review is still active.             *)
TimeoutAgain(r) ==
  /\ r \in safetyTimers
  /\ safetyTimers' = safetyTimers \ {r}
  /\ polling' = polling \ {r}
  /\ activeReviews' = {a \in activeReviews : a.instanceId # r}
  /\ reported' = [reported EXCEPT ![r] = @ + 1]
  /\ status' = IF status[r] = "working" THEN [status EXCEPT ![r] = "killed"] ELSE status
  /\ UNCHANGED <<project, requestVars, cooling, closed>>

(* Defect: the instance that takes too long is left alone.                 *)
TimeoutSparing(r) ==
  /\ r \in safetyTimers
  /\ safetyTimers' = safetyTimers \ {r}
  /\ polling' = polling \ {r}
  /\ HandleReviewComplete(r)
  /\ UNCHANGED <<project, requestVars, cooling, status, closed>>

(* Defect: the timeout stops the polling and waits for the exit.           *)
TimeoutKillOnly(r) ==
  /\ r \in safetyTimers
  /\ safetyTimers' = safetyTimers \ {r}
  /\ polling' = polling \ {r}
  /\ status' = IF r \in ActiveIds /\ status[r] = "working"
               THEN [status EXCEPT ![r] = "killed"] ELSE status
  /\ UNCHANGED <<project, requestVars, cooling, activeReviews, reported, closed>>

(***************************************************************************)
(* The five minutes are over.  killInstance kills by force; an instance    *)
(* that has ended but for the tick of the interval may have lost its pty,  *)
(* and its status then stays.                                              *)
(***************************************************************************)
SafetyTimeout(r) ==
  /\ r \in safetyTimers
  /\ safetyTimers' = safetyTimers \ {r}
  /\ polling' = polling \ {r}
  /\ HandleReviewComplete(r)
  /\ \/ /\ r \in ActiveIds
        /\ status[r] \in {"working", "ended"}
        /\ status' = [status EXCEPT ![r] = "killed"]
     \/ /\ r \in ActiveIds => status[r] # "working"
        /\ UNCHANGED status
  /\ UNCHANGED <<project, requestVars, cooling, closed>>

----------------------------------------------------------------------------
(* The world of the service: instances, projects and the application.      *)

(* All that ClaudeInstance and ProcessManager may do with the instance.    *)
InstanceMoves(r) ==
  /\ status[r] # "absent"
  /\ \E s \in After(status[r]) : status' = [status EXCEPT ![r] = s]
  /\ UNCHANGED <<project, requestVars, cooling, watchVars, closed>>

(* updateProject and deleteProject do not talk to the service.             *)
EditProject(p, s) ==
  /\ project[p] # "deleted"
  /\ ~closed
  /\ project' = [project EXCEPT ![p] = s]
  /\ UNCHANGED <<requestVars, cooling, watchVars, status, closed>>

(* window-all-closed; on macOS the process lives on.                       *)
Shutdown ==
  /\ ~closed
  /\ closed' = TRUE
  /\ pendingReviews' = {}
  /\ debounceTimers' = {}
  /\ UNCHANGED <<project, cooling, watchVars, status>>

Next ==
  \/ \E p \in Projects :
       \/ QueueReview(p)
       \/ DebounceTimer(p)
       \/ CooldownEnds(p)
       \/ \E s \in ProjectState : EditProject(p, s)
  \/ \E r \in Reviews :
       \/ Poll(r)
       \/ SafetyTimeout(r)
       \/ InstanceMoves(r)
  \/ Shutdown

Spec == Init /\ [][Next]_vars

----------------------------------------------------------------------------
TypeOK ==
  /\ project \in [Projects -> ProjectState]
  /\ pendingReviews \subseteq Projects
  /\ debounceTimers \subseteq Projects
  /\ cooling \subseteq Projects
  /\ activeReviews \subseteq Review
  /\ polling \subseteq Reviews
  /\ safetyTimers \subseteq Reviews
  /\ status \in [Reviews -> View]
  /\ reported \in [Reviews -> 0 .. 1]
  /\ closed \in BOOLEAN

(***************************************************************************)
(* A project is reviewed by one instance at a time, also when a review     *)
(* outlasts the cooldown or completes tasks itself (processReview).        *)
(***************************************************************************)
OneReviewPerProject ==
  \A a, b \in activeReviews : a.projectId = b.projectId => a = b

(***************************************************************************)
(* A request never lies in pendingReviews without a timer that will look   *)
(* at it, nor does a timer outlive its request: through repeated requests, *)
(* cooldowns and shutdown the two Maps have the same keys.                 *)
(***************************************************************************)
RequestsAreTimed == pendingReviews = debounceTimers

(***************************************************************************)
(* review:completed is emitted once for every review that was started and  *)
(* is no longer active, though the interval and the safety timeout both    *)
(* may find that it has ended, and never for one that is active.           *)
(***************************************************************************)
ReportedOnce ==
  \A r \in Reviews :
    reported[r] = IF status[r] = "absent" \/ r \in ActiveIds THEN 0 ELSE 1

(***************************************************************************)
(* A review that blocks its project is being polled and has a safety       *)
(* timeout: no order of ends, removals and timers leaves an entry in       *)
(* activeReviews that nobody takes out.                                    *)
(***************************************************************************)
ActiveIsWatched == ActiveIds \subseteq polling \cap safetyTimers

(***************************************************************************)
(* The service lets go of a review only when its instance does not work any*)
(* more or was told to end: the next review of a project does not start    *)
(* beside one that was simply forgotten.  (A process that was killed may   *)
(* still be ending.)                                                       *)
(***************************************************************************)
ReviewerStopsFirst ==
  [][\A r \in ActiveIds : r \in ActiveIds' \/ status'[r] # "working"]_vars

----------------------------------------------------------------------------
(* Timers fire.  Nothing is assumed of the reviewing instances.            *)
FairSpec ==
  Spec /\ \A r \in Reviews : WF_vars(Poll(r)) /\ WF_vars(SafetyTimeout(r))

(***************************************************************************)
(* "Safety timeout - kill review after 5 minutes max": every review ends,  *)
(* and its project can be reviewed again, whatever its instance does.      *)
(***************************************************************************)
ReviewsEnd == \A r \in Reviews : r \in ActiveIds ~> r \notin ActiveIds
=============================================================================
