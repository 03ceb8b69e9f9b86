------------------------- MODULE AutoReview_proofs -------------------------
(***************************************************************************)
(* Proofs about AutoReview, for every set of projects and of reviewing     *)
(* instances: a project has one review at a time, no request is forgotten, *)
(* and every review that is active is watched and is reported once.        *)
(***************************************************************************)
EXTENDS AutoReview, TLAPS

(* An instance that was never created is not under way.                    *)
NoneUncreated == \A r \in Reviews : status[r] = "absent" => r \notin ActiveIds

Inv ==
  /\ TypeOK
  /\ OneReviewPerProject
  /\ RequestsAreTimed
  /\ ReportedOnce
  /\ ActiveIsWatched
  /\ NoneUncreated

LEMMA InitInv == Init => Inv
<1> SUFFICES ASSUME Init PROVE Inv
  OBVIOUS
<1>1. ActiveIds = {}
  BY DEF Init, ActiveIds
<1>2. TypeOK
  <2>1. project \in [Projects -> ProjectState]
    BY DEF Init, ProjectState
  <2>2. status \in [Reviews -> View] /\ reported \in [Reviews -> 0 .. 1]
    BY DEF Init, View
  <2> QED BY <2>1, <2>2 DEF Init, TypeOK
<1>3. ReportedOnce
  BY <1>1 DEF Init, ReportedOnce
<1> QED BY <1>1, <1>2, <1>3 DEF Init, Inv, OneReviewPerProject, RequestsAreTimed,
           ActiveIsWatched, NoneUncreated

(* A review that starts in a project without one keeps everything in order.*)
LEMMA StartReviewInv ==
  ASSUME TypeOK, OneReviewPerProject, ReportedOnce, ActiveIsWatched, NoneUncreated,
         NEW p \in Projects, ~UnderReview(p), StartReview(p)
  PROVE  /\ activeReviews' \subseteq Review
         /\ polling' \subseteq Reviews
         /\ safetyTimers' \subseteq Reviews
         /\ status' \in [Reviews -> View]
         /\ reported' \in [Reviews -> 0 .. 1]
         /\ OneReviewPerProject'
         /\ ReportedOnce'
         /\ ActiveIsWatched'
         /\ NoneUncreated'
<1>1. CASE UNCHANGED <<watchVars, status>>
  BY <1>1 DEF watchVars, TypeOK, OneReviewPerProject, ReportedOnce, ActiveIsWatched,
              ActiveIds, NoneUncreated
<1>2. CASE ~UNCHANGED <<watchVars, status>>
  <2>1. PICK r \in Reviews, s \in After("absent") :
          /\ status[r] = "absent"
          /\ status' = [status EXCEPT ![r] = s]
          /\ activeReviews' = activeReviews \cup {[instanceId |-> r, projectId |-> p]}
          /\ polling' = polling \cup {r}
          /\ safetyTimers' = safetyTimers \cup {r}
          /\ UNCHANGED reported
    BY <1>2 DEF StartReview
  <2>a. s \in View \ {"absent"}
    BY DEF After, View
  <2>2. ActiveIds' = ActiveIds \cup {r}
    <3>1. \A q : q \in ActiveIds' <=> \E a \in activeReviews' : q = a.instanceId
      BY DEF ActiveIds
    <3>2. \A q : q \in ActiveIds <=> \E a \in activeReviews : q = a.instanceId
      BY DEF ActiveIds
    <3> DEFINE new == [instanceId |-> r, projectId |-> p]
    <3>3. \A a : a \in activeReviews' <=> a \in activeReviews \/ a = new
      BY <2>1
    <3>4. new.instanceId = r
      OBVIOUS
    <3> HIDE DEF new
    <3>5. \A q : q \in ActiveIds' <=> q \in ActiveIds \/ q = r
      BY <3>1, <3>2, <3>3, <3>4, Zenon
    <3> QED BY <3>5
  <2>3. /\ activeReviews' \subseteq Review
        /\ polling' \subseteq Reviews
        /\ safetyTimers' \subseteq Reviews
        /\ status' \in [Reviews -> View]
        /\ reported' \in [Reviews -> 0 .. 1]
    BY <2>1, <2>a DEF TypeOK, Review
  <2>4. OneReviewPerProject'
    BY <2>1 DEF OneReviewPerProject, UnderReview
  <2>5. ReportedOnce'
    BY <2>1, <2>2, <2>a DEF ReportedOnce, TypeOK
  <2>6. ActiveIsWatched'
    BY <2>1, <2>2 DEF ActiveIsWatched
  <2>7. NoneUncreated'
    BY <2>1, <2>2, <2>a DEF NoneUncreated, TypeOK, View
  <2> QED BY <2>3, <2>4, <2>5, <2>6, <2>7
<1> QED BY <1>1, <1>2

(* A review that is let go of by whoever watched it is reported.           *)
LEMMA CompleteInv ==
  ASSUME TypeOK, OneReviewPerProject, ReportedOnce, ActiveIsWatched, NoneUncreated,
         NEW r \in Reviews, HandleReviewComplete(r),
         polling' = polling \ {r},
         safetyTimers' \in {safetyTimers, safetyTimers \ {r}},
         status' \in [Reviews -> View],
         \A q \in Reviews : status'[q] = "absent" <=> status[q] = "absent"
  PROVE  /\ activeReviews' \subseteq Review
         /\ reported' \in [Reviews -> 0 .. 1]
         /\ OneReviewPerProject'
         /\ ReportedOnce'
         /\ ActiveIsWatched'
         /\ NoneUncreated'
<1>1. ActiveIds' = ActiveIds \ {r}
  BY DEF HandleReviewComplete, ActiveIds
<1>2. activeReviews' \subseteq activeReviews
  BY DEF HandleReviewComplete
<1>3. reported' = IF r \in ActiveIds THEN [reported EXCEPT ![r] = 1] ELSE reported
  <2>1. r \in ActiveIds => reported[r] = 0
    BY DEF ReportedOnce
  <2>2. CASE r \in ActiveIds
    <3>1. reported' = [reported EXCEPT ![r] = reported[r] + 1]
      BY <2>2 DEF HandleReviewComplete
    <3>2. reported[r] + 1 = 1
      BY <2>1, <2>2
    <3> QED BY <2>2, <3>1, <3>2, Zenon
  <2>3. CASE r \notin ActiveIds
    BY <2>3 DEF HandleReviewComplete
  <2> QED BY <2>2, <2>3
<1>4. ReportedOnce'
  BY <1>1, <1>3 DEF ReportedOnce, TypeOK, NoneUncreated
<1>5. NoneUncreated' /\ ActiveIsWatched'
  BY <1>1 DEF NoneUncreated, ActiveIsWatched
<1> QED BY <1>2, <1>3, <1>4, <1>5 DEF TypeOK, OneReviewPerProject

(* Nothing that changes the status of a created instance, but does not     *)
(* remove the instance from sight, matters to what is watched.             *)
LEMMA StatusInv ==
  ASSUME Inv, NEW r \in Reviews, NEW s \in View \ {"absent"},
         status[r] # "absent", status' = [status EXCEPT ![r] = s],
         UNCHANGED <<project, requestVars, cooling, watchVars, closed>>
  PROVE  Inv'
<1> USE DEF Inv, requestVars, watchVars
<1>1. TypeOK'
  BY DEF TypeOK
<1>2. ReportedOnce' /\ NoneUncreated'
  BY DEF TypeOK, ReportedOnce, NoneUncreated, ActiveIds
<1> QED BY <1>1, <1>2 DEF OneReviewPerProject, RequestsAreTimed, ActiveIsWatched, ActiveIds

LEMMA DebounceTimerInv ==
  ASSUME Inv, NEW p \in Projects, DebounceTimer(p)
  PROVE  Inv'
<1> USE DEF Inv
<1>1. /\ p \in pendingReviews
      /\ ProcessReview(p)
      /\ debounceTimers' = debounceTimers \ {p}
      /\ UNCHANGED <<project, closed>>
  BY DEF DebounceTimer, RequestsAreTimed
<1>2. pendingReviews' = pendingReviews \ {p} /\ RequestsAreTimed'
  BY <1>1 DEF ProcessReview, RequestsAreTimed
<1>3. cooling' \subseteq Projects
  BY <1>1 DEF ProcessReview, TypeOK
<1>4. CASE UNCHANGED <<watchVars, status>>
  BY <1>1, <1>2, <1>3, <1>4 DEF TypeOK, OneReviewPerProject, ReportedOnce, ActiveIsWatched,
        NoneUncreated, ActiveIds, watchVars
<1>5. CASE ~UNCHANGED <<watchVars, status>>
  <2>1. ~UnderReview(p) /\ StartReview(p)
    BY <1>1, <1>5 DEF ProcessReview
  <2> QED BY <1>1, <1>2, <1>3, <2>1, StartReviewInv DEF TypeOK
<1> QED BY <1>4, <1>5

LEMMA PollInv ==
  ASSUME Inv, NEW r \in Reviews, Poll(r)
  PROVE  Inv'
<1> USE DEF Inv
<1>1. /\ HandleReviewComplete(r)
      /\ polling' = polling \ {r}
      /\ UNCHANGED <<project, pendingReviews, debounceTimers, cooling, safetyTimers, status, closed>>
  BY DEF Poll, requestVars
<1>2. /\ activeReviews' \subseteq Review
      /\ reported' \in [Reviews -> 0 .. 1]
      /\ OneReviewPerProject'
      /\ ReportedOnce'
      /\ ActiveIsWatched'
      /\ NoneUncreated'
  BY <1>1, CompleteInv DEF TypeOK
<1> QED BY <1>1, <1>2 DEF TypeOK, RequestsAreTimed

LEMMA SafetyTimeoutInv ==
  ASSUME Inv, NEW r \in Reviews, SafetyTimeout(r)
  PROVE  Inv'
<1> USE DEF Inv
<1>1. /\ HandleReviewComplete(r)
      /\ polling' = polling \ {r}
      /\ safetyTimers' = safetyTimers \ {r}
      /\ UNCHANGED <<project, pendingReviews, debounceTimers, cooling, closed>>
  BY DEF SafetyTimeout, requestVars
<1>2. /\ status' \in [Reviews -> View]
      /\ \A q \in Reviews : status'[q] = "absent" <=> status[q] = "absent"
  BY DEF SafetyTimeout, TypeOK, View
<1>3. /\ activeReviews' \subseteq Review
      /\ reported' \in [Reviews -> 0 .. 1]
      /\ OneReviewPerProject'
      /\ ReportedOnce'
      /\ ActiveIsWatched'
      /\ NoneUncreated'
  BY <1>1, <1>2, CompleteInv
<1> QED BY <1>1, <1>2, <1>3 DEF TypeOK, RequestsAreTimed

LEMMA StepInv == Inv /\ [Next]_vars => Inv'
<1> SUFFICES ASSUME Inv, [Next]_vars PROVE Inv'
  OBVIOUS
<1> USE DEF requestVars, watchVars
<1>1. ASSUME NEW p \in Projects, QueueReview(p) PROVE Inv'
  BY <1>1 DEF QueueReview, Inv, TypeOK, OneReviewPerProject, RequestsAreTimed, ReportedOnce,
              ActiveIsWatched, NoneUncreated, ActiveIds
<1>2. ASSUME NEW p \in Projects, CooldownEnds(p) PROVE Inv'
  BY <1>2 DEF CooldownEnds, Inv, TypeOK, OneReviewPerProject, RequestsAreTimed, ReportedOnce,
              ActiveIsWatched, NoneUncreated, ActiveIds
<1>3. ASSUME NEW p \in Projects, NEW s \in ProjectState, EditProject(p, s) PROVE Inv'
  BY <1>3 DEF EditProject, Inv, TypeOK, OneReviewPerProject, RequestsAreTimed, ReportedOnce,
              ActiveIsWatched, NoneUncreated, ActiveIds
<1>4. ASSUME NEW r \in Reviews, InstanceMoves(r) PROVE Inv'
  <2>1. /\ status[r] # "absent" /\ status[r] \in View
        /\ \E s \in After(status[r]) : status' = [status EXCEPT ![r] = s]
        /\ UNCHANGED <<project, requestVars, cooling, watchVars, closed>>
    BY <1>4 DEF InstanceMoves, Inv, TypeOK
  <2>2. After(status[r]) \subseteq View \ {"absent"}
    BY <2>1 DEF After, View
  <2> QED BY <2>1, <2>2, StatusInv
<1>7. CASE Shutdown
  BY <1>7 DEF Shutdown, Inv, TypeOK, OneReviewPerProject, RequestsAreTimed, ReportedOnce,
              ActiveIsWatched, NoneUncreated, ActiveIds
<1>8. CASE UNCHANGED vars
  BY <1>8 DEF vars, Inv, TypeOK, OneReviewPerProject, RequestsAreTimed, ReportedOnce,
              ActiveIsWatched, NoneUncreated, ActiveIds
<1> QED BY <1>1, <1>2, <1>3, <1>4, <1>7, <1>8, DebounceTimerInv, PollInv,
           SafetyTimeoutInv DEF Next

LEMMA Invariance == Spec => []Inv
BY InitInv, StepInv, PTL DEF Spec

----------------------------------------------------------------------------
(* The variables of the service have their types.                          *)
THEOREM TypeCorrect == Spec => []TypeOK
<1>1. Inv => TypeOK
  BY DEF Inv
<1> QED BY <1>1, Invariance, PTL

(* A project is never reviewed by two instances (processReview).           *)
THEOREM ReviewsAreExclusive == Spec => []OneReviewPerProject
<1>1. Inv => OneReviewPerProject
  BY DEF Inv
<1> QED BY <1>1, Invariance, PTL

(* pendingReviews and debounceTimers always have the same keys, so no      *)
(* request waits for a timer that does not exist (queueReview, shutdown).  *)
THEOREM RequestsAreLookedAt == Spec => []RequestsAreTimed
<1>1. Inv => RequestsAreTimed
  BY DEF Inv
<1> QED BY <1>1, Invariance, PTL

(* Interval and safety timeout report the end of a review once between     *)
(* them (setupReviewListeners, handleReviewComplete).                      *)
THEOREM EndsAreReportedOnce == Spec => []ReportedOnce
<1>1. Inv => ReportedOnce
  BY DEF Inv
<1> QED BY <1>1, Invariance, PTL

(* Whoever is in activeReviews has an interval and a safety timeout.       *)
THEOREM ReviewsAreWatched == Spec => []ActiveIsWatched
<1>1. Inv => ActiveIsWatched
  BY DEF Inv
<1> QED BY <1>1, Invariance, PTL

(* What is let go of in one step is not at work after it.                  *)
LEMMA LetGo ==
  ASSUME Inv, [Next]_vars, NEW r \in ActiveIds, r \notin ActiveIds'
  PROVE  status'[r] # "working"
<1> USE DEF requestVars, watchVars
<1>1. r \in Reviews
  BY DEF Inv, TypeOK, ActiveIds, Review
<1>2. activeReviews' = activeReviews => FALSE
  BY DEF ActiveIds
<1>3. ASSUME NEW q \in Reviews, HandleReviewComplete(q) PROVE q = r
  BY <1>3 DEF HandleReviewComplete, ActiveIds
<1>4. ASSUME NEW p \in Projects, DebounceTimer(p) PROVE FALSE
  <2>1. activeReviews \subseteq activeReviews'
    BY <1>4 DEF DebounceTimer, ProcessReview, StartReview
  <2> QED BY <2>1 DEF ActiveIds
<1>5. ASSUME NEW q \in Reviews, Poll(q) PROVE status'[r] # "working"
  BY <1>1, <1>3, <1>5 DEF Poll
<1>6. ASSUME NEW q \in Reviews, SafetyTimeout(q) PROVE status'[r] # "working"
  BY <1>1, <1>3, <1>6 DEF SafetyTimeout, Inv, TypeOK
<1> QED BY <1>2, <1>4, <1>5, <1>6 DEF Next, vars, QueueReview, CooldownEnds, EditProject,
           InstanceMoves, Shutdown

(* A review is only let go of when its instance is not at work (any more): *)
(* Poll sees an ended one, and SafetyTimeout kills the one it lets go of.  *)
THEOREM ReviewersStopFirst == Spec => ReviewerStopsFirst
<1>1. Inv /\ [Next]_vars => [\A r \in ActiveIds : r \in ActiveIds' \/ status'[r] # "working"]_vars
  BY LetGo
<1> QED BY <1>1, Invariance, PTL DEF Spec, ReviewerStopsFirst
=============================================================================
