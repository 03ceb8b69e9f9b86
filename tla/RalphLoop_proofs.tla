-------------------------- MODULE RalphLoop_proofs --------------------------
(***************************************************************************)
(* Proofs about RalphLoop, for every set of tasks and projects, every      *)
(* iteration limit and every set of requests and start outcomes.           *)
(***************************************************************************)
EXTENDS RalphLoop, FiniteSetTheorems, WellFoundedInduction, TLAPS

USE ProjectOfAssumption, MaxLoopAssumption, OutcomesAssumption,
    MaxQueueTimersAssumption

(* The two ways runLoop leaves the table tbl and the instances.            *)
Idle(tbl) ==
  /\ \A u \in Tasks : /\ task'[u].status = tbl[u].status
                      /\ task'[u].instanceId = tbl[u].instanceId
                      /\ task'[u].loopCount = tbl[u].loopCount
  /\ UNCHANGED instanceVars

Spawned(tbl, t) ==
  /\ MayIterate(tbl, t)
  /\ BelowLimit(tbl, t)
  /\ \A u \in Tasks :
       /\ task'[u].status = tbl[u].status
       /\ task'[u].isPaused = tbl[u].isPaused
       /\ task'[u].instanceId = IF u = t THEN nextInstance ELSE tbl[u].instanceId
       /\ task'[u].loopCount = IF u = t THEN tbl[u].loopCount + 1 ELSE tbl[u].loopCount
  /\ runningTasks' = runningTasks \cup {[instanceId |-> nextInstance, taskId |-> t]}
  /\ live' \subseteq live \cup {[instanceId |-> nextInstance, taskId |-> t]}
  /\ nextInstance' = nextInstance + 1

(* Pausing a row changes nothing else in it.                               *)
LEMMA PausedTable ==
  ASSUME NEW tbl \in [Tasks -> Row], NEW t \in Tasks
  PROVE  /\ PauseTask(tbl, t) \in [Tasks -> Row]
         /\ \A u \in Tasks : /\ PauseTask(tbl, t)[u].status = tbl[u].status
                             /\ PauseTask(tbl, t)[u].instanceId = tbl[u].instanceId
                             /\ PauseTask(tbl, t)[u].loopCount = tbl[u].loopCount
  BY DEF PauseTask, Row

(* Every run of runLoop is of one of the two kinds, and keeps the types.   *)
LEMMA RunLoopEffect ==
  ASSUME TypeOK, NEW tbl \in [Tasks -> Row],
         NEW t \in Tasks, NEW o, RunLoop(tbl, t, o)
  PROVE  /\ Idle(tbl) \/ Spawned(tbl, t)
         /\ task' \in [Tasks -> Row]
         /\ runningTasks' \subseteq Running
         /\ live' \subseteq Running
         /\ nextInstance' \in Nat \ {0}
         /\ nextInstance' >= nextInstance
<1>1. CASE /\ task' = tbl \/ task' = PauseTask(tbl, t)
           /\ UNCHANGED instanceVars
  BY <1>1, PausedTable DEF TypeOK, Idle, instanceVars
<1>2. CASE /\ MayIterate(tbl, t)
           /\ BelowLimit(tbl, t)
           /\ Spawn(tbl, t, o)
  <2>1. tbl[t].loopCount \in Nat /\ nextInstance \in Nat
    BY DEF TypeOK, Row
  <2>2. task' \in [Tasks -> Row]
    BY <1>2, <2>1 DEF Spawn, IncrementLoopCount, SetTaskInstance, Row
  <2>3. \A u \in Tasks :
          /\ task'[u].status = tbl[u].status
          /\ task'[u].isPaused = tbl[u].isPaused
          /\ task'[u].instanceId = IF u = t THEN nextInstance ELSE tbl[u].instanceId
          /\ task'[u].loopCount = IF u = t THEN tbl[u].loopCount + 1 ELSE tbl[u].loopCount
    BY <1>2, <2>1 DEF Spawn, IncrementLoopCount, SetTaskInstance, Row
  <2>4. [instanceId |-> nextInstance, taskId |-> t] \in Running
    BY <2>1 DEF Running
  <2> QED
    BY <1>2, <2>1, <2>2, <2>3, <2>4 DEF TypeOK, Spawn, Spawned
<1>3. FailToSpawn(tbl, t, o) => (task' = tbl \/ task' = PauseTask(tbl, t)) /\ UNCHANGED instanceVars
  BY DEF FailToSpawn
<1> QED
  BY <1>1, <1>2, <1>3 DEF RunLoop

(* The handler that starts a task runs the loop on a table of rows.        *)
LEMMA MovedTable ==
  ASSUME TypeOK, NEW t \in Tasks
  PROVE  /\ MoveTask(task, t, "doing") \in [Tasks -> Row]
         /\ ResumeTask(task, t) \in [Tasks -> Row]
  BY DEF TypeOK, MoveTask, ResumeTask, Row, Status

(* Natural numbers are well-ordered: their initial segments are, by strict *)
(* inclusion of finite sets.                                               *)
LEMMA LeastNatural ==
  ASSUME NEW S \in SUBSET Nat, S # {}
  PROVE  \E m \in S : \A n \in S : m =< n
<1> DEFINE segments == {0 .. m : m \in S}
<1>1. \A m \in Nat : 0 .. m \in FiniteSubsetsOf(Nat)
  BY FS_Interval DEF FiniteSubsetsOf
<1>2. segments \subseteq FiniteSubsetsOf(Nat) /\ segments # {}
  BY <1>1
<1>3. PICK x \in segments : \A y \in segments : <<y, x>> \notin StrictSubsetOrdering(Nat)
  <2> HIDE DEF segments
  <2> QED BY <1>2, FS_StrictSubsetOrderingWellFounded, WFMin
<1>4. PICK m \in S : x = 0 .. m
  BY <1>3
<1>5. ASSUME NEW n \in S, n < m
      PROVE  FALSE
  <2>1. (0 .. n) \subseteq (0 .. m) /\ m \in (0 .. m) /\ m \notin (0 .. n)
    BY <1>5
  <2>2. <<0 .. n, x>> \in StrictSubsetOrdering(Nat)
    BY <2>1, <1>4 DEF StrictSubsetOrdering
  <2> QED BY <2>2, <1>3
<1> QED BY <1>5

(* Stopping or completing tasks only drops entries of these tasks.         *)
LEMMA FirstEntriesOfTasks ==
  ASSUME TypeOK, NEW ts \in SUBSET Tasks
  PROVE  FirstEntries(ts) \subseteq {r \in runningTasks : r.taskId \in ts}
<1>1. ASSUME NEW t \in Tasks, Entries(t) # {}
      PROVE  FirstEntry(t) \in Entries(t)
  <2> DEFINE ids == {r.instanceId : r \in Entries(t)}
  <2>1. ids \subseteq Nat /\ ids # {}
    BY <1>1 DEF Entries, TypeOK, Running
  <2>2. PICK m \in ids : \A n \in ids : m =< n
    <3> HIDE DEF ids
    <3> QED BY <2>1, LeastNatural
  <2>3. \E r \in Entries(t) : \A s \in Entries(t) : r.instanceId =< s.instanceId
    BY <2>2
  <2> QED BY <2>3 DEF FirstEntry
<1> QED BY <1>1 DEF FirstEntries, Entries

----------------------------------------------------------------------------
(***************************************************************************)
(* The inductive invariant.  A restart of the application takes every      *)
(* instance id a row still names below boot (IdsIssued), a created row     *)
(* names none (NoneUnassigned), and only finite sets of entries count.     *)
(***************************************************************************)
IdsIssued == \A t \in Tasks : task[t].instanceId < nextInstance

NoneUnassigned == \A t \in Tasks : task[t].status = "none" => task[t].instanceId = 0

IInv ==
  /\ TypeOK
  /\ IdsIssued
  /\ NoneUnassigned
  /\ IsFiniteSet(runningTasks)
  /\ CurrentInstanceTracked
  /\ IterationBudget

(* A task never has more entries after entries were dropped.               *)
LEMMA EntriesShrink ==
  ASSUME IsFiniteSet(runningTasks), runningTasks' \subseteq runningTasks, NEW t \in Tasks
  PROVE  /\ IsFiniteSet(runningTasks')
         /\ Cardinality(Entries(t)) \in Nat
         /\ Cardinality(Entries(t)') \in Nat
         /\ Cardinality(Entries(t)') =< Cardinality(Entries(t))
<1>1. Entries(t) \subseteq runningTasks /\ Entries(t)' \subseteq Entries(t)
  BY DEF Entries
<1>2. IsFiniteSet(Entries(t))
  BY <1>1, FS_Subset
<1> QED BY <1>1, <1>2, FS_Subset, FS_CardinalityType

(***************************************************************************)
(* A step that starts no instance keeps the invariant if a row whose entry *)
(* is dropped forgets its instance, and no restart is scheduled.           *)
(***************************************************************************)
LEMMA NoSpawnStep ==
  ASSUME IInv, TypeOK', boot' = boot, nextInstance' = nextInstance,
         runningTasks' \subseteq runningTasks,
         \A t \in Tasks :
           /\ task'[t].loopCount = task[t].loopCount
           /\ task'[t].instanceId \in {0, task[t].instanceId}
           /\ task'[t].status = "none" => task[t].status = "none"
           /\ Exists(t)' => Exists(t) \/ task'[t].instanceId = 0,
         \A r \in runningTasks \ runningTasks' :
           Exists(r.taskId)' => task'[r.taskId].instanceId = 0
  PROVE  /\ IdsIssued'
         /\ NoneUnassigned'
         /\ IsFiniteSet(runningTasks')
         /\ CurrentInstanceTracked'
         /\ (\A t \in Tasks : restartTimers'[t] =< restartTimers[t]) => IterationBudget'
<1> USE DEF IInv
<1>1. IdsIssued'
  BY DEF IdsIssued, TypeOK, Row
<1>2. NoneUnassigned'
  BY DEF NoneUnassigned
<1>3. IsFiniteSet(runningTasks')
  BY FS_Subset
<1>4. CurrentInstanceTracked'
  <2> SUFFICES ASSUME NEW t \in Tasks, Exists(t)', task'[t].instanceId >= boot'
               PROVE  [instanceId |-> task'[t].instanceId, taskId |-> t] \in runningTasks'
    BY DEF CurrentInstanceTracked
  <2>1. task'[t].instanceId # 0 /\ task'[t].instanceId = task[t].instanceId /\ Exists(t)
    BY DEF TypeOK
  <2>2. [instanceId |-> task[t].instanceId, taskId |-> t] \in runningTasks
    BY <2>1 DEF CurrentInstanceTracked
  <2> QED BY <2>1, <2>2
<1>5. ASSUME \A t \in Tasks : restartTimers'[t] =< restartTimers[t]
      PROVE  IterationBudget'
  <2> SUFFICES ASSUME NEW t \in Tasks
               PROVE  /\ restartTimers'[t] + Cardinality(Entries(t)') =< task'[t].loopCount
                      /\ task'[t].loopCount =< MaxLoop
    BY DEF IterationBudget
  <2>1. restartTimers'[t] \in Nat /\ restartTimers[t] \in Nat /\ task[t].loopCount \in Nat
    BY DEF TypeOK, Row
  <2>2. restartTimers[t] + Cardinality(Entries(t)) =< task[t].loopCount
    BY DEF IterationBudget
  <2>3. task'[t].loopCount = task[t].loopCount /\ task[t].loopCount =< MaxLoop
    BY DEF IterationBudget
  <2> QED BY <2>1, <2>2, <2>3, <1>5, EntriesShrink
<1> QED BY <1>1, <1>2, <1>3, <1>4, <1>5

(***************************************************************************)
(* The callers of runLoop pass it a table that differs from the board's in *)
(* a column or a pause only, for a task that has a row, and never schedule *)
(* a restart: its iteration is paid for by the count it increments.        *)
(***************************************************************************)
LEMMA RunLoopStep ==
  ASSUME IInv, NEW tbl \in [Tasks -> Row],
         NEW t \in Tasks, NEW o, RunLoop(tbl, t, o),
         Exists(t),
         \A u \in Tasks :
           /\ tbl[u].loopCount = task[u].loopCount
           /\ tbl[u].instanceId = task[u].instanceId
           /\ tbl[u].status # task[u].status => u = t /\ tbl[u].status \in Status,
         boot' = boot,
         processingAllQueue' \in [Projects -> BOOLEAN],
         queueTimers' \in [Projects -> Nat],
         restartTimers' \in [Tasks -> Nat],
         \A u \in Tasks : restartTimers'[u] =< restartTimers[u]
  PROVE  IInv'
<1> USE DEF IInv
<1>1. /\ Idle(tbl) \/ Spawned(tbl, t)
      /\ task' \in [Tasks -> Row]
      /\ runningTasks' \subseteq Running
      /\ live' \subseteq Running
      /\ nextInstance' \in Nat \ {0}
      /\ nextInstance' >= nextInstance
  BY RunLoopEffect
<1>2. TypeOK'
  BY <1>1 DEF TypeOK
<1>3. CASE Idle(tbl)
  <2>1. /\ runningTasks' = runningTasks
        /\ nextInstance' = nextInstance
    BY <1>3 DEF Idle, instanceVars
  <2>2. \A u \in Tasks :
          /\ task'[u].loopCount = task[u].loopCount
          /\ task'[u].instanceId = task[u].instanceId
          /\ task'[u].status = "none" => task[u].status = "none"
          /\ Exists(u)' => Exists(u)
    BY <1>3 DEF Idle, Exists, Status
  <2> QED BY <1>2, <2>1, <2>2, NoSpawnStep
<1>4. CASE Spawned(tbl, t)
  <2> DEFINE r == [instanceId |-> nextInstance, taskId |-> t]
  <2>1. /\ runningTasks' = runningTasks \cup {r}
        /\ nextInstance' = nextInstance + 1
        /\ tbl[t].loopCount < MaxLoop
    BY <1>4 DEF Spawned, BelowLimit
  <2>2. \A u \in Tasks :
          /\ task'[u].loopCount = IF u = t THEN task[u].loopCount + 1 ELSE task[u].loopCount
          /\ task'[u].instanceId = IF u = t THEN nextInstance ELSE task[u].instanceId
          /\ task'[u].status = "none" => u # t /\ task[u].status = "none"
          /\ u # t => task'[u].status = task[u].status
    BY <1>4 DEF Spawned, Exists, Status
  <2>3. nextInstance \in Nat
    BY DEF TypeOK
  <2>4. IdsIssued'
    BY <2>1, <2>2, <2>3 DEF IdsIssued, TypeOK, Row
  <2>5. NoneUnassigned'
    BY <2>2 DEF NoneUnassigned
  <2>6. IsFiniteSet(runningTasks')
    BY <2>1, FS_AddElement
  <2>7. CurrentInstanceTracked'
    <3> SUFFICES ASSUME NEW u \in Tasks, Exists(u)', task'[u].instanceId >= boot'
                 PROVE  [instanceId |-> task'[u].instanceId, taskId |-> u] \in runningTasks'
      BY DEF CurrentInstanceTracked
    <3>1. CASE u = t
      BY <3>1, <2>1, <2>2
    <3>2. CASE u # t
      BY <3>2, <2>1, <2>2 DEF CurrentInstanceTracked, Exists
    <3> QED BY <3>1, <3>2
  <2>8. IterationBudget'
    <3> SUFFICES ASSUME NEW u \in Tasks
                 PROVE  /\ restartTimers'[u] + Cardinality(Entries(u)') =< task'[u].loopCount
                        /\ task'[u].loopCount =< MaxLoop
      BY DEF IterationBudget
    <3>1. /\ restartTimers'[u] \in Nat
          /\ restartTimers[u] \in Nat
          /\ task[u].loopCount \in Nat
      BY DEF TypeOK, Row
    <3>2. /\ restartTimers[u] + Cardinality(Entries(u)) =< task[u].loopCount
          /\ task[u].loopCount =< MaxLoop
      BY DEF IterationBudget
    <3>3. Entries(u) \subseteq runningTasks
      BY DEF Entries
    <3>4. IsFiniteSet(Entries(u)) /\ Cardinality(Entries(u)) \in Nat
      BY <3>3, FS_Subset, FS_CardinalityType
    <3>5. CASE u = t
      <4>1. Entries(u)' = Entries(u) \cup {r}
        BY <3>5, <2>1 DEF Entries
      <4>2. Cardinality(Entries(u)') \in {Cardinality(Entries(u)), Cardinality(Entries(u)) + 1}
        BY <4>1, <3>4, FS_AddElement
      <4>3. task'[u].loopCount = task[u].loopCount + 1 /\ task[u].loopCount < MaxLoop
        BY <3>5, <2>1, <2>2
      <4> QED BY <3>1, <3>2, <3>4, <4>2, <4>3
    <3>6. CASE u # t
      <4>1. Entries(u)' = Entries(u)
        BY <3>6, <2>1 DEF Entries
      <4> QED BY <3>1, <3>2, <3>4, <3>6, <4>1, <2>2
    <3> QED BY <3>5, <3>6
  <2> QED BY <1>2, <2>4, <2>5, <2>6, <2>7, <2>8
<1> QED BY <1>1, <1>3, <1>4

(***************************************************************************)
(* An exit turns an entry of its task into at most one scheduled restart.  *)
(***************************************************************************)
LEMMA InstanceExitStep ==
  ASSUME IInv, NEW r \in live, InstanceExit(r)
  PROVE  IInv'
<1> USE DEF IInv
<1> DEFINE t == r.taskId
<1>1. r \in Running /\ t \in Tasks
  BY DEF TypeOK, Running
<1>2. boot' = boot /\ nextInstance' = nextInstance
  BY DEF InstanceExit
<1>3. CASE r \notin runningTasks
  <2>1. UNCHANGED <<task, runningTasks, restartTimers>>
    BY <1>3 DEF InstanceExit
  <2>2. TypeOK'
    BY <2>1 DEF InstanceExit, TypeOK
  <2> QED BY <1>2, <2>1, <2>2, NoSpawnStep DEF Exists, TypeOK
<1>4. CASE r \in runningTasks
  <2>1. /\ runningTasks' = runningTasks \ {r}
        /\ task' = IF Exists(t) THEN SetTaskInstance(task, t, 0) ELSE task
        /\ restartTimers' = IF MayIterate(task, t) THEN [restartTimers EXCEPT ![t] = @ + 1]
                            ELSE restartTimers
    BY <1>4 DEF InstanceExit
  <2>2. /\ task' \in [Tasks -> Row]
        /\ \A u \in Tasks : /\ task'[u].loopCount = task[u].loopCount
                            /\ task'[u].instanceId \in {0, task[u].instanceId}
                            /\ task'[u].status = task[u].status
        /\ Exists(t) => task'[t].instanceId = 0
    <3>1. CASE Exists(t)
      <4>1. task' = [task EXCEPT ![t].instanceId = 0]
        BY <3>1, <2>1 DEF SetTaskInstance
      <4> QED BY <1>1, <4>1 DEF TypeOK, Row
    <3>2. CASE ~Exists(t)
      BY <3>2, <2>1 DEF TypeOK
    <3> QED BY <3>1, <3>2
  <2>3. /\ restartTimers' \in [Tasks -> Nat]
        /\ \A u \in Tasks : \/ restartTimers'[u] = restartTimers[u]
                            \/ u = t /\ restartTimers'[u] = restartTimers[u] + 1
    <3>1. CASE MayIterate(task, t)
      <4>1. restartTimers' = [restartTimers EXCEPT ![t] = @ + 1]
        BY <3>1, <2>1
      <4> QED BY <1>1, <4>1 DEF TypeOK
    <3>2. CASE ~MayIterate(task, t)
      BY <3>2, <2>1 DEF TypeOK
    <3> QED BY <3>1, <3>2
  <2>4. TypeOK'
    BY <2>1, <2>2, <2>3 DEF InstanceExit, TypeOK
  <2>5. /\ IdsIssued'
        /\ NoneUnassigned'
        /\ IsFiniteSet(runningTasks')
        /\ CurrentInstanceTracked'
    BY <1>2, <2>1, <2>2, <2>4, NoSpawnStep DEF Exists
  <2>6. IterationBudget'
    <3> SUFFICES ASSUME NEW u \in Tasks
                 PROVE  /\ restartTimers'[u] + Cardinality(Entries(u)') =< task'[u].loopCount
                        /\ task'[u].loopCount =< MaxLoop
      BY DEF IterationBudget
    <3>1. /\ restartTimers[u] \in Nat
          /\ task[u].loopCount \in Nat
          /\ task'[u].loopCount = task[u].loopCount
      BY <2>2 DEF TypeOK, Row
    <3>2. /\ restartTimers[u] + Cardinality(Entries(u)) =< task[u].loopCount
          /\ task[u].loopCount =< MaxLoop
      BY DEF IterationBudget
    <3>3. CASE u = t
      <4>1. Entries(u) \subseteq runningTasks /\ r \in Entries(u)
        BY <3>3, <1>4 DEF Entries
      <4>2. IsFiniteSet(Entries(u)) /\ Cardinality(Entries(u)) \in Nat
        BY <4>1, FS_Subset, FS_CardinalityType
      <4>3. Entries(u)' = Entries(u) \ {r}
        BY <2>1 DEF Entries
      <4>4. Cardinality(Entries(u)') = Cardinality(Entries(u)) - 1
        BY <4>1, <4>2, <4>3, FS_RemoveElement
      <4> QED BY <3>1, <3>2, <4>2, <4>4, <2>3
    <3>4. CASE u # t
      <4>1. restartTimers'[u] = restartTimers[u]
        BY <3>4, <2>3
      <4>2. /\ Cardinality(Entries(u)) \in Nat
            /\ Cardinality(Entries(u)') \in Nat
            /\ Cardinality(Entries(u)') =< Cardinality(Entries(u))
        BY <2>1, EntriesShrink
      <4> QED BY <3>1, <3>2, <4>1, <4>2
    <3> QED BY <3>3, <3>4
  <2> QED BY <2>4, <2>5, <2>6
<1> QED BY <1>3, <1>4

(* An end that nobody notices leaves the entry where it is.                *)
LEMMA EndUnnoticedStep ==
  ASSUME IInv, NEW r \in live, EndUnnoticed(r)
  PROVE  IInv'
<1>1. /\ live' = live \ {r}
      /\ UNCHANGED <<task, processingAllQueue, boot, runningTasks, nextInstance, timerVars>>
  BY DEF EndUnnoticed
<1>2. TypeOK'
  BY <1>1 DEF IInv, TypeOK, timerVars
<1>3. \A u \in Tasks : restartTimers'[u] =< restartTimers[u]
  BY <1>1 DEF timerVars, IInv, TypeOK
<1> QED BY <1>1, <1>2, <1>3, NoSpawnStep DEF IInv, Exists

(* Stopping tasks clears their rows with the entries it drops.             *)
LEMMA StopTasksStep ==
  ASSUME IInv, NEW ts \in SUBSET Tasks, StopTasks(ts),
         processingAllQueue' \in [Projects -> BOOLEAN],
         UNCHANGED <<boot, live, nextInstance, timerVars>>
  PROVE  IInv'
<1>1. /\ runningTasks' \subseteq runningTasks
      /\ \A r \in runningTasks \ runningTasks' : r.taskId \in ts
  BY FirstEntriesOfTasks DEF StopTasks, IInv
<1>2. /\ task' \in [Tasks -> Row]
      /\ \A u \in Tasks : /\ task'[u].loopCount = task[u].loopCount
                          /\ task'[u].instanceId \in {0, task[u].instanceId}
                          /\ task'[u].status = task[u].status
                          /\ Exists(u) /\ u \in ts => task'[u].instanceId = 0
  BY DEF StopTasks, IInv, TypeOK, Row
<1>3. TypeOK'
  BY <1>1, <1>2 DEF IInv, TypeOK, timerVars
<1>4. restartTimers' = restartTimers
  BY DEF timerVars
<1>5. \A u \in Tasks : restartTimers'[u] =< restartTimers[u]
  BY <1>4 DEF IInv, TypeOK
<1>6. \A r \in runningTasks \ runningTasks' :
        Exists(r.taskId)' => task'[r.taskId].instanceId = 0
  BY <1>1, <1>2 DEF Exists, IInv, TypeOK, Running
<1>7. \A u \in Tasks :
        /\ task'[u].status = "none" => task[u].status = "none"
        /\ Exists(u)' => Exists(u)
  BY <1>2 DEF Exists
<1> QED BY <1>1, <1>2, <1>3, <1>5, <1>6, <1>7, NoSpawnStep DEF IInv

(* Reporting a task complete drops at most its first entry.                *)
LEMMA CompleteTaskStep ==
  ASSUME IInv, NEW t \in Tasks, CompleteTask(t)
  PROVE  IInv'
<1>1. /\ runningTasks' = runningTasks \ FirstEntries({t})
      /\ UNCHANGED <<processingAllQueue, boot, live, nextInstance, restartTimers>>
      /\ \/ task' = task /\ ~Exists(t)
         \/ task' = MarkDone(task, t)
      /\ \/ queueTimers' = queueTimers
         \/ queueTimers' = [queueTimers EXCEPT ![ProjectOf[t]] = @ + 1]
      /\ task[t].status # "none"
  BY DEF CompleteTask
<1>2. /\ runningTasks' \subseteq runningTasks
      /\ \A r \in runningTasks \ runningTasks' : r.taskId = t
  BY <1>1, FirstEntriesOfTasks DEF IInv
<1>3. /\ task' \in [Tasks -> Row]
      /\ \A u \in Tasks : /\ task'[u].loopCount = task[u].loopCount
                          /\ task'[u].instanceId \in {0, task[u].instanceId}
                          /\ u # t => task'[u].status = task[u].status
      /\ task'[t].status # "none"
      /\ Exists(t)' => task'[t].instanceId = 0
  <2>1. CASE task' = task /\ ~Exists(t)
    BY <1>1, <2>1 DEF IInv, TypeOK, Exists
  <2>2. CASE task' = MarkDone(task, t)
    BY <2>2 DEF IInv, TypeOK, Row, MarkDone, Status
  <2> QED BY <1>1, <2>1, <2>2
<1>4. queueTimers' \in [Projects -> Nat]
  BY <1>1 DEF IInv, TypeOK
<1>5. TypeOK'
  BY <1>1, <1>2, <1>3, <1>4 DEF IInv, TypeOK
<1>6. \A u \in Tasks : restartTimers'[u] =< restartTimers[u]
  BY <1>1 DEF IInv, TypeOK
<1>7. \A u \in Tasks :
        /\ task'[u].status = "none" => task[u].status = "none"
        /\ Exists(u)' => Exists(u) \/ task'[u].instanceId = 0
  BY <1>3 DEF Exists
<1> QED BY <1>1, <1>2, <1>3, <1>5, <1>6, <1>7, NoSpawnStep DEF IInv

(* The writes of users on the board leave the loop's memory alone.         *)
LEMMA BoardStep ==
  ASSUME IInv, NEW t \in Tasks,
         \/ \E s \in Status : CreateTask(t, s)
         \/ \E s \in Status, paused \in BOOLEAN : EditTask(t, s, paused)
         \/ DeleteTask(t)
         \/ RequestHelp(t)
  PROVE  IInv'
<1>1. UNCHANGED <<processingAllQueue, boot, instanceVars, timerVars>>
  BY DEF CreateTask, EditTask, DeleteTask, RequestHelp
<1>2. /\ task' \in [Tasks -> Row]
      /\ \A u \in Tasks :
           /\ task'[u].loopCount = task[u].loopCount
           /\ task'[u].instanceId \in {0, task[u].instanceId}
           /\ task'[u].status = "none" => task[u].status = "none"
           /\ Exists(u)' => Exists(u) \/ task'[u].instanceId = 0
  <2>1. CASE \E s \in Status : CreateTask(t, s)
    <3>1. PICK s \in Status : CreateTask(t, s)
      BY <2>1
    <3>2. task' = [task EXCEPT ![t].status = s] /\ task[t].instanceId = 0
      BY <3>1 DEF CreateTask, IInv, NoneUnassigned
    <3> QED BY <3>2 DEF IInv, TypeOK, Row, Status, Exists
  <2>2. CASE \E s \in Status, paused \in BOOLEAN : EditTask(t, s, paused)
    <3>1. PICK s \in Status, paused \in BOOLEAN : EditTask(t, s, paused)
      BY <2>2
    <3>2. task' = [task EXCEPT ![t].status = s, ![t].isPaused = paused] /\ Exists(t)
      BY <3>1 DEF EditTask
    <3> QED BY <3>2 DEF IInv, TypeOK, Row, Status, Exists
  <2>3. CASE DeleteTask(t)
    <3>1. /\ Exists(t)
          /\ task' = [task EXCEPT ![t].status = "deleted", ![t].isPaused = FALSE,
                                  ![t].instanceId = 0]
      BY <2>3 DEF DeleteTask
    <3> QED BY <3>1 DEF IInv, TypeOK, Row, Status, Exists
  <2>4. CASE RequestHelp(t)
    BY <2>4, PausedTable DEF RequestHelp, IInv, TypeOK, Exists
  <2> QED BY <2>1, <2>2, <2>3, <2>4
<1>4. TypeOK'
  BY <1>1, <1>2 DEF IInv, TypeOK, instanceVars, timerVars
<1>5. \A u \in Tasks : restartTimers'[u] =< restartTimers[u]
  BY <1>1 DEF IInv, TypeOK, timerVars
<1> QED BY <1>1, <1>2, <1>4, <1>5, NoSpawnStep DEF IInv, instanceVars

(* The handlers and timers that run the loop, each with its own guard.     *)
LEMMA LoopStep ==
  ASSUME IInv,
         \/ \E t \in Tasks, o \in StartOutcomes :
              StartTask(t, o) \/ RespondToHelp(t, o) \/ RestartTimer(t, o)
         \/ \E p \in Projects, o \in StartOutcomes : ProcessAll(p, o) \/ QueueTimer(p, o)
  PROVE  IInv'
<1> USE DEF IInv
<1>0. /\ task \in [Tasks -> Row]
      /\ processingAllQueue \in [Projects -> BOOLEAN]
      /\ queueTimers \in [Projects -> Nat]
      /\ restartTimers \in [Tasks -> Nat]
      /\ \A u \in Tasks : restartTimers[u] =< restartTimers[u]
  BY DEF TypeOK
<1>1. ASSUME NEW t \in Tasks, NEW o, Exists(t), RunStartTask(t, o),
             boot' = boot, restartTimers' = restartTimers,
             processingAllQueue' \in [Projects -> BOOLEAN],
             queueTimers' \in [Projects -> Nat]
      PROVE  IInv'
  <2> DEFINE tbl == MoveTask(task, t, "doing")
  <2>1. /\ tbl \in [Tasks -> Row]
        /\ \A u \in Tasks :
             /\ tbl[u].loopCount = task[u].loopCount
             /\ tbl[u].instanceId = task[u].instanceId
             /\ tbl[u].status # task[u].status => u = t /\ tbl[u].status \in Status
    BY <1>0, MovedTable DEF MoveTask, Status
  <2>2. RunLoop(tbl, t, o)
    BY <1>1 DEF RunStartTask
  <2> HIDE DEF tbl
  <2> QED BY <1>0, <1>1, <2>1, <2>2, RunLoopStep
<1>2. ASSUME NEW t \in Tasks, NEW o \in StartOutcomes, StartTask(t, o)
      PROVE  IInv'
  <2>1. /\ Exists(t) /\ RunStartTask(t, o)
        /\ UNCHANGED <<processingAllQueue, boot, timerVars>>
    BY <1>2 DEF StartTask
  <2> QED BY <1>0, <1>1, <2>1 DEF timerVars
<1>3. ASSUME NEW t \in Tasks, NEW o \in StartOutcomes, RespondToHelp(t, o)
      PROVE  IInv'
  <2> DEFINE tbl == ResumeTask(task, t)
  <2>1. /\ Exists(t)
        /\ \/ UNCHANGED <<task, instanceVars>>
           \/ RunLoop(tbl, t, o)
        /\ UNCHANGED <<processingAllQueue, boot, timerVars>>
    BY <1>3 DEF RespondToHelp
  <2>2. /\ tbl \in [Tasks -> Row]
       
        /\ \A u \in Tasks :
             /\ tbl[u].loopCount = task[u].loopCount
             /\ tbl[u].instanceId = task[u].instanceId
             /\ tbl[u].status = task[u].status
    BY <1>0, MovedTable DEF ResumeTask
  <2> HIDE DEF tbl
  <2>3. CASE UNCHANGED <<task, instanceVars>>
    <3>1. TypeOK'
      BY <2>1, <2>3 DEF TypeOK, instanceVars, timerVars
    <3> QED BY <1>0, <2>1, <2>3, <3>1, NoSpawnStep DEF instanceVars, timerVars, Exists
  <2>4. CASE RunLoop(tbl, t, o)
    BY <1>0, <2>1, <2>2, <2>4, RunLoopStep DEF timerVars
  <2> QED BY <2>1, <2>3, <2>4
<1>4. ASSUME NEW t \in Tasks, NEW o \in StartOutcomes, RestartTimer(t, o)
      PROVE  IInv'
  <2>1. /\ restartTimers[t] > 0
        /\ restartTimers' = [restartTimers EXCEPT ![t] = @ - 1]
        /\ UNCHANGED <<processingAllQueue, boot, queueTimers>>
    BY <1>4 DEF RestartTimer
  <2>2. /\ restartTimers' \in [Tasks -> Nat]
        /\ \A u \in Tasks : restartTimers'[u] =< restartTimers[u]
    BY <1>0, <2>1
  <2>3. CASE task[t].status = "doing" /\ ~task[t].isPaused
    <3>1. RunLoop(task, t, o) /\ Exists(t)
      BY <1>4, <2>3 DEF RestartTimer, Exists, Status
    <3> QED BY <1>0, <2>1, <2>2, <3>1, RunLoopStep
  <2>4. CASE ~(task[t].status = "doing" /\ ~task[t].isPaused)
    <3>1. UNCHANGED <<task, instanceVars>>
      BY <1>4, <2>4 DEF RestartTimer
    <3>2. TypeOK'
      BY <2>1, <2>2, <3>1 DEF TypeOK, instanceVars
    <3> QED BY <2>1, <2>2, <3>1, <3>2, NoSpawnStep DEF instanceVars, Exists
  <2> QED BY <2>3, <2>4
<1>5. ASSUME NEW p \in Projects, NEW o \in StartOutcomes, ProcessAll(p, o)
      PROVE  IInv'
  <2>1. PICK t \in PendingTasks(p) :
          /\ RunStartTask(t, o)
          /\ processingAllQueue' = [processingAllQueue EXCEPT ![p] = ~Crashes(t, o)]
    BY <1>5 DEF ProcessAll
  <2>2. t \in Tasks /\ Exists(t)
    BY DEF PendingTasks, Exists, Status
  <2>3. processingAllQueue' \in [Projects -> BOOLEAN]
    BY <1>0, <2>1, Zenon
  <2>4. UNCHANGED <<boot, timerVars>>
    BY <1>5 DEF ProcessAll
  <2> QED BY <1>0, <1>1, <2>1, <2>2, <2>3, <2>4 DEF timerVars
<1>6. ASSUME NEW p \in Projects, NEW o \in StartOutcomes, QueueTimer(p, o)
      PROVE  IInv'
  <2>1. /\ queueTimers[p] > 0
        /\ queueTimers' = [queueTimers EXCEPT ![p] = @ - 1]
        /\ UNCHANGED <<boot, restartTimers>>
    BY <1>6 DEF QueueTimer
  <2>2. queueTimers' \in [Projects -> Nat]
    BY <1>0, <2>1
  <2>3. CASE /\ \E t \in PendingTasks(p) : RunStartTask(t, o)
             /\ UNCHANGED processingAllQueue
    <3>1. PICK t \in PendingTasks(p) : RunStartTask(t, o)
      BY <2>3
    <3>2. t \in Tasks /\ Exists(t)
      BY DEF PendingTasks, Exists, Status
    <3> QED BY <1>0, <1>1, <2>1, <2>2, <2>3, <3>1, <3>2
  <2>4. CASE /\ processingAllQueue' = [processingAllQueue EXCEPT ![p] = FALSE]
             /\ UNCHANGED <<task, instanceVars>>
    <3>1. processingAllQueue' \in [Projects -> BOOLEAN]
      BY <1>0, <2>4
    <3>2. TypeOK'
      BY <2>1, <2>2, <2>4, <3>1 DEF TypeOK, instanceVars
    <3> QED BY <1>0, <2>1, <2>4, <3>2, NoSpawnStep DEF instanceVars, Exists
  <2> QED BY <1>6, <2>3, <2>4 DEF QueueTimer
<1> QED BY <1>2, <1>3, <1>4, <1>5, <1>6

(* A restart forgets everything but the table, the files and the ids.      *)
LEMMA RestartStep ==
  ASSUME IInv, Restart
  PROVE  IInv'
<1> USE DEF IInv
<1>1. /\ runningTasks' = {} /\ live' = {}
      /\ restartTimers' = [t \in Tasks |-> 0]
      /\ boot' = nextInstance
      /\ UNCHANGED <<task, nextInstance>>
  BY DEF Restart
<1>2. TypeOK'
  BY <1>1 DEF Restart, TypeOK
<1>3. IdsIssued' /\ NoneUnassigned' /\ IsFiniteSet(runningTasks')
  BY <1>1, FS_EmptySet DEF IdsIssued, NoneUnassigned
<1>4. CurrentInstanceTracked'
  BY <1>1 DEF CurrentInstanceTracked, Exists, IdsIssued, TypeOK, Row
<1>5. IterationBudget'
  <2> SUFFICES ASSUME NEW t \in Tasks
               PROVE  /\ restartTimers'[t] + Cardinality(Entries(t)') =< task'[t].loopCount
                      /\ task'[t].loopCount =< MaxLoop
    BY DEF IterationBudget
  <2>1. Entries(t)' = {}
    BY <1>1 DEF Entries
  <2>2. Cardinality(Entries(t)') = 0
    BY <2>1, FS_EmptySet
  <2>3. task[t].loopCount \in Nat /\ task[t].loopCount =< MaxLoop
    BY DEF TypeOK, Row, IterationBudget
  <2> QED BY <1>1, <2>2, <2>3
<1> QED BY <1>2, <1>3, <1>4, <1>5

LEMMA InitIInv == Init => IInv
<1> SUFFICES ASSUME Init PROVE IInv
  OBVIOUS
<1>1. TypeOK
  BY DEF Init, TypeOK, Row, NewRow
<1>2. IdsIssued /\ NoneUnassigned /\ CurrentInstanceTracked
  BY DEF Init, NewRow, IdsIssued, NoneUnassigned, CurrentInstanceTracked, Exists
<1>3. IsFiniteSet(runningTasks)
  BY FS_EmptySet DEF Init
<1>4. IterationBudget
  <2> SUFFICES ASSUME NEW t \in Tasks
               PROVE  /\ restartTimers[t] + Cardinality(Entries(t)) =< task[t].loopCount
                      /\ task[t].loopCount =< MaxLoop
    BY DEF IterationBudget
  <2>1. Entries(t) = {}
    BY DEF Init, Entries
  <2>2. Cardinality(Entries(t)) = 0
    BY <2>1, FS_EmptySet
  <2> QED BY <2>2 DEF Init, NewRow
<1> QED BY <1>1, <1>2, <1>3, <1>4 DEF IInv

LEMMA NextIInv == IInv /\ [Next]_vars => IInv'
<1> SUFFICES ASSUME IInv, [Next]_vars PROVE IInv'
  OBVIOUS
<1>1. ASSUME NEW t \in Tasks,
             \/ \E s \in Status : CreateTask(t, s)
             \/ \E s \in Status, paused \in BOOLEAN : EditTask(t, s, paused)
             \/ DeleteTask(t)
             \/ RequestHelp(t)
      PROVE  IInv'
  BY <1>1, BoardStep
<1>2. ASSUME NEW t \in Tasks, NEW o \in StartOutcomes,
             StartTask(t, o) \/ RespondToHelp(t, o) \/ RestartTimer(t, o)
      PROVE  IInv'
  BY <1>2, LoopStep
<1>3. ASSUME NEW t \in Tasks, StopTask(t)
      PROVE  IInv'
  <2>1. {t} \in SUBSET Tasks /\ StopTasks({t})
    BY <1>3 DEF StopTask
  <2>2. /\ processingAllQueue' \in [Projects -> BOOLEAN]
        /\ UNCHANGED <<boot, live, nextInstance, timerVars>>
    BY <1>3 DEF StopTask, IInv, TypeOK
  <2> QED BY <2>1, <2>2, StopTasksStep
<1>4. ASSUME NEW t \in Tasks, CompleteTask(t)
      PROVE  IInv'
  BY <1>4, CompleteTaskStep
<1>5. ASSUME NEW p \in Projects, NEW o \in StartOutcomes, ProcessAll(p, o) \/ QueueTimer(p, o)
      PROVE  IInv'
  BY <1>5, LoopStep
<1>6. ASSUME NEW p \in Projects, StopProcessAll(p)
      PROVE  IInv'
  <2>1. ActiveTasks(p) \in SUBSET Tasks /\ StopTasks(ActiveTasks(p))
    BY <1>6 DEF StopProcessAll, ActiveTasks
  <2>2. /\ processingAllQueue' \in [Projects -> BOOLEAN]
        /\ UNCHANGED <<boot, live, nextInstance, timerVars>>
    BY <1>6 DEF StopProcessAll, IInv, TypeOK
  <2> QED BY <2>1, <2>2, StopTasksStep
<1>7. ASSUME NEW r \in live, InstanceExit(r)
      PROVE  IInv'
  BY <1>7, InstanceExitStep
<1>8. CASE Restart
  BY <1>8, RestartStep
<1>9. CASE UNCHANGED vars
  <2>1. TypeOK'
    BY <1>9 DEF vars, instanceVars, timerVars, IInv, TypeOK
  <2>2. \A u \in Tasks : restartTimers'[u] =< restartTimers[u]
    BY <1>9 DEF vars, timerVars, IInv, TypeOK
  <2> QED BY <1>9, <2>1, <2>2, NoSpawnStep DEF vars, instanceVars, IInv, Exists
<1>10. ASSUME NEW r \in live, EndUnnoticed(r)
       PROVE  IInv'
  BY <1>10, EndUnnoticedStep
<1> QED BY <1>1, <1>2, <1>3, <1>4, <1>5, <1>6, <1>7, <1>8, <1>9, <1>10 DEF Next

----------------------------------------------------------------------------
(* In every behaviour the strengthened invariant holds.                    *)
THEOREM Invariance == Spec => []IInv
<1>1. Init => IInv
  BY InitIInv
<1>2. IInv /\ [Next]_vars => IInv'
  BY NextIInv
<1> QED BY <1>1, <1>2, PTL DEF Spec

(* The variables have their types, whatever the board, the agents, the     *)
(* timers and a restart of the application do.                             *)
THEOREM TypeCorrect == Spec => []TypeOK
<1>1. IInv => TypeOK
  BY DEF IInv
<1> QED BY <1>1, Invariance, PTL

(* The instance a row names is the one the loop tracks for that task, for  *)
(* any number of tasks and instances: the lookups by task id in stopTask   *)
(* and completeTask always drop an entry whose row they also clear.        *)
THEOREM RowsAgreeWithLoop == Spec => []CurrentInstanceTracked
<1>1. IInv => CurrentInstanceTracked
  BY DEF IInv
<1> QED BY <1>1, Invariance, PTL

(* No schedule of exits, restarts, starts, answers and queue timers makes  *)
(* a task iterate more often than it is counted, nor beyond the limit.     *)
THEOREM LoopIsBounded == Spec => []IterationBudget
<1>1. IInv => IterationBudget
  BY DEF IInv
<1> QED BY <1>1, Invariance, PTL

----------------------------------------------------------------------------
(* An entry appears only where runLoop found its table's row runnable.     *)
LEMMA NewEntry ==
  ASSUME TypeOK, NEW tbl \in [Tasks -> Row],
         NEW t \in Tasks, NEW o, RunLoop(tbl, t, o),
         NEW r \in runningTasks' \ runningTasks
  PROVE  r.taskId = t /\ MayIterate(tbl, t) /\ MayIterate(task', t)
<1>1. Idle(tbl) \/ Spawned(tbl, t)
  BY RunLoopEffect
<1>2. Spawned(tbl, t)
  BY <1>1 DEF Idle, instanceVars
<1> QED BY <1>2 DEF Spawned, MayIterate

LEMMA PauseStep ==
  ASSUME TypeOK, Next, NEW r \in runningTasks' \ runningTasks
  PROVE  /\ MayIterate(task', r.taskId)
         /\ task[r.taskId].isPaused
              => \E o \in Outcomes : RespondToHelp(r.taskId, o) \/ StartTask(r.taskId, o)
<1>1. ASSUME NEW t \in Tasks, NEW o, RunStartTask(t, o)
      PROVE  MayIterate(task', r.taskId) /\ ~task[r.taskId].isPaused
  <2> DEFINE tbl == MoveTask(task, t, "doing")
  <2>1. tbl \in [Tasks -> Row]
    BY MovedTable DEF TypeOK
  <2>2. tbl[t].isPaused = task[t].isPaused
    BY DEF TypeOK, MoveTask
  <2>3. RunLoop(tbl, t, o)
    BY <1>1 DEF RunStartTask
  <2> HIDE DEF tbl
  <2>4. r.taskId = t /\ MayIterate(tbl, t) /\ MayIterate(task', t)
    BY <2>1, <2>3, NewEntry
  <2> QED BY <2>2, <2>4 DEF MayIterate
<1>2. ASSUME NEW t \in Tasks, NEW o \in StartOutcomes, RespondToHelp(t, o)
      PROVE  /\ MayIterate(task', r.taskId)
             /\ \E out \in Outcomes : RespondToHelp(r.taskId, out)
  <2> DEFINE tbl == ResumeTask(task, t)
  <2>1. tbl \in [Tasks -> Row]
    BY MovedTable
  <2>2. RunLoop(tbl, t, o)
    BY <1>2 DEF RespondToHelp, instanceVars
  <2> HIDE DEF tbl
  <2>3. r.taskId = t /\ MayIterate(task', t)
    BY <2>1, <2>2, NewEntry
  <2> QED BY <1>2, <2>3
<1>3. ASSUME NEW t \in Tasks, NEW o \in StartOutcomes, RestartTimer(t, o)
      PROVE  MayIterate(task', r.taskId) /\ ~task[r.taskId].isPaused
  <2>1. ~task[t].isPaused /\ RunLoop(task, t, o)
    BY <1>3 DEF RestartTimer, instanceVars
  <2>2. task \in [Tasks -> Row]
    BY DEF TypeOK
  <2> QED BY <2>1, <2>2, NewEntry
<1>4. ASSUME NEW p \in Projects, NEW o \in StartOutcomes, ProcessAll(p, o) \/ QueueTimer(p, o)
      PROVE  MayIterate(task', r.taskId) /\ ~task[r.taskId].isPaused
  <2>1. PICK t \in PendingTasks(p) : RunStartTask(t, o)
    BY <1>4 DEF ProcessAll, QueueTimer, instanceVars
  <2> QED BY <1>1, <2>1 DEF PendingTasks
<1>5. ASSUME NEW t \in Tasks, NEW o \in StartOutcomes, StartTask(t, o)
      PROVE  MayIterate(task', r.taskId) /\ ~task[r.taskId].isPaused
  BY <1>1, <1>5 DEF StartTask
<1>6. ASSUME runningTasks' \subseteq runningTasks
      PROVE  FALSE
  BY <1>6
<1>7. ASSUME NEW t \in Tasks,
             \/ \E s \in Status : CreateTask(t, s)
             \/ \E s \in Status, paused \in BOOLEAN : EditTask(t, s, paused)
             \/ DeleteTask(t)
             \/ StopTask(t)
             \/ CompleteTask(t)
             \/ RequestHelp(t)
      PROVE  FALSE
  BY <1>6, <1>7 DEF CreateTask, EditTask, DeleteTask, StopTask, StopTasks, CompleteTask,
                    RequestHelp, instanceVars
<1>8. ASSUME \/ \E p \in Projects : StopProcessAll(p)
             \/ \E x \in live : InstanceExit(x) \/ EndUnnoticed(x)
             \/ Restart
      PROVE  FALSE
  BY <1>6, <1>8 DEF StopProcessAll, StopTasks, InstanceExit, EndUnnoticed, Restart
<1> QED BY <1>2, <1>3, <1>4, <1>5, <1>7, <1>8 DEF Next

(* No timer and no queue makes a paused task iterate, whatever was pending *)
(* or queued when it was paused: only a request for this task could.       *)
THEOREM PausedTasksStay == Spec => PauseHolds
<1>1. TypeOK /\ [Next]_vars
      => [\A r \in runningTasks' \ runningTasks :
            /\ MayIterate(task', r.taskId)
            /\ task[r.taskId].isPaused
                 => \E o \in Outcomes : RespondToHelp(r.taskId, o) \/ StartTask(r.taskId, o)]_vars
  BY PauseStep
<1> QED BY <1>1, TypeCorrect, PTL DEF Spec, PauseHolds

----------------------------------------------------------------------------
(* What a step does to the counts: nothing, or one new instance is counted *)
(* on one task.                                                            *)
CountsKept ==
  /\ nextInstance' = nextInstance
  /\ \A u \in Tasks : task'[u].loopCount = task[u].loopCount

CountedOn(t) ==
  /\ nextInstance' = nextInstance + 1
  /\ task[t].loopCount < MaxLoop
  /\ \A u \in Tasks :
       task'[u].loopCount = IF u = t THEN task[u].loopCount + 1 ELSE task[u].loopCount

LEMMA RunLoopCounts ==
  ASSUME TypeOK, NEW tbl \in [Tasks -> Row],
         NEW t \in Tasks, NEW o, RunLoop(tbl, t, o),
         \A u \in Tasks : tbl[u].loopCount = task[u].loopCount
  PROVE  CountsKept \/ CountedOn(t)
<1>1. Idle(tbl) \/ Spawned(tbl, t)
  BY RunLoopEffect
<1>2. CASE Idle(tbl)
  BY <1>2 DEF Idle, CountsKept, instanceVars
<1>3. CASE Spawned(tbl, t)
  BY <1>3 DEF Spawned, BelowLimit, CountedOn
<1> QED BY <1>1, <1>2, <1>3

LEMMA CountStep ==
  ASSUME TypeOK, [Next]_vars
  PROVE  CountsKept \/ \E t \in Tasks : CountedOn(t)
<1>0. /\ task \in [Tasks -> Row]
  BY DEF TypeOK
<1>1. ASSUME NEW t \in Tasks, NEW o, RunStartTask(t, o)
      PROVE  CountsKept \/ CountedOn(t)
  <2> DEFINE tbl == MoveTask(task, t, "doing")
  <2>1. tbl \in [Tasks -> Row] /\ \A u \in Tasks : tbl[u].loopCount = task[u].loopCount
    BY <1>0, MovedTable DEF MoveTask
  <2>2. RunLoop(tbl, t, o)
    BY <1>1 DEF RunStartTask
  <2> HIDE DEF tbl
  <2> QED BY <1>0, <2>1, <2>2, RunLoopCounts
<1>2. ASSUME NEW t \in Tasks, NEW o \in StartOutcomes, StartTask(t, o)
      PROVE  CountsKept \/ CountedOn(t)
  BY <1>1, <1>2 DEF StartTask
<1>3. ASSUME NEW t \in Tasks, NEW o \in StartOutcomes, RespondToHelp(t, o)
      PROVE  CountsKept \/ CountedOn(t)
  <2> DEFINE tbl == ResumeTask(task, t)
  <2>1. /\ tbl \in [Tasks -> Row]
        /\ \A u \in Tasks : tbl[u].loopCount = task[u].loopCount
    BY <1>0, MovedTable DEF ResumeTask
  <2>2. UNCHANGED <<task, nextInstance>> \/ RunLoop(tbl, t, o)
    BY <1>3 DEF RespondToHelp, instanceVars
  <2> HIDE DEF tbl
  <2> QED BY <2>1, <2>2, RunLoopCounts DEF CountsKept
<1>4. ASSUME NEW t \in Tasks, NEW o \in StartOutcomes, RestartTimer(t, o)
      PROVE  CountsKept \/ CountedOn(t)
  <2>1. UNCHANGED <<task, nextInstance>> \/ RunLoop(task, t, o)
    BY <1>4 DEF RestartTimer, instanceVars
  <2> QED BY <1>0, <2>1, RunLoopCounts DEF CountsKept
<1>5. ASSUME NEW p \in Projects, NEW o \in StartOutcomes, ProcessAll(p, o) \/ QueueTimer(p, o)
      PROVE  CountsKept \/ \E t \in Tasks : CountedOn(t)
  <2>1. \/ UNCHANGED <<task, nextInstance>>
        \/ \E t \in PendingTasks(p) : RunStartTask(t, o)
    BY <1>5 DEF ProcessAll, QueueTimer, instanceVars
  <2> QED BY <1>1, <2>1 DEF CountsKept, PendingTasks
<1>6. ASSUME NEW t \in Tasks, \/ \E s \in Status : CreateTask(t, s)
                              \/ \E s \in Status, paused \in BOOLEAN : EditTask(t, s, paused)
                              \/ DeleteTask(t)
                              \/ RequestHelp(t)
      PROVE  CountsKept
  <2>1. nextInstance' = nextInstance
    BY <1>6 DEF CreateTask, EditTask, DeleteTask, RequestHelp, instanceVars
  <2>2. \A u \in Tasks : task'[u].loopCount = task[u].loopCount
    <3>1. CASE \E s \in Status : CreateTask(t, s)
      BY <1>0, <3>1 DEF CreateTask, Row
    <3>2. CASE \E s \in Status, paused \in BOOLEAN : EditTask(t, s, paused)
      BY <1>0, <3>2 DEF EditTask, Row
    <3>3. CASE DeleteTask(t)
      BY <1>0, <3>3 DEF DeleteTask, Row
    <3>4. CASE RequestHelp(t)
      BY <1>0, <3>4, PausedTable DEF RequestHelp
    <3> QED BY <1>6, <3>1, <3>2, <3>3, <3>4
  <2> QED BY <2>1, <2>2 DEF CountsKept
<1>7. ASSUME NEW ts, StopTasks(ts), nextInstance' = nextInstance PROVE CountsKept
  <2>1. \A u \in Tasks : task'[u].loopCount = task[u].loopCount
    BY <1>0, <1>7 DEF StopTasks, Row
  <2> QED BY <1>7, <2>1 DEF CountsKept
<1>8. ASSUME NEW t \in Tasks, CompleteTask(t) PROVE CountsKept
  <2>1. (task' = task \/ task' = MarkDone(task, t)) /\ nextInstance' = nextInstance
    BY <1>8 DEF CompleteTask
  <2>2. \A u \in Tasks : MarkDone(task, t)[u].loopCount = task[u].loopCount
    BY <1>0 DEF MarkDone, Row
  <2> QED BY <2>1, <2>2 DEF CountsKept
<1>9. ASSUME NEW r \in live, InstanceExit(r) PROVE CountsKept
  <2>1. (task' = task \/ task' = SetTaskInstance(task, r.taskId, 0)) /\ nextInstance' = nextInstance
    BY <1>9 DEF InstanceExit
  <2>2. r.taskId \in Tasks
    BY DEF TypeOK, Running
  <2>3. \A u \in Tasks : SetTaskInstance(task, r.taskId, 0)[u].loopCount = task[u].loopCount
    BY <1>0, <2>2 DEF SetTaskInstance, Row
  <2> QED BY <2>1, <2>3 DEF CountsKept
<1>10. CASE Restart \/ \E r \in live : EndUnnoticed(r)
  BY <1>10 DEF Restart, EndUnnoticed, CountsKept
<1>11. CASE UNCHANGED vars
  BY <1>11 DEF vars, instanceVars, CountsKept
<1>12. ASSUME NEW t \in Tasks, StopTask(t) PROVE CountsKept
  BY <1>7, <1>12 DEF StopTask
<1>13. ASSUME NEW p \in Projects, StopProcessAll(p) PROVE CountsKept
  BY <1>7, <1>13 DEF StopProcessAll
<1> QED BY <1>2, <1>3, <1>4, <1>5, <1>6, <1>8, <1>9, <1>10, <1>11, <1>12, <1>13 DEF Next

(* An iteration that is counted is one more element of Counted.            *)
CountInv == IsFiniteSet(Counted) /\ EverySpawnCounted

LEMMA InitCount == Init => CountInv
<1> SUFFICES ASSUME Init PROVE CountInv
  OBVIOUS
<1>1. \A t \in Tasks : 1 .. task[t].loopCount = {}
  BY DEF Init, NewRow
<1>2. Counted = {}
  BY <1>1 DEF Counted
<1> QED BY <1>2, FS_EmptySet DEF Init, CountInv, EverySpawnCounted

LEMMA NextCount == TypeOK /\ CountInv /\ [Next]_vars => CountInv'
<1> SUFFICES ASSUME TypeOK, CountInv, [Next]_vars PROVE CountInv'
  OBVIOUS
<1>1. CASE CountsKept
  <2>1. Counted' = Counted
    BY <1>1 DEF CountsKept, Counted
  <2> QED BY <1>1, <2>1 DEF CountsKept, CountInv, EverySpawnCounted
<1>2. ASSUME NEW t \in Tasks, CountedOn(t) PROVE CountInv'
  <2> DEFINE n == task[t].loopCount
             x == <<t, n + 1>>
  <2>1. n \in Nat /\ nextInstance \in Nat
    BY DEF TypeOK, Row
  <2>2. 1 .. (n + 1) = (1 .. n) \cup {n + 1} /\ n + 1 \notin 1 .. n
    BY <2>1
  <2>3. /\ task'[t].loopCount = n + 1
        /\ \A u \in Tasks : u # t => task'[u].loopCount = task[u].loopCount
    BY <1>2 DEF CountedOn
  <2>4. Counted' = Counted \cup {x}
    <3> DEFINE of(u) == {u} \X (1 .. task[u].loopCount)
               ofNext(u) == {u} \X (1 .. task'[u].loopCount)
    <3>1. Counted = UNION {of(u) : u \in Tasks} /\ Counted' = UNION {ofNext(u) : u \in Tasks}
      BY DEF Counted
    <3>2. \A u \in Tasks : u # t => ofNext(u) = of(u)
      BY <2>3
    <3>3. ofNext(t) = of(t) \cup {x}
      BY <2>2, <2>3
    <3> HIDE DEF of, ofNext, x
    <3> QED BY <3>1, <3>2, <3>3
  <2>5. x \notin Counted
    BY <2>2 DEF Counted
  <2>6. IsFiniteSet(Counted') /\ Cardinality(Counted') = Cardinality(Counted) + 1
    BY <2>4, <2>5, FS_AddElement DEF CountInv
  <2> QED BY <1>2, <2>1, <2>6 DEF CountedOn, CountInv, EverySpawnCounted
<1> QED BY <1>1, <1>2, CountStep

(* loopCount counts: whatever fails, is paused, completed, deleted or cut  *)
(* short by a restart, the counts of the tasks add up to the instances that*)
(* were started.                                                           *)
THEOREM SpawnsAreCounted == Spec => []EverySpawnCounted
<1>1. CountInv => EverySpawnCounted
  BY DEF CountInv
<1> QED BY <1>1, InitCount, NextCount, TypeCorrect, PTL DEF Spec

(* A board with finitely many tasks never starts more CLI processes than   *)
(* its tasks times the iteration limit, whatever users and agents request, *)
(* and however often the application is restarted.                         *)
SpawnsBounded == nextInstance - 1 =< Cardinality(Tasks) * MaxLoop

THEOREM SpawnsAreBounded == ASSUME IsFiniteSet(Tasks) PROVE Spec => []SpawnsBounded
<1>1. CountInv /\ TypeOK /\ IterationBudget => SpawnsBounded
  <2> SUFFICES ASSUME CountInv, TypeOK, IterationBudget PROVE SpawnsBounded
    OBVIOUS
  <2>1. Counted \subseteq Tasks \X (1 .. MaxLoop)
    BY DEF Counted, TypeOK, Row, IterationBudget
  <2>2. IsFiniteSet(1 .. MaxLoop) /\ Cardinality(1 .. MaxLoop) = MaxLoop
    BY FS_Interval
  <2>3. /\ IsFiniteSet(Tasks \X (1 .. MaxLoop))
        /\ Cardinality(Tasks \X (1 .. MaxLoop)) = Cardinality(Tasks) * MaxLoop
    BY <2>2, FS_Product
  <2>4. Cardinality(Counted) =< Cardinality(Tasks \X (1 .. MaxLoop))
    BY <2>1, <2>3, FS_Subset
  <2> QED BY <2>3, <2>4 DEF CountInv, EverySpawnCounted, SpawnsBounded
<1> QED BY <1>1, InitCount, NextCount, TypeCorrect, LoopIsBounded, PTL DEF Spec

----------------------------------------------------------------------------
(* The safety core of LoopParks.                                           *)

(* A loop that is at work stays so as long as nothing of it is dropped.    *)
LEMMA LoopStays ==
  ASSUME NEW t \in Tasks, HasLoop(t), live \subseteq live',
         Entries(t) \subseteq runningTasks', restartTimers'[t] = restartTimers[t]
  PROVE  HasLoop(t)'
<1>1. Entries(t) \subseteq Entries(t)'
  BY DEF Entries
<1> QED BY <1>1 DEF HasLoop

(* runLoop drops nothing.                                                  *)
LEMMA RunLoopDropsNothing ==
  ASSUME NEW tbl, NEW t, NEW o, RunLoop(tbl, t, o)
  PROVE  live \subseteq live' /\ runningTasks \subseteq runningTasks'
BY DEF RunLoop, Spawn, FailToSpawn, instanceVars

(* An exit the loop hears of schedules the restart of its task.            *)
LEMMA ExitGoesOn ==
  ASSUME TypeOK, NEW t \in Tasks, Working(t), NEW r \in live, InstanceExit(r)
  PROVE  HasLoop(t)'
<1>1. live' = live \ {r}
  BY DEF InstanceExit
<1>2. restartTimers \in [Tasks -> Nat] /\ r.taskId \in Tasks
  BY DEF TypeOK, Running
<1>3. CASE r \notin runningTasks
  <2>1. runningTasks' = runningTasks /\ restartTimers' = restartTimers
    BY <1>3 DEF InstanceExit
  <2>2. Entries(t)' = Entries(t) /\ r \notin Entries(t)
    BY <1>3, <2>1 DEF Entries
  <2> QED BY <1>1, <2>1, <2>2 DEF HasLoop, Working
<1>4. CASE r \in runningTasks /\ r.taskId # t
  <2>1. /\ runningTasks' = runningTasks \ {r}
        /\ \/ restartTimers' = restartTimers
           \/ restartTimers' = [restartTimers EXCEPT ![r.taskId] = @ + 1]
    BY <1>4 DEF InstanceExit
  <2>2. restartTimers'[t] = restartTimers[t]
    BY <1>2, <1>4, <2>1
  <2>3. Entries(t)' = Entries(t) /\ r \notin Entries(t)
    BY <1>4, <2>1 DEF Entries
  <2> QED BY <1>1, <2>2, <2>3 DEF HasLoop, Working
<1>5. CASE r \in runningTasks /\ r.taskId = t
  <2>1. MayIterate(task, t)
    BY DEF Working, MayIterate
  <2>2. restartTimers' = [restartTimers EXCEPT ![t] = @ + 1]
    BY <1>5, <2>1 DEF InstanceExit
  <2>3. restartTimers'[t] > 0
    BY <1>2, <2>2
  <2> QED BY <2>3 DEF HasLoop
<1> QED BY <1>3, <1>4, <1>5

(* The timer that fires starts the next iteration, or pauses the task.     *)
LEMMA TimerGoesOn ==
  ASSUME TypeOK, NEW t \in Tasks, Working(t), NEW o \in StartOutcomes, RestartTimer(t, o),
         o \notin {"stillborn", "unwritable"}
  PROVE  HasLoop(t)' \/ Parked(t)'
<1>1. MayIterate(task, t) /\ RunLoop(task, t, o)
  BY DEF Working, MayIterate, RestartTimer
<1>2. PauseTask(task, t)[t].isPaused
  BY DEF PauseTask, TypeOK, Row
<1>3. CASE task' = PauseTask(task, t)
  BY <1>2, <1>3 DEF Parked
<1>4. CASE o = "running" /\ Spawn(task, t, o)
  <2> DEFINE r == [instanceId |-> nextInstance, taskId |-> t]
  <2>1. r \in runningTasks' /\ r \in live'
    BY <1>4 DEF Spawn
  <2>2. r \in Entries(t)'
    BY <2>1 DEF Entries
  <2> QED BY <2>1, <2>2 DEF HasLoop
<1>5. o \in {"running", "threw"}
  BY DEF Outcomes
<1>6. task' = PauseTask(task, t) \/ (o = "running" /\ Spawn(task, t, o))
  BY <1>1, <1>5 DEF RunLoop, Spawn, FailToSpawn
<1> QED BY <1>3, <1>4, <1>6

(* A loop at work is only lost with the application, at an end that nobody *)
(* notices, or when the timer starts an instance that never exits, or fails*)
(* to write the context file.                                              *)
LEMMA WorkStep ==
  ASSUME TypeOK, [Next]_vars, NEW t \in Tasks, Working(t), ~Restart,
         \A r \in live : ~EndUnnoticed(r),
         \A o \in {"stillborn", "unwritable"} : ~RestartTimer(t, o)
  PROVE  HasLoop(t)' \/ Parked(t)'
<1>0. HasLoop(t) /\ Exists(t) /\ task[t].status = "doing"
  BY DEF Working, Exists, Status
<1>1. Entries(t) \subseteq runningTasks
  BY DEF Entries
<1>2. ASSUME NEW tbl, NEW u, NEW o, RunLoop(tbl, u, o),
             restartTimers'[t] = restartTimers[t]
      PROVE  HasLoop(t)'
  BY <1>0, <1>1, <1>2, RunLoopDropsNothing, LoopStays
<1>3. ASSUME UNCHANGED instanceVars, restartTimers'[t] = restartTimers[t]
      PROVE  HasLoop(t)'
  BY <1>0, <1>1, <1>3, LoopStays DEF instanceVars
<1>4. ASSUME NEW u \in Tasks, NEW o \in StartOutcomes, StartTask(u, o) \/ RespondToHelp(u, o)
      PROVE  HasLoop(t)'
  <2>1. restartTimers'[t] = restartTimers[t]
    BY <1>4 DEF StartTask, RespondToHelp, timerVars
  <2>2. UNCHANGED instanceVars \/ \E tbl : RunLoop(tbl, u, o)
    BY <1>4 DEF StartTask, RunStartTask, RespondToHelp
  <2> QED BY <1>2, <1>3, <2>1, <2>2
<1>5. ASSUME NEW p \in Projects, NEW o \in StartOutcomes, ProcessAll(p, o) \/ QueueTimer(p, o)
      PROVE  HasLoop(t)'
  <2>1. restartTimers'[t] = restartTimers[t]
    BY <1>5 DEF ProcessAll, QueueTimer, timerVars
  <2>2. UNCHANGED instanceVars \/ \E tbl, u : RunLoop(tbl, u, o)
    BY <1>5 DEF ProcessAll, QueueTimer, RunStartTask
  <2> QED BY <1>2, <1>3, <2>1, <2>2
<1>6. ASSUME NEW u \in Tasks, NEW o \in StartOutcomes, RestartTimer(u, o)
      PROVE  HasLoop(t)' \/ Parked(t)'
  <2>1. CASE u = t
    BY <1>6, <2>1, TimerGoesOn
  <2>2. CASE u # t
    <3>1. restartTimers'[t] = restartTimers[t]
      BY <1>6, <2>2 DEF RestartTimer, TypeOK
    <3>2. UNCHANGED instanceVars \/ RunLoop(task, u, o)
      BY <1>6 DEF RestartTimer
    <3> QED BY <1>2, <1>3, <3>1, <3>2
  <2> QED BY <2>1, <2>2
<1>7. ASSUME NEW ts \in SUBSET Tasks, StopTasks(ts),
             UNCHANGED <<live, nextInstance, timerVars>>
      PROVE  HasLoop(t)' \/ Parked(t)'
  <2>1. CASE t \in ts
    BY <1>0, <1>7, <2>1 DEF StopTasks, Parked, TypeOK, Row
  <2>2. CASE t \notin ts
    <3>0. /\ runningTasks' = runningTasks \ FirstEntries(ts)
          /\ FirstEntries(ts) \subseteq {r \in runningTasks : r.taskId \in ts}
      BY <1>7, FirstEntriesOfTasks DEF StopTasks
    <3>1. Entries(t) \subseteq runningTasks'
      BY <2>2, <3>0 DEF Entries
    <3> QED BY <1>0, <1>7, <3>1, LoopStays DEF timerVars
  <2> QED BY <2>1, <2>2
<1>8. ASSUME NEW u \in Tasks, StopTask(u) PROVE HasLoop(t)' \/ Parked(t)'
  <2>1. {u} \in SUBSET Tasks /\ StopTasks({u}) /\ UNCHANGED <<live, nextInstance, timerVars>>
    BY <1>8 DEF StopTask
  <2> QED BY <1>7, <2>1
<1>9. ASSUME NEW p \in Projects, StopProcessAll(p) PROVE HasLoop(t)' \/ Parked(t)'
  <2>1. /\ ActiveTasks(p) \in SUBSET Tasks /\ StopTasks(ActiveTasks(p))
        /\ UNCHANGED <<live, nextInstance, timerVars>>
    BY <1>9 DEF StopProcessAll, ActiveTasks
  <2> QED BY <1>7, <2>1
<1>10. ASSUME NEW u \in Tasks, CompleteTask(u) PROVE HasLoop(t)' \/ Parked(t)'
  <2>1. /\ runningTasks' = runningTasks \ FirstEntries({u})
        /\ live' = live /\ restartTimers' = restartTimers
        /\ Exists(u) => task' = MarkDone(task, u)
    BY <1>10 DEF CompleteTask
  <2>2. CASE u = t
    <3>1. MarkDone(task, t)[t].status = "done"
      BY DEF TypeOK, Row, MarkDone
    <3> QED BY <1>0, <2>1, <2>2, <3>1 DEF Parked
  <2>3. CASE u # t
    <3>1. Entries(t) \subseteq runningTasks'
      BY <2>1, <2>3, FirstEntriesOfTasks DEF Entries
    <3> QED BY <1>0, <2>1, <3>1, LoopStays
  <2> QED BY <2>2, <2>3
<1>11. ASSUME NEW u \in Tasks,
              \/ \E s \in Status : CreateTask(u, s)
              \/ \E s \in Status, paused \in BOOLEAN : EditTask(u, s, paused)
              \/ DeleteTask(u)
              \/ RequestHelp(u)
       PROVE  HasLoop(t)'
  <2>1. UNCHANGED instanceVars /\ restartTimers'[t] = restartTimers[t]
    BY <1>11 DEF CreateTask, EditTask, DeleteTask, RequestHelp, timerVars
  <2> QED BY <1>3, <2>1
<1>12. ASSUME NEW r \in live, InstanceExit(r) PROVE HasLoop(t)'
  BY <1>12, ExitGoesOn
<1>13. CASE UNCHANGED vars
  BY <1>3, <1>13 DEF vars, timerVars
<1> QED BY <1>4, <1>5, <1>6, <1>8, <1>9, <1>10, <1>11, <1>12, <1>13 DEF Next

(* Whatever exits, timers, requests and queues interleave, for any number  *)
(* of tasks and instances, the loop of a task at work is only lost in the  *)
(* ways LoopsGoOn names.                                                   *)
THEOREM NoLoopIsLost == Spec => LoopsGoOn
<1>1. TypeOK /\ [Next]_vars
      => [\A t \in Tasks :
            Working(t) => \/ Working(t)' \/ Parked(t)'
                          \/ Restart
                          \/ \E r \in live : EndUnnoticed(r)
                          \/ \E o \in {"stillborn", "unwritable"} : RestartTimer(t, o)]_vars
  BY WorkStep DEF Working, Parked
<1> QED BY <1>1, TypeCorrect, PTL DEF Spec, LoopsGoOn

----------------------------------------------------------------------------
(***************************************************************************)
(* One agent at a time.  runLoop does not look whether an instance of the  *)
(* task is alive: startTask, an answered request for help, and a task      *)
(* dragged back to "todo" start one beside it.  Where the queue and the    *)
(* loop alone start instances, a todo task has none, and the loop waits    *)
(* for the exit before it schedules the next.                              *)
(***************************************************************************)
QueueOnly == UserOps \cap {"edit", "start", "respond"} = {}

Agents(t) == {r \in live : r.taskId = t}

Unstarted(t) == task[t].status \in {"none", "todo"}

SoloOf(t) ==
  /\ Unstarted(t) => restartTimers[t] = 0 /\ Agents(t) = {}
  /\ restartTimers[t] \in {0, 1}
  /\ restartTimers[t] = 1 => Agents(t) = {}
  /\ \A r, s \in Agents(t) : r = s

Solo == \A t \in Tasks : SoloOf(t)

(* Nothing is started for t.                                               *)
LEMMA SoloKept ==
  ASSUME NEW t \in Tasks, SoloOf(t), Agents(t)' \subseteq Agents(t),
         restartTimers'[t] \in {0, restartTimers[t]}, Unstarted(t)' => Unstarted(t)
  PROVE  SoloOf(t)'
BY DEF SoloOf

(* The loop is run on a task that has no instance, or an exit was handled. *)
LEMMA SoloStarted ==
  ASSUME NEW t \in Tasks, NEW x, Agents(t)' \subseteq {x}, restartTimers'[t] = 0,
         ~Unstarted(t)'
  PROVE  SoloOf(t)'
BY DEF SoloOf

(* What runLoop does to the instances of a task.                           *)
LEMMA RunLoopAgents ==
  ASSUME TypeOK, NEW tbl \in [Tasks -> Row],
         NEW t \in Tasks, NEW o, RunLoop(tbl, t, o), NEW u \in Tasks
  PROVE  /\ task'[u].status = tbl[u].status
         /\ Agents(u)' \subseteq IF u = t
                                THEN Agents(t) \cup {[instanceId |-> nextInstance, taskId |-> t]}
                                ELSE Agents(u)
<1>1. Idle(tbl) \/ Spawned(tbl, t)
  BY RunLoopEffect
<1>2. live' \subseteq live \cup {[instanceId |-> nextInstance, taskId |-> t]}
  BY <1>1 DEF Idle, Spawned, instanceVars
<1>3. task'[u].status = tbl[u].status
  BY <1>1 DEF Idle, Spawned
<1> QED BY <1>2, <1>3 DEF Agents

(* A run of the loop on a task without instances and timers keeps Solo.    *)
LEMMA SoloRun ==
  ASSUME TypeOK, Solo, NEW tbl \in [Tasks -> Row],
         NEW t \in Tasks, NEW o, RunLoop(tbl, t, o),
         Agents(t) = {}, restartTimers'[t] = 0, tbl[t].status = "doing",
         \A u \in Tasks : u # t => /\ restartTimers'[u] = restartTimers[u]
                                  /\ tbl[u].status = task[u].status
  PROVE  Solo'
<1>1. ASSUME NEW u \in Tasks, u # t PROVE SoloOf(u)'
  <2>1. Agents(u)' \subseteq Agents(u) /\ task'[u].status = task[u].status
    BY <1>1, RunLoopAgents
  <2>2. SoloOf(u) /\ restartTimers'[u] = restartTimers[u]
    BY <1>1 DEF Solo
  <2> QED BY <2>1, <2>2, SoloKept DEF Unstarted
<1>2. SoloOf(t)'
  <2>1. /\ task'[t].status = "doing"
        /\ Agents(t)' \subseteq {[instanceId |-> nextInstance, taskId |-> t]}
    BY RunLoopAgents
  <2> QED BY <2>1, SoloStarted DEF Unstarted
<1> QED BY <1>1, <1>2 DEF Solo

(* runStartTask on a task that was not started.                            *)
LEMMA SoloStart ==
  ASSUME TypeOK, Solo, NEW t \in Tasks, task[t].status = "todo", NEW o,
         RunStartTask(t, o), restartTimers' = restartTimers
  PROVE  Solo'
<1>1. Agents(t) = {} /\ restartTimers[t] = 0
  BY DEF Solo, SoloOf, Unstarted
<1>2. MoveTask(task, t, "doing") \in [Tasks -> Row]
  BY MovedTable DEF TypeOK
<1>3. \A u \in Tasks : MoveTask(task, t, "doing")[u].status
                          = IF u = t THEN "doing" ELSE task[u].status
  BY DEF MoveTask, TypeOK, Row
<1> QED BY <1>1, <1>2, <1>3, SoloRun DEF RunStartTask

(* Steps in which no instance and no timer comes, and no task goes back.   *)
LEMMA SoloQuiet ==
  ASSUME Solo, live' \subseteq live,
         \A t \in Tasks : /\ restartTimers'[t] \in {0, restartTimers[t]}
                          /\ Unstarted(t)' => Unstarted(t)
  PROVE  Solo'
<1>1. \A t \in Tasks : Agents(t)' \subseteq Agents(t)
  BY DEF Agents
<1> QED BY <1>1, SoloKept DEF Solo

(* An exit leaves the task without instances, and at most then a timer.    *)
LEMMA SoloExit ==
  ASSUME TypeOK, Solo, NEW r \in live, InstanceExit(r)
  PROVE  Solo'
<1>1. r.taskId \in Tasks /\ restartTimers \in [Tasks -> Nat] /\ task \in [Tasks -> Row]
  BY DEF TypeOK, Running
<1>2. /\ live' = live \ {r}
      /\ \A t \in Tasks : task'[t].status = task[t].status
      /\ \/ restartTimers' = restartTimers
         \/ restartTimers' = [restartTimers EXCEPT ![r.taskId] = @ + 1]
  BY <1>1 DEF InstanceExit, SetTaskInstance, Row
<1>3. ASSUME NEW t \in Tasks PROVE SoloOf(t)'
  <2>1. Agents(t)' \subseteq Agents(t) /\ (Unstarted(t)' <=> Unstarted(t)) /\ SoloOf(t)
    BY <1>2 DEF Agents, Unstarted, Solo
  <2>2. CASE restartTimers'[t] = restartTimers[t]
    BY <2>1, <2>2, SoloKept
  <2>3. CASE restartTimers'[t] # restartTimers[t]
    <3>1. t = r.taskId /\ restartTimers'[t] = restartTimers[t] + 1
      BY <1>1, <1>2, <2>3
    <3>2. r \in Agents(t) /\ restartTimers[t] = 0 /\ ~Unstarted(t)
      BY <2>1, <3>1 DEF Agents, SoloOf
    <3>3. Agents(t)' = {}
      BY <1>2, <2>1, <3>2 DEF Agents, SoloOf
    <3> QED BY <2>1, <3>1, <3>2, <3>3 DEF SoloOf
  <2> QED BY <2>2, <2>3
<1> QED BY <1>3 DEF Solo

LEMMA NextSolo ==
  ASSUME QueueOnly
  PROVE  TypeOK /\ Solo /\ [Next]_vars => Solo'
<1> SUFFICES ASSUME TypeOK, Solo, [Next]_vars PROVE Solo'
  OBVIOUS
<1>0. task \in [Tasks -> Row] /\ restartTimers \in [Tasks -> Nat]
  BY DEF TypeOK
<1>1. ASSUME NEW t \in Tasks, NEW s \in Status, CreateTask(t, s) PROVE Solo'
  <2>1. \A u \in Tasks : Unstarted(u)' => Unstarted(u)
    BY <1>0, <1>1 DEF CreateTask, Unstarted, Row
  <2>2. live' = live /\ restartTimers' = restartTimers
    BY <1>1 DEF CreateTask, instanceVars, timerVars
  <2> QED BY <2>1, <2>2, SoloQuiet
<1>2. ASSUME NEW t \in Tasks, DeleteTask(t) \/ RequestHelp(t) PROVE Solo'
  <2>1. \A u \in Tasks : Unstarted(u)' => Unstarted(u)
    BY <1>0, <1>2 DEF DeleteTask, RequestHelp, PauseTask, Unstarted, Row
  <2>2. live' = live /\ restartTimers' = restartTimers
    BY <1>2 DEF DeleteTask, RequestHelp, instanceVars, timerVars
  <2> QED BY <2>1, <2>2, SoloQuiet
<1>3. ASSUME NEW ts, StopTasks(ts), UNCHANGED <<live, restartTimers>> PROVE Solo'
  <2>1. \A u \in Tasks : Unstarted(u)' => Unstarted(u)
    BY <1>0, <1>3 DEF StopTasks, Unstarted, Row
  <2> QED BY <1>3, <2>1, SoloQuiet
<1>4. ASSUME NEW t \in Tasks, StopTask(t) PROVE Solo'
  BY <1>3, <1>4 DEF StopTask, timerVars
<1>5. ASSUME NEW p \in Projects, StopProcessAll(p) PROVE Solo'
  BY <1>3, <1>5 DEF StopProcessAll, timerVars
<1>6. ASSUME NEW t \in Tasks, CompleteTask(t) PROVE Solo'
  <2>1. task' = task \/ task' = MarkDone(task, t)
    BY <1>6 DEF CompleteTask
  <2>2. \A u \in Tasks : Unstarted(u)' => Unstarted(u)
    BY <1>0, <2>1 DEF MarkDone, Unstarted, Row
  <2>3. live' = live /\ restartTimers' = restartTimers
    BY <1>6 DEF CompleteTask
  <2> QED BY <2>2, <2>3, SoloQuiet
<1>7. ASSUME NEW p \in Projects, NEW o, ProcessAll(p, o) PROVE Solo'
  BY <1>7, SoloStart DEF ProcessAll, PendingTasks, timerVars
<1>8. ASSUME NEW p \in Projects, NEW o, QueueTimer(p, o) PROVE Solo'
  <2>1. restartTimers' = restartTimers
    BY <1>8 DEF QueueTimer
  <2>2. CASE \E t \in PendingTasks(p) : RunStartTask(t, o)
    BY <2>1, <2>2, SoloStart DEF PendingTasks
  <2>3. CASE UNCHANGED <<task, live>>
    BY <2>1, <2>3, SoloQuiet DEF Unstarted
  <2> QED BY <1>8, <2>2, <2>3 DEF QueueTimer, instanceVars
<1>9. ASSUME NEW t \in Tasks, NEW o, RestartTimer(t, o) PROVE Solo'
  <2>1. restartTimers[t] = 1 /\ Agents(t) = {}
    BY <1>9 DEF Solo, SoloOf, RestartTimer
  <2>2. \A u \in Tasks : restartTimers'[u] = IF u = t THEN 0 ELSE restartTimers[u]
    BY <1>0, <1>9, <2>1 DEF RestartTimer
  <2>3. CASE task[t].status = "doing" /\ RunLoop(task, t, o)
    BY <1>0, <2>1, <2>2, <2>3, SoloRun DEF TypeOK
  <2>4. CASE UNCHANGED <<task, live>>
    BY <2>2, <2>4, SoloQuiet DEF Unstarted
  <2> QED BY <1>9, <2>3, <2>4 DEF RestartTimer, instanceVars
<1>10. ASSUME NEW r \in live, InstanceExit(r) PROVE Solo'
  BY <1>10, SoloExit
<1>11. CASE Restart
  BY <1>0, <1>11, SoloQuiet DEF Restart, Unstarted
<1>12. CASE UNCHANGED vars
  BY <1>12, SoloQuiet DEF vars, instanceVars, timerVars, Unstarted
<1>13. /\ \A t \in Tasks, s \in Status, paused \in BOOLEAN : ~EditTask(t, s, paused)
       /\ \A t \in Tasks, o \in StartOutcomes : ~StartTask(t, o) /\ ~RespondToHelp(t, o)
  BY DEF QueueOnly, EditTask, StartTask, RespondToHelp
<1>14. ASSUME NEW r \in live, EndUnnoticed(r) PROVE Solo'
  BY <1>14, SoloQuiet DEF EndUnnoticed, timerVars, Unstarted
<1> QED BY <1>1, <1>2, <1>4, <1>5, <1>6, <1>7, <1>8, <1>9, <1>10, <1>11, <1>12, <1>13, <1>14 DEF Next

(* No two agents work on one task, and none while a restart is pending.    *)
OneAgent ==
  \A t \in Tasks :
    /\ \A r, s \in Agents(t) : r = s
    /\ restartTimers[t] > 0 => restartTimers[t] = 1 /\ Agents(t) = {}

(* Whatever stops, completions, deletions, exits and restarts of the       *)
(* application come in between.                                            *)
THEOREM OneAgentPerTask ==
  ASSUME QueueOnly
  PROVE  Spec => []OneAgent
<1>1. Init => Solo
  BY DEF Init, Solo, SoloOf, Agents
<1>2. TypeOK /\ Solo /\ [Next]_vars => Solo'
  BY NextSolo
<1>3. Solo => OneAgent
  BY DEF Solo, SoloOf, OneAgent
<1> QED BY <1>1, <1>2, <1>3, TypeCorrect, PTL DEF Spec
=============================================================================
