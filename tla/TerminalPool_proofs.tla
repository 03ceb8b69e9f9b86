------------------------- MODULE TerminalPool_proofs -------------------------
(***************************************************************************)
(* Proofs about TerminalPool, for every set of terminals, every set of     *)
(* configurations and every number of failures that are put up with.       *)
(***************************************************************************)
EXTENDS TerminalPool, FiniteSetTheorems, TLAPS

USE ConfigsAssumption, MaxFailuresAssumption

(* Before initialize nothing was spawned, so no timer can fill the pool.   *)
Untouched ==
  ~initialized => /\ \A id \in Terminals : pool[id] = "out" /\ shell[id] = "none"
                  /\ ~replenishTimer
                  /\ ~backoffTimer
                  /\ spawnCalls = 0

BasicInv ==
  /\ TypeOK
  /\ config \in Configs
  /\ NoStrayShell
  /\ TimeoutsHitIdleOnly
  /\ ShutDownForGood
  /\ Untouched
  /\ IsFiniteSet(Pooled)

(* Disposing of terminals empties their places and keeps their timers out. *)
LEMMA DisposeBasic ==
  ASSUME BasicInv, NEW c \in Configs, NEW ids \in SUBSET Terminals, Dispose(c, ids),
         UNCHANGED <<backoffTimer, failures, initialized, shuttingDown, spawnCalls>>,
         config' \in Configs, ids # {} => initialized
  PROVE  BasicInv'
<1> USE DEF BasicInv
<1>1. /\ pool' = [id \in Terminals |-> IF id \in ids THEN "out" ELSE pool[id]]
      /\ idleTimers' = idleTimers \ ids
      /\ shell' = [id \in Terminals |->
                     IF id \in ids /\ shell[id] = "alive" THEN "killed" ELSE shell[id]]
      /\ replenishTimer' \in {replenishTimer, ~shuttingDown}
      /\ shuttingDown \/ ids = {} => replenishTimer' = replenishTimer
  BY DEF Dispose, Kill, ScheduleReplenish
<1>2. TypeOK'
  BY <1>1 DEF TypeOK, PoolStatus, ShellState, Config
<1>3. NoStrayShell'
  BY <1>1 DEF NoStrayShell
<1>4. TimeoutsHitIdleOnly'
  BY <1>1 DEF TimeoutsHitIdleOnly, TypeOK
<1>5. ShutDownForGood'
  BY <1>1 DEF ShutDownForGood, Pooled
<1>6. Untouched'
  BY <1>1 DEF Untouched
<1>7. IsFiniteSet(Pooled)'
  <2>1. Pooled' \subseteq Pooled
    BY <1>1 DEF Pooled
  <2> QED BY <2>1, FS_Subset
<1> QED BY <1>2, <1>3, <1>4, <1>5, <1>6, <1>7

LEMMA SpawnBasic ==
  ASSUME BasicInv, NEW ok \in BOOLEAN, SpawnTerminal(ok)
  PROVE  BasicInv'
<1> USE DEF BasicInv
<1>1. /\ spawnCalls \in Nat /\ spawnCalls > 0
      /\ spawnCalls' = spawnCalls - 1
      /\ initialized
      /\ UNCHANGED <<replenishTimer, modeVars>>
  BY DEF SpawnTerminal, TypeOK, Untouched
<1>2. CASE UNCHANGED <<pool, shell, idleTimers, backoffTimer, failures>>
  <2>1. TypeOK'
    BY <1>1, <1>2 DEF TypeOK, modeVars
  <2>2. Pooled' = Pooled
    BY <1>2 DEF Pooled
  <2> QED BY <1>1, <1>2, <2>1, <2>2
          DEF modeVars, NoStrayShell, TimeoutsHitIdleOnly, ShutDownForGood, Untouched
<1>3. CASE /\ MaySpawn
           /\ \E id \in Free :
                /\ pool' = [pool EXCEPT ![id] = "idle"]
                /\ shell' = [shell EXCEPT ![id] = "alive"]
                /\ idleTimers' = IF config.timeout THEN idleTimers \cup {id} ELSE idleTimers
           /\ failures' = 0
           /\ UNCHANGED backoffTimer
  <2>1. PICK id \in Free :
          /\ pool' = [pool EXCEPT ![id] = "idle"]
          /\ shell' = [shell EXCEPT ![id] = "alive"]
          /\ idleTimers' = IF config.timeout THEN idleTimers \cup {id} ELSE idleTimers
    BY <1>3
  <2>2. id \in Terminals /\ ~shuttingDown
    BY <1>3 DEF Free, MaySpawn
  <2>3. TypeOK'
    <3>1. idleTimers' \subseteq Terminals
      BY <2>1, <2>2 DEF TypeOK
    <3>2. pool' \in [Terminals -> PoolStatus] /\ shell' \in [Terminals -> ShellState]
      BY <2>1, <2>2 DEF TypeOK, PoolStatus, ShellState
    <3>3. failures' \in 0 .. MaxFailures
      BY <1>3
    <3> QED BY <1>1, <1>3, <3>1, <3>2, <3>3 DEF TypeOK, modeVars
  <2>4. NoStrayShell'
    BY <2>1, <2>2 DEF NoStrayShell, TypeOK
  <2>5. TimeoutsHitIdleOnly'
    BY <2>1, <2>2 DEF TimeoutsHitIdleOnly, TypeOK
  <2>6. ShutDownForGood' /\ Untouched'
    BY <1>1, <2>2 DEF ShutDownForGood, Untouched, modeVars
  <2>7. IsFiniteSet(Pooled)'
    <3>1. Pooled' = Pooled \cup {id}
      BY <2>1, <2>2 DEF Pooled, TypeOK
    <3> QED BY <3>1, FS_AddElement
  <2> QED BY <1>1, <2>3, <2>4, <2>5, <2>6, <2>7 DEF modeVars
<1>4. CASE /\ MaySpawn
           /\ failures' = failures + 1
           /\ backoffTimer' = (failures + 1 < MaxFailures)
           /\ UNCHANGED <<pool, shell, idleTimers>>
  <2>1. failures' \in 0 .. MaxFailures /\ ~shuttingDown
    BY <1>4 DEF MaySpawn, TypeOK
  <2>2. TypeOK'
    BY <1>1, <1>4, <2>1 DEF TypeOK, modeVars
  <2>3. Pooled' = Pooled
    BY <1>4 DEF Pooled
  <2> QED BY <1>1, <1>4, <2>1, <2>2, <2>3
          DEF modeVars, NoStrayShell, TimeoutsHitIdleOnly, ShutDownForGood, Untouched
<1> QED BY <1>2, <1>3, <1>4 DEF SpawnTerminal

LEMMA AcquireBasic ==
  ASSUME BasicInv, Acquire
  PROVE  BasicInv'
<1> USE DEF BasicInv
<1>0. /\ ~shuttingDown
      /\ UNCHANGED <<shell, modeVars, spawnCalls>>
      /\ failures' = 0 \/ failures' = failures
      /\ \/ backoffTimer' = (backoffTimer /\ failures = 0)
         \/ backoffTimer' = backoffTimer
      /\ replenishTimer' = ~shuttingDown
      /\ initialized
  BY DEF Acquire, ScheduleReplenish
<1>1. /\ initialized /\ ~shuttingDown
      /\ replenishTimer' \in BOOLEAN
      /\ backoffTimer' \in BOOLEAN
      /\ failures' \in 0 .. MaxFailures
      /\ UNCHANGED <<shell, modeVars, spawnCalls>>
  <2>1. backoffTimer' \in BOOLEAN
    BY <1>0, Zenon DEF TypeOK
  <2>2. replenishTimer' \in BOOLEAN
    BY <1>0, Zenon
  <2>3. failures' \in 0 .. MaxFailures
    BY <1>0 DEF TypeOK
  <2> QED BY <1>0, <2>1, <2>2, <2>3
<1>2. CASE UNCHANGED <<pool, idleTimers>>
  <2>1. TypeOK'
    BY <1>1, <1>2 DEF TypeOK, modeVars
  <2>2. Pooled' = Pooled
    BY <1>2 DEF Pooled
  <2> QED BY <1>1, <1>2, <2>1, <2>2
          DEF modeVars, NoStrayShell, TimeoutsHitIdleOnly, ShutDownForGood, Untouched
<1>3. CASE \E id \in Idle : /\ pool' = [pool EXCEPT ![id] = "assigned"]
                            /\ idleTimers' = idleTimers \ {id}
  <2>1. PICK id \in Idle : /\ pool' = [pool EXCEPT ![id] = "assigned"]
                           /\ idleTimers' = idleTimers \ {id}
    BY <1>3
  <2>2. id \in Terminals /\ pool[id] = "idle"
    BY DEF Idle
  <2>3. TypeOK'
    BY <1>1, <2>1, <2>2 DEF TypeOK, modeVars, PoolStatus
  <2>4. Pooled' = Pooled
    BY <2>1, <2>2 DEF Pooled, TypeOK
  <2>5. NoStrayShell'
    BY <1>1, <2>1, <2>2 DEF NoStrayShell, TypeOK
  <2>6. TimeoutsHitIdleOnly'
    BY <1>1, <2>1, <2>2 DEF TimeoutsHitIdleOnly, TypeOK
  <2> QED BY <1>1, <2>3, <2>4, <2>5, <2>6 DEF modeVars, ShutDownForGood, Untouched
<1> QED BY <1>2, <1>3 DEF Acquire

LEMMA InitBasic == Init => BasicInv
<1> SUFFICES ASSUME Init PROVE BasicInv
  OBVIOUS
<1>1. TypeOK
  <2>1. config \in Config /\ idleTimers \subseteq Terminals
    BY DEF Init
  <2>2. /\ pool \in [Terminals -> PoolStatus]
        /\ shell \in [Terminals -> ShellState]
    BY DEF Init, PoolStatus, ShellState
  <2>3. failures \in 0 .. MaxFailures /\ spawnCalls \in Nat
    BY DEF Init
  <2>4. /\ replenishTimer \in BOOLEAN /\ backoffTimer \in BOOLEAN
        /\ initialized \in BOOLEAN /\ shuttingDown \in BOOLEAN
    BY DEF Init
  <2> QED BY <2>1, <2>2, <2>3, <2>4 DEF TypeOK
<1>2. Pooled = {}
  BY DEF Init, Pooled
<1> QED BY <1>1, <1>2, FS_EmptySet
        DEF BasicInv, Init, NoStrayShell, TimeoutsHitIdleOnly, ShutDownForGood, Untouched

LEMMA NextBasic == BasicInv /\ [Next]_vars => BasicInv'
<1> SUFFICES ASSUME BasicInv, [Next]_vars PROVE BasicInv'
  OBVIOUS
<1> USE DEF BasicInv
<1>0. ASSUME UNCHANGED <<pool, shell, idleTimers>>,
             replenishTimer' \in BOOLEAN, backoffTimer' \in BOOLEAN,
             shuttingDown => ~replenishTimer' /\ ~backoffTimer',
             ~initialized' => ~initialized /\ ~replenishTimer' /\ ~backoffTimer'
                                /\ spawnCalls' = 0,
             initialized' \in BOOLEAN, shuttingDown' = shuttingDown,
             failures' = failures, config' \in Configs, spawnCalls' \in Nat
      PROVE  BasicInv'
  <2>1. TypeOK'
    BY <1>0 DEF TypeOK
  <2>2. Pooled' = Pooled
    BY <1>0 DEF Pooled
  <2> QED BY <1>0, <2>1, <2>2 DEF NoStrayShell, TimeoutsHitIdleOnly, ShutDownForGood, Untouched
<1>1. CASE Initialize
  <2>1. spawnCalls' \in Nat
    BY <1>1 DEF Initialize, Spawns, TypeOK, Config
  <2> QED BY <1>0, <1>1, <2>1 DEF Initialize, timerVars, TypeOK, ShutDownForGood
<1>2. ASSUME NEW ok \in BOOLEAN, SpawnTerminal(ok) PROVE BasicInv'
  BY <1>2, SpawnBasic
<1>3. CASE Acquire
  BY <1>3, AcquireBasic
<1>4. ASSUME NEW id \in Terminals, IdleTimeout(id) PROVE BasicInv'
  <2>1. /\ Dispose(config, {id})
        /\ UNCHANGED <<backoffTimer, failures, config, initialized, shuttingDown, spawnCalls>>
    BY <1>4 DEF IdleTimeout, modeVars
  <2>2. initialized
    BY <1>4 DEF IdleTimeout, TimeoutsHitIdleOnly, Untouched, TypeOK
  <2> QED BY <2>1, <2>2, DisposeBasic
<1>5. ASSUME NEW id \in Terminals, KillAssigned(id) PROVE BasicInv'
  <2>1. /\ shell' = [shell EXCEPT ![id] = "killed"] /\ shell[id] = "alive"
        /\ UNCHANGED <<pool, timerVars, failures, modeVars, spawnCalls>>
    BY <1>5 DEF KillAssigned
  <2>2. TypeOK'
    BY <2>1 DEF TypeOK, timerVars, modeVars, ShellState
  <2>3. Pooled' = Pooled
    BY <2>1 DEF Pooled
  <2> QED BY <2>1, <2>2, <2>3 DEF timerVars, modeVars, TypeOK,
             NoStrayShell, TimeoutsHitIdleOnly, ShutDownForGood, Untouched
<1>6. ASSUME NEW id \in Terminals, ShellDies(id) PROVE BasicInv'
  <2>1. /\ shell' = [shell EXCEPT ![id] = "dead"] /\ shell[id] \in {"alive", "killed"}
        /\ UNCHANGED <<pool, timerVars, failures, modeVars, spawnCalls>>
    BY <1>6 DEF ShellDies
  <2>2. TypeOK'
    BY <2>1 DEF TypeOK, timerVars, modeVars, ShellState
  <2>3. Pooled' = Pooled
    BY <2>1 DEF Pooled
  <2> QED BY <2>1, <2>2, <2>3 DEF timerVars, modeVars, TypeOK,
             NoStrayShell, TimeoutsHitIdleOnly, ShutDownForGood, Untouched
<1>7. ASSUME NEW id \in Terminals, OnExit(id) PROVE BasicInv'
  <2>1. /\ shell' = [shell EXCEPT ![id] = "none"] /\ shell[id] = "dead"
        /\ pool' = [pool EXCEPT ![id] = "out"]
        /\ idleTimers' = idleTimers \ {id}
        /\ replenishTimer' = ~shuttingDown
        /\ UNCHANGED <<backoffTimer, failures, modeVars, spawnCalls>>
    BY <1>7 DEF OnExit, ScheduleReplenish
  <2>2. TypeOK'
    BY <2>1 DEF TypeOK, modeVars, ShellState, PoolStatus
  <2>3. Pooled' \subseteq Pooled
    BY <2>1 DEF Pooled, TypeOK
  <2>4. IsFiniteSet(Pooled')
    BY <2>3, FS_Subset
  <2>5. NoStrayShell'
    BY <2>1 DEF NoStrayShell, TypeOK
  <2>6. TimeoutsHitIdleOnly'
    BY <2>1 DEF TimeoutsHitIdleOnly, TypeOK
  <2>7. ShutDownForGood'
    BY <2>1, <2>3 DEF ShutDownForGood, modeVars
  <2>8. initialized
    BY <2>1 DEF Untouched
  <2> QED BY <2>1, <2>2, <2>4, <2>5, <2>6, <2>7, <2>8 DEF modeVars, Untouched
<1>8. CASE ReplenishTimer
  <2>0. Cardinality(Idle) \in Nat
    <3>1. Idle \subseteq Pooled
      BY DEF Idle, Pooled
    <3> QED BY <3>1, FS_Subset, FS_CardinalityType
  <2>1. spawnCalls' \in Nat
    BY <1>8, <2>0 DEF ReplenishTimer, Spawns, Lacking, TypeOK, Config
  <2> QED BY <1>0, <1>8, <2>1 DEF ReplenishTimer, modeVars, TypeOK, ShutDownForGood, Untouched
<1>9. CASE BackoffTimer
  BY <1>0, <1>9 DEF BackoffTimer, ScheduleReplenish, modeVars, TypeOK, ShutDownForGood, Untouched
<1>10. ASSUME NEW c \in Configs, UpdateConfig(c) PROVE BasicInv'
  <2>0. Cardinality(Idle) \in Nat
    <3>1. Idle \subseteq Pooled
      BY DEF Idle, Pooled
    <3> QED BY <3>1, FS_Subset, FS_CardinalityType
  <2>1. config' = c /\ UNCHANGED <<failures, initialized, shuttingDown>>
    BY <1>10 DEF UpdateConfig
  <2>2. CASE /\ initialized
             /\ Spawns(IF shuttingDown THEN 0 ELSE Lacking(c, Idle))
             /\ UNCHANGED <<pool, shell, timerVars>>
    <3>1. spawnCalls' \in Nat
      BY <2>0, <2>2 DEF Spawns, Lacking, TypeOK, Config
    <3> QED BY <1>0, <2>1, <2>2, <3>1 DEF timerVars, TypeOK, ShutDownForGood
  <2>3. CASE /\ Dispose(c, Pooled)
             /\ UNCHANGED <<backoffTimer, spawnCalls>>
    <3>1. Pooled \in SUBSET Terminals /\ (Pooled # {} => initialized)
      BY DEF Pooled, Untouched
    <3> QED BY <2>1, <2>3, <3>1, DisposeBasic
  <2>4. CASE UNCHANGED <<pool, shell, timerVars, spawnCalls>>
    BY <1>0, <2>1, <2>4 DEF timerVars, TypeOK, ShutDownForGood, Untouched
  <2> QED BY <1>10, <2>2, <2>3, <2>4 DEF UpdateConfig
<1>11. CASE Shutdown
  <2>1. /\ shuttingDown' = TRUE /\ replenishTimer' = FALSE /\ backoffTimer' = FALSE
        /\ idleTimers' = {}
        /\ pool' = [id \in Terminals |-> "out"]
        /\ shell' = [id \in Terminals |->
                       IF id \in Pooled /\ shell[id] = "alive" THEN "killed" ELSE shell[id]]
        /\ UNCHANGED <<failures, config, initialized, spawnCalls>>
    BY <1>11 DEF Shutdown, Kill
  <2>2. TypeOK'
    BY <2>1 DEF TypeOK, ShellState, PoolStatus
  <2>3. Pooled' = {}
    BY <2>1 DEF Pooled
  <2>4. NoStrayShell'
    BY <2>1 DEF NoStrayShell, Pooled
  <2>5. TimeoutsHitIdleOnly' /\ ShutDownForGood'
    BY <2>1, <2>3 DEF TimeoutsHitIdleOnly, ShutDownForGood
  <2>6. Untouched'
    BY <2>1 DEF Untouched
  <2> QED BY <2>1, <2>2, <2>3, <2>4, <2>5, <2>6, FS_EmptySet
<1>12. CASE UNCHANGED vars
  BY <1>0, <1>12 DEF vars, timerVars, modeVars, TypeOK, ShutDownForGood, Untouched
<1> QED BY <1>1, <1>2, <1>3, <1>4, <1>5, <1>6, <1>7, <1>8, <1>9, <1>10, <1>11, <1>12 DEF Next

LEMMA BasicInvariance == Spec => []BasicInv
  BY InitBasic, NextBasic, PTL DEF Spec

----------------------------------------------------------------------------
LEMMA IdleFinite ==
  ASSUME BasicInv
  PROVE  /\ Idle \subseteq Pooled
         /\ IsFiniteSet(Idle)
         /\ Cardinality(Idle) \in Nat
         /\ Idle = {} => Cardinality(Idle) = 0
<1>1. Idle \subseteq Pooled
  BY DEF Idle, Pooled
<1> QED BY <1>1, FS_Subset, FS_CardinalityType, FS_EmptySet DEF BasicInv

(***************************************************************************)
(* What a step does to the stock of idle terminals: a callback asks for    *)
(* what some configuration lacks, a spawn takes one from what was asked    *)
(* for, and any other step keeps or reduces the stock.                     *)
(***************************************************************************)
LEMMA StockStep ==
  ASSUME BasicInv, [Next]_vars
  PROVE  \/ Idle' \subseteq Idle /\ spawnCalls' = spawnCalls
         \/ /\ Idle' = Idle
            /\ \E c \in Configs : /\ spawnCalls' = Lacking(c, Idle)
                                  /\ Lacking(c, Idle) > 0
         \/ /\ spawnCalls > 0 /\ spawnCalls' = spawnCalls - 1
            /\ Cardinality(Idle') \in {Cardinality(Idle), Cardinality(Idle) + 1}
<1> USE DEF BasicInv
<1>1. CASE Initialize
  <2>1. Idle = {} /\ Idle' = Idle /\ spawnCalls = 0
    BY <1>1 DEF Initialize, Untouched, Idle
  <2>2. Lacking(config, Idle) = config.minPoolSize
    BY <2>1, IdleFinite DEF Lacking, TypeOK, Config
  <2>3. \/ spawnCalls' = 0
        \/ spawnCalls' = config.minPoolSize /\ config.minPoolSize > 0
    BY <1>1 DEF Initialize, Spawns
  <2> QED BY <2>1, <2>2, <2>3
<1>2. ASSUME NEW ok \in BOOLEAN, SpawnTerminal(ok)
      PROVE  /\ spawnCalls > 0 /\ spawnCalls' = spawnCalls - 1
             /\ Cardinality(Idle') \in {Cardinality(Idle), Cardinality(Idle) + 1}
  <2>1. spawnCalls > 0 /\ spawnCalls' = spawnCalls - 1
    BY <1>2 DEF SpawnTerminal
  <2>2. CASE pool' = pool
    <3>1. Idle' = Idle
      BY <2>2 DEF Idle
    <3> QED BY <2>1, <3>1
  <2>3. CASE \E id \in Free : pool' = [pool EXCEPT ![id] = "idle"]
    <3>1. PICK id \in Free : pool' = [pool EXCEPT ![id] = "idle"]
      BY <2>3
    <3>2. Idle' = Idle \cup {id}
      BY <3>1 DEF Idle, Free, TypeOK
    <3>3. Cardinality(Idle') \in {Cardinality(Idle), Cardinality(Idle) + 1}
      BY <3>2, IdleFinite, FS_AddElement
    <3> QED BY <2>1, <3>3
  <2> QED BY <1>2, <2>2, <2>3 DEF SpawnTerminal
<1>3. CASE Acquire
  BY <1>3 DEF Acquire, Idle, TypeOK
<1>4. ASSUME NEW c \in Configs, NEW ids \in SUBSET Terminals, Dispose(c, ids)
      PROVE  Idle' \subseteq Idle
  BY <1>4 DEF Dispose, Idle
<1>5. ASSUME NEW id \in Terminals, IdleTimeout(id)
      PROVE  Idle' \subseteq Idle /\ spawnCalls' = spawnCalls
  BY <1>4, <1>5 DEF IdleTimeout
<1>6. ASSUME NEW id \in Terminals, KillAssigned(id) \/ ShellDies(id) \/ OnExit(id)
      PROVE  Idle' \subseteq Idle /\ spawnCalls' = spawnCalls
  BY <1>6 DEF KillAssigned, ShellDies, OnExit, Idle, TypeOK
<1>7. CASE ReplenishTimer
  BY <1>7, IdleFinite DEF ReplenishTimer, Spawns, Lacking, Idle, Ready, TypeOK, Config
<1>8. CASE BackoffTimer \/ Shutdown \/ UNCHANGED vars
  BY <1>8 DEF BackoffTimer, Shutdown, Idle, vars
<1>9. ASSUME NEW c \in Configs, UpdateConfig(c)
      PROVE  \/ Idle' \subseteq Idle /\ spawnCalls' = spawnCalls
             \/ Idle' = Idle /\ spawnCalls' = Lacking(c, Idle) /\ Lacking(c, Idle) > 0
  <2>1. CASE /\ Spawns(IF shuttingDown THEN 0 ELSE Lacking(c, Idle))
             /\ UNCHANGED <<pool, shell, timerVars>>
    BY <1>9, <2>1 DEF UpdateConfig, Ready, Spawns, Idle
  <2>2. CASE Dispose(c, Pooled) /\ UNCHANGED <<backoffTimer, spawnCalls>>
    BY <1>4, <2>2 DEF Pooled
  <2>3. CASE UNCHANGED <<pool, shell, timerVars, spawnCalls>>
    BY <2>3 DEF Idle
  <2> QED BY <1>9, <2>1, <2>2, <2>3 DEF UpdateConfig
<1> QED BY <1>1, <1>2, <1>3, <1>5, <1>6, <1>7, <1>8, <1>9 DEF Next

(***************************************************************************)
(* The pool never keeps more shells idle than some configuration asked for,*)
(* counting those the running callback is about to start: initialization,  *)
(* replenishments, retries and enabling do not each fill it anew.          *)
(***************************************************************************)
NeverOverstocked ==
  spawnCalls > 0 \/ Idle # {}
    => \E c \in Configs : Cardinality(Idle) + spawnCalls =< c.minPoolSize

(* No step adds to the stock more than a configuration lacks.              *)
LEMMA OverstockStep == BasicInv /\ NeverOverstocked /\ [Next]_vars => NeverOverstocked'
<1> SUFFICES ASSUME BasicInv, NeverOverstocked, [Next]_vars,
                    spawnCalls' > 0 \/ Idle' # {}
             PROVE  \E c \in Configs : Cardinality(Idle') + spawnCalls' =< c.minPoolSize
  BY DEF NeverOverstocked
<1>1. /\ \A c \in Configs : c.minPoolSize \in Nat
      /\ spawnCalls \in Nat
      /\ Cardinality(Idle) \in Nat
  BY IdleFinite DEF BasicInv, TypeOK, Config
<1>2. CASE Idle' \subseteq Idle /\ spawnCalls' = spawnCalls
  <2>1. Cardinality(Idle') \in Nat /\ Cardinality(Idle') =< Cardinality(Idle)
    BY <1>2, IdleFinite, FS_Subset, FS_CardinalityType
  <2>2. PICK c \in Configs : Cardinality(Idle) + spawnCalls =< c.minPoolSize
    BY <1>2 DEF NeverOverstocked
  <2> QED BY <1>1, <1>2, <2>1, <2>2
<1>3. CASE /\ Idle' = Idle
           /\ \E c \in Configs : /\ spawnCalls' = Lacking(c, Idle)
                                 /\ Lacking(c, Idle) > 0
  BY <1>1, <1>3 DEF Lacking
<1>4. CASE /\ spawnCalls > 0 /\ spawnCalls' = spawnCalls - 1
           /\ Cardinality(Idle') \in {Cardinality(Idle), Cardinality(Idle) + 1}
  <2>1. PICK c \in Configs : Cardinality(Idle) + spawnCalls =< c.minPoolSize
    BY <1>4 DEF NeverOverstocked
  <2> QED BY <1>1, <1>4, <2>1
<1> QED BY <1>2, <1>3, <1>4, StockStep

----------------------------------------------------------------------------
(* Users switch the pool on and off and leave its sizes alone.             *)
FixedSizes ==
  \A c, d \in Configs : c.minPoolSize = d.minPoolSize /\ c.maxPoolSize = d.maxPoolSize

SizesStay ==
  /\ config'.minPoolSize = config.minPoolSize
  /\ config'.maxPoolSize = config.maxPoolSize

(* RefillPending in the middle of a callback: spawnTerminal calls are left.*)
RefillInv ==
  initialized /\ ~Stocked => \/ replenishTimer
                             \/ backoffTimer
                             \/ Cardinality(Idle) + spawnCalls >= config.minPoolSize

(* Where the stock and the mode stay, so does the need for more terminals. *)
LEMMA RefillKept ==
  ASSUME BasicInv, RefillInv, pool' = pool, failures' = failures, UNCHANGED modeVars,
         spawnCalls' = spawnCalls, UNCHANGED <<replenishTimer, backoffTimer>>
  PROVE  RefillInv'
<1>1. Idle' = Idle /\ Pooled' = Pooled
  BY DEF Idle, Pooled
<1> QED BY <1>1 DEF RefillInv, Stocked, modeVars

LEMMA RefillStep ==
  ASSUME SizesStay, BasicInv, RefillInv, [Next]_vars
  PROVE  RefillInv'
<1> USE DEF BasicInv
<1>0. /\ Cardinality(Idle) \in Nat
      /\ config.minPoolSize \in Nat
      /\ spawnCalls \in Nat
      /\ config' \in Configs
  <2>1. BasicInv'
    BY NextBasic
  <2> QED BY <2>1, IdleFinite DEF TypeOK, Config
<1>a. config'.minPoolSize = config.minPoolSize /\ config'.maxPoolSize = config.maxPoolSize
  BY DEF SizesStay
<1>b. ASSUME replenishTimer' = ~shuttingDown, shuttingDown' = shuttingDown
      PROVE  RefillInv'
  BY <1>b DEF RefillInv, Stocked, TypeOK
<1>1. CASE Initialize
  <2>1. CASE config.enabled
    <3>1. Idle = {} /\ Idle' = Idle
      BY <1>1 DEF Initialize, Untouched, Idle
    <3>2. spawnCalls' >= config.minPoolSize
      BY <1>0, <1>1, <2>1 DEF Initialize, Spawns
    <3>3. spawnCalls' \in Nat
      BY <1>0, <1>1, <2>1 DEF Initialize, Spawns
    <3> QED BY <1>0, <1>a, <3>1, <3>2, <3>3, IdleFinite DEF RefillInv
  <2>2. CASE ~config.enabled
    BY <1>1, <2>2 DEF Initialize, RefillInv, Stocked
  <2> QED BY <2>1, <2>2
<1>2. ASSUME NEW ok \in BOOLEAN, SpawnTerminal(ok) PROVE RefillInv'
  <2>1. /\ spawnCalls > 0 /\ spawnCalls' = spawnCalls - 1
        /\ UNCHANGED <<replenishTimer, modeVars>>
    BY <1>2 DEF SpawnTerminal
  <2>2. CASE ~MaySpawn /\ UNCHANGED <<pool, failures>>
    <3>1. Pooled' = Pooled /\ UNCHANGED <<failures, config, shuttingDown>>
      BY <2>1, <2>2 DEF Pooled, modeVars
    <3>2. Cardinality(Pooled) \in Nat /\ config.maxPoolSize \in Nat
      BY FS_CardinalityType DEF TypeOK, Config
    <3>3. Stocked
      BY <2>2, <3>2 DEF MaySpawn, Stocked, TypeOK
    <3>4. Stocked'
      <4>1. \/ Cardinality(Pooled) >= config.maxPoolSize
            \/ failures = MaxFailures
            \/ shuttingDown
        BY <2>2, <3>2 DEF MaySpawn, TypeOK
      <4> QED BY <3>1, <4>1 DEF Stocked
    <3> QED BY <3>4 DEF RefillInv
  <2>3. CASE /\ \E id \in Free : pool' = [pool EXCEPT ![id] = "idle"]
             /\ MaySpawn
             /\ UNCHANGED backoffTimer
    <3>1. PICK id \in Free : pool' = [pool EXCEPT ![id] = "idle"]
      BY <2>3
    <3>2. id \in Terminals /\ pool[id] = "out"
      BY DEF Free, TimeoutsHitIdleOnly
    <3>3. Idle' = Idle \cup {id} /\ id \notin Idle /\ Pooled' = Pooled \cup {id}
      BY <3>1, <3>2 DEF Idle, Pooled, TypeOK
    <3>4. Cardinality(Idle') = Cardinality(Idle) + 1
      BY <3>3, IdleFinite, FS_AddElement
    <3>5. \/ Cardinality(Pooled') = Cardinality(Pooled)
          \/ Cardinality(Pooled') = Cardinality(Pooled) + 1
      BY <3>3, FS_AddElement
    <3>6. Cardinality(Pooled) \in Nat /\ config.maxPoolSize \in Nat
      BY FS_CardinalityType DEF TypeOK, Config
    <3>7. CASE initialized /\ ~Stocked
      BY <1>0, <2>1, <2>3, <3>4, <3>7 DEF RefillInv, modeVars
    <3>8. CASE ~initialized
      BY <2>1, <3>8 DEF RefillInv, modeVars
    <3>9. CASE Stocked
      <4>1. \/ Cardinality(Idle) >= config.minPoolSize
            \/ ~config.enabled
        BY <2>3, <3>6, <3>9 DEF Stocked, MaySpawn, TypeOK
      <4>2. Stocked'
        BY <1>0, <2>1, <3>4, <4>1 DEF Stocked, modeVars
      <4> QED BY <4>2 DEF RefillInv
    <3> QED BY <3>7, <3>8, <3>9
  <2>4. CASE /\ failures' = failures + 1
             /\ MaySpawn
             /\ backoffTimer' = (failures + 1 < MaxFailures)
    <3>1. CASE failures + 1 < MaxFailures
      <4>1. backoffTimer'
        BY <2>4, <3>1, Zenon
      <4> QED BY <4>1 DEF RefillInv
    <3>2. CASE ~(failures + 1 < MaxFailures)
      <4>1. failures' = MaxFailures
        BY <2>4, <3>2, MaxFailuresAssumption DEF MaySpawn, TypeOK
      <4> QED BY <4>1 DEF RefillInv, Stocked
    <3> QED BY <3>1, <3>2
  <2>5. \/ ~MaySpawn /\ UNCHANGED <<pool, failures>>
        \/ /\ \E id \in Free : pool' = [pool EXCEPT ![id] = "idle"]
           /\ MaySpawn
           /\ UNCHANGED backoffTimer
        \/ /\ failures' = failures + 1
           /\ MaySpawn
           /\ backoffTimer' = (failures + 1 < MaxFailures)
    BY <1>2, Zenon DEF SpawnTerminal
  <2> QED BY <2>2, <2>3, <2>4, <2>5, Zenon
<1>3. CASE Acquire
  BY <1>3, <1>b DEF Acquire, ScheduleReplenish, modeVars
<1>4. ASSUME NEW id \in Terminals, IdleTimeout(id) PROVE RefillInv'
  <2>1. /\ pool' = [x \in Terminals |-> IF x \in {id} THEN "out" ELSE pool[x]]
        /\ UNCHANGED <<backoffTimer, failures, modeVars, spawnCalls>>
        /\ \/ replenishTimer' = ~shuttingDown
           \/ /\ ~(Lacking(config, Idle \ {id}) > 0 /\ ~shuttingDown)
              /\ UNCHANGED replenishTimer
    BY <1>4 DEF IdleTimeout, Dispose, ScheduleReplenish
  <2>2. CASE replenishTimer' = ~shuttingDown
    BY <1>b, <2>1, <2>2 DEF modeVars
  <2>3. CASE ~(Lacking(config, Idle \ {id}) > 0 /\ ~shuttingDown)
    <3>1. Idle' = Idle \ {id}
      BY <2>1 DEF Idle, TypeOK
    <3>2. Cardinality(Idle') \in Nat
      BY <3>1, IdleFinite, FS_Subset, FS_CardinalityType
    <3>3. Cardinality(Idle') >= config.minPoolSize \/ shuttingDown
      BY <1>0, <2>3, <3>1, <3>2 DEF Lacking
    <3> QED BY <2>1, <3>3 DEF RefillInv, Stocked, modeVars
  <2> QED BY <2>1, <2>2, <2>3
<1>5. ASSUME NEW id \in Terminals, KillAssigned(id) \/ ShellDies(id) PROVE RefillInv'
  BY <1>5, RefillKept DEF KillAssigned, ShellDies, timerVars
<1>6. ASSUME NEW id \in Terminals, OnExit(id) PROVE RefillInv'
  BY <1>6, <1>b DEF OnExit, ScheduleReplenish, modeVars
<1>7. CASE ReplenishTimer
  <2>1. Idle' = Idle
    BY <1>7 DEF ReplenishTimer, Idle
  <2>2. CASE config.enabled /\ ~shuttingDown
    BY <1>0, <1>7, <2>1, <2>2 DEF ReplenishTimer, Spawns, Lacking, RefillInv, modeVars
  <2>3. CASE ~(config.enabled /\ ~shuttingDown)
    BY <1>7, <2>3 DEF ReplenishTimer, RefillInv, Stocked, modeVars
  <2> QED BY <2>2, <2>3
<1>8. CASE BackoffTimer
  BY <1>8, <1>b DEF BackoffTimer, ScheduleReplenish, modeVars
<1>9. ASSUME NEW c \in Configs, UpdateConfig(c) PROVE RefillInv'
  <2>1. config' = c /\ UNCHANGED <<failures, initialized, shuttingDown>>
    BY <1>9 DEF UpdateConfig
  <2>2. CASE /\ initialized
             /\ Spawns(IF shuttingDown THEN 0 ELSE Lacking(c, Idle))
             /\ UNCHANGED <<pool, shell, timerVars>>
    <3>1. Idle' = Idle
      BY <2>2 DEF Idle
    <3>2. c.minPoolSize \in Nat
      BY ConfigsAssumption DEF Config
    <3>3. CASE shuttingDown
      BY <2>1, <3>3 DEF RefillInv, Stocked
    <3>4. CASE ~shuttingDown /\ Lacking(c, Idle) > 0
      <4>1. spawnCalls' = c.minPoolSize - Cardinality(Idle)
        BY <2>2, <3>4 DEF Spawns, Lacking
      <4>2. Cardinality(Idle) + spawnCalls' >= c.minPoolSize
        BY <1>0, <3>2, <4>1
      <4> QED BY <2>1, <3>1, <4>2 DEF RefillInv
    <3>5. CASE ~(Lacking(c, Idle) > 0)
      <4>1. Cardinality(Idle) >= c.minPoolSize
        BY <1>0, <3>2, <3>5 DEF Lacking
      <4> QED BY <2>1, <3>1, <4>1 DEF RefillInv, Stocked
    <3> QED BY <3>3, <3>4, <3>5
  <2>3. CASE ~c.enabled
    BY <2>1, <2>3 DEF RefillInv, Stocked
  <2>4. CASE /\ config.enabled => c.enabled
             /\ c.enabled /\ initialized => config.enabled
             /\ UNCHANGED <<pool, shell, timerVars, spawnCalls>>
    <3>1. Idle' = Idle /\ Pooled' = Pooled
      BY <2>4 DEF Idle, Pooled
    <3> QED BY <1>a, <2>1, <2>4, <3>1 DEF RefillInv, Stocked, timerVars
  <2> QED BY <1>9, <2>2, <2>3, <2>4 DEF UpdateConfig
<1>10. CASE Shutdown
  BY <1>10 DEF Shutdown, RefillInv, Stocked
<1>11. CASE UNCHANGED vars
  BY <1>11, RefillKept DEF vars, timerVars
<1> QED BY <1>1, <1>2, <1>3, <1>4, <1>5, <1>6, <1>7, <1>8, <1>9, <1>10, <1>11 DEF Next

----------------------------------------------------------------------------
(* The variables have their types, and the failures never pass the limit.  *)
THEOREM TypeCorrect == Spec => []TypeOK
<1>1. BasicInv => TypeOK
  BY DEF BasicInv
<1> QED BY <1>1, BasicInvariance, PTL

(* Every shell the pool started and has not killed can be reached from it. *)
THEOREM ShellsAreReached == Spec => []NoStrayShell
<1>1. BasicInv => NoStrayShell
  BY DEF BasicInv
<1> QED BY <1>1, BasicInvariance, PTL

(* No idle timeout disposes of a terminal in use.                          *)
THEOREM UsedTerminalsStay == Spec => []TimeoutsHitIdleOnly
<1>1. BasicInv => TimeoutsHitIdleOnly
  BY DEF BasicInv
<1> QED BY <1>1, BasicInvariance, PTL

(* After shutdown no timer or callback brings the pool to life again.      *)
THEOREM ShutdownIsFinal == Spec => []ShutDownForGood
<1>1. BasicInv => ShutDownForGood
  BY DEF BasicInv
<1> QED BY <1>1, BasicInvariance, PTL

(* However replenishments, retries and settings overlap, the stock of idle *)
(* terminals never exceeds what some configuration asked for.              *)
THEOREM StockIsBounded == Spec => []NeverOverstocked
<1>1. Init => NeverOverstocked
  BY DEF Init, NeverOverstocked, Idle
<1> QED BY <1>1, OverstockStep, BasicInvariance, PTL DEF Spec

(* While its sizes stay, a pool that lacks terminals has a timer pending   *)
(* that will start some.                                                   *)
THEOREM RefillIsPending == ASSUME FixedSizes PROVE Spec => []RefillPending
<1>1. Init => RefillInv
  BY DEF Init, RefillInv
<1>2. BasicInv /\ RefillInv /\ [Next]_vars => RefillInv'
  <2> SUFFICES ASSUME BasicInv, RefillInv, [Next]_vars PROVE RefillInv'
    OBVIOUS
  <2>1. config \in Configs /\ config' \in Configs
    BY NextBasic DEF BasicInv
  <2>2. SizesStay
    BY <2>1 DEF FixedSizes, SizesStay
  <2> QED BY <2>2, RefillStep
<1>3. BasicInv /\ RefillInv => RefillPending
  BY IdleFinite DEF BasicInv, TypeOK, Config, RefillInv, RefillPending, Stocked
<1> QED BY <1>1, <1>2, <1>3, BasicInvariance, PTL DEF Spec

(* A callback that schedules a replenishment, or makes one, sees to it that*)
(* what is lacking is asked for, whatever was neglected before.            *)
LEMMA RefillAgain ==
  ASSUME BasicInv,
         Acquire \/ ReplenishTimer \/ BackoffTimer \/ \E id \in Terminals : OnExit(id)
  PROVE  RefillInv'
<1>1. ASSUME replenishTimer' = ~shuttingDown, shuttingDown' = shuttingDown
      PROVE  RefillInv'
  BY <1>1 DEF BasicInv, RefillInv, Stocked, TypeOK
<1>2. CASE Acquire \/ BackoffTimer \/ \E id \in Terminals : OnExit(id)
  BY <1>1, <1>2 DEF Acquire, BackoffTimer, OnExit, ScheduleReplenish, modeVars
<1>3. CASE ReplenishTimer
  <2>1. Idle' = Idle /\ config' = config
    BY <1>3 DEF ReplenishTimer, Idle, modeVars
  <2>2. CASE config.enabled /\ ~shuttingDown
    <3>1. Cardinality(Idle) \in Nat /\ config.minPoolSize \in Nat
      BY IdleFinite DEF BasicInv, TypeOK, Config
    <3>2. Cardinality(Idle) + spawnCalls' >= config.minPoolSize
      BY <1>3, <2>2, <3>1 DEF ReplenishTimer, Spawns, Lacking
    <3> QED BY <2>1, <3>2 DEF RefillInv
  <2>3. CASE ~(config.enabled /\ ~shuttingDown)
    BY <1>3, <2>3 DEF ReplenishTimer, RefillInv, Stocked, modeVars
  <2> QED BY <2>2, <2>3
<1> QED BY <1>2, <1>3

(* For settings that users change as they like: only a change of the sizes *)
(* leaves a pool that lacks terminals with nothing pending, and it is made *)
(* good by whatever is next acquired, exits or times out.                  *)
RefillRegained ==
  [][/\ RefillInv /\ SizesStay => RefillInv'
     /\ Acquire \/ ReplenishTimer \/ BackoffTimer \/ (\E id \in Terminals : OnExit(id))
          => RefillInv']_vars

THEOREM RefillComesBack == Spec => RefillRegained
<1>1. BasicInv /\ [Next]_vars
      => [/\ RefillInv /\ SizesStay => RefillInv'
          /\ Acquire \/ ReplenishTimer \/ BackoffTimer \/ (\E id \in Terminals : OnExit(id))
               => RefillInv']_vars
  BY RefillStep, RefillAgain
<1> QED BY <1>1, BasicInvariance, PTL DEF Spec, RefillRegained

----------------------------------------------------------------------------
(* A shell that was handed out stays with its instance: no timer, spawn,   *)
(* acquisition, exit of another or replenishment takes it away or hands it *)
(* out again.  Only the instance, the shell itself, the shutdown and the   *)
(* disabling of the pool end it.                                           *)
UsedShellsStay ==
  [][\A id \in Terminals :
       pool[id] = "assigned" /\ shell[id] = "alive"
         => \/ pool'[id] = "assigned" /\ shell'[id] = "alive"
            \/ KillAssigned(id) \/ ShellDies(id)
            \/ Shutdown
            \/ \E c \in Configs : ~c.enabled /\ UpdateConfig(c)]_vars

LEMMA UsedStep ==
  ASSUME BasicInv, Next, NEW id \in Terminals, pool[id] = "assigned", shell[id] = "alive"
  PROVE  \/ pool'[id] = "assigned" /\ shell'[id] = "alive"
         \/ KillAssigned(id) \/ ShellDies(id)
         \/ Shutdown
         \/ \E c \in Configs : ~c.enabled /\ UpdateConfig(c)
<1> USE DEF BasicInv, TypeOK
<1>1. CASE UNCHANGED <<pool, shell>>
  BY <1>1
<1>2. CASE Initialize \/ ReplenishTimer \/ BackoffTimer
  BY <1>1, <1>2 DEF Initialize, ReplenishTimer, BackoffTimer
<1>3. ASSUME NEW ok \in BOOLEAN, SpawnTerminal(ok)
      PROVE  pool'[id] = "assigned" /\ shell'[id] = "alive"
  BY <1>3 DEF SpawnTerminal, Free
<1>4. CASE Acquire
  BY <1>4 DEF Acquire, Idle
<1>5. ASSUME NEW i \in Terminals, IdleTimeout(i)
      PROVE  pool'[id] = "assigned" /\ shell'[id] = "alive"
  <2>1. i # id
    BY <1>5 DEF IdleTimeout, TimeoutsHitIdleOnly
  <2> QED BY <1>5, <2>1 DEF IdleTimeout, Dispose, Kill
<1>6. ASSUME NEW i \in Terminals, i # id, KillAssigned(i) \/ ShellDies(i) \/ OnExit(i)
      PROVE  pool'[id] = "assigned" /\ shell'[id] = "alive"
  BY <1>6 DEF KillAssigned, ShellDies, OnExit
<1>7. ~OnExit(id)
  BY DEF OnExit
<1>8. ASSUME NEW c \in Configs, c.enabled, UpdateConfig(c)
      PROVE  UNCHANGED <<pool, shell>>
  BY <1>8 DEF UpdateConfig
<1> QED BY <1>1, <1>2, <1>3, <1>4, <1>5, <1>6, <1>7, <1>8 DEF Next

THEOREM UsedShellsAreKept == Spec => UsedShellsStay
<1>1. BasicInv /\ [Next]_vars
      => [\A id \in Terminals :
            pool[id] = "assigned" /\ shell[id] = "alive"
              => \/ pool'[id] = "assigned" /\ shell'[id] = "alive"
                 \/ KillAssigned(id) \/ ShellDies(id)
                 \/ Shutdown
                 \/ \E c \in Configs : ~c.enabled /\ UpdateConfig(c)]_vars
  BY UsedStep
<1> QED BY <1>1, BasicInvariance, PTL DEF Spec, UsedShellsStay

----------------------------------------------------------------------------
(* The shells the pool is answerable for.                                  *)
LiveShells == {id \in Terminals : shell[id] = "alive"}

(* There are never more shells, ready and in use, than some configuration  *)
(* of an enabled pool allows ("maxPoolSize"), and none once it is disabled.*)
ShellsBounded ==
  /\ LiveShells # {} => \E c \in Configs : Cardinality(LiveShells) =< c.maxPoolSize
  /\ ~config.enabled => LiveShells = {}

(* It is inductive for what is in the pool, with the spawns under way: a   *)
(* callback may be at work only while the pool is enabled.                 *)
SizeInv ==
  /\ Pooled # {} => \E c \in Configs : Cardinality(Pooled) =< c.maxPoolSize
  /\ ~config.enabled => Pooled = {} /\ spawnCalls = 0

(* What a step does to the pool and to the spawns under way.               *)
LEMMA SizeStep ==
  ASSUME BasicInv, SizeInv, [Next]_vars
  PROVE  \/ /\ Pooled' \subseteq Pooled
            /\ config' = config
            /\ config.enabled \/ spawnCalls' \in {0, spawnCalls}
         \/ /\ \E id \in Terminals : Pooled' = Pooled \cup {id} /\ id \notin Pooled
            /\ Cardinality(Pooled) < config.maxPoolSize
            /\ config' = config /\ config.enabled
         \/ /\ Pooled' \subseteq Pooled
            /\ ~config'.enabled => Pooled' = {} /\ spawnCalls' = 0
<1> USE DEF BasicInv
<1>1. CASE Initialize
  BY <1>1 DEF Initialize, Spawns, Pooled, Ready, modeVars
<1>2. ASSUME NEW ok \in BOOLEAN, SpawnTerminal(ok)
      PROVE  \/ Pooled' = Pooled /\ config' = config /\ config.enabled
             \/ /\ \E id \in Terminals : Pooled' = Pooled \cup {id} /\ id \notin Pooled
                /\ Cardinality(Pooled) < config.maxPoolSize
                /\ config' = config /\ config.enabled
  <2>1. config.enabled /\ config' = config
    BY <1>2 DEF SpawnTerminal, SizeInv, modeVars
  <2>2. CASE pool' = pool
    BY <2>1, <2>2 DEF Pooled
  <2>3. CASE MaySpawn /\ \E id \in Free : pool' = [pool EXCEPT ![id] = "idle"]
    <3>1. PICK id \in Free : pool' = [pool EXCEPT ![id] = "idle"]
      BY <2>3
    <3>2. id \in Terminals /\ id \notin Pooled
      BY DEF Free, Pooled, TimeoutsHitIdleOnly
    <3>3. Pooled' = Pooled \cup {id}
      BY <3>1, <3>2 DEF Pooled, TypeOK
    <3> QED BY <2>1, <2>3, <3>2, <3>3 DEF MaySpawn
  <2> QED BY <1>2, <2>2, <2>3 DEF SpawnTerminal
<1>3. CASE Acquire
  <2>1. Pooled' \subseteq Pooled
    BY <1>3 DEF Acquire, Pooled, Idle, TypeOK
  <2> QED BY <1>3, <2>1 DEF Acquire, modeVars
<1>4. ASSUME NEW id \in Terminals, IdleTimeout(id) \/ KillAssigned(id) \/ ShellDies(id) \/ OnExit(id)
      PROVE  Pooled' \subseteq Pooled /\ config' = config /\ spawnCalls' = spawnCalls
  BY <1>4 DEF IdleTimeout, KillAssigned, ShellDies, OnExit, Dispose, Pooled, TypeOK, modeVars
<1>5. CASE ReplenishTimer
  BY <1>5 DEF ReplenishTimer, Spawns, Pooled, modeVars
<1>6. CASE BackoffTimer
  BY <1>6 DEF BackoffTimer, Pooled, modeVars
<1>7. ASSUME NEW c \in Configs, UpdateConfig(c)
      PROVE  Pooled' \subseteq Pooled /\ (~config'.enabled => Pooled' = {} /\ spawnCalls' = 0)
  <2>0. config' = c /\ spawnCalls = 0
    BY <1>7 DEF UpdateConfig, Ready
  <2>1. CASE c.enabled
    <3>1. pool' = pool
      BY <1>7, <2>1 DEF UpdateConfig
    <3> QED BY <2>0, <2>1, <3>1 DEF Pooled
  <2>2. CASE ~c.enabled /\ config.enabled
    BY <1>7, <2>0, <2>2 DEF UpdateConfig, Dispose, Pooled
  <2>3. CASE ~c.enabled /\ ~config.enabled
    BY <1>7, <2>0, <2>3 DEF UpdateConfig, Pooled, SizeInv
  <2> QED BY <2>1, <2>2, <2>3
<1>8. CASE Shutdown
  BY <1>8 DEF Shutdown, Pooled
<1>9. CASE UNCHANGED vars
  BY <1>9 DEF vars, modeVars, Pooled
<1> QED BY <1>1, <1>2, <1>3, <1>4, <1>5, <1>6, <1>7, <1>8, <1>9 DEF Next

LEMMA NextSize == BasicInv /\ SizeInv /\ [Next]_vars => SizeInv'
<1> SUFFICES ASSUME BasicInv, SizeInv, [Next]_vars PROVE SizeInv'
  OBVIOUS
<1>1. IsFiniteSet(Pooled) /\ Cardinality(Pooled) \in Nat
  BY FS_CardinalityType DEF BasicInv
<1>2. /\ config \in Configs
      /\ \A c \in Configs : c.maxPoolSize \in Nat
  BY DEF BasicInv, Config
<1>3. CASE Pooled' \subseteq Pooled
  <2>1. Cardinality(Pooled') =< Cardinality(Pooled) /\ Cardinality(Pooled') \in Nat
    BY <1>1, <1>3, FS_Subset, FS_CardinalityType
  <2>2. Pooled' # {} => \E c \in Configs : Cardinality(Pooled') =< c.maxPoolSize
    BY <1>1, <1>2, <1>3, <2>1 DEF SizeInv
  <2>3. ~config'.enabled => Pooled' = {} /\ spawnCalls' = 0
    BY <1>3, SizeStep DEF SizeInv
  <2> QED BY <2>2, <2>3 DEF SizeInv
<1>4. CASE /\ \E id \in Terminals : Pooled' = Pooled \cup {id} /\ id \notin Pooled
           /\ Cardinality(Pooled) < config.maxPoolSize
           /\ config' = config /\ config.enabled
  <2>1. Cardinality(Pooled') = Cardinality(Pooled) + 1
    BY <1>1, <1>4, FS_AddElement
  <2>2. Cardinality(Pooled') =< config.maxPoolSize
    BY <1>1, <1>2, <1>4, <2>1
  <2> QED BY <1>2, <1>4, <2>2 DEF SizeInv
<1> QED BY <1>3, <1>4, SizeStep

(* However acquisitions, refills, retries and changes of the settings      *)
(* overlap, the machine never runs more shells of the pool than that.      *)
THEOREM ShellsAreBounded == Spec => []ShellsBounded
<1>1. Init => SizeInv
  BY DEF Init, SizeInv, Pooled
<1>2. BasicInv /\ SizeInv => ShellsBounded
  <2> SUFFICES ASSUME BasicInv, SizeInv PROVE ShellsBounded
    OBVIOUS
  <2>1. LiveShells \subseteq Pooled
    BY DEF BasicInv, NoStrayShell, LiveShells, Pooled
  <2>2. Cardinality(LiveShells) =< Cardinality(Pooled)
    BY <2>1, FS_Subset DEF BasicInv
  <2>3. Cardinality(LiveShells) \in Nat /\ Cardinality(Pooled) \in Nat
    BY <2>1, FS_Subset, FS_CardinalityType DEF BasicInv
  <2>4. \A c \in Configs : c.maxPoolSize \in Nat
    BY DEF Config
  <2>5. LiveShells # {} => \E c \in Configs : Cardinality(LiveShells) =< c.maxPoolSize
    BY <2>1, <2>2, <2>3, <2>4 DEF SizeInv
  <2> QED BY <2>1, <2>5 DEF SizeInv, ShellsBounded
<1> QED BY <1>1, <1>2, NextSize, BasicInvariance, PTL DEF Spec
=============================================================================
