---------------------------- MODULE TerminalPool ----------------------------
(***************************************************************************)
(* TerminalPool: shells started ahead of time, handed to new Claude        *)
(* instances (acquire), replaced after a delay, disposed of when they stay *)
(* idle, and given up on after repeated spawn failures.                    *)
(*                                                                         *)
(* Callbacks run to completion, but a callback may call spawnTerminal      *)
(* several times and each call may fail.  The calls the running callback   *)
(* has still to make are counted in spawnCalls, and nothing else runs until*)
(* they are made.                                                          *)
(*                                                                         *)
(* A terminal id is a random UUID; here an id is used again once the shell *)
(* that had it is gone and its exit was handled.                           *)
(***************************************************************************)
EXTENDS Integers, FiniteSets

CONSTANTS
  Terminals,   \* ids of pooled terminals
  Configs,     \* the configurations users choose from
  MaxFailures  \* MAX_CONSECUTIVE_FAILURES

(* timeout: is idleTimeoutMs > 0?  Delays have no other effect here.       *)
Config == [enabled: BOOLEAN, minPoolSize: Nat, maxPoolSize: Nat, timeout: BOOLEAN]

ASSUME ConfigsAssumption == Configs \subseteq Config
ASSUME MaxFailuresAssumption == MaxFailures \in Nat \ {0}

VARIABLES
  pool,           \* the pool Map: the status of a terminal, "out" if not in it
  shell,          \* the process of a terminal
  idleTimers,     \* terminals with a pending idle timeout
  replenishTimer, \* is the replenish timer pending?
  backoffTimer,   \* is the retry after a spawn failure pending?
  failures,       \* consecutiveSpawnFailures
  config,         \* the current configuration
  initialized,
  shuttingDown,
  spawnCalls      \* calls of spawnTerminal the running callback will make

timerVars == <<idleTimers, replenishTimer, backoffTimer>>
modeVars == <<config, initialized, shuttingDown>>
vars == <<pool, shell, timerVars, failures, modeVars, spawnCalls>>

PoolStatus == {"out", "idle", "assigned"}

(* "dead": the process has ended and node-pty has not yet called onExit.   *)
ShellState == {"none", "alive", "killed", "dead"}

Init ==
  /\ pool = [id \in Terminals |-> "out"]
  /\ shell = [id \in Terminals |-> "none"]
  /\ idleTimers = {}
  /\ replenishTimer = FALSE
  /\ backoffTimer = FALSE
  /\ failures = 0
  /\ config \in Configs
  /\ initialized = FALSE
  /\ shuttingDown = FALSE
  /\ spawnCalls = 0

----------------------------------------------------------------------------
Pooled == {id \in Terminals : pool[id] # "out"}

Idle == {id \in Terminals : pool[id] = "idle"}

Free == {id \in Terminals : shell[id] = "none"}

(* How many more idle terminals does configuration c ask for?              *)
Lacking(c, idle) == c.minPoolSize - Cardinality(idle)

(* Bound: a callback that spawns waits until enough ids are free.          *)
Spawns(n) ==
  /\ Cardinality(Free) >= n
  /\ spawnCalls' = IF n > 0 THEN n ELSE 0

(* A callback or a request can run: no other one is in the middle.         *)
Ready == spawnCalls = 0

(* Defect: scheduling ignores the shutdown.                                *)
ScheduleAlways == replenishTimer' = TRUE

(* scheduleReplenish: the timer is replaced, never doubled.                *)
ScheduleReplenish == replenishTimer' = ~shuttingDown

(* Defect: the terminal leaves the Map and its process stays.              *)
ForgetShells(ids) == UNCHANGED shell

Kill(ids) ==
  shell' = [id \in Terminals |->
              IF id \in ids /\ shell[id] = "alive" THEN "killed" ELSE shell[id]]

(* dispose of the terminals ids, under configuration c.                    *)
Dispose(c, ids) ==
  /\ pool' = [id \in Terminals |-> IF id \in ids THEN "out" ELSE pool[id]]
  /\ idleTimers' = idleTimers \ ids
  /\ Kill(ids)
  /\ IF ids # {} /\ Lacking(c, Idle \ ids) > 0 /\ ~shuttingDown
     THEN ScheduleReplenish
     ELSE UNCHANGED replenishTimer

----------------------------------------------------------------------------
Initialize ==
  /\ Ready
  /\ ~initialized
  /\ initialized' = TRUE
  /\ Spawns(IF config.enabled THEN config.minPoolSize ELSE 0)
  /\ UNCHANGED <<pool, shell, timerVars, failures, config, shuttingDown>>

(* Defect: the failures are not looked at.                                 *)
MaySpawnAnyway ==
  /\ ~shuttingDown
  /\ Cardinality(Pooled) < config.maxPoolSize

MaySpawn ==
  /\ ~shuttingDown
  /\ failures < MaxFailures
  /\ Cardinality(Pooled) < config.maxPoolSize

(* One call of spawnTerminal; ok tells whether pty.spawn succeeds.         *)
SpawnTerminal(ok) ==
  /\ spawnCalls > 0
  /\ spawnCalls' = spawnCalls - 1
  /\ \/ /\ ~MaySpawn
        /\ UNCHANGED <<pool, shell, idleTimers, backoffTimer, failures>>
     \/ /\ MaySpawn
        /\ ok
        /\ \E id \in Free :
             /\ pool' = [pool EXCEPT ![id] = "idle"]
             /\ shell' = [shell EXCEPT ![id] = "alive"]
             /\ idleTimers' = IF config.timeout THEN idleTimers \cup {id} ELSE idleTimers
        /\ failures' = 0
        /\ UNCHANGED backoffTimer
     \/ /\ MaySpawn
        /\ ~ok
        /\ failures' = failures + 1
        /\ backoffTimer' = (failures + 1 < MaxFailures)
        /\ UNCHANGED <<pool, shell, idleTimers>>
  /\ UNCHANGED <<replenishTimer, modeVars>>

(* Defect: the idle timeout of the terminal handed out is not cancelled.   *)
AcquireTimed ==
  /\ Ready
  /\ ~shuttingDown
  /\ config.enabled
  /\ initialized
  /\ \/ \E id \in Idle :
          /\ pool' = [pool EXCEPT ![id] = "assigned"]
          /\ failures' = 0
          /\ backoffTimer' = (backoffTimer /\ failures = 0)
     \/ /\ Idle = {}
        /\ UNCHANGED <<pool, failures, backoffTimer>>
  /\ ScheduleReplenish
  /\ UNCHANGED <<shell, idleTimers, modeVars, spawnCalls>>

(* Defect: no replenishment is scheduled.                                  *)
AcquireOnly ==
  /\ Ready
  /\ ~shuttingDown
  /\ config.enabled
  /\ initialized
  /\ \E id \in Idle :
       /\ pool' = [pool EXCEPT ![id] = "assigned"]
       /\ idleTimers' = idleTimers \ {id}
  /\ failures' = 0
  /\ backoffTimer' = (backoffTimer /\ failures = 0)
  /\ UNCHANGED <<shell, replenishTimer, modeVars, spawnCalls>>

(* acquire throws when shutting down and falls back when not in use.       *)
Acquire ==
  /\ Ready
  /\ ~shuttingDown
  /\ config.enabled
  /\ initialized
  /\ \/ \E id \in Idle :
          /\ pool' = [pool EXCEPT ![id] = "assigned"]
          /\ idleTimers' = idleTimers \ {id}
          /\ failures' = 0
          /\ backoffTimer' = (backoffTimer /\ failures = 0)
     \/ /\ Idle = {}
        /\ UNCHANGED <<pool, idleTimers, failures, backoffTimer>>
  /\ ScheduleReplenish
  /\ UNCHANGED <<shell, modeVars, spawnCalls>>

(* The callback looks again whether the terminal is idle.  That it always  *)
(* is, TimeoutsHitIdleOnly says; here it is disposed of in any case.       *)
IdleTimeout(id) ==
  /\ Ready
  /\ id \in idleTimers
  /\ Dispose(config, {id})
  /\ UNCHANGED <<backoffTimer, failures, modeVars, spawnCalls>>

ReplenishTimer ==
  /\ Ready
  /\ replenishTimer
  /\ replenishTimer' = FALSE
  /\ Spawns(IF config.enabled /\ ~shuttingDown THEN Lacking(config, Idle) ELSE 0)
  /\ UNCHANGED <<pool, shell, idleTimers, backoffTimer, failures, modeVars>>

BackoffTimer ==
  /\ Ready
  /\ backoffTimer
  /\ backoffTimer' = FALSE
  /\ ScheduleReplenish
  /\ UNCHANGED <<pool, shell, idleTimers, failures, modeVars, spawnCalls>>

(* Disabling the pool disposes of its terminals, those in use included.    *)
UpdateConfig(c) ==
  /\ Ready
  /\ config' = c
  /\ \/ /\ ~config.enabled /\ c.enabled /\ initialized
        /\ Spawns(IF shuttingDown THEN 0 ELSE Lacking(c, Idle))
        /\ UNCHANGED <<pool, shell, timerVars>>
     \/ /\ config.enabled /\ ~c.enabled
        /\ Dispose(c, Pooled)
        /\ UNCHANGED <<backoffTimer, spawnCalls>>
     \/ /\ config.enabled => c.enabled
        /\ c.enabled /\ initialized => config.enabled
        /\ UNCHANGED <<pool, shell, timerVars, spawnCalls>>
  /\ UNCHANGED <<failures, initialized, shuttingDown>>

Shutdown ==
  /\ Ready
  /\ ~shuttingDown
  /\ shuttingDown' = TRUE
  /\ replenishTimer' = FALSE
  /\ backoffTimer' = FALSE
  /\ idleTimers' = {}
  /\ pool' = [id \in Terminals |-> "out"]
  /\ Kill(Pooled)
  /\ UNCHANGED <<failures, config, initialized, spawnCalls>>

----------------------------------------------------------------------------
(* Processes: an instance kills the pty it was given, a shell ends of      *)
(* itself or of a signal, and node-pty reports its end.                    *)

KillAssigned(id) ==
  /\ pool[id] = "assigned"
  /\ shell[id] = "alive"
  /\ shell' = [shell EXCEPT ![id] = "killed"]
  /\ UNCHANGED <<pool, timerVars, failures, modeVars, spawnCalls>>

ShellDies(id) ==
  /\ shell[id] \in {"alive", "killed"}
  /\ shell' = [shell EXCEPT ![id] = "dead"]
  /\ UNCHANGED <<pool, timerVars, failures, modeVars, spawnCalls>>

OnExit(id) ==
  /\ Ready
  /\ shell[id] = "dead"
  /\ shell' = [shell EXCEPT ![id] = "none"]
  /\ pool' = [pool EXCEPT ![id] = "out"]
  /\ idleTimers' = idleTimers \ {id}
  /\ ScheduleReplenish
  /\ UNCHANGED <<backoffTimer, failures, modeVars, spawnCalls>>

Next ==
  \/ Initialize
  \/ \E ok \in BOOLEAN : SpawnTerminal(ok)
  \/ Acquire
  \/ \E id \in Terminals : \/ IdleTimeout(id)
                           \/ KillAssigned(id)
                           \/ ShellDies(id)
                           \/ OnExit(id)
  \/ ReplenishTimer
  \/ BackoffTimer
  \/ \E c \in Configs : UpdateConfig(c)
  \/ Shutdown

Spec == Init /\ [][Next]_vars

----------------------------------------------------------------------------
TypeOK ==
  /\ pool \in [Terminals -> PoolStatus]
  /\ shell \in [Terminals -> ShellState]
  /\ idleTimers \subseteq Terminals
  /\ replenishTimer \in BOOLEAN
  /\ backoffTimer \in BOOLEAN
  /\ failures \in 0 .. MaxFailures
  /\ config \in Config
  /\ initialized \in BOOLEAN
  /\ shuttingDown \in BOOLEAN
  /\ spawnCalls \in Nat

(***************************************************************************)
(* No shell is left behind: one that runs and was not told to end is in the*)
(* pool, so disabling the pool or shutting it down reaches it, whatever    *)
(* callback was about to start or hand out another.                        *)
(***************************************************************************)
NoStrayShell == \A id \in Terminals : shell[id] = "alive" => pool[id] # "out"

(***************************************************************************)
(* An idle timeout never takes a shell away from the instance it was given *)
(* to: timers are pending only for idle terminals, which all have a shell. *)
(***************************************************************************)
TimeoutsHitIdleOnly ==
  /\ \A id \in idleTimers : pool[id] = "idle"
  /\ \A id \in Terminals : pool[id] # "out" => shell[id] # "none"

(* Nothing is pending or pooled once the pool was shut down.               *)
ShutDownForGood ==
  shuttingDown => /\ Pooled = {}
                  /\ idleTimers = {}
                  /\ ~replenishTimer
                  /\ ~backoffTimer

----------------------------------------------------------------------------
(* There is nothing the pool should do to get more idle terminals.         *)
Stocked ==
  \/ Cardinality(Idle) >= config.minPoolSize
  \/ Cardinality(Pooled) >= config.maxPoolSize
  \/ failures = MaxFailures
  \/ ~config.enabled
  \/ shuttingDown

(***************************************************************************)
(* "Terminals kept ready" (the settings page on minPoolSize): a pool that  *)
(* lacks idle terminals, and has neither given up nor filled up, has a     *)
(* replenishment or a retry pending, however acquisitions, exits, idle     *)
(* timeouts, failures and successes replaced and cancelled its timers.     *)
(* That holds while the two sizes stay (SwitchConfigs in MCTerminalPool):  *)
(* raising minPoolSize of a pool that is enabled starts no refill.         *)
(***************************************************************************)
RefillPending ==
  initialized /\ spawnCalls = 0 /\ ~Stocked => replenishTimer \/ backoffTimer
=============================================================================
