# Claude Code Orchestra in TLA+

Claude Code Orchestra is an Electron (or headless Node) application that starts
Claude CLI instances in pseudo terminals, shows them, and automates them: a
task board with a loop that works tasks off, reviews after completed tasks,
shared contexts, a cluster of hosts. This directory models the parts of it
where order matters, checks them with TLC on small instances, and proves their
safety properties with TLAPS for all instances.

Files of the application are named relative to `src/` of the working copy;
`services/` stands for `src/src/main/services/`.

## 1. Inventory

Everything runs in one Node process. Handlers (IPC from the renderer, HTTP
routes for web clients, hooks and curl commands of the CLI), timer callbacks
and event listeners each run to completion, so one of them is one action; what
interleaves are whole callbacks, the parts of an `async` function between its
awaits, the other processes (shells, CLIs), and crashes.

| component | state | operations | talks to |
|---|---|---|---|
| **Ralph task loop** (`RalphTaskLoop`, `RalphTaskManager`) | Map `runningTasks`, set `processingAllQueue`, 2 s timers; rows of `ralph_tasks`; a context file per task | start, stop, complete, help, respond, process all, stop all, exits, timers | creates and kills instances, listens to `instanceExited`, writes the table |
| **Terminal pool** (`TerminalPool`) | Map of pooled shells, idle / replenish / backoff timers, failure counter, configuration | initialize, acquire, spawn, dispose, replenish, update config, shutdown | node-pty; instances that take a shell |
| **Claude instance** (`ClaudeInstance`, `StreamJSONParser`) | status, parser status, `_hasExited`, `_receivedResult`, idle timer, pty | start, output, prompt detection, input, session hook, kill, graceful kill, exit | pool, node-pty, process manager by events |
| **Process manager** (`ProcessManager`) | Maps of instances, outputs, cleanup timers | create, kill, kill all, listen, clean up | everybody |
| **Auto review** (`AutoReviewService`) | pending requests, debounce timers, cooldowns, active reviews, intervals, safety timeouts | queue, process, poll, time out, shut down | creates, polls and kills instances |
| **Data store** (`DataStore`) | SQLite tables | reads, single-statement writes | everybody |
| **Application lifecycle** (`main/index.ts`) | none | start, window-all-closed, before-quit | kills all, closes the database |
| **Cluster** (`ClusterManager`) | primary: `nodes`, `clusterSockets`, `pendingStates`, state version, debounced broadcast; secondary: `clientSocket`, reconnect timer, `isConnecting`, `intentionalDisconnect`, last version | start, stop, register, update, broadcast, disconnect, reconnect, create / kill / type / shell elsewhere | Socket.io, process manager |
| **Permission prompts** (`PermissionPromptManager`, `instanceStore`, `StructuredView`, `PermissionBar`) | pending requests with timers; in the window the prompts, a memoized selector, the bar | request, time out, respond; receive, show, click | MCP tool, IPC |
| File activity tracking (`FileLockManager`) | activities per file, files per instance | track, detect, clean up by age and by instance | hooks, process manager |
| Shared context (`SharedContextStore`) | contexts and knowledge by project | publish, read, expire | MCP tools |
| Trackers (`SubagentTracker`, `TaskTracker`, `TeamTracker`, watchers) | projections of events and files | start, complete, clear | hooks, parser |
| Notifications, shells, IPC, web server, broadcaster, hooks, skills, MCP server, history, auth, git, Jira, vector search, UI | see `PROJECT.json` | | |

Where it is hard, and what must hold:

* **Ralph loop.** Starts, answers, completions, exits and timers of one task
  overlap; a killed instance exits seconds after it was stopped; everything but
  the table is lost with the process. Correct: the table names only instances
  the loop tracks; iterations stay within `MAX_LOOP_ITERATIONS`; no timer starts
  what is paused; a loop at work goes on until it is parked, unless it is lost
  in one of a few known ways; all of it stops in the end.
* **Terminal pool.** Four ways to spawn, two timers that replace and cancel one
  another, spawns that fail in part, exits that arrive after the shutdown.
  Correct: no shell is lost or taken from its instance; the pool neither
  overfills nor stays short without anything pending.
* **Instance.** Chunks are cut anywhere; the exit of a CLI in a pooled shell can
  only be guessed from a prompt; a graceful kill takes four waits, during which
  the instance may exit, be killed by force, or be asked again. Correct: the
  end is announced, exactly what the loop and the reviews wait for; a kill
  leads to it; killed instances stay killed.
* **Auto review.** Requests are replaced, dropped and debounced; two timers
  watch one instance that may hang, resume or vanish. Correct: one review at a
  time, each over in the end and reported once.
* **Cluster.** Nodes leave and come back over new connections before the server
  notices that the old ones are gone; two mechanisms open sockets; states and
  requests are neither acknowledged nor repeated. Correct: what is shown of a
  node agrees with its connections; every change is told, also after a stop; a
  request is done once (once per start of the server, if its listeners carry
  it) or lost; a node that is started comes to its primary and hears the newest
  state, unless it found the flag of an interrupted attempt.
* **Permission prompts.** Timer, answer and the end of the view race each other
  across two processes, and the window keeps copies. Correct: one verdict per
  request, given in any case, and allowed only by the user's consent to this
  very request.

`PROJECT.json` lists these as hazards, at the line where each bites.

## 2. Modules

| module | models | reads as |
|---|---|---|
| `RalphLoop` | the loop, the writes of `RalphTaskManager`, the restart of the application | `task` is the table; `runningTasks`, `processingAllQueue` are the fields of that name; `restartTimers` / `queueTimers` count pending `setTimeout`s; `live` is what node-pty has not reported as ended |
| `TerminalPool` | `TerminalPool.ts` | `pool` is the Map, `shell` the processes; `spawnCalls` counts the `spawnTerminal` calls the running callback still makes, each of which may fail |
| `ClaudeInstance` | one `ClaudeInstance`, its parser's statuses and its record in `ProcessManager` | variables carry the fields' names; `killStage` is the await a `gracefulKill` is at; `heard` says that `instanceExited` was emitted |
| `InstanceContract` | what users of the process manager are promised | absent, running, exited, removed, in this order |
| `InstanceView` | what polling a record of the process manager may find next | `View` is what is told apart, `After` the order in time |
| `AutoReview` | `AutoReviewService.ts` | variables carry the fields' names; `polling` / `safetyTimers` are the interval and the five-minute timeout of a review; `cooling` says that 30 s have not passed |
| `ClusterPrimary` | `ClusterManager` at the primary, with the connections and requests of several nodes | `nodes`, `clusterSockets`, `pendingStates` are the fields of that name; `listeners` counts how often `setupServerSocketHandlers` added its listeners; a connection is open at either end on its own (`serverOpen`, `clientOpen`) |
| `RemoteRequest` | what is promised about a request for another node | asked; open while it may still be done; done at most `Copies` times |
| `ClusterSecondary` | `ClusterManager` at a secondary, with its sockets | fields' names; `sock` is the state of each Socket.io socket, `clientSocket` the newest; of the primary only what is sent to this node |
| `PermissionPrompt` | `PermissionPromptManager`, its IPC forwarding, the store's prompts and selector, `StructuredView`, `PermissionBar` | `pending` is the manager's Map, `prompts` the store's; `events`, `responses`, `replies` are the messages under way; `memo` is the selector's, `shown` what the bar was rendered with |
| `PermissionContract` | what the CLI and the user are promised | asked, consented, decided |
| `X_proofs` | theorems about `X` | |
| `MCX` | definitions for the configurations of `X` | |
| `MCRalphResume` | `RalphLoop` with a record of the *Resume* button | `resumed` is the task it was pressed for in the last step |

Operators marked *Defect:* are not part of a specification. Each is a plausible
mistake in the operator that follows it, and `PROJECT.json` ("mutants") pairs it
with the property that catches it.

Abstractions, by module:

* `RalphLoop`: prompts, Jira, titles, descriptions and what context files hold
  are left out (only that one may be unwritable is not); `orderIndex` is reduced
  to "any todo task may be next", since users reorder columns at any time.
  Instance ids are numbers in creation order: they are only compared for
  equality, and Map iteration order is creation order.
* `TerminalPool`: delays do not matter, only what is pending; statistics are
  left out; a terminal id may be used again once its shell is gone and the exit
  handled. The callback of an idle timeout does not look whether the terminal is
  idle, as the code does: `TimeoutsHitIdleOnly` says that it need not.
  `release` and `resetStats` are not called by anything.
* `ClaudeInstance`: a chunk holds at most one message, or part of one; messages
  are reduced to the status inferred from them. The exit code is 0 or not. The
  statuses `pending` and `needs_permission` are never assigned by the code
  modelled.
* `AutoReview`: time is "timers may fire", so a safety timeout may also fire
  before the cooldown ends (more behaviours than the code has). Instances are
  reduced to what polling tells apart, and do whatever `InstanceView` allows:
  that a killed one does not work again and that a record is removed only after
  its end is proved of `ClaudeInstance`.

* `ClusterPrimary`: what a node has (projects, instances) is left out: a state
  takes the place of the one before. Connections are ordered, and lose what
  they carry when they break. Registrations are accepted: a node with a wrong
  secret does not get past the handshake. Heartbeats change only `lastSeen`,
  which nothing reads. Requests are to create or kill an instance, to type into
  one, or to create a shell; resizing, which is answered by broadcasts, and the
  forwarding of output are left out. What Socket.io does is modelled from how
  it is used and marked external.
* `ClusterSecondary`: the primary is reduced to the numbered states it sends,
  and counts from 0 whenever it comes up again with a new process; other nodes
  to `NodesChange`. An attempt may fail while the primary is up
  (`ConnectTimeout`: a timeout, a handshake that breaks), as often as
  `MaxEvents` allows. A wrong secret, which is refused for good, is left out,
  and so is a change of configuration during a reconnect delay
  (`services/ClusterManager.ts:1401`). `node:joined` and `node:left`, which
  carry no version, are left out: a numbered state follows each.
* `PermissionPrompt`: tool and input are left out, ids are numbers in the order
  of the requests, which is the order of both Maps. The window is open, and the
  user is at one view at a time. `StructuredView` renders the bar when the
  instance is past `pending` and has output, which may be the case or not at
  each render. The status `needs_permission`, which also brings up the bar, is
  never assigned by the code, and not modelled.

How they compose: `ClaudeInstance` is shown to implement `InstanceContract`
(`KeepsContract`, checked and proved). `RalphLoop`'s `InstanceExit` is the
contract's `Exit`, its `live` the instances in "running" or, for a pooled CLI
taken for finished by mistake, a part of them. `AutoReview` assumes of its
instances `InstanceView` (`InstanceMoves`), and `ClaudeInstance` guarantees it:
the steps of its record, as a poll sees it, are steps of `After` (the second
part of `KeepsContract`). `TerminalPool`'s `KillAssigned` is `Kill` of
`ClaudeInstance` on a pooled shell. `ClusterPrimary` implements `RemoteRequest`
(`KeepsRequests`); its `NewSocket`, `Connect` and `ClientLoses` allow what
`ClusterSecondary`'s sockets do, and its `Register` and `Broadcast` are those of
`ClusterSecondary`, seen by all nodes. `PermissionPrompt` implements
`PermissionContract` (`KeepsContract`).

## 3. Runs

| run | instance | shows | size |
|---|---|---|---|
| `ralph` | 1 task, 3 iterations, every request, free edits included, every way a start can fail, ends that are noticed or not, restarts | types, `CurrentInstanceTracked`, `IterationBudget`, `EverySpawnCounted`, `PauseHolds`, `LoopsGoOn`, `LoopParks`, `EventuallyQuiet` (liveness) | 8,107 states |
| `ralph_resume` | 1 task, 2 iterations | **violated**: a task that is resumed goes on | |
| `ralph_queue` | 3 tasks | **violated**: the queue works on one task at a time | |
| `pool` | 5 terminals, 2 kept ready, at most 3, 2 failures | types, `NoStrayShell`, `TimeoutsHitIdleOnly`, `ShutDownForGood`, `RefillPending` | 8,630 states |
| `instance` | all modes and terminals, 2 graceful kills | types, `EndIsHeard`, `ExitedOrHeard`, `KilledStays`, `KeepsContract`, `KillIsHeard` | 39,196 states, 10 s |
| `instance_finish` | a pooled `stream-json` CLI | **violated**: a finished CLI is announced | |
| `review` | 2 projects, 2 reviewing instances | types, `OneReviewPerProject`, `RequestsAreTimed`, `ReportedOnce`, `ActiveIsWatched`, `ReviewerStopsFirst`, `ReviewsEnd` | 46,260 states, 16 s |
| `cluster_primary` | 2 nodes (2 sockets and 2 connections, 1 and 1), a request between nodes and one from the primary, two starts by each primary process, stops and crashes | types, `OnlineIsRegistered`, `RegisteredIsKnown`, `NothingComesEarly`, `RegisteredAreTold`, `KeepsRequests` | 2,294,064 states, 3.5 min |
| `cluster_secondary` | 2 sockets, 3 events from outside | types, `OnlyStopLeavesFlag`, `OnlyFlagStrands`, `Connects`, `StatesAreHeard` (liveness) | 571,111 states, 40 s |
| `secondary_stop` | 2 sockets, 2 events | **violated**: after a stop no socket connects | |
| `prompts` | 2 instances, 3 requests, 2 clicks under way | `PromptsFollow`, `AnswersStayHome`, `KeepsContract` | 846,437 states, 50 s |
| `prompts_stale` | 1 instance, 2 requests | **violated**: the bar shows a prompt of the store | |

The runs marked **violated** state what a comment, or a label of the board,
says; `PROJECT.json` ("findings") quotes it and says what the code does.

Bounds, and why they are enough:

* `Tasks`: tasks meet only in a project's queue and in the order of entries of
  `runningTasks`. The properties of `ralph` are about each task by itself, and
  one task, started by the queue and by requests, has all of its overlaps; the
  safety properties are proved for any number of tasks. The queue run takes
  three, so that two can be started after the first.
* `MaxLoop` (100 in the code): 3 reaches the limit, and leaves an iteration
  before it that is neither first nor last; the other two runs need no more
  than one iteration per task, or one and a second that is never reached.
* `MaxQueueTimers`: completions beyond it wait in the model; one pending timer
  and the next completion already overlap.
* `Terminals`, and the guard in `Spawns` that a callback finds as many free ids
  as it spawns: five ids allow a full pool of three and two shells that were
  disposed of and have not yet ended. The proofs do not depend on the number.
* `Kills`: a third overlapping graceful kill meets nothing the second did not.
* `Reviews`: two instances are an old review and a new one of one project, or
  one of each of two projects. When none is left, `createInstance` throws.
* `MaxConns`, `MaxSockets`: two connections of one node are the old one, not yet
  noticed to be gone, and the new; two sockets are the newest and one that was
  left behind; the second node has one, to be the other end of a request.
  Crashes of the primary need no bound, as each uses up connections.
* `MaxUp` (states under way): one besides the registration.
* `MaxStarts` = 2: a start, and another after a stop, or after finding the port
  taken, in the same process. Both what a stop has cancelled and what a second
  set of listeners does are reached by the second start.
* `MaxEvents`: three breaks, starts, stops, timeouts or changes; all that a
  node's timers and sockets do in answer to them is unbounded. Three are a stop
  during an attempt, the start that finds its flag, and one thing more. A third
  socket is left to the proofs, which hold for any number.
* `MaxRequests`, `MaxClicks`: three prompts are one that is shown, one that is
  gone and one of another instance, or three of which the number stays the same;
  two clicks are a late one and one that follows it.

`CHECK_DEADLOCK FALSE` is set where the system may stop: the board when every
task is deleted or at its limit, an instance that has exited, a service with no
reviews left, a cluster whose bounded connections and events are used up, a
view that was left with every prompt decided. The pool never stops.

### Fairness

Liveness is stated under: pending timers fire (`RestartTimer`, `QueueTimer`,
`Continue`, `Poll`, `SafetyTimeout`); SIGKILL ends a process and node-pty
reports ends (`PtyEnds`, `OnExit`). `LoopParks` and `EventuallyQuiet` also
assume that the CLI of a live instance ends some day, which is an assumption
about a foreign program that the loop itself depends on; that the end is
announced is not assumed (`EndUnnoticed`, which `instance_finish` shows to
happen), and restarts may come at any time. `KillIsHeard` and `ReviewsEnd`
assume nothing of the CLI. A secondary's timers run out, its attempts succeed
or fail (and do not fail forever while the primary is up), messages arrive, and
both ends notice in the end that a connection is gone (Socket.io's pings); the
broadcast fires, since its debouncing has a longest wait. Starts, stops and
breaks get no fairness. The timers of permission requests go off; nothing makes
the user answer, look, or the window render. Users owe nothing. A `setTimeout`
that is replaced over and over (the debounce timer) gets no fairness: nothing
in the code bounds the postponing.

## 4. Proofs

The theorems hold for every value of the constants, under the named
assumptions on them (for instance `MaxLoopAssumption`, `ConfigsAssumption`).
Each is `Spec => []P` or `Spec => [][A]_vars`, from an inductive invariant.
Every safety property of a passing run is the statement of a theorem.

* **`RalphLoop_proofs`**: `TypeCorrect`, `RowsAgreeWithLoop`
  (`CurrentInstanceTracked`), `LoopIsBounded` (`IterationBudget`),
  `PausedTasksStay` (`PauseHolds`), `SpawnsAreCounted` (`EverySpawnCounted`),
  `SpawnsAreBounded`, `NoLoopIsLost`, `OneAgentPerTask`.
  `CurrentInstanceTracked` alone is not inductive: a restart must take every id
  a row still names below `boot` (`IdsIssued`), and a row that is created must
  name none (`NoneUnassigned`). `IterationBudget` needs that `runningTasks` is
  finite: an exit trades an entry for a timer and a timer an entry for a
  counted iteration, and the cardinalities are counted in lemmas of their own.
  `EverySpawnCounted` says that the pairs of a task and an iteration of it
  (`Counted`) are as many as the instances started; a step adds one pair with
  an id, or keeps every `loop_count` (`CountInv`). With the limit it gives the
  bound on everything the loop ever starts (`SpawnsBounded`). `NoLoopIsLost` is
  an action property (`LoopsGoOn`): a step that takes a task out of the loop
  parks it, and the three kinds of step that do not are named in it: a restart
  of the application, an end that no exit announces, and a restart of the task
  whose instance or context file fails. (A bound on time is not in it:
  `LoopParks` is model-checked.) `OneAgentPerTask` assumes `QueueOnly`, that
  only the queue and the loop start instances; `Solo` adds that a task in
  *todo* has neither an instance nor a timer. Each of the three kinds of
  request it excludes is needed (section 5).
* **`TerminalPool_proofs`**: `TypeCorrect`, `ShellsAreReached`,
  `UsedTerminalsStay`, `ShutdownIsFinal`, `StockIsBounded`, `RefillIsPending`,
  `RefillComesBack`, `UsedShellsAreKept`, `ShellsAreBounded`. The first four
  are the conjuncts of `BasicInv`, which adds that an uninitialized pool is
  empty (`Untouched`), that the configuration is one of `Configs`, and that the
  pool is finite. `NeverOverstocked` (`StockIsBounded`), stated there, is
  inductive on top of it (`OverstockStep`). `RefillPending` (`RefillInv`) is
  proved under the hypothesis `FixedSizes`, with `RefillInv` counting the
  spawns a callback still makes: the configurations differ only in whether the
  pool is enabled and whether idle terminals time out. The hypothesis is
  needed: without it nothing is pending after the number kept ready was raised
  (section 5). `RefillComesBack` is what holds without it: each step that
  leaves the sizes alone keeps `RefillInv`, and acquisitions, exits and the
  refill's own timers establish it again. `UsedShellsAreKept` lists the steps
  that may end a shell in use; no timer is among them. `ShellsAreBounded` is
  inductive for the entries of the Map rather than the shells (`SizeInv`), with
  no spawn under way in a disabled pool.
* **`ClaudeInstance_proofs`**: `TypeCorrect`, `EndsAreHeard`, `NoSilentExit`,
  `KilledForGood`, `ImplementsContract`, the refinement of `InstanceContract`
  and of `InstanceView`, and `KillsEndHeard`. The invariant adds: nothing exists
  before creation (`Fresh`); an instance that was created is listened to or was
  announced, and what follows the exit follows the announcement (`Announced`); a
  terminal that was not told to end is held (`Held`); a killed instance has let
  go of its parser, terminal and `_hasExited` (`Dead`). What the view needs is
  that an instance that has let go stays so (`LetGo`), also when it is
  `completed` later, while one that only takes itself for completed may work
  again. `KillsEndHeard` needs `KillsLand`: each stage of a graceful kill is
  reached with the end still to come or announced.
* **`AutoReview_proofs`**: `TypeCorrect`, `ReviewsAreExclusive`,
  `RequestsAreLookedAt`, `EndsAreReportedOnce`, `ReviewsAreWatched`,
  `ReviewersStopFirst`. The invariant adds that an id that was never created is
  in no entry (`NoneUncreated`), so that a new review does not inherit the
  report of another.
* **`ClusterPrimary_proofs`**: `TypeCorrect`, `OnlineNodesRegistered`,
  `RegisteredNodesKnown`, `RegistrationsComeFirst`, `ChangesAreTold`, from
  `ConnInv` (a connection belongs to one socket and one is open per socket;
  what is carried is carried by open ones) and `NodeInv` (the entries of
  `clusterSockets` have different ranks; the newest socket's connection starts
  with a registration). The requests need `BudgetInv`, in which the copies of a
  request that are under way and those that were done share a budget, `Copies`:
  one, or one per start of the server for a request that goes over the
  primary's listeners. `RequestsAreBounded` follows: nothing unasked is done,
  and nothing more often than that. `RequestsKept` is the refinement of
  `RemoteRequest`, with no hypothesis, from `TypeOK`, `NodeInv` and
  `BudgetInv`: a break loses copies (`LoseStep`), a hop moves one (`OneMoves`),
  and what was done or lost entirely is not done later (`ContractStep`).
  `RequestsDoneAtTarget`: what is done is done by the node it is for, over a
  connection of its own.
* **`ClusterSecondary_proofs`**: all theorems hold whatever stops, starts,
  crashes and timeouts do. `FlagLeftByStop` (`OnlyStopLeavesFlag`) and
  `StrandedByFlag` (`OnlyFlagStrands`) are action properties, from `BasicInv`.
  `VersionsGrow` needs types only. `NoStateIsMissed` is from `HeardInv`:
  nothing under way is newer than the state (`NoneTooNew`); over every
  registered connection the newest version is the last under way, or its number
  was seen, or a broadcast is due (`NoneMissed`); and the newest socket, once
  connected, registers the node (`NewestRegisters`). Together they give
  `RestsOnlyWhenCurrent`: where nothing is under way, the node is registered
  over its newest socket and up to date, or has no newest socket.
* **`PermissionPrompt_proofs`**: `TypeCorrect`, `PromptsAreCurrent`,
  `AnswersGoHome`, `StoresComeToAgree`, `UnansweredHaveTimers`, and
  `ContractKept`, the safety part of `KeepsContract`. `ViewInv` says that the
  memo's result is always a prompt of the memo's instance. `MailInv` relates
  the messages under way to both Maps: a timeout comes behind its request
  (`Orderly`), responses and replies are about requests the window has heard
  of, so that a prompt that was removed does not come back. With nothing under
  way both Maps are the same.

Only model-checked: liveness (`LoopParks`, `EventuallyQuiet`, `KillIsHeard`,
`ReviewsEnd`, `Connects`, `StatesAreHeard`, and that every request is decided in
`KeepsContract`), which is beyond TLAPS, and the runs that end in a violation.
Of each liveness property the part that is a safety property is proved, that
there is no state in which what it promises is missing and nothing is pending
that would bring it: `SpawnsAreBounded` and `NoLoopIsLost` for the loop,
`KillsEndHeard`, `ReviewsAreWatched`, `RestsOnlyWhenCurrent`,
`UnansweredHaveTimers`. What remains is that pending steps are taken, which is
the fairness of section 3.

## 5. What the models show besides

Behaviour that is in the models because it is in the code. What a document,
a label or a comment denies is marked with its words:

* Seen in the source, not in the model, which leaves out what context files
  hold: the context file of a task is written anew before each iteration, so
  the notes of the one before, and the answer to a request for help, are lost
  (`services/RalphTaskManager.ts:203`; the prompt says "Previous iterations
  have been run. Check the context file for notes.",
  `services/RalphTaskLoop.ts:463`).
* The board's *Resume* button of a stopped task calls `startTask`, which finds
  the task paused and returns, however often it is pressed (`ResumeIsHeard`, a
  finding; the other properties of the loop would hold of a button that worked;
  `src/src/renderer/components/ralphTasks/TaskCardActions.tsx:233`).
* `runLoop` does not look whether an instance of the task is alive. A start
  request for a task at work, an answer to an agent that asked for help and
  works on, and a task dragged back to *todo* can each start a second agent
  beside the first. Without such requests and edits no task ever has two
  (`OneAgentPerTask`).
* Raising `minPoolSize` ("Terminals kept ready (1-10)",
  `src/src/renderer/i18n/locales/en.json:622`) spawns nothing until some other
  event schedules a replenishment (`services/TerminalPool.ts:484`).
* Shells given to instances never come back: `release` has no caller, so the
  shells of finished instances count against `maxPoolSize` until they are
  killed or exit. A graceful kill of a pooled instance that has finished returns
  early and leaves its shell alone.
* Disabling the pool kills the shells of instances at work.
* After `MAX_CONSECUTIVE_FAILURES` spawn failures with no idle terminal left,
  nothing resets the counter.
* A `killed` instance whose process exits with code 0 becomes `completed`.
* In interactive mode the end of a CLI in a pooled shell is never noticed; in
  `stream-json` mode it is missed when the result is an error (a finding) or
  when the prompt comes in the chunk that completes the result.
* `_receivedResult` is never reset: in a later turn a chunk cut after `$`, `%`,
  `#` or `>` announces an exit while the CLI works on.
* A start that fails without an exit event, a context file that cannot be
  written, or a CLI whose end is not noticed leaves a task in *doing* with
  nothing that works on it; `LoopsGoOn` names these, and a restart of the
  application, as the ways to lose a loop.
* The queue of a project is only moved on by `completeTask`: a task that is
  deleted, paused or dragged to *done* leaves the queue on and standing.
* A reviewing instance that completes tasks requests reviews of its project.
* A project that opts out of reviews within the 500 ms of a debounce is still
  reviewed once.
* The late disconnect of an old connection marks a node offline that is
  registered over a new one; neither heartbeats nor states undo it.
* `sendClusterCommand` takes the first socket of a node, which may be the one it
  has given up: the command is lost, and nobody is told.
* Kills and input asked for at a secondary go to listeners that only a primary
  has, and are lost.
* Each start of a primary's server adds its internal listeners again, also when
  the port was taken, so that what is asked at the primary is done once per
  start: `Copies`, which `KeepsRequests` allows, is more than 1 for it.
* A `stop()` that interrupts an attempt leaves `isConnecting` set, and the next
  `start()` returns at once. `OnlyStopLeavesFlag` and `OnlyFlagStrands` say that
  nothing else strands a node; `Connects` and `StatesAreHeard` name the case.
  Later starts return as well, until an event of an older socket, if there is
  one, clears the flag.
* A primary whose application was restarted numbers its states from 0 again,
  and its nodes ignore them until they pass the version they have:
  `StatesAreHeard` asks for the newest number or a greater one.
  (`src/src/shared/types/cluster.ts:135`: "Monotonically increasing version
  number for state ordering".)
* A permission request of an instance that was killed stays until its timer:
  `cancelAllForInstance` has no caller.
* After an answer `StructuredView` is not rendered, so the bar stays, with the
  buttons for terminal prompts, until something else renders it.

## 6. Plan

Done: the survey; the loop, the pool, the instance with its contract, the
reviews, both sides of the cluster with the contract of its requests, and the
permission prompts with theirs, modelled, checked and proved.

Left, in this order:

1. `RalphSystem`: `RalphLoop` over instances that follow `InstanceContract` with
   kills of several steps, to replace the atomic `live` by the instance's life,
   and a refinement of the loop's own specification.
2. `ClusterPrimary` with the sockets of `ClusterSecondary` in place of
   `NewSocket`, `Connect` and `ClientLoses`, shown to be allowed by them.
3. `FileActivity` (`FileLockManager`): activities with ages; the activities of
   instances that are gone disappear in the end.
4. `SharedContext`: what a reader sees of a publisher that restarts.
5. Proofs: an abstract pool (a stock of terminals that is filled) that
   `TerminalPool` implements, and a contract of the loop's tasks.

## 7. Not modelled, and why

Presentation (renderer, web client, TUI), transport (IPC, HTTP, sockets), files
and external services (history, plans, git, Jira, skills, hooks), cryptography
(auth, certificates), numerical code (vector search): pure I/O, stateless, or
beyond a model checker. File activities, shared contexts and the trackers are
bookkeeping that views and prompts read and nothing waits for. The requests
they carry are actions of the modules they reach. Of the instance: history and
task file watchers, MCP set-up, resizing, tmux; a failure of
`startWithPooledTerminal` after its handlers are attached
(`services/ClaudeInstance.ts:1211`); and that a write which throws makes a
graceful kill immediate (1913), which in the model is a `ForceKill`. Of the
loop: the return when a task's project is not found
(`services/RalphTaskLoop.ts:312`), which no row reaches, as the table deletes
the tasks of a project with it (`services/DataStore.ts:164`, 394); and an
answer to an agent whose context file takes the appended answer but cannot be
written again (196-207). Of the process manager: output buffers, conversations
and plain shells. Of the cluster: forwarding of output and hook events,
resizing, its permissions, the limit on nodes, and nodes with a wrong secret.
Of the permission prompts: cancellation, which nothing calls, a closed window
(its events are dropped, so every request is denied by its timer), and the
terminal's own prompts. `PROJECT.json` lists every component with its status.
