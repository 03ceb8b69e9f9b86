--------------------------- MODULE ClaudeInstance ---------------------------
(***************************************************************************)
(* One Claude instance: its CLI in a pseudo terminal, the ClaudeInstance   *)
(* that follows it, and the record ProcessManager keeps of it.  Instances  *)
(* share no state but the Maps ProcessManager keys by their ids.           *)
(*                                                                         *)
(* The CLI either is the process of the terminal, or a command typed into  *)
(* a shell of the terminal pool that outlives it.  What interleaves are    *)
(* chunks of output, the end of processes, timers, the SessionStart hook,  *)
(* and kills, the graceful ones waiting between their steps.               *)
(***************************************************************************)
EXTENDS Integers, FiniteSets, InstanceView

CONSTANTS
  Setups,   \* how the instance may be set up
  Kills     \* the calls of gracefulKill (a bound on their number)

Setup == [mode: {"stream-json", "interactive"}, pooled: BOOLEAN]

ASSUME SetupsAssumption == Setups \subseteq Setup

VARIABLES
  setup,
  status,          \* _status, "none" before the instance is created
  parserStatus,    \* currentStatus of its StreamJSONParser
  parsing,         \* are the listeners of the parser attached?
  receivedResult,  \* _receivedResult
  hasExited,       \* _hasExited
  idleTimer,       \* is the idle timer pending?
  ptyRef,          \* ptyProcess # null
  pty,             \* the process of the terminal
  cli,             \* the Claude CLI
  killStage,       \* what each call of gracefulKill waits for
  inMap,           \* is the instance in ProcessManager.instances?
  listening,       \* are ProcessManager's listeners attached?
  heard,           \* has ProcessManager announced the exit?
  exitImmediate,   \* is the setImmediate of the exit listener pending?
  cleanupTimer     \* is the delayed removal pending?

parserVars == <<parserStatus, parsing, receivedResult>>
processVars == <<ptyRef, pty, cli>>
managerVars == <<inMap, listening, heard, exitImmediate, cleanupTimer>>
vars == <<setup, status, parserVars, hasExited, idleTimer, processVars, killStage,
          managerVars>>

FinalStatus == {"completed", "error", "killed"}

InstanceStatus == FinalStatus \cup
  {"starting", "running", "waiting_input", "tool_executing", "terminating"}

(* "killed": SIGKILL was sent; "dead": ended, and onExit not yet called.   *)
PtyState == {"none", "alive", "killed", "dead", "closed"}

KillStages == {"none", "interrupt", "claudeExit", "shellExit", "lastInterrupt", "done"}

(* What a chunk of output holds, "partial": no message that can be parsed. *)
Messages == {"system", "assistant", "tool_use", "result", "error_result"}

Init ==
  /\ setup \in Setups
  /\ status = "none"
  /\ parserStatus = "starting"
  /\ parsing = TRUE
  /\ receivedResult = FALSE
  /\ hasExited = FALSE
  /\ idleTimer = FALSE
  /\ ptyRef = FALSE
  /\ pty = "none"
  /\ cli = "off"
  /\ killStage = [k \in Kills |-> "none"]
  /\ inMap = FALSE
  /\ listening = FALSE
  /\ heard = FALSE
  /\ exitImmediate = FALSE
  /\ cleanupTimer = FALSE

IsRunning == ptyRef /\ status \notin FinalStatus

(* The instance emits 'exit' if b; the manager announces what it hears.    *)
EmitExit(b) ==
  /\ heard' = (heard \/ (b /\ listening))
  /\ exitImmediate' = (exitImmediate \/ (b /\ listening))
  /\ UNCHANGED <<inMap, listening, cleanupTimer>>

----------------------------------------------------------------------------
(* createInstance and start; ok tells whether pty.spawn succeeds.          *)
Create(ok) ==
  /\ status = "none"
  /\ inMap' = TRUE
  /\ listening' = TRUE
  /\ \/ /\ ok
        /\ status' = "starting"
        /\ ptyRef' = TRUE
        /\ pty' = "alive"
        /\ cli' = "busy"
     \/ /\ ~ok
        /\ ~setup.pooled
        /\ status' = "error"
        /\ UNCHANGED processVars
  /\ UNCHANGED <<setup, parserVars, hasExited, idleTimer, killStage, heard,
                 exitImmediate, cleanupTimer>>

(* Defect: the status is named after the message.                          *)
InferType(m) == IF m = "error_result" THEN "error" ELSE m

(* inferStatus of a message.                                               *)
Infer(m) ==
  CASE m = "system"       -> "starting"
    [] m = "assistant"    -> "running"
    [] m = "tool_use"     -> "tool_executing"
    [] m = "result"       -> "waiting_input"
    [] m = "error_result" -> "error"

(* The parser is given a chunk while the status is s.                      *)
Parse(s, m) ==
  \/ /\ m = "partial"
     /\ status' = s
     /\ UNCHANGED parserVars
  \/ /\ m \in Messages
     /\ parserStatus' = Infer(m)
     /\ status' = IF parsing /\ Infer(m) # parserStatus THEN Infer(m) ELSE s
     /\ receivedResult' = (receivedResult \/ (parsing /\ m \in {"result", "error_result"}))
     /\ UNCHANGED parsing

(***************************************************************************)
(* The onData handler, given a chunk with m whose end looks like a shell   *)
(* prompt or not.  It looks for a prompt before it parses the chunk.       *)
(***************************************************************************)
OnData(m, prompt) ==
  LET finished == prompt /\ receivedResult /\ status \notin {"completed", "error"}
      s == IF finished THEN "completed" ELSE status
  IN  /\ EmitExit(finished /\ ~hasExited)
      /\ hasExited' = (hasExited \/ finished)
      /\ \/ /\ setup.mode = "stream-json"
            /\ Parse(s, m)
            /\ UNCHANGED idleTimer
         \/ /\ setup.mode = "interactive"
            /\ status' = IF s \in {"starting", "waiting_input"} THEN "running" ELSE s
            /\ idleTimer' = TRUE
            /\ UNCHANGED parserVars
      /\ UNCHANGED <<setup, processVars, killStage>>

(* A chunk of the CLI may be cut anywhere, so right after a '$' or a '>'.  *)
CliOutput(m, prompt) ==
  /\ pty \in {"alive", "killed"}
  /\ cli = "busy"
  /\ OnData(m, prompt)

(* The shell prompts; if the last message of the CLI comes in the same     *)
(* chunk, the parser does not find its end and waits for more.             *)
ShellPrompt ==
  /\ pty \in {"alive", "killed"}
  /\ cli = "ended"
  /\ OnData("partial", TRUE)

(* setSessionId, called by the SessionStart hook over HTTP.                *)
SetSessionId ==
  /\ inMap
  /\ status = "starting"
  /\ status' = "running"
  /\ idleTimer' = (idleTimer \/ setup.mode = "interactive")
  /\ UNCHANGED <<setup, parserVars, hasExited, processVars, killStage, managerVars>>

(* The idle timer fires.                                                   *)
IdleTimeout ==
  /\ idleTimer
  /\ idleTimer' = FALSE
  /\ status' = IF ~hasExited /\ status = "running" /\ setup.mode = "interactive"
               THEN "waiting_input" ELSE status
  /\ UNCHANGED <<setup, parserVars, hasExited, processVars, killStage, managerVars>>

(* sendInput, or sendJsonMessage to an instance that has not exited.       *)
SendInput ==
  /\ inMap
  /\ ptyRef
  /\ status = "waiting_input"
  /\ status' = "running"
  /\ UNCHANGED <<setup, parserVars, hasExited, idleTimer, processVars, killStage,
                 managerVars>>

----------------------------------------------------------------------------
(* Defect: the parser goes on talking to the instance.                     *)
KillParsing ==
  /\ hasExited' = TRUE
  /\ idleTimer' = FALSE
  /\ ptyRef' = FALSE
  /\ status' = IF ptyRef THEN "killed" ELSE status
  /\ pty' = IF ptyRef /\ pty = "alive" THEN "killed" ELSE pty
  /\ UNCHANGED <<setup, parserVars, cli, managerVars>>

(* kill, which also serves the last step of a graceful kill.               *)
Kill ==
  /\ hasExited' = TRUE
  /\ idleTimer' = FALSE
  /\ parsing' = FALSE
  /\ ptyRef' = FALSE
  /\ status' = IF ptyRef THEN "killed" ELSE status
  /\ pty' = IF ptyRef /\ pty = "alive" THEN "killed" ELSE pty
  /\ UNCHANGED <<setup, parserStatus, receivedResult, cli, managerVars>>

(* Defect: the exit is taken for granted before it happened.               *)
BeginHasty(k) ==
  /\ idleTimer' = FALSE
  /\ hasExited' = TRUE
  /\ IF hasExited \/ ~ptyRef
     THEN /\ parsing' = FALSE
          /\ killStage' = [killStage EXCEPT ![k] = "done"]
          /\ UNCHANGED status
     ELSE /\ status' = "terminating"
          /\ killStage' = [killStage EXCEPT ![k] = "interrupt"]
          /\ UNCHANGED parsing
  /\ UNCHANGED <<setup, parserStatus, receivedResult, processVars>>

(***************************************************************************)
(* gracefulKill up to its first await.  What it types makes the CLI, and   *)
(* then the shell, end: or not, they may end at any time anyway.           *)
(***************************************************************************)
Begin(k) ==
  /\ idleTimer' = FALSE
  /\ IF hasExited \/ ~ptyRef
     THEN /\ parsing' = FALSE
          /\ killStage' = [killStage EXCEPT ![k] = "done"]
          /\ UNCHANGED status
     ELSE /\ status' = "terminating"
          /\ killStage' = [killStage EXCEPT ![k] = "interrupt"]
          /\ UNCHANGED parsing
  /\ UNCHANGED <<setup, parserStatus, receivedResult, hasExited, processVars>>

ForceKill ==
  /\ inMap
  /\ status # "none"
  /\ Kill
  /\ UNCHANGED killStage

GracefulKill(k) ==
  /\ inMap
  /\ killStage[k] = "none"
  /\ Begin(k)
  /\ UNCHANGED managerVars

(* Defect: every finished record is dropped, its listeners with it.        *)
KillAllForgetting(k) ==
  /\ inMap
  /\ killStage[k] = "none"
  /\ cleanupTimer' = FALSE
  /\ inMap' = IsRunning
  /\ Begin(k)
  /\ UNCHANGED <<listening, heard, exitImmediate>>

(* killAll when the last window is closed; the application may live on.    *)
KillAll(k) ==
  /\ inMap
  /\ killStage[k] = "none"
  /\ cleanupTimer' = FALSE
  /\ Begin(k)
  /\ UNCHANGED <<inMap, listening, heard, exitImmediate>>

(* Defect: the last resort is missing.                                     *)
GiveUp(k) ==
  /\ killStage[k] \in {"interrupt", "claudeExit", "shellExit", "lastInterrupt"}
  /\ killStage' = [killStage EXCEPT ![k] =
                     IF hasExited THEN "done"
                     ELSE CASE @ = "interrupt"     -> "claudeExit"
                            [] @ = "claudeExit"    -> "shellExit"
                            [] @ = "shellExit"     -> "lastInterrupt"
                            [] @ = "lastInterrupt" -> "done"]
  /\ UNCHANGED <<setup, status, parserVars, hasExited, idleTimer, processVars, managerVars>>

(***************************************************************************)
(* The wait of gracefulKill ends, because the instance has exited or by    *)
(* timeout, and it goes on to its next step.                               *)
(***************************************************************************)
Continue(k) ==
  \/ /\ killStage[k] \in {"interrupt", "claudeExit", "shellExit"}
     /\ killStage' = [killStage EXCEPT ![k] =
                        IF hasExited \/ ~ptyRef THEN "done"
                        ELSE CASE @ = "interrupt"  -> "claudeExit"
                               [] @ = "claudeExit" -> "shellExit"
                               [] @ = "shellExit"  -> "lastInterrupt"]
     /\ UNCHANGED <<setup, status, parserVars, hasExited, idleTimer, processVars, managerVars>>
  \/ /\ killStage[k] = "lastInterrupt"
     /\ killStage' = [killStage EXCEPT ![k] = "done"]
     /\ \/ /\ ~hasExited /\ ptyRef
           /\ Kill
        \/ /\ hasExited \/ ~ptyRef
           /\ UNCHANGED <<setup, status, parserVars, hasExited, idleTimer, processVars,
                          managerVars>>

----------------------------------------------------------------------------
(* Processes, and the manager's answer to their end.                       *)

CliEnds ==
  /\ setup.pooled
  /\ cli = "busy"
  /\ cli' = "ended"
  /\ UNCHANGED <<setup, status, parserVars, hasExited, idleTimer, ptyRef, pty, killStage,
                 managerVars>>

PtyEnds ==
  /\ pty \in {"alive", "killed"}
  /\ pty' = "dead"
  /\ cli' = "ended"
  /\ UNCHANGED <<setup, status, parserVars, hasExited, idleTimer, ptyRef, killStage,
                 managerVars>>

(* Defect: an exit that was already announced only ends the wait for it.   *)
OnExitOnce(zero) ==
  /\ pty = "dead"
  /\ pty' = "closed"
  /\ hasExited' = TRUE
  /\ idleTimer' = FALSE
  /\ ptyRef' = FALSE
  /\ status' = IF zero THEN "completed" ELSE IF status # "killed" THEN "error" ELSE status
  /\ EmitExit(~hasExited)
  /\ UNCHANGED <<setup, parserVars, cli, killStage>>

(* The onExit handler; zero tells whether the exit code is 0.              *)
OnExit(zero) ==
  /\ pty = "dead"
  /\ pty' = "closed"
  /\ hasExited' = TRUE
  /\ idleTimer' = FALSE
  /\ ptyRef' = FALSE
  /\ status' = IF zero THEN "completed" ELSE IF status # "killed" THEN "error" ELSE status
  /\ EmitExit(TRUE)
  /\ UNCHANGED <<setup, parserVars, cli, killStage>>

(* The setImmediate of the exit listener; scheduleCleanup.                 *)
AfterExit ==
  /\ exitImmediate
  /\ exitImmediate' = FALSE
  /\ listening' = FALSE
  /\ cleanupTimer' = TRUE
  /\ UNCHANGED <<setup, status, parserVars, hasExited, idleTimer, processVars, killStage,
                 inMap, heard>>

(* The delayed removal; cleanupInstance.                                   *)
CleanupTimer ==
  /\ cleanupTimer
  /\ cleanupTimer' = FALSE
  /\ inMap' = (inMap /\ IsRunning)
  /\ UNCHANGED <<setup, status, parserVars, hasExited, idleTimer, processVars, killStage,
                 listening, heard, exitImmediate>>

Next ==
  \/ \E ok \in BOOLEAN : Create(ok)
  \/ \E m \in Messages \cup {"partial"}, prompt \in BOOLEAN : CliOutput(m, prompt)
  \/ ShellPrompt
  \/ SetSessionId
  \/ IdleTimeout
  \/ SendInput
  \/ ForceKill
  \/ \E k \in Kills : GracefulKill(k) \/ KillAll(k) \/ Continue(k)
  \/ CliEnds
  \/ PtyEnds
  \/ \E zero \in BOOLEAN : OnExit(zero)
  \/ AfterExit
  \/ CleanupTimer

Spec == Init /\ [][Next]_vars

----------------------------------------------------------------------------
TypeOK ==
  /\ setup \in Setup
  /\ status \in InstanceStatus \cup {"none"}
  /\ parserStatus \in InstanceStatus
  /\ parsing \in BOOLEAN
  /\ receivedResult \in BOOLEAN
  /\ hasExited \in BOOLEAN
  /\ idleTimer \in BOOLEAN
  /\ ptyRef \in BOOLEAN
  /\ pty \in PtyState
  /\ cli \in {"off", "busy", "ended"}
  /\ killStage \in [Kills -> KillStages]
  /\ inMap \in BOOLEAN
  /\ listening \in BOOLEAN
  /\ heard \in BOOLEAN
  /\ exitImmediate \in BOOLEAN
  /\ cleanupTimer \in BOOLEAN

(***************************************************************************)
(* The end of a terminal is never missed: whoever removed which listeners  *)
(* before, by then the instance's exit has been announced.  The Ralph loop *)
(* and the reviews wait for nothing else.                                  *)
(***************************************************************************)
EndIsHeard == pty = "closed" => heard

(***************************************************************************)
(* _hasExited makes the instance refuse messages and graceful kills.  It is*)
(* set while the terminal is alive only if the exit was announced, so that *)
(* nobody waits for an instance that cannot be talked to nor killed.       *)
(***************************************************************************)
ExitedOrHeard == hasExited /\ pty = "alive" => heard

(***************************************************************************)
(* A killed instance stays so: late output, the session hook, the idle     *)
(* timer, input and other kills do not bring it back to life or make an    *)
(* error of it; only its exit code or its last prompt says "completed".    *)
(* And it never works again, then or later: who saw it killed may rely on  *)
(* that (AutoReview does, when it lets go of a review).                    *)
(***************************************************************************)
KilledStays ==
  /\ [][status = "killed" => status' \in {"killed", "completed"}]_vars
  /\ [](status = "killed" => [](status \in FinalStatus))

(***************************************************************************)
(* The life of the instance as its users see it, and the contract: exits   *)
(* are announced for what was created, and records are only removed after. *)
(***************************************************************************)
life ==
  CASE status = "none"                      -> "absent"
    [] status # "none" /\ inMap /\ ~heard   -> "running"
    [] status # "none" /\ inMap /\ heard    -> "exited"
    [] status # "none" /\ ~inMap            -> "removed"

Contract == INSTANCE InstanceContract WITH life <- life

(* Nothing that could still come has an effect on the instance but to end. *)
LetGo == status \in FinalStatus /\ hasExited /\ ~ptyRef /\ ~parsing

(* What getInstance(id)?.status shows, as InstanceView sorts it.           *)
seen ==
  CASE status = "none"                                          -> "absent"
    [] status # "none" /\ ~inMap                                -> "removed"
    [] inMap /\ LetGo                                           -> "killed"
    [] inMap /\ status \in FinalStatus /\ ~LetGo                -> "ended"
    [] status # "none" /\ inMap /\ status \notin FinalStatus    -> "working"

(***************************************************************************)
(* Both promises: the exit is announced and only then is the record        *)
(* removed; and whoever polls the record sees the instance go from one     *)
(* state only to those that AutoReview assumes may follow it, whatever     *)
(* kills, output and hooks overlap.                                        *)
(***************************************************************************)
KeepsContract ==
  /\ Contract!Spec
  /\ seen = "absent"
  /\ [][seen' \in After(seen)]_seen

----------------------------------------------------------------------------
(***************************************************************************)
(* Timers fire, SIGKILL ends a process, and node-pty reports the end.      *)
(* Nothing is assumed of the CLI: it may hang.                             *)
(***************************************************************************)
Fairness ==
  /\ \A k \in Kills : WF_vars(Continue(k))
  /\ WF_vars(pty = "killed" /\ PtyEnds)
  /\ WF_vars(\E zero \in BOOLEAN : OnExit(zero))

FairSpec == Spec /\ Fairness

Killing(k) == killStage[k] \in KillStages \ {"none", "done"}

(***************************************************************************)
(* Killing succeeds: once a graceful kill is under way, the exit of the    *)
(* instance is announced in the end, even if the CLI ignores interrupts    *)
(* and commands, output keeps coming, or a second kill overlaps.           *)
(***************************************************************************)
KillIsHeard == \A k \in Kills : Killing(k) ~> heard

(***************************************************************************)
(* "This allows RalphTaskLoop and other listeners to know the instance     *)
(* finished" (the prompt detection of setupDataHandler): a CLI in a pooled *)
(* terminal that printed its result and ended is announced to have exited. *)
(***************************************************************************)
PromptSpec == FairSpec /\ WF_vars(ShellPrompt)

FinishIsReported == setup.pooled /\ receivedResult /\ cli = "ended" ~> heard
=============================================================================
