----------------------- MODULE ClaudeInstance_proofs -----------------------
(***************************************************************************)
(* Proofs about ClaudeInstance: whatever the order of output, ends of      *)
(* processes, kills and timers, an instance keeps the contract its users   *)
(* rely on.                                                                *)
(***************************************************************************)
EXTENDS ClaudeInstance, TLAPS

(* Before it is created, an instance has nothing.                          *)
Fresh ==
  status = "none" => pty = "none" /\ ~ptyRef /\ ~inMap /\ ~listening /\ ~heard
                     /\ ~hasExited

(* Once created it is listened to until its exit was announced, and what   *)
(* follows the exit only follows it.                                       *)
Announced ==
  /\ status # "none" => listening \/ heard
  /\ status # "none" => inMap \/ heard
  /\ exitImmediate => heard
  /\ cleanupTimer => heard

(* The instance holds every terminal that was not told to end.             *)
Held == pty = "alive" => ptyRef

Dead == status = "killed" => hasExited /\ ~ptyRef /\ ~parsing

Inv ==
  /\ TypeOK
  /\ Fresh
  /\ Announced
  /\ Held
  /\ Dead
  /\ EndIsHeard
  /\ ExitedOrHeard

(* What the actions do to heard and to the kills, with no equality between *)
(* truth values.                                                           *)
LEMMA EmitExitHeard ==
  ASSUME TypeOK, NEW b \in BOOLEAN, EmitExit(b)
  PROVE  /\ heard => heard'
         /\ b /\ listening => heard'
         /\ heard' => heard \/ (b /\ listening)
         /\ exitImmediate' => exitImmediate \/ heard'
         /\ heard' \in BOOLEAN
         /\ exitImmediate' \in BOOLEAN
         /\ UNCHANGED <<inMap, listening, cleanupTimer>>
BY DEF EmitExit, TypeOK

LEMMA InferStatus ==
  ASSUME NEW m \in Messages
  PROVE  Infer(m) \in InstanceStatus \ {"none", "killed"}
BY DEF Infer, Messages, InstanceStatus, FinalStatus

LEMMA OnDataInv ==
  ASSUME Inv, pty \in {"alive", "killed"}, NEW m \in Messages \cup {"partial"},
         NEW prompt \in BOOLEAN, OnData(m, prompt)
  PROVE  Inv' /\ (status = "killed" => status' \in {"killed", "completed"})
<1> DEFINE finished == prompt /\ receivedResult /\ status \notin {"completed", "error"}
           s == IF finished THEN "completed" ELSE status
<1> USE DEF Inv
<1>1. status # "none"
  BY DEF Fresh
<1>2. s \in InstanceStatus /\ s \in {status, "completed"}
  BY <1>1 DEF TypeOK, InstanceStatus, FinalStatus
<1>3. /\ EmitExit(finished /\ ~hasExited)
      /\ hasExited' = (hasExited \/ finished)
      /\ UNCHANGED <<setup, ptyRef, pty, cli, killStage>>
  BY DEF OnData, processVars
<1>4. /\ \/ Parse(s, m) /\ UNCHANGED idleTimer
         \/ /\ status' = IF s \in {"starting", "waiting_input"} THEN "running" ELSE s
            /\ idleTimer' = TRUE
            /\ UNCHANGED <<parserStatus, parsing, receivedResult>>
  BY DEF OnData, parserVars
<1> HIDE DEF finished, s
<1>5. /\ status' \in InstanceStatus
      /\ parserStatus' \in InstanceStatus
      /\ receivedResult' \in BOOLEAN
      /\ idleTimer' \in BOOLEAN
      /\ parsing' = parsing
      /\ status' \in {s, "running"} \/ parsing
      /\ s = "killed" => status' = "killed" \/ parsing
      /\ status' = "killed" => s = "killed"
  <2>1. CASE Parse(s, m) /\ UNCHANGED idleTimer
    BY <1>2, <2>1, InferStatus DEF Parse, TypeOK, parserVars
  <2>2. CASE /\ status' = IF s \in {"starting", "waiting_input"} THEN "running" ELSE s
             /\ idleTimer' = TRUE
             /\ UNCHANGED <<parserStatus, parsing, receivedResult>>
    BY <1>2, <2>2 DEF TypeOK, InstanceStatus
  <2> QED BY <1>4, <2>1, <2>2
<1>6. finished \in BOOLEAN /\ (finished /\ ~hasExited) \in BOOLEAN
  BY DEF finished
<1>7. /\ heard => heard'
      /\ finished /\ ~hasExited /\ listening => heard'
      /\ heard' => heard \/ (finished /\ ~hasExited /\ listening)
      /\ exitImmediate' => exitImmediate \/ heard'
      /\ heard' \in BOOLEAN
      /\ exitImmediate' \in BOOLEAN
      /\ UNCHANGED <<inMap, listening, cleanupTimer>>
  BY <1>3, <1>6, EmitExitHeard
<1>8. /\ hasExited' \in BOOLEAN
      /\ hasExited => hasExited'
      /\ hasExited' => hasExited \/ finished
  BY <1>3, <1>6 DEF TypeOK
<1>9. status' # "none"
  BY <1>5 DEF InstanceStatus, FinalStatus
<1>10. TypeOK'
  BY <1>3, <1>5, <1>7, <1>8 DEF TypeOK
<1>11. Fresh' /\ Held'
  BY <1>3, <1>9 DEF Fresh, Held
<1>12. Announced'
  BY <1>1, <1>7 DEF Announced
<1>13. s = "killed" => status = "killed"
  BY <1>2
<1>14. Dead'
  BY <1>3, <1>5, <1>8, <1>13 DEF Dead
<1>15. EndIsHeard'
  BY <1>3 DEF EndIsHeard
<1>16. ExitedOrHeard'
  BY <1>1, <1>3, <1>7, <1>8 DEF ExitedOrHeard, Announced
<1>17. status = "killed" => status' \in {"killed", "completed"}
  BY <1>2, <1>4, <1>5 DEF Dead, Parse
<1> QED BY <1>10, <1>11, <1>12, <1>14, <1>15, <1>16, <1>17

LEMMA KillInv ==
  ASSUME Inv, status # "none", Kill, killStage' \in [Kills -> KillStages]
  PROVE  Inv' /\ (status = "killed" => status' = "killed")
<1> USE DEF Inv
<1>0. /\ hasExited' = TRUE /\ idleTimer' = FALSE /\ parsing' = FALSE /\ ptyRef' = FALSE
      /\ status' \in {status, "killed"}
      /\ pty' \in {pty, "killed"}
      /\ UNCHANGED <<setup, parserStatus, receivedResult, cli, inMap, listening, heard,
                     exitImmediate, cleanupTimer>>
  BY DEF Kill, managerVars
<1>1. TypeOK'
  <2>1. status' \in InstanceStatus \cup {"none"} /\ pty' \in PtyState
    BY <1>0 DEF TypeOK, InstanceStatus, FinalStatus, PtyState
  <2>2. /\ hasExited' \in BOOLEAN /\ idleTimer' \in BOOLEAN
        /\ parsing' \in BOOLEAN /\ ptyRef' \in BOOLEAN
    BY <1>0, Zenon
  <2> QED BY <1>0, <2>1, <2>2 DEF TypeOK
<1>2. Fresh' /\ Held' /\ Dead'
  BY DEF Kill, Fresh, Held, Dead, managerVars, TypeOK
<1>3. Announced' /\ EndIsHeard' /\ ExitedOrHeard'
  BY DEF Kill, Announced, EndIsHeard, ExitedOrHeard, Held, managerVars, TypeOK
<1> QED BY <1>1, <1>2, <1>3 DEF Kill

(* The part of a step that only concerns what the invariant does not read. *)
LEMMA BeginInv ==
  ASSUME Inv, status # "none", NEW k \in Kills, Begin(k),
         UNCHANGED <<listening, heard, exitImmediate, inMap>>,
         cleanupTimer' \in BOOLEAN, cleanupTimer' => cleanupTimer
  PROVE  Inv' /\ (status = "killed" => status' = "killed")
<1> USE DEF Inv
<1>1. /\ \/ status' = status /\ parsing' = FALSE
         \/ status' = "terminating" /\ ~hasExited /\ parsing' = parsing
      /\ killStage' \in {[killStage EXCEPT ![k] = "done"], [killStage EXCEPT ![k] = "interrupt"]}
      /\ idleTimer' = FALSE
      /\ UNCHANGED <<setup, parserStatus, receivedResult, hasExited, ptyRef, pty, cli>>
  <2>1. CASE hasExited \/ ~ptyRef
    BY <2>1, Zenon DEF Begin, processVars
  <2>2. CASE ~(hasExited \/ ~ptyRef)
    BY <2>2, Zenon DEF Begin, processVars
  <2> QED BY <2>1, <2>2
<1>2. killStage' \in [Kills -> KillStages]
  BY <1>1 DEF TypeOK, KillStages
<1>3. TypeOK'
  <2>1. status' \in InstanceStatus \cup {"none"}
    BY <1>1 DEF TypeOK, InstanceStatus
  <2>2. idleTimer' \in BOOLEAN /\ parsing' \in BOOLEAN
    BY <1>1, Zenon DEF TypeOK
  <2> QED BY <1>1, <1>2, <2>1, <2>2 DEF TypeOK
<1>4. Fresh' /\ Held' /\ Dead'
  BY <1>1 DEF Fresh, Held, Dead
<1>5. Announced'
  BY <1>1 DEF Announced
<1>6. EndIsHeard' /\ ExitedOrHeard'
  BY <1>1 DEF EndIsHeard, ExitedOrHeard
<1> QED BY <1>1, <1>3, <1>4, <1>5, <1>6 DEF Dead

(* Steps that leave the exit and what is believed of it alone.             *)
LEMMA QuietInv ==
  ASSUME Inv, TypeOK', status' # "none", status' = "killed" => status = "killed",
         status # "none",
         pty' = "alive" => pty = "alive", pty' = "closed" => pty = "closed",
         UNCHANGED <<hasExited, parsing, ptyRef, heard>>,
         listening' \/ heard, inMap' \/ heard, exitImmediate' => heard,
         cleanupTimer' => heard
  PROVE  Inv'
<1> USE DEF Inv
<1>1. Fresh' /\ Held' /\ Dead'
  BY DEF Fresh, Held, Dead
<1>2. Announced' /\ EndIsHeard' /\ ExitedOrHeard'
  BY DEF Announced, EndIsHeard, ExitedOrHeard
<1> QED BY <1>1, <1>2

LEMMA CreateInv ==
  ASSUME Inv, NEW ok \in BOOLEAN, Create(ok)
  PROVE  Inv'
<1> USE DEF Inv
<1>1. /\ status = "none" /\ status' \in {"starting", "error"}
      /\ inMap' = TRUE /\ listening' = TRUE
      /\ \/ ptyRef' = TRUE /\ pty' = "alive" /\ cli' = "busy"
         \/ UNCHANGED <<ptyRef, pty, cli>>
      /\ UNCHANGED <<setup, parserStatus, parsing, receivedResult, hasExited, idleTimer,
                     killStage, heard, exitImmediate, cleanupTimer>>
  BY DEF Create, parserVars, processVars
<1>2. TypeOK'
  <2>1. inMap' \in BOOLEAN /\ listening' \in BOOLEAN /\ ptyRef' \in BOOLEAN
    BY <1>1, Zenon DEF TypeOK
  <2>2. /\ status' \in InstanceStatus \cup {"none"}
        /\ pty' \in PtyState /\ cli' \in {"off", "busy", "ended"}
    BY <1>1 DEF TypeOK, InstanceStatus, FinalStatus, PtyState
  <2> QED BY <1>1, <2>1, <2>2 DEF TypeOK
<1>3. Fresh' /\ Held' /\ Dead'
  BY <1>1 DEF Fresh, Held, Dead
<1>4. Announced' /\ EndIsHeard' /\ ExitedOrHeard'
  BY <1>1 DEF Fresh, Announced, EndIsHeard, ExitedOrHeard
<1> QED BY <1>2, <1>3, <1>4

LEMMA OnExitInv ==
  ASSUME Inv, NEW zero \in BOOLEAN, OnExit(zero)
  PROVE  Inv' /\ heard' /\ (status = "killed" => status' \in {"killed", "completed"})
<1> USE DEF Inv
<1>1. /\ pty = "dead" /\ pty' = "closed"
      /\ hasExited' = TRUE /\ idleTimer' = FALSE /\ ptyRef' = FALSE
      /\ status' \in {"completed", "error", status}
      /\ status' = "killed" => status = "killed"
      /\ status = "killed" => status' \in {"killed", "completed"}
      /\ UNCHANGED <<setup, parserStatus, parsing, receivedResult, cli, killStage>>
  BY DEF OnExit, parserVars
<1>2. status # "none"
  BY <1>1 DEF Fresh
<1>3. /\ heard'
      /\ heard' \in BOOLEAN /\ exitImmediate' \in BOOLEAN
      /\ UNCHANGED <<inMap, listening, cleanupTimer>>
  BY <1>2, EmitExitHeard DEF OnExit, Announced
<1>4. TypeOK'
  <2>1. hasExited' \in BOOLEAN /\ idleTimer' \in BOOLEAN /\ ptyRef' \in BOOLEAN
    BY <1>1, Zenon
  <2>2. status' \in InstanceStatus \cup {"none"} /\ pty' \in PtyState
    BY <1>1 DEF TypeOK, InstanceStatus, FinalStatus, PtyState
  <2> QED BY <1>1, <1>3, <2>1, <2>2 DEF TypeOK
<1>5. Fresh' /\ Held' /\ Dead'
  BY <1>1, <1>2 DEF Fresh, Held, Dead, FinalStatus
<1>6. Announced' /\ EndIsHeard' /\ ExitedOrHeard'
  BY <1>3 DEF Announced, EndIsHeard, ExitedOrHeard
<1> QED BY <1>1, <1>3, <1>4, <1>5, <1>6

LEMMA ContinueInv ==
  ASSUME Inv, NEW k \in Kills, Continue(k)
  PROVE  Inv' /\ (status = "killed" => status' = "killed")
<1> USE DEF Inv
<1>1. killStage' \in [Kills -> KillStages]
  <2>1. CASE killStage[k] = "lastInterrupt"
    BY <2>1 DEF Continue, TypeOK, KillStages
  <2>2. CASE killStage[k] \in {"interrupt", "claudeExit", "shellExit"}
    <3>1. CASE hasExited \/ ~ptyRef
      BY <2>2, <3>1 DEF Continue, TypeOK, KillStages
    <3>2. CASE ~(hasExited \/ ~ptyRef)
      BY <2>2, <3>2 DEF Continue, TypeOK, KillStages
    <3> QED BY <3>1, <3>2
  <2> QED BY <2>1, <2>2 DEF Continue
<1>2. CASE ptyRef /\ Kill
  <2>1. status # "none"
    BY <1>2 DEF Fresh
  <2> QED BY <1>1, <1>2, <2>1, KillInv
<1>3. CASE UNCHANGED <<setup, status, parserVars, hasExited, idleTimer, processVars,
                       managerVars>>
  BY <1>1, <1>3 DEF TypeOK, Fresh, Announced, Held, Dead, EndIsHeard, ExitedOrHeard,
                    parserVars, processVars, managerVars
<1> QED BY <1>2, <1>3, Zenon DEF Continue

LEMMA NextInv ==
  ASSUME Inv, [Next]_vars
  PROVE  Inv' /\ (status = "killed" => status' \in {"killed", "completed"})
<1> USE DEF Inv
<1>1. ASSUME NEW ok \in BOOLEAN, Create(ok)
      PROVE  Inv' /\ (status = "killed" => status' \in {"killed", "completed"})
  BY <1>1, CreateInv DEF Create
<1>2. ASSUME NEW m \in Messages \cup {"partial"}, NEW prompt \in BOOLEAN, CliOutput(m, prompt)
      PROVE  Inv' /\ (status = "killed" => status' \in {"killed", "completed"})
  BY <1>2, OnDataInv DEF CliOutput
<1>3. CASE ShellPrompt
  BY <1>3, OnDataInv DEF ShellPrompt
<1>4. CASE SetSessionId
  <2>1. TypeOK'
    <3>1. status' \in InstanceStatus
      BY <1>4 DEF SetSessionId, InstanceStatus
    <3>2. idleTimer' \in BOOLEAN
      BY <1>4 DEF SetSessionId, TypeOK
    <3> QED BY <1>4, <3>1, <3>2 DEF SetSessionId, TypeOK, parserVars, processVars, managerVars
  <2> QED BY <1>4, <2>1, QuietInv
          DEF SetSessionId, Announced, parserVars, processVars, managerVars
<1>5. CASE IdleTimeout
  <2>1. /\ \/ status' = status
           \/ status' = "waiting_input" /\ status = "running"
        /\ idleTimer' = FALSE
        /\ UNCHANGED <<setup, parserStatus, parsing, receivedResult, hasExited, ptyRef, pty,
                       cli, killStage, inMap, listening, heard, exitImmediate, cleanupTimer>>
    BY <1>5 DEF IdleTimeout, parserVars, processVars, managerVars
  <2>2. TypeOK'
    <3>1. idleTimer' \in BOOLEAN
      BY <2>1, Zenon
    <3>2. status' \in InstanceStatus \cup {"none"}
      BY <2>1 DEF TypeOK, InstanceStatus
    <3> QED BY <2>1, <3>1, <3>2 DEF TypeOK
  <2>3. CASE status = "none"
    BY <2>1, <2>2, <2>3 DEF Fresh, Announced, Held, Dead, EndIsHeard, ExitedOrHeard
  <2>4. CASE status # "none"
    BY <2>1, <2>2, <2>4, QuietInv DEF Announced
  <2> QED BY <2>3, <2>4
<1>6. CASE SendInput
  <2>1. TypeOK'
    BY <1>6 DEF SendInput, TypeOK, InstanceStatus, parserVars, processVars, managerVars
  <2> QED BY <1>6, <2>1, QuietInv
          DEF SendInput, Announced, parserVars, processVars, managerVars
<1>7. CASE ForceKill
  <2>1. status # "none" /\ Kill /\ killStage' \in [Kills -> KillStages]
    BY <1>7 DEF ForceKill, TypeOK
  <2> QED BY <2>1, KillInv
<1>8. ASSUME NEW k \in Kills, GracefulKill(k)
      PROVE  Inv' /\ (status = "killed" => status' \in {"killed", "completed"})
  <2>1. status # "none"
    BY <1>8 DEF GracefulKill, Fresh
  <2> QED BY <1>8, <2>1, BeginInv DEF GracefulKill, managerVars, TypeOK
<1>9. ASSUME NEW k \in Kills, KillAll(k)
      PROVE  Inv' /\ (status = "killed" => status' \in {"killed", "completed"})
  <2>1. status # "none"
    BY <1>9 DEF KillAll, Fresh
  <2>2. cleanupTimer' \in BOOLEAN /\ (cleanupTimer' => cleanupTimer)
    BY <1>9, Zenon DEF KillAll
  <2> QED BY <1>9, <2>1, <2>2, BeginInv DEF KillAll
<1>10. ASSUME NEW k \in Kills, Continue(k)
       PROVE  Inv' /\ (status = "killed" => status' \in {"killed", "completed"})
  BY <1>10, ContinueInv
<1>11. CASE CliEnds
  <2>1. TypeOK'
    BY <1>11 DEF CliEnds, TypeOK, parserVars, managerVars
  <2> QED BY <1>11, <2>1
          DEF CliEnds, Fresh, Announced, Held, Dead, EndIsHeard, ExitedOrHeard, parserVars,
              managerVars
<1>12. CASE PtyEnds
  <2>1. TypeOK'
    BY <1>12 DEF PtyEnds, TypeOK, PtyState, parserVars, managerVars
  <2> QED BY <1>12, <2>1
          DEF PtyEnds, Fresh, Announced, Held, Dead, EndIsHeard, ExitedOrHeard, parserVars,
              managerVars
<1>13. ASSUME NEW zero \in BOOLEAN, OnExit(zero)
       PROVE  Inv' /\ (status = "killed" => status' \in {"killed", "completed"})
  BY <1>13, OnExitInv
<1>14. CASE AfterExit
  <2>1. status # "none" /\ heard
    BY <1>14 DEF AfterExit, Fresh, Announced
  <2>2. TypeOK'
    <3>1. exitImmediate' \in BOOLEAN /\ listening' \in BOOLEAN /\ cleanupTimer' \in BOOLEAN
      BY <1>14, Zenon DEF AfterExit
    <3> QED BY <1>14, <3>1 DEF AfterExit, TypeOK, parserVars, processVars
  <2> QED BY <1>14, <2>1, <2>2, QuietInv DEF AfterExit, parserVars, processVars
<1>15. CASE CleanupTimer
  <2>1. heard /\ status # "none"
    BY <1>15 DEF CleanupTimer, Fresh, Announced
  <2>2. TypeOK'
    <3>1. cleanupTimer' \in BOOLEAN /\ inMap' \in BOOLEAN
      BY <1>15, Zenon DEF CleanupTimer
    <3> QED BY <1>15, <3>1 DEF CleanupTimer, TypeOK, parserVars, processVars
  <2> QED BY <1>15, <2>1, <2>2, QuietInv DEF CleanupTimer, parserVars, processVars
<1>16. CASE UNCHANGED vars
  BY <1>16 DEF vars, TypeOK, Fresh, Announced, Held, Dead, EndIsHeard, ExitedOrHeard,
               parserVars, processVars, managerVars
<1> QED BY <1>1, <1>2, <1>3, <1>4, <1>5, <1>6, <1>7, <1>8, <1>9, <1>10, <1>11, <1>12,
           <1>13, <1>14, <1>15, <1>16, Zenon DEF Next

LEMMA Invariance == Spec => []Inv
<1>1. Init => Inv
  <2> SUFFICES ASSUME Init PROVE Inv
    OBVIOUS
  <2>1. TypeOK
    <3>1. setup \in Setup
      BY SetupsAssumption DEF Init
    <3> QED BY <3>1 DEF Init, TypeOK, InstanceStatus, PtyState, KillStages
  <2> QED BY <2>1 DEF Init, Inv, Fresh, Announced, Held, Dead, EndIsHeard, ExitedOrHeard
<1>2. Inv /\ [Next]_vars => Inv'
  BY NextInv
<1> QED BY <1>1, <1>2, PTL DEF Spec

----------------------------------------------------------------------------
(* The variables have their types.                                         *)
THEOREM TypeCorrect == Spec => []TypeOK
<1>1. Inv => TypeOK
  BY DEF Inv
<1> QED BY <1>1, Invariance, PTL

(* Every end of a terminal was announced by the time node-pty reported it. *)
THEOREM EndsAreHeard == Spec => []EndIsHeard
<1>1. Inv => EndIsHeard
  BY DEF Inv
<1> QED BY <1>1, Invariance, PTL

(* No instance silently believes that its living terminal has exited.      *)
THEOREM NoSilentExit == Spec => []ExitedOrHeard
<1>1. Inv => ExitedOrHeard
  BY DEF Inv
<1> QED BY <1>1, Invariance, PTL

(* An instance that has let go of its parser and terminal: all that can    *)
(* still come are chunks of output, whose only effect is "completed", and  *)
(* the exit code.                                                          *)
LEMMA LetGoStep ==
  ASSUME LetGo, [Next]_vars
  PROVE  LetGo'
<1> USE DEF LetGo, FinalStatus
<1>1. ASSUME NEW m \in Messages \cup {"partial"}, NEW prompt \in BOOLEAN, OnData(m, prompt)
      PROVE  LetGo'
  <2> DEFINE finished == prompt /\ receivedResult /\ status \notin {"completed", "error"}
             s == IF finished THEN "completed" ELSE status
  <2>1. /\ hasExited' = (hasExited \/ finished)
        /\ UNCHANGED processVars
        /\ \/ Parse(s, m)
           \/ /\ status' = IF s \in {"starting", "waiting_input"} THEN "running" ELSE s
              /\ UNCHANGED parserVars
    BY <1>1, Zenon DEF OnData
  <2>2. s \in FinalStatus
    OBVIOUS
  <2>3. hasExited'
    BY <2>1, Zenon
  <2> HIDE DEF s, finished
  <2>4. status' = s /\ parsing' = parsing
    BY <2>1, <2>2 DEF Parse, parserVars
  <2> QED BY <2>1, <2>2, <2>3, <2>4 DEF processVars
<1>2. ASSUME NEW zero \in BOOLEAN, OnExit(zero) PROVE LetGo'
  BY <1>2 DEF OnExit, parserVars
<1>3. CASE Kill
  BY <1>3 DEF Kill
<1>4. ASSUME NEW k \in Kills, Begin(k) PROVE LetGo'
  BY <1>4 DEF Begin, processVars
<1>5. CASE ForceKill \/ \E k \in Kills : GracefulKill(k) \/ KillAll(k)
  BY <1>3, <1>4, <1>5 DEF ForceKill, GracefulKill, KillAll
<1>6. CASE UNCHANGED <<status, parserVars, hasExited, ptyRef>>
  BY <1>6 DEF parserVars
<1>7. ASSUME NEW k \in Kills, Continue(k) PROVE LetGo'
  BY <1>3, <1>6, <1>7, Zenon DEF Continue, processVars
<1>8. CASE CliEnds \/ PtyEnds \/ AfterExit \/ CleanupTimer \/ UNCHANGED vars
  BY <1>6, <1>8, Zenon DEF CliEnds, PtyEnds, AfterExit, CleanupTimer, vars, processVars
<1>9. CASE IdleTimeout
  BY <1>9 DEF IdleTimeout, parserVars, processVars
<1>10. CASE (\E ok \in BOOLEAN : Create(ok)) \/ SetSessionId \/ SendInput
  BY <1>10 DEF Create, SetSessionId, SendInput
<1>11. ASSUME NEW m \in Messages \cup {"partial"}, NEW prompt \in BOOLEAN, CliOutput(m, prompt)
       PROVE  LetGo'
  BY <1>1, <1>11 DEF CliOutput
<1>12. CASE ShellPrompt
  BY <1>1, <1>12 DEF ShellPrompt
<1> QED BY <1>2, <1>5, <1>7, <1>8, <1>9, <1>10, <1>11, <1>12, Zenon DEF Next

(* Nothing revives a killed instance, at once or later.                    *)
THEOREM KilledForGood == Spec => KilledStays
<1>1. Inv /\ [Next]_vars => [status = "killed" => status' \in {"killed", "completed"}]_vars
  BY NextInv
<1>2. Inv /\ status = "killed" => LetGo
  BY DEF Inv, Dead, LetGo, FinalStatus
<1>3. LetGo /\ [Next]_vars => LetGo'
  BY LetGoStep
<1>4. LetGo => status \in FinalStatus
  BY DEF LetGo
<1> QED BY <1>1, <1>2, <1>3, <1>4, Invariance, PTL DEF Spec, KilledStays

(* What a step does to the record and to the announcement.                 *)
LEMMA StepLife ==
  ASSUME Inv, [Next]_vars
  PROVE  /\ heard => heard'
         /\ heard' => heard \/ inMap
         /\ \/ inMap' = inMap
            \/ ~inMap /\ ~heard /\ inMap' /\ ~heard'
            \/ heard /\ inMap /\ ~inMap'
<1> USE DEF Inv
<1>1. ASSUME NEW b \in BOOLEAN, EmitExit(b)
      PROVE  inMap' = inMap /\ (heard => heard') /\ (heard' => heard \/ inMap)
  BY <1>1, EmitExitHeard DEF Fresh, Announced
<1>2. ASSUME NEW ok \in BOOLEAN, Create(ok)
      PROVE  ~inMap /\ ~heard /\ inMap' /\ ~heard'
  BY <1>2 DEF Create, Fresh
<1>3. ASSUME NEW m \in Messages \cup {"partial"}, NEW prompt \in BOOLEAN, OnData(m, prompt)
      PROVE  inMap' = inMap /\ (heard => heard') /\ (heard' => heard \/ inMap)
  <2>1. PICK b \in BOOLEAN : EmitExit(b)
    <3> DEFINE finished == prompt /\ receivedResult /\ status \notin {"completed", "error"}
    <3>1. EmitExit(finished /\ ~hasExited)
      BY <1>3 DEF OnData
    <3>2. (finished /\ ~hasExited) \in BOOLEAN
      OBVIOUS
    <3> HIDE DEF finished
    <3> QED BY <3>1, <3>2
  <2> QED BY <1>1, <2>1
<1>4. ASSUME NEW zero \in BOOLEAN, OnExit(zero)
      PROVE  inMap' = inMap /\ (heard => heard') /\ (heard' => heard \/ inMap)
  BY <1>1, <1>4 DEF OnExit
<1>5. CASE CleanupTimer
  BY <1>5 DEF CleanupTimer, Announced, TypeOK
<1>6. CASE UNCHANGED managerVars
  BY <1>6 DEF managerVars
<1>7. ASSUME NEW k \in Kills, GracefulKill(k) \/ KillAll(k) \/ Continue(k)
      PROVE  UNCHANGED <<inMap, heard>>
  <2>1. CASE Continue(k)
    BY <2>1, Zenon DEF Continue, Kill, managerVars
  <2>2. CASE GracefulKill(k) \/ KillAll(k)
    BY <2>2 DEF GracefulKill, KillAll, managerVars
  <2> QED BY <1>7, <2>1, <2>2
<1>8. CASE SetSessionId \/ IdleTimeout \/ SendInput \/ CliEnds \/ PtyEnds
  BY <1>6, <1>8, Zenon DEF SetSessionId, IdleTimeout, SendInput, CliEnds, PtyEnds
<1>9. CASE ForceKill
  BY <1>6, <1>9 DEF ForceKill, Kill
<1>10. CASE AfterExit
  BY <1>10 DEF AfterExit
<1>11. CASE UNCHANGED vars
  BY <1>6, <1>11 DEF vars
<1>12. ASSUME NEW m \in Messages \cup {"partial"}, NEW prompt \in BOOLEAN, CliOutput(m, prompt)
       PROVE  inMap' = inMap /\ (heard => heard') /\ (heard' => heard \/ inMap)
  BY <1>3, <1>12 DEF CliOutput
<1>13. CASE ShellPrompt
  BY <1>3, <1>13 DEF ShellPrompt
<1> QED BY <1>2, <1>4, <1>5, <1>7, <1>8, <1>9, <1>10, <1>11, <1>12, <1>13, Zenon DEF Next

(* What users see of the life only depends on the record and the exit.     *)
LEMMA LifeOf ==
  ASSUME Inv
  PROVE  life = IF inMap THEN IF heard THEN "exited" ELSE "running"
                ELSE IF heard THEN "removed" ELSE "absent"
<1>1. status = "none" => ~inMap /\ ~heard
  BY DEF Inv, Fresh
<1>2. status # "none" => inMap \/ heard
  BY DEF Inv, Announced
<1> QED BY <1>1, <1>2 DEF life

(* A live instance holds its terminal, and one that was killed by force    *)
(* is not listened to any more.                                            *)
Unheld ==
  /\ status # "none" /\ ~ptyRef => status \in FinalStatus
  /\ pty = "killed" => ~ptyRef /\ ~parsing

LEMMA UnheldStep ==
  ASSUME Inv, Unheld, [Next]_vars
  PROVE  Unheld'
<1> USE DEF Inv, Unheld
<1>1. ASSUME NEW m \in Messages \cup {"partial"}, NEW prompt \in BOOLEAN, OnData(m, prompt),
             pty \in {"alive", "killed"}
      PROVE  Unheld'
  <2>1. UNCHANGED <<ptyRef, pty>> /\ parsing' = parsing
    BY <1>1 DEF OnData, Parse, parserVars, processVars
  <2>2. CASE pty = "alive"
    BY <2>1, <2>2 DEF Held
  <2>3. CASE pty = "killed"
    <3> DEFINE finished == prompt /\ receivedResult /\ status \notin {"completed", "error"}
               s == IF finished THEN "completed" ELSE status
    <3>1. s \in FinalStatus
      BY <2>3 DEF FinalStatus, Fresh
    <3>2. \/ Parse(s, m)
          \/ status' = IF s \in {"starting", "waiting_input"} THEN "running" ELSE s
      BY <1>1 DEF OnData
    <3> HIDE DEF s
    <3>3. status' = s
      BY <2>3, <3>1, <3>2 DEF Parse, FinalStatus
    <3> QED BY <2>1, <2>3, <3>1, <3>3
  <2> QED BY <1>1, <2>2, <2>3
<1>2. ASSUME NEW ok \in BOOLEAN, Create(ok) PROVE Unheld'
  BY <1>2 DEF Create, Fresh, FinalStatus, processVars
<1>3. ASSUME NEW zero \in BOOLEAN, OnExit(zero) PROVE Unheld'
  BY <1>3 DEF OnExit, FinalStatus, Fresh
<1>4. ASSUME Kill, status # "none" PROVE Unheld'
  BY <1>4 DEF Kill, FinalStatus
<1>5. ASSUME NEW k \in Kills, Begin(k) PROVE Unheld'
  BY <1>5 DEF Begin, processVars
<1>6. CASE ForceKill
  BY <1>4, <1>6 DEF ForceKill
<1>7. ASSUME NEW k \in Kills, GracefulKill(k) \/ KillAll(k) PROVE Unheld'
  BY <1>5, <1>7 DEF GracefulKill, KillAll
<1>8. CASE UNCHANGED <<status, parserVars, ptyRef, pty>>
  BY <1>8 DEF parserVars
<1>9. ASSUME NEW k \in Kills, Continue(k) PROVE Unheld'
  <2>1. (Kill /\ ptyRef) \/ UNCHANGED <<status, parserVars, ptyRef, pty>>
    BY <1>9, Zenon DEF Continue, processVars
  <2> QED BY <1>4, <1>8, <2>1 DEF Fresh
<1>10. CASE CliEnds \/ AfterExit \/ CleanupTimer \/ UNCHANGED vars
  BY <1>8, <1>10, Zenon DEF CliEnds, AfterExit, CleanupTimer, vars, processVars
<1>11. CASE PtyEnds
  BY <1>11 DEF PtyEnds, parserVars
<1>12. CASE IdleTimeout \/ SetSessionId \/ SendInput
  <2>1. /\ UNCHANGED <<parserVars, ptyRef, pty>>
        /\ status' = status \/ status \notin FinalStatus \cup {"none"}
    BY <1>12 DEF IdleTimeout, SetSessionId, SendInput, processVars, FinalStatus
  <2> QED BY <2>1 DEF parserVars
<1>13. ASSUME NEW m \in Messages \cup {"partial"}, NEW prompt \in BOOLEAN, CliOutput(m, prompt)
       PROVE  Unheld'
  BY <1>1, <1>13 DEF CliOutput
<1>14. CASE ShellPrompt
  BY <1>1, <1>14 DEF ShellPrompt
<1> QED BY <1>2, <1>3, <1>6, <1>7, <1>9, <1>10, <1>11, <1>12, <1>13, <1>14, Zenon DEF Next

LEMMA InitUnheld == Init => Unheld
BY DEF Init, Unheld

(* Only createInstance adds a record, and only cleanupInstance removes one.*)
LEMMA RecordStep ==
  ASSUME [Next]_vars
  PROVE  inMap' = inMap \/ CleanupTimer \/ \E ok \in BOOLEAN : Create(ok)
<1>1. ASSUME NEW b, EmitExit(b) PROVE inMap' = inMap
  BY <1>1 DEF EmitExit
<1>2. ASSUME NEW m, NEW prompt, OnData(m, prompt) PROVE inMap' = inMap
  BY <1>1, <1>2 DEF OnData
<1>3. ASSUME NEW m, NEW prompt, CliOutput(m, prompt) PROVE inMap' = inMap
  BY <1>2, <1>3 DEF CliOutput
<1>4. CASE ShellPrompt
  BY <1>2, <1>4 DEF ShellPrompt
<1>5. ASSUME NEW zero, OnExit(zero) PROVE inMap' = inMap
  BY <1>1, <1>5 DEF OnExit
<1>6. ASSUME NEW k, GracefulKill(k) \/ KillAll(k) PROVE inMap' = inMap
  BY <1>6 DEF GracefulKill, KillAll, managerVars
<1>7. ASSUME NEW k, Continue(k) PROVE inMap' = inMap
  BY <1>7, Zenon DEF Continue, Kill, managerVars
<1>8. CASE SetSessionId \/ IdleTimeout \/ SendInput \/ CliEnds \/ PtyEnds \/ AfterExit
  BY <1>8, Zenon DEF SetSessionId, IdleTimeout, SendInput, CliEnds, PtyEnds, AfterExit, managerVars
<1>9. CASE ForceKill \/ UNCHANGED vars
  BY <1>9 DEF ForceKill, Kill, vars, managerVars
<1> QED BY <1>3, <1>4, <1>5, <1>6, <1>7, <1>8, <1>9, Zenon DEF Next

(* What is seen of an instance only changes as its users assume.           *)
LEMMA SeenStep ==
  ASSUME Inv, Inv', Unheld, [Next]_vars
  PROVE  seen' \in After(seen) \/ seen' = seen
<1> USE DEF After
<1>1. seen' = IF status' = "none" THEN "absent"
              ELSE IF ~inMap' THEN "removed"
              ELSE IF LetGo' THEN "killed"
              ELSE IF status' \in FinalStatus THEN "ended" ELSE "working"
  BY DEF seen, LetGo, FinalStatus
<1>2. seen = IF status = "none" THEN "absent"
             ELSE IF ~inMap THEN "removed"
             ELSE IF LetGo THEN "killed"
             ELSE IF status \in FinalStatus THEN "ended" ELSE "working"
  BY DEF seen, LetGo, FinalStatus
<1>3. /\ heard => heard'
      /\ heard' => heard \/ inMap
      /\ \/ inMap' = inMap
         \/ ~inMap /\ ~heard /\ inMap' /\ ~heard'
         \/ heard /\ inMap /\ ~inMap'
  BY StepLife
<1>4. status # "none" => status' # "none"
  BY <1>3 DEF Inv, Fresh, Announced
<1>5. CASE status = "none"
  <2>1. ~inMap /\ ~heard /\ ~hasExited
    BY <1>5 DEF Inv, Fresh
  <2>2. CASE status' = "none"
    BY <1>1, <1>2, <1>5, <2>2
  <2>3. CASE status' # "none"
    <3>1. inMap'
      BY <1>3, <2>1, <2>3 DEF Inv, Announced
    <3>2. ~CleanupTimer
      BY <2>1 DEF CleanupTimer, Inv, Announced
    <3>3. ASSUME NEW ok \in BOOLEAN, Create(ok) PROVE ~LetGo'
      BY <2>1, <3>3 DEF Create, LetGo
    <3>4. ~LetGo'
      BY <2>1, <3>1, <3>2, <3>3, RecordStep
    <3> QED BY <1>1, <1>2, <1>5, <2>3, <3>1, <3>4
  <2> QED BY <2>2, <2>3
<1>6. CASE status # "none" /\ ~inMap
  <2>1. ~inMap'
    BY <1>3, <1>6 DEF Inv, Announced
  <2> QED BY <1>1, <1>2, <1>4, <1>6, <2>1
<1>7. CASE status # "none" /\ inMap /\ ~inMap'
  <2>1. CleanupTimer
    <3>1. ASSUME NEW ok \in BOOLEAN, Create(ok) PROVE FALSE
      BY <1>7, <3>1 DEF Create
    <3> QED BY <1>7, <3>1, RecordStep
  <2>2. ~IsRunning
    BY <1>7, <2>1, Zenon DEF CleanupTimer
  <2>3. status \in FinalStatus
    BY <1>7, <2>2 DEF IsRunning, Unheld
  <2> QED BY <1>1, <1>2, <1>4, <1>7, <2>3
<1>8. CASE status # "none" /\ inMap /\ inMap'
  BY <1>1, <1>2, <1>4, <1>8, LetGoStep DEF LetGo
<1> QED BY <1>5, <1>6, <1>7, <1>8

(* The instance implements both contracts its users rely on: every step of *)
(* it creates, announces the exit, removes the record, or shows nothing;   *)
(* and a reviewer's status only changes as AutoReview assumes it may.      *)
THEOREM ImplementsContract == Spec => KeepsContract
<1>1. Init => Contract!Init
  BY DEF Init, Contract!Init, life
<1>2. Inv /\ Inv' /\ [Next]_vars => [Contract!Next]_life
  <2> SUFFICES ASSUME Inv, Inv', [Next]_vars
               PROVE  Contract!Next \/ life' = life
    OBVIOUS
  <2>1. life = IF inMap THEN IF heard THEN "exited" ELSE "running"
               ELSE IF heard THEN "removed" ELSE "absent"
    BY LifeOf
  <2>2. life' = IF inMap' THEN IF heard' THEN "exited" ELSE "running"
                ELSE IF heard' THEN "removed" ELSE "absent"
    <3>1. status' = "none" => ~inMap' /\ ~heard'
      BY DEF Inv, Fresh
    <3>2. status' # "none" => inMap' \/ heard'
      BY DEF Inv, Announced
    <3> QED BY <3>1, <3>2 DEF life
  <2>3. CASE inMap' = inMap
    BY <2>1, <2>2, <2>3, StepLife DEF Contract!Next, Contract!Exit
  <2>4. CASE ~inMap /\ ~heard /\ inMap' /\ ~heard'
    BY <2>1, <2>2, <2>4 DEF Contract!Next, Contract!Create
  <2>5. CASE heard /\ inMap /\ ~inMap'
    BY <2>1, <2>2, <2>5, StepLife DEF Contract!Next, Contract!Remove
  <2> QED BY <2>3, <2>4, <2>5, StepLife
<1>3. Init => seen = "absent"
  BY DEF Init, seen
<1>4. Inv /\ Inv' /\ Unheld /\ [Next]_vars => [seen' \in After(seen)]_seen
  BY SeenStep
<1> QED BY <1>1, <1>2, <1>3, <1>4, InitUnheld, UnheldStep, Invariance, PTL
        DEF Spec, KeepsContract, Contract!Spec

----------------------------------------------------------------------------
(* The safety core of KillIsHeard.                                         *)

(* A graceful kill is only over when the exit was announced, or the        *)
(* terminal is not alive (any more).                                       *)
KillsLand ==
  \A k \in Kills : /\ killStage[k] # "none" => status # "none"
                   /\ killStage[k] = "done" => heard \/ pty # "alive"

(* What a step does to the stage of a kill.                                *)
LEMMA StageStep ==
  ASSUME Inv, [Next]_vars, NEW k \in Kills
  PROVE  /\ killStage'[k] # "none" => killStage[k] # "none" \/ inMap
         /\ killStage'[k] = "done"
              => killStage[k] = "done" \/ hasExited \/ ~ptyRef \/ pty' # "alive"
         /\ pty' = "alive" => pty = "alive" \/ status = "none"
<1>0. killStage \in [Kills -> KillStages]
  BY DEF Inv, TypeOK
<1>1. CASE killStage' = killStage /\ pty' = pty
  BY <1>1
<1>2. ASSUME NEW ok \in BOOLEAN, Create(ok) PROVE killStage' = killStage /\ status = "none"
  BY <1>2 DEF Create
<1>3. CASE Kill /\ killStage' = killStage
  BY <1>3 DEF Kill
<1>4. ASSUME NEW j \in Kills, Begin(j), inMap
      PROVE  /\ pty' = pty
             /\ killStage'[k] = killStage[k] \/ j = k
             /\ killStage'[k] = "done" => killStage[k] = "done" \/ hasExited \/ ~ptyRef
  BY <1>0, <1>4 DEF Begin, processVars
<1>5. ASSUME NEW j \in Kills, GracefulKill(j) \/ KillAll(j)
      PROVE  inMap /\ Begin(j)
  BY <1>5 DEF GracefulKill, KillAll
<1>6. ASSUME NEW j \in Kills, Continue(j)
      PROVE  /\ killStage'[k] = killStage[k] \/ killStage[k] # "none"
             /\ killStage'[k] = "done"
                  => killStage[k] = "done" \/ hasExited \/ ~ptyRef \/ pty' # "alive"
             /\ pty' = "alive" => pty = "alive"
  <2>1. CASE /\ killStage[j] \in {"interrupt", "claudeExit", "shellExit"}
             /\ killStage' = [killStage EXCEPT ![j] =
                                IF hasExited \/ ~ptyRef THEN "done"
                                ELSE CASE @ = "interrupt"  -> "claudeExit"
                                       [] @ = "claudeExit" -> "shellExit"
                                       [] @ = "shellExit"  -> "lastInterrupt"]
             /\ pty' = pty
    <3>1. CASE hasExited \/ ~ptyRef
      BY <1>0, <2>1, <3>1
    <3>2. CASE ~hasExited /\ ptyRef
      <4> DEFINE next == CASE killStage[j] = "interrupt"  -> "claudeExit"
                           [] killStage[j] = "claudeExit" -> "shellExit"
                           [] killStage[j] = "shellExit"  -> "lastInterrupt"
      <4>1. next # "done"
        BY <2>1
      <4>2. killStage' = [killStage EXCEPT ![j] = next]
        BY <2>1, <3>2
      <4> HIDE DEF next
      <4> QED BY <1>0, <2>1, <4>1, <4>2
    <3> QED BY <3>1, <3>2
  <2>2. CASE /\ killStage[j] = "lastInterrupt"
             /\ killStage' = [killStage EXCEPT ![j] = "done"]
             /\ \/ ~hasExited /\ ptyRef /\ Kill
                \/ (hasExited \/ ~ptyRef) /\ pty' = pty
    <3>1. (pty' # "alive" /\ ptyRef) \/ ((hasExited \/ ~ptyRef) /\ pty' = pty)
      BY <2>2 DEF Kill
    <3>2. pty' = "alive" => pty = "alive"
      BY <3>1
    <3> QED BY <1>0, <2>2, <3>1, <3>2
  <2> QED BY <1>6, <2>1, <2>2, Zenon DEF Continue, processVars
<1>7. ASSUME NEW m, NEW prompt, OnData(m, prompt) PROVE killStage' = killStage /\ pty' = pty
  BY <1>7, Zenon DEF OnData, processVars
<1>8. ASSUME NEW m, NEW prompt, CliOutput(m, prompt) PROVE killStage' = killStage /\ pty' = pty
  BY <1>7, <1>8 DEF CliOutput
<1>9. CASE ShellPrompt
  BY <1>1, <1>7, <1>9 DEF ShellPrompt
<1>10. ASSUME NEW zero, OnExit(zero) PROVE killStage' = killStage /\ pty' = "closed"
  BY <1>10 DEF OnExit
<1>11. CASE SetSessionId \/ IdleTimeout \/ SendInput \/ CliEnds \/ AfterExit \/ CleanupTimer
            \/ UNCHANGED vars
  BY <1>1, <1>11, Zenon DEF SetSessionId, IdleTimeout, SendInput, CliEnds, AfterExit,
                            CleanupTimer, vars, processVars
<1>12. CASE PtyEnds
  BY <1>12 DEF PtyEnds
<1>13. CASE ForceKill
  BY <1>3, <1>13 DEF ForceKill
<1> QED BY <1>1, <1>2, <1>4, <1>5, <1>6, <1>8, <1>9, <1>10, <1>11, <1>12, <1>13, Zenon DEF Next

LEMMA LandStep ==
  ASSUME Inv, KillsLand, [Next]_vars
  PROVE  KillsLand'
<1>1. heard => heard'
  BY StepLife
<1>2. status # "none" => status' # "none"
  <2>1. Inv'
    BY NextInv
  <2> QED BY <2>1, StepLife DEF Inv, Fresh, Announced
<1>3. ASSUME NEW k \in Kills, killStage'[k] # "none" PROVE status # "none"
  BY <1>3, StageStep DEF KillsLand, Inv, Fresh
<1>4. ASSUME NEW k \in Kills, killStage'[k] = "done", pty' = "alive" PROVE heard
  <2>1. pty = "alive"
    BY <1>3, <1>4, StageStep
  <2> QED BY <1>4, <2>1, StageStep DEF KillsLand, Inv, Held, ExitedOrHeard
<1> QED BY <1>1, <1>2, <1>3, <1>4 DEF KillsLand

(***************************************************************************)
(* Once no graceful kill waits and no terminal is ending, every one that   *)
(* was begun has led to the announcement: overlapping kills, late output   *)
(* and exits do not make one give up on a terminal that is alive and that  *)
(* nobody knows of.  (An instance that never had a terminal, because       *)
(* pty.spawn failed, is not announced.)                                    *)
(***************************************************************************)
KillsEnd ==
  \A k \in Kills :
    killStage[k] # "none" /\ ~Killing(k) /\ pty \notin {"killed", "dead"}
      => heard \/ pty = "none"

THEOREM KillsEndHeard == Spec => []KillsEnd
<1>1. Init => KillsLand
  BY DEF Init, KillsLand
<1>2. Inv /\ KillsLand /\ [Next]_vars => KillsLand'
  BY LandStep
<1>3. Inv /\ KillsLand => KillsEnd
  BY DEF Inv, TypeOK, KillsLand, KillsEnd, Killing, KillStages, PtyState, EndIsHeard
<1> QED BY <1>1, <1>2, <1>3, Invariance, PTL DEF Spec
=============================================================================
