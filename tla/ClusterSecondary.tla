-------------------------- MODULE ClusterSecondary --------------------------
(***************************************************************************)
(* ClusterManager at a secondary node: how it comes by its connection to   *)
(* the primary and keeps it, and what it makes of the states of the        *)
(* cluster that it is sent.                                                *)
(*                                                                         *)
(* Two mechanisms reconnect.  Every socket of Socket.io's client tries     *)
(* again by itself, whenever an attempt fails or its connection breaks;    *)
(* and for each such event ClusterManager sets a timer that opens one more *)
(* socket, which becomes clientSocket.  The older ones stay.  What the     *)
(* primary does with the connections is the module ClusterPrimary; here it *)
(* sends numbered states, over every connection it has.                    *)
(***************************************************************************)
EXTENDS Naturals, Sequences, FiniteSets

CONSTANTS
  MaxSockets,  \* bound on the sockets that are opened
  MaxEvents    \* bound on what may come from outside, together: stops,
               \* breaks, attempts that time out, stops of the primary, changes

ASSUME SecondaryAssumption == MaxSockets \in Nat /\ MaxEvents \in Nat

Sockets == 1..MaxSockets

VARIABLES
  \* the node
  wanted,                 \* was start() called last, rather than stop()?
  isConnecting, reconnectTimeout, intentionalDisconnect,
  opened,                 \* how many sockets have been opened
  clientSocket,           \* the newest, or 0 for null
  sock,                   \* of a socket: "none", "trying", "open" or "closed"
  lastReceivedVersion,
  \* connections
  linked,                 \* open sockets whose connection holds
  registering,            \* those that carry a registration to the primary
  down,                   \* the versions of the states under way to the node
  \* the primary
  up,
  stateVersion,
  broadcastDue,           \* is the debounced broadcast pending?
  registered,             \* linked sockets in clusterSockets
  ghosts,                 \* how many others are in it, not yet given up
  events

nodeVars == <<wanted, isConnecting, reconnectTimeout, intentionalDisconnect, opened,
              clientSocket>>
linkVars == <<linked, registering, down>>
primaryVars == <<up, stateVersion, broadcastDue, registered, ghosts>>
vars == <<nodeVars, sock, lastReceivedVersion, linkVars, primaryVars, events>>

----------------------------------------------------------------------------
(* io.emit reaches every connection.                                       *)
Emit(version) == [s \in Sockets |-> IF s \in linked THEN Append(down[s], version)
                                                    ELSE down[s]]

(* What is under way over the sockets is lost; the primary will notice.    *)
Unlink(lost) ==
  /\ linked' = linked \ lost
  /\ registering' = registering \ lost
  /\ down' = [s \in Sockets |-> IF s \in lost THEN <<>> ELSE down[s]]
  /\ registered' = registered \ lost
  /\ ghosts' = ghosts + Cardinality(registered \cap lost)

Event ==
  /\ events < MaxEvents
  /\ events' = events + 1

Init ==
  /\ wanted = FALSE
  /\ isConnecting = FALSE
  /\ reconnectTimeout = FALSE
  /\ intentionalDisconnect = FALSE
  /\ opened = 0
  /\ clientSocket = 0
  /\ sock = [s \in Sockets |-> "none"]
  /\ lastReceivedVersion = 0
  /\ linked = {}
  /\ registering = {}
  /\ down = [s \in Sockets |-> <<>>]
  /\ up = FALSE
  /\ stateVersion = 0
  /\ broadcastDue = FALSE
  /\ registered = {}
  /\ ghosts = 0
  /\ events = 0

----------------------------------------------------------------------------
(* The node: start, stop, and the reconnect timer.                         *)

connectToPrimary ==
  \/ /\ isConnecting
     /\ UNCHANGED <<isConnecting, opened, clientSocket, sock>>
  \/ /\ ~isConnecting
     /\ opened < MaxSockets
     /\ isConnecting' = TRUE
     /\ opened' = opened + 1
     /\ clientSocket' = opened + 1
     /\ sock' = [sock EXCEPT ![opened + 1] = "trying"]

Start ==
  /\ connectToPrimary
  /\ wanted' = TRUE
  /\ intentionalDisconnect' = FALSE
  /\ UNCHANGED <<reconnectTimeout, lastReceivedVersion, linkVars, primaryVars, events>>

(* Only the newest socket is disconnected, and isConnecting stays, even if *)
(* it was of the attempt of that socket.                                   *)
Stop ==
  /\ Event
  /\ wanted' = FALSE
  /\ intentionalDisconnect' = TRUE
  /\ reconnectTimeout' = FALSE
  /\ clientSocket' = 0
  /\ sock' = [s \in Sockets |-> IF s = clientSocket THEN "closed" ELSE sock[s]]
  /\ Unlink({clientSocket})
  /\ UNCHANGED <<isConnecting, opened, lastReceivedVersion, up, stateVersion, broadcastDue>>

ReconnectTimeout ==
  /\ reconnectTimeout
  /\ reconnectTimeout' = FALSE
  /\ connectToPrimary
  /\ intentionalDisconnect' = IF isConnecting THEN intentionalDisconnect ELSE FALSE
  /\ UNCHANGED <<wanted, lastReceivedVersion, linkVars, primaryVars, events>>

----------------------------------------------------------------------------
(* Its sockets.                                                            *)

(* Defect: the flag of the attempt is left set.                            *)
ConnectedStillConnecting(s) ==
  /\ sock[s] = "trying"
  /\ up
  /\ sock' = [sock EXCEPT ![s] = "open"]
  /\ isConnecting' = isConnecting
  /\ linked' = linked \cup {s}
  /\ registering' = registering \cup ({clientSocket} \cap (linked \cup {s}))
  /\ UNCHANGED <<wanted, reconnectTimeout, intentionalDisconnect, opened, clientSocket,
                 lastReceivedVersion, down, primaryVars, events>>

(* Defect: the newest socket is written to, connected or not.              *)
ConnectedAnyway(s) ==
  /\ sock[s] = "trying"
  /\ up
  /\ sock' = [sock EXCEPT ![s] = "open"]
  /\ isConnecting' = FALSE
  /\ linked' = linked \cup {s}
  /\ registering' = registering \cup {clientSocket}
  /\ UNCHANGED <<wanted, reconnectTimeout, intentionalDisconnect, opened, clientSocket,
                 lastReceivedVersion, down, primaryVars, events>>

(* Defect: only an attempt of connectToPrimary registers the node.         *)
ConnectedSilently(s) ==
  /\ sock[s] = "trying"
  /\ up
  /\ sock' = [sock EXCEPT ![s] = "open"]
  /\ isConnecting' = FALSE
  /\ linked' = linked \cup {s}
  /\ registering' = registering \cup (IF isConnecting THEN {clientSocket} \cap {s} ELSE {})
  /\ UNCHANGED <<wanted, reconnectTimeout, intentionalDisconnect, opened, clientSocket,
                 lastReceivedVersion, down, primaryVars, events>>

(* The handler of "connect" registers the node over the newest socket.     *)
(* What it writes to one that has no connection waits for it, and comes    *)
(* before the registration that is due then: one stands for both.          *)
Connected(s) ==
  /\ sock[s] = "trying"
  /\ up
  /\ sock' = [sock EXCEPT ![s] = "open"]
  /\ isConnecting' = FALSE
  /\ linked' = linked \cup {s}
  /\ registering' = registering \cup ({clientSocket} \cap (linked \cup {s}))
  /\ UNCHANGED <<wanted, reconnectTimeout, intentionalDisconnect, opened, clientSocket,
                 lastReceivedVersion, down, primaryVars, events>>

(* "connect_error" does not ask whether the node was stopped.              *)
AttemptFails(s) ==
  /\ sock[s] = "trying"
  /\ isConnecting' = FALSE
  /\ reconnectTimeout' = TRUE
  /\ UNCHANGED <<wanted, intentionalDisconnect, opened, clientSocket, sock, lastReceivedVersion,
                 linkVars, primaryVars>>

(* Nobody answers.                                                         *)
ConnectError(s) ==
  /\ ~up
  /\ AttemptFails(s)
  /\ UNCHANGED events

(* The primary is up, and does not answer in time or refuses.              *)
ConnectTimeout(s) ==
  /\ Event
  /\ up
  /\ AttemptFails(s)

Break(s) ==
  /\ Event
  /\ s \in linked
  /\ Unlink({s})
  /\ UNCHANGED <<nodeVars, sock, lastReceivedVersion, up, stateVersion, broadcastDue>>

(* Defect: a socket does not connect again, as with reconnection: false.   *)
DisconnectedForGood(s) ==
  /\ sock[s] = "open"
  /\ s \notin linked
  /\ sock' = [sock EXCEPT ![s] = "closed"]
  /\ reconnectTimeout' = (reconnectTimeout \/ ~intentionalDisconnect)
  /\ UNCHANGED <<wanted, isConnecting, intentionalDisconnect, opened, clientSocket,
                 lastReceivedVersion, linkVars, primaryVars, events>>

(* The node notices ("disconnect").                                        *)
Disconnected(s) ==
  /\ sock[s] = "open"
  /\ s \notin linked
  /\ sock' = [sock EXCEPT ![s] = "trying"]
  /\ reconnectTimeout' = (reconnectTimeout \/ ~intentionalDisconnect)
  /\ UNCHANGED <<wanted, isConnecting, intentionalDisconnect, opened, clientSocket,
                 lastReceivedVersion, linkVars, primaryVars, events>>

(* updateClusterState: a state that is not newer is ignored.               *)
Receive(s) ==
  /\ down[s] # <<>>
  /\ down' = [down EXCEPT ![s] = Tail(@)]
  /\ \/ /\ Head(down[s]) > lastReceivedVersion
        /\ lastReceivedVersion' = Head(down[s])
     \/ /\ Head(down[s]) <= lastReceivedVersion
        /\ UNCHANGED lastReceivedVersion
  /\ UNCHANGED <<nodeVars, sock, linked, registering, primaryVars, events>>

----------------------------------------------------------------------------
(* The primary.  Every state that it sends has the next number.  (So has   *)
(* the one in the answer to a registration, which is left out here: the    *)
(* state that is broadcast right behind says the same.)                    *)
PrimaryUp ==
  /\ ~up
  /\ up' = TRUE
  /\ broadcastDue' = TRUE
  /\ UNCHANGED <<nodeVars, sock, lastReceivedVersion, linkVars, stateVersion, registered, ghosts,
                 events>>

(* The server is stopped, or the application ends: the next one numbers    *)
(* its states from 0 again.                                                *)
PrimaryDown ==
  /\ Event
  /\ up
  /\ up' = FALSE
  /\ linked' = {}
  /\ registering' = {}
  /\ down' = [s \in Sockets |-> <<>>]
  /\ broadcastDue' = FALSE
  /\ registered' = {}
  /\ ghosts' = 0
  /\ stateVersion' \in {stateVersion, 0}
  /\ UNCHANGED <<nodeVars, sock, lastReceivedVersion>>

(* Defect: a registration is neither answered nor broadcast.               *)
RegisterQuietly(s) ==
  /\ s \in registering
  /\ registering' = registering \ {s}
  /\ stateVersion' = stateVersion + 1
  /\ down' = down
  /\ broadcastDue' = broadcastDue
  /\ registered' = registered \cup {s}
  /\ UNCHANGED <<nodeVars, sock, lastReceivedVersion, linked, up, ghosts, events>>

Register(s) ==
  /\ s \in registering
  /\ registering' = registering \ {s}
  /\ stateVersion' = stateVersion + 1
  /\ down' = Emit(stateVersion + 1)
  /\ broadcastDue' = TRUE
  /\ registered' = registered \cup {s}
  /\ UNCHANGED <<nodeVars, sock, lastReceivedVersion, linked, up, ghosts, events>>

(* The handler of "disconnect" at the primary, for a connection of this    *)
(* node that no longer holds.                                              *)
ServerDisconnect ==
  /\ ghosts > 0
  /\ ghosts' = ghosts - 1
  /\ stateVersion' = stateVersion + 1
  /\ down' = Emit(stateVersion + 1)
  /\ broadcastDue' = TRUE
  /\ UNCHANGED <<nodeVars, sock, lastReceivedVersion, linked, registering, up, registered,
                 events>>

(* Another node registers or leaves, or something else changes, which the  *)
(* debounced broadcast will tell.                                          *)
NodesChange ==
  /\ Event
  /\ up
  /\ \/ stateVersion' = stateVersion + 1 /\ down' = Emit(stateVersion + 1)
     \/ UNCHANGED <<stateVersion, down>>
  /\ broadcastDue' = TRUE
  /\ UNCHANGED <<nodeVars, sock, lastReceivedVersion, linked, registering, up, registered,
                 ghosts>>

Broadcast ==
  /\ broadcastDue
  /\ broadcastDue' = FALSE
  /\ stateVersion' = stateVersion + 1
  /\ down' = Emit(stateVersion + 1)
  /\ UNCHANGED <<nodeVars, sock, lastReceivedVersion, linked, registering, up, registered,
                 ghosts, events>>

----------------------------------------------------------------------------
Next ==
  \/ Start \/ Stop \/ ReconnectTimeout
  \/ PrimaryUp \/ PrimaryDown \/ ServerDisconnect \/ NodesChange \/ Broadcast
  \/ \E s \in Sockets : Connected(s) \/ ConnectError(s) \/ ConnectTimeout(s) \/ Break(s)
                        \/ Disconnected(s) \/ Receive(s) \/ Register(s)

(* Timers run out, messages arrive, attempts succeed or fail, and both     *)
(* ends notice in the end that a connection is gone.  While the primary is *)
(* up, attempts do not fail forever: MaxEvents bounds how often.           *)
Fairness ==
  /\ WF_vars(ReconnectTimeout)
  /\ WF_vars(Broadcast)
  /\ WF_vars(ServerDisconnect)
  /\ \A s \in Sockets : /\ WF_vars(Connected(s))
                        /\ WF_vars(ConnectError(s))
                        /\ WF_vars(Disconnected(s))
                        /\ WF_vars(Receive(s))
                        /\ WF_vars(Register(s))

Spec == Init /\ [][Next]_vars /\ Fairness

----------------------------------------------------------------------------
TypeOK ==
  /\ wanted \in BOOLEAN
  /\ isConnecting \in BOOLEAN
  /\ reconnectTimeout \in BOOLEAN
  /\ intentionalDisconnect \in BOOLEAN
  /\ opened \in 0..MaxSockets
  /\ clientSocket \in 0..opened
  /\ sock \in [Sockets -> {"none", "trying", "open", "closed"}]
  /\ lastReceivedVersion \in Nat
  /\ registering \subseteq linked
  /\ registered \subseteq linked
  /\ linked \subseteq {s \in Sockets : sock[s] = "open"}
  /\ down \in [Sockets -> Seq(Nat)]
  /\ up \in BOOLEAN
  /\ stateVersion \in Nat
  /\ broadcastDue \in BOOLEAN
  /\ ghosts \in Nat
  /\ events \in 0..MaxEvents

(* The flag that keeps a second attempt from being made, with no attempt   *)
(* of the newest socket that it could stand for.                           *)
Stale == isConnecting /\ ~(clientSocket # 0 /\ sock[clientSocket] = "trying")

(* start() was called last, and no newest socket is connected or tries.    *)
Stranded == wanted /\ ~(clientSocket # 0 /\ sock[clientSocket] \in {"trying", "open"})

(* Whatever ends an attempt clears its flag, but for one: stop() disposes  *)
(* of the socket that makes it and leaves the flag set.                    *)
OnlyStopLeavesFlag == [][Stale' => Stale \/ Stop]_vars

(* A node that was started has a socket that is connected or tries to be,  *)
(* whatever breaks, times out or is stopped and started again.  The one    *)
(* exception is a start() that finds the flag that a stop() has left: it   *)
(* returns without a socket, and so do those after it, until an event of   *)
(* an older socket, if there is one, clears the flag.                      *)
OnlyFlagStrands == [][Stranded' => Stranded \/ Stale]_vars

(* A node that is not stopped any more comes to its primary when that is   *)
(* up, and stays: the timers that are left open no more sockets.  Unless   *)
(* it has no newest socket: by OnlyFlagStrands, a stop() during an attempt *)
(* and a start() after it have left it stranded.                           *)
Connects ==
  <>[](wanted /\ up)
    => <>[](clientSocket = 0) \/ <>[](clientSocket \in linked \cap registered)

(* In the end, if it is not stranded so, it has seen the number of the     *)
(* newest state there is: none is missed, however the states of several    *)
(* sockets overtake each other, across stops and starts of both sides,     *)
(* during attempts as well.  (It has seen a greater one only when the      *)
(* application of the primary was restarted, and counts from 0: until it   *)
(* comes past that number, the node ignores all it is sent.)               *)
StatesAreHeard ==
  <>[](wanted /\ up)
    => <>[](clientSocket = 0) \/ <>[](lastReceivedVersion >= stateVersion)

(* "Mark as intentional disconnect to prevent reconnection": after stop()  *)
(* no socket connects until the next start().                              *)
StopIsFinal ==
  [][~wanted /\ ~wanted' => \A s \in Sockets : sock'[s] = "open" => sock[s] = "open"]_vars
=============================================================================
