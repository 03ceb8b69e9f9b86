--------------------------- MODULE ClusterPrimary ---------------------------
(***************************************************************************)
(* ClusterManager at the primary of a cluster: secondary nodes connect to  *)
(* its Socket.io server, register, send their state and their requests;    *)
(* the primary keeps a record of every node, tells everybody when it       *)
(* changes, and passes requests on to the node they are for.               *)
(*                                                                         *)
(* Connections are ordered and lose what they carry when they break.  The  *)
(* two ends notice a break on their own: the server only at its ping       *)
(* timeout, when the node may long be back over the next connection.  How  *)
(* a node comes to open its sockets, and what it makes of the states it is *)
(* sent, is the module ClusterSecondary.                                   *)
(***************************************************************************)
EXTENDS Naturals, Sequences, FiniteSets

CONSTANTS
  Nodes,        \* the secondary nodes
  Primary,      \* the primary
  Requests,     \* what is asked of other nodes
  Origin,       \* the node a request is made at
  Target,       \* the node it is for
  Listened,     \* requests that are passed to event listeners on their way:
                \* to create, to kill or to type into an instance at the
                \* primary, to kill or to type into one at another node
  MaxConns,     \* bounds on the connections of the nodes
  MaxSockets,   \* bounds on the sockets the nodes open
  MaxUp,        \* bound on the messages under way over a connection
  MaxStarts     \* bound on the starts of the server by one primary process

ASSUME BoundsAssumption ==
  /\ {MaxUp, MaxStarts} \subseteq Nat
  /\ {MaxConns, MaxSockets} \subseteq [Nodes -> Nat]

ASSUME RequestsAssumption ==
  /\ Primary \notin Nodes
  /\ Origin \in [Requests -> Nodes \cup {Primary}]
  /\ Target \in [Requests -> Nodes \cup {Primary}]
  /\ Listened \subseteq Requests
  /\ \A k \in Requests : Origin[k] # Target[k]

(* The connections of a node are numbered in the order it opens them.      *)
Conns == UNION {{n} \X (1..MaxConns[n]) : n \in Nodes}

VARIABLES
  \* the primary
  server,         \* "down", "up", or "closing" while stop() waits
  listeners,      \* how often setupServerSocketHandlers has added its listeners
  nodes,          \* the Map of that name: the status, or "absent"
  clusterSockets, \* the Map of that name: 0, or when the entry was inserted
  insertions,     \* insertions into clusterSockets so far
  pendingStates,  \* the Map of that name, of states sent before registration
  broadcastDue,   \* is the debounced broadcast pending?
  told,           \* was nodes sent to all connections since it last changed?
  \* connections
  serverOpen, clientOpen,  \* those either end takes to be open
  socketOf,       \* the socket of the node that opened it, 0 if unused
  up,             \* registrations and states under way to the primary
  requests,       \* requests under way to the primary
  commands,       \* copies of requests under way from the primary
  \* the secondary nodes
  clientSocket,   \* the number of the newest socket
  \* requests
  asked, executed

serverVars == <<server, listeners>>
mapVars == <<nodes, clusterSockets, insertions, pendingStates, broadcastDue, told>>
connVars == <<serverOpen, clientOpen, socketOf>>
requestVars == <<requests, commands, asked, executed>>
vars == <<serverVars, mapVars, connVars, up, requestVars, clientSocket>>

----------------------------------------------------------------------------
(* What a node sends: its registration, or its state.  What a state holds  *)
(* is left out: it takes the place of the one that was known.              *)
UpMsg == {"register", "update"}

NoNodes == [n \in Nodes |-> "absent"]

Nothing == [k \in Requests |-> 0]

Init ==
  /\ server = "down"
  /\ listeners = 0
  /\ nodes = NoNodes
  /\ clusterSockets = [c \in Conns |-> 0]
  /\ insertions = 0
  /\ pendingStates = {}
  /\ broadcastDue = FALSE
  /\ told = FALSE
  /\ serverOpen = {}
  /\ clientOpen = {}
  /\ socketOf = [c \in Conns |-> 0]
  /\ up = [c \in Conns |-> <<>>]
  /\ requests = [c \in Conns |-> {}]
  /\ commands = [c \in Conns |-> Nothing]
  /\ clientSocket = [n \in Nodes |-> 0]
  /\ asked = {}
  /\ executed = Nothing

----------------------------------------------------------------------------
Registered == {c \in Conns : clusterSockets[c] > 0}

(* sendClusterCommand takes the first socket of the node in the Map, if    *)
(* there still is a server.                                                *)
FirstSocket(n, c) ==
  /\ server # "closing"
  /\ c \in Registered
  /\ c[1] = n
  /\ \A d \in Registered : d[1] = n => clusterSockets[c] <= clusterSockets[d]

(* The connection of a node over its newest socket, if there is one that   *)
(* the server has not given up: what is written to another is lost.        *)
Current(n) ==
  {c \in serverOpen \cap clientOpen : c[1] = n /\ socketOf[c] = clientSocket[n]}

(* sendStateUpdate                                                         *)
StateUpdate(n) ==
  [c \in Conns |-> IF c \in Current(n) THEN Append(up[c], "update") ELSE up[c]]

(* Defect: the loop over the sockets has no break.                         *)
CommandToAll(k, copies) ==
  [c \in Conns |-> IF c \in Registered /\ c[1] = Target[k] /\ c \in clientOpen
                     THEN [commands[c] EXCEPT ![k] = @ + copies]
                     ELSE commands[c]]

(* sendClusterCommand, called copies times: nobody is told when there is   *)
(* no socket, or when the first is one the node has given up.              *)
Command(k, copies) ==
  [c \in Conns |-> IF FirstSocket(Target[k], c) /\ c \in clientOpen
                     THEN [commands[c] EXCEPT ![k] = @ + copies]
                     ELSE commands[c]]

----------------------------------------------------------------------------
(* The server: start, stop, a crash, and the broadcast timer.              *)

(* Defect: a server that was started does not send its state.              *)
StartUntold ==
  /\ \/ /\ server = "down"
        /\ listeners < MaxStarts
        /\ listeners' = listeners + 1
        /\ server' \in {"up", server}
     \/ /\ server # "down"
        /\ UNCHANGED <<server, listeners>>
  /\ UNCHANGED <<nodes, clusterSockets, insertions, pendingStates, broadcastDue, told,
                 connVars, up, requestVars, clientSocket>>

(* The listeners for internal events are added before listen() is tried,   *)
(* which fails when the port is taken, and are never removed.  A server    *)
(* that is still known as running is left alone.                           *)
Start ==
  /\ \/ /\ server = "down"
        /\ listeners < MaxStarts
        /\ listeners' = listeners + 1
        /\ \/ server' = "up" /\ broadcastDue' = TRUE
           \/ UNCHANGED <<server, broadcastDue>>
     \/ /\ server # "down"
        /\ broadcastDue' = TRUE
        /\ UNCHANGED <<server, listeners>>
  /\ UNCHANGED <<nodes, clusterSockets, insertions, pendingStates, told,
                 connVars, up, requestVars, clientSocket>>

(* io.close() disconnects the sockets one after the other (ServerLoses),   *)
(* with the server still known as running.                                 *)
Stop ==
  /\ server = "up"
  /\ server' = "closing"
  /\ broadcastDue' = FALSE
  /\ UNCHANGED <<listeners, nodes, clusterSockets, insertions,
                 pendingStates, told, connVars, up, requestVars, clientSocket>>

StopDone ==
  /\ server = "closing"
  /\ serverOpen = {}
  /\ server' = "down"
  /\ nodes' = NoNodes
  /\ clusterSockets' = [c \in Conns |-> 0]
  /\ insertions' = 0
  /\ pendingStates' = {}
  /\ told' = FALSE
  /\ UNCHANGED <<listeners, broadcastDue, connVars, up,
                 requestVars, clientSocket>>

(* Nothing of this is persisted.                                           *)
PrimaryCrash ==
  /\ server' = "down"
  /\ listeners' = 0
  /\ nodes' = NoNodes
  /\ clusterSockets' = [c \in Conns |-> 0]
  /\ insertions' = 0
  /\ pendingStates' = {}
  /\ broadcastDue' = FALSE
  /\ told' = FALSE
  /\ serverOpen' = {}
  /\ up' = [c \in Conns |-> <<>>]
  /\ requests' = [c \in Conns |-> {}]
  /\ UNCHANGED <<clientOpen, socketOf, commands, asked, executed,
                 clientSocket>>

(* broadcastClusterStateImmediate, when the debounced call is due.         *)
Broadcast ==
  /\ broadcastDue
  /\ broadcastDue' = FALSE
  /\ told' = (told \/ server = "up")
  /\ UNCHANGED <<serverVars, nodes, clusterSockets, insertions, pendingStates,
                 connVars, up, requestVars, clientSocket>>

----------------------------------------------------------------------------
(* Connections.                                                            *)

(* connectToPrimary: a socket is added, and none is closed.                *)
NewSocket(n) ==
  /\ clientSocket[n] < MaxSockets[n]
  /\ clientSocket' = [clientSocket EXCEPT ![n] = @ + 1]
  /\ UNCHANGED <<serverVars, mapVars, connVars, up, requestVars>>

(* Defect: a node registers over its first connection only.                *)
ConnectRegistersOnce(n, s) ==
  /\ server = "up"
  /\ s \in 1..clientSocket[n]
  /\ \A c \in clientOpen : c[1] = n => socketOf[c] # s
  /\ \E i \in 1..MaxConns[n] :
       /\ \A j \in 1..MaxConns[n] : socketOf[<<n, j>>] = 0 <=> j >= i
       /\ socketOf' = [socketOf EXCEPT ![<<n, i>>] = s]
       /\ serverOpen' = serverOpen \cup {<<n, i>>}
       /\ clientOpen' = clientOpen \cup {<<n, i>>}
       /\ up' = [c \in Conns |->
                   IF c = <<n, i>> /\ \A d \in clientOpen : d[1] # n
                     THEN Append(up[c], "register") ELSE up[c]]
  /\ UNCHANGED <<serverVars, mapVars, requestVars, clientSocket>>

(* Socket s of n connects, for the first time or again by itself.          *)
(* Whichever it is, the node registers over the newest, now or, twice then *)
(* (which does no more than once), when that one connects.                 *)
Connect(n, s) ==
  /\ server = "up"
  /\ s \in 1..clientSocket[n]
  /\ \A c \in clientOpen : c[1] = n => socketOf[c] # s
  /\ \E i \in 1..MaxConns[n] :
       /\ \A j \in 1..MaxConns[n] : socketOf[<<n, j>>] = 0 <=> j >= i
       /\ socketOf' = [socketOf EXCEPT ![<<n, i>>] = s]
       /\ serverOpen' = serverOpen \cup {<<n, i>>}
       /\ clientOpen' = clientOpen \cup {<<n, i>>}
       /\ up' = [c \in Conns |->
                   IF c \in (IF s = clientSocket[n] THEN {<<n, i>>} ELSE Current(n))
                     THEN Append(up[c], "register") ELSE up[c]]
  /\ UNCHANGED <<serverVars, mapVars, requestVars, clientSocket>>

(* The node notices that a connection is gone, or gives it up when it      *)
(* stops or quits.  What it has sent may still arrive.                     *)
ClientLoses(c) ==
  /\ c \in clientOpen
  /\ clientOpen' = clientOpen \ {c}
  /\ commands' = [commands EXCEPT ![c] = Nothing]
  /\ UNCHANGED <<serverVars, mapVars, serverOpen, socketOf, up, requests, asked,
                 executed, clientSocket>>

(* Defect: a node without connections stays online.                        *)
ServerLosesKeepsStatus(c) ==
  /\ c \in serverOpen
  /\ serverOpen' = serverOpen \ {c}
  /\ up' = [up EXCEPT ![c] = <<>>]
  /\ requests' = [requests EXCEPT ![c] = {}]
  /\ IF c \in Registered
       THEN /\ nodes' = nodes
            /\ clusterSockets' = [clusterSockets EXCEPT ![c] = 0]
            /\ broadcastDue' = TRUE
            /\ told' = (server = "up")
       ELSE UNCHANGED <<nodes, clusterSockets, broadcastDue, told>>
  /\ UNCHANGED <<serverVars, insertions, pendingStates, clientOpen, socketOf,
                 commands, asked, executed, clientSocket>>

(* Defect: the entry in clusterSockets stays.                              *)
ServerLosesKeepsSocket(c) ==
  /\ c \in serverOpen
  /\ serverOpen' = serverOpen \ {c}
  /\ up' = [up EXCEPT ![c] = <<>>]
  /\ requests' = [requests EXCEPT ![c] = {}]
  /\ IF c \in Registered
       THEN /\ nodes' = [nodes EXCEPT ![c[1]] = "offline"]
            /\ clusterSockets' = clusterSockets
            /\ broadcastDue' = TRUE
            /\ told' = (server = "up")
       ELSE UNCHANGED <<nodes, clusterSockets, broadcastDue, told>>
  /\ UNCHANGED <<serverVars, insertions, pendingStates, clientOpen, socketOf,
                 commands, asked, executed, clientSocket>>

(* The server does (the handler of "disconnect"), and takes the node for   *)
(* gone, whatever other sockets the node has.  Everybody is sent the new   *)
(* state at once, unless the server is closing.                            *)
ServerLoses(c) ==
  /\ c \in serverOpen
  /\ serverOpen' = serverOpen \ {c}
  /\ up' = [up EXCEPT ![c] = <<>>]
  /\ requests' = [requests EXCEPT ![c] = {}]
  /\ IF c \in Registered
       THEN /\ nodes' = [nodes EXCEPT ![c[1]] = "offline"]
            /\ clusterSockets' = [clusterSockets EXCEPT ![c] = 0]
            /\ broadcastDue' = TRUE
            /\ told' = (server = "up")
       ELSE UNCHANGED <<nodes, clusterSockets, broadcastDue, told>>
  /\ UNCHANGED <<serverVars, insertions, pendingStates, clientOpen, socketOf,
                 commands, asked, executed, clientSocket>>

----------------------------------------------------------------------------
(* The primary hears a node.                                               *)

(* Defect: every registration adds the listeners for internal events.      *)
RegisterListens(c) ==
  /\ server = "up"
  /\ up[c] # <<>> /\ Head(up[c]) = "register"
  /\ up' = [up EXCEPT ![c] = Tail(@)]
  /\ nodes' = [nodes EXCEPT ![c[1]] = "online"]
  /\ pendingStates' = pendingStates \ {c[1]}
  /\ IF c \in Registered
       THEN UNCHANGED <<insertions, clusterSockets>>
       ELSE /\ insertions' = insertions + 1
            /\ clusterSockets' = [clusterSockets EXCEPT ![c] = insertions + 1]
  /\ broadcastDue' = TRUE
  /\ told' = TRUE
  /\ listeners' = listeners + 1
  /\ UNCHANGED <<server, connVars, requestVars, clientSocket>>

(* node:register: a state that came too early is taken up.  Everybody is   *)
(* sent the new state at once, and again by the debounced broadcast.       *)
Register(c) ==
  /\ server = "up"
  /\ up[c] # <<>> /\ Head(up[c]) = "register"
  /\ up' = [up EXCEPT ![c] = Tail(@)]
  /\ nodes' = [nodes EXCEPT ![c[1]] = "online"]
  /\ pendingStates' = pendingStates \ {c[1]}
  /\ IF c \in Registered
       THEN UNCHANGED <<insertions, clusterSockets>>
       ELSE /\ insertions' = insertions + 1
            /\ clusterSockets' = [clusterSockets EXCEPT ![c] = insertions + 1]
  /\ broadcastDue' = TRUE
  /\ told' = TRUE
  /\ UNCHANGED <<serverVars, connVars, requestVars, clientSocket>>

(* state:update: only what the node has, not its status.                   *)
Update(c) ==
  /\ server = "up"
  /\ up[c] # <<>> /\ Head(up[c]) = "update"
  /\ up' = [up EXCEPT ![c] = Tail(@)]
  /\ pendingStates' = IF c \in Registered THEN pendingStates
                                          ELSE pendingStates \cup {c[1]}
  /\ IF c \in Registered /\ nodes[c[1]] # "absent"
       THEN broadcastDue' = TRUE /\ told' = FALSE
       ELSE UNCHANGED <<broadcastDue, told>>
  /\ UNCHANGED <<serverVars, nodes, clusterSockets, insertions, connVars, requestVars,
                 clientSocket>>

(* A request that a node sent, after its registration: dropped if there is *)
(* no such registration, done here, or passed on.                          *)
Route(c, k) ==
  /\ server = "up"
  /\ k \in requests[c]
  /\ c \in Registered \/ up[c] = <<>>
  /\ requests' = [requests EXCEPT ![c] = @ \ {k}]
  /\ commands' = IF c \in Registered THEN Command(k, 1) ELSE commands
  /\ IF c \in Registered /\ Target[k] = Primary
       THEN /\ executed' = [executed EXCEPT ![k] = @ + 1]
            /\ broadcastDue' = TRUE
       ELSE UNCHANGED <<executed, broadcastDue>>
  /\ UNCHANGED <<serverVars, nodes, clusterSockets, insertions, pendingStates, told,
                 connVars, up, asked, clientSocket>>

(* A request made at the primary: over its listeners, or directly.         *)
AskPrimary(k) ==
  /\ Origin[k] = Primary
  /\ k \notin asked
  /\ asked' = asked \cup {k}
  /\ commands' = Command(k, IF k \in Listened THEN listeners ELSE 1)
  /\ UNCHANGED <<serverVars, mapVars, connVars, up, requests, executed, clientSocket>>

----------------------------------------------------------------------------
(* What happens at a node.                                                 *)

(* A request for another node.  Kills and input go to listeners that only  *)
(* a primary has.                                                          *)
AskNode(k) ==
  /\ k \notin asked
  /\ Origin[k] \in Nodes
  /\ asked' = asked \cup {k}
  /\ requests' = [c \in Conns |-> IF c \in Current(Origin[k]) /\ k \notin Listened
                                    THEN requests[c] \cup {k} ELSE requests[c]]
  /\ UNCHANGED <<serverVars, mapVars, connVars, up, commands, executed, clientSocket>>

(* A command: an instance or shell is created, which the node reports;     *)
(* something else is done, which it does not; or it throws.                *)
Execute(c, k) ==
  /\ commands[c][k] > 0
  /\ commands' = [commands EXCEPT ![c][k] = @ - 1]
  /\ \/ /\ executed' = [executed EXCEPT ![k] = @ + 1]
        /\ up' \in {up, StateUpdate(c[1])}
     \/ UNCHANGED <<executed, up>>
  /\ UNCHANGED <<serverVars, mapVars, connVars, requests, asked, clientSocket>>

(* A node sends its state when its projects change, and when it hears that *)
(* it is registered.                                                       *)
SendState(n) ==
  /\ \E c \in Current(n) : Len(up[c]) < MaxUp
  /\ up' = StateUpdate(n)
  /\ UNCHANGED <<serverVars, mapVars, connVars, requestVars, clientSocket>>

Next ==
  \/ Start \/ Stop \/ StopDone \/ PrimaryCrash \/ Broadcast
  \/ \E n \in Nodes : NewSocket(n) \/ SendState(n)
  \/ \E n \in Nodes : \E s \in 1..MaxSockets[n] : Connect(n, s)
  \/ \E c \in Conns : ClientLoses(c) \/ ServerLoses(c) \/ Register(c) \/ Update(c)
  \/ \E k \in Requests : AskPrimary(k) \/ AskNode(k)
  \/ \E c \in Conns, k \in Requests : Route(c, k) \/ Execute(c, k)

Spec == Init /\ [][Next]_vars

----------------------------------------------------------------------------
TypeOK ==
  /\ server \in {"down", "up", "closing"}
  /\ listeners \in 0..MaxStarts
  /\ nodes \in [Nodes -> {"absent", "online", "offline"}]
  /\ clusterSockets \in [Conns -> Nat]
  /\ insertions \in Nat
  /\ pendingStates \subseteq Nodes
  /\ broadcastDue \in BOOLEAN
  /\ told \in BOOLEAN
  /\ serverOpen \subseteq Conns
  /\ clientOpen \subseteq Conns
  /\ socketOf \in [Conns -> Nat]
  /\ up \in [Conns -> Seq(UpMsg)]
  /\ requests \in [Conns -> SUBSET Requests]
  /\ commands \in [Conns -> [Requests -> Nat]]
  /\ clientSocket \in [Nodes -> Nat]
  /\ asked \subseteq Requests
  /\ executed \in [Requests -> Nat]

(* A node the users are shown as online can be reached: one of its         *)
(* connections is in clusterSockets.  (The converse does not hold: the     *)
(* late disconnect of an old connection marks a node offline that is       *)
(* registered over a new one, and no heartbeat or state of it undoes it.)  *)
OnlineIsRegistered ==
  \A n \in Nodes : nodes[n] = "online" => \E c \in Registered : c[1] = n

(* clusterSockets and nodes agree: an entry is for an open connection of a *)
(* node that is known, so every heartbeat and every state:update finds the *)
(* record it is for.                                                       *)
RegisteredIsKnown ==
  \A c \in Registered : c \in serverOpen /\ nodes[c[1]] # "absent"

(* pendingStates, made for states that come before the registration, is    *)
(* never used: connect registers first, and what a node sends is written   *)
(* to one socket in order, whichever of its sockets has connected.         *)
NothingComesEarly ==
  /\ pendingStates = {}
  /\ \A c \in Conns \ Registered : up[c] # <<>> => Head(up[c]) = "register"

(* No change of a node stays untold: while the server is up, all           *)
(* connections have been sent the nodes as they are, or the debounced      *)
(* broadcast is still to come.  A stop cancels the broadcast, the sockets  *)
(* that are closed after it ask for the next, and it may come while the    *)
(* server is closing, when it is sent to nobody; once the server is up     *)
(* again, what was missed must be on its way.                              *)
RegisteredAreTold ==
  server = "up" => broadcastDue \/ told

----------------------------------------------------------------------------
UnderWay(k) == \E c \in Conns : k \in requests[c] \/ commands[c][k] > 0

(* The listeners of the primary are added by every start of the server.    *)
Copies ==
  [k \in Requests |-> IF Origin[k] = Primary /\ k \in Listened THEN MaxStarts ELSE 1]

open == {k \in Requests : UnderWay(k)}

Contract == INSTANCE RemoteRequest

(* What is asked of another node is done once or not at all, whatever      *)
(* connections break, open again or stand beside each other, and though    *)
(* nobody acknowledges anything (sendClusterCommand stops at the first     *)
(* socket of the node).  The exception is what goes over the listeners of  *)
(* the primary: that is done up to once for every start of the server.     *)
KeepsRequests == Contract!Spec
=============================================================================
