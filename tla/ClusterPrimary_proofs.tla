----------------------- MODULE ClusterPrimary_proofs -----------------------
(***************************************************************************)
(* Proofs about ClusterPrimary, for every number of nodes, connections,    *)
(* starts and crashes: what the primary shows of the nodes can be reached  *)
(* and is sent to all, and what is asked of another node is done at most   *)
(* once, or once for every start of the server, or is lost.                *)
(***************************************************************************)
EXTENDS ClusterPrimary, TLAPS

LEMMA ConnNode == \A c \in Conns : c[1] \in Nodes
BY DEF Conns

(* What a node writes goes to some of its connections.                     *)
LEMMA StateUpdateType ==
  ASSUME TypeOK, NEW n \in Nodes
  PROVE  StateUpdate(n) \in [Conns -> Seq(UpMsg)]
BY DEF TypeOK, StateUpdate, UpMsg

LEMMA CommandType ==
  ASSUME TypeOK, NEW k \in Requests, NEW copies \in Nat
  PROVE  Command(k, copies) \in [Conns -> [Requests -> Nat]]
<1>1. \A c \in Conns : commands[c] \in [Requests -> Nat]
  BY DEF TypeOK
<1>2. \A c \in Conns : [commands[c] EXCEPT ![k] = @ + copies] \in [Requests -> Nat]
  BY <1>1
<1> QED BY <1>1, <1>2 DEF Command

LEMMA InitType == Init => TypeOK
<1> SUFFICES ASSUME Init PROVE TypeOK
  OBVIOUS
<1>1. Nothing \in [Requests -> Nat]
  BY DEF Nothing
<1>2. commands \in [Conns -> [Requests -> Nat]]
  BY <1>1 DEF Init
<1>3. nodes \in [Nodes -> {"absent", "online", "offline"}]
  BY DEF Init, NoNodes
<1>4. up \in [Conns -> Seq(UpMsg)]
  BY DEF Init
<1>5. /\ clusterSockets \in [Conns -> Nat] /\ socketOf \in [Conns -> Nat]
      /\ requests \in [Conns -> SUBSET Requests] /\ clientSocket \in [Nodes -> Nat]
  BY DEF Init
<1>6. listeners \in 0..MaxStarts
  BY BoundsAssumption DEF Init
<1> QED BY <1>1, <1>2, <1>3, <1>4, <1>5, <1>6 DEF Init, TypeOK

LEMMA NextType == TypeOK /\ [Next]_vars => TypeOK'
<1> SUFFICES ASSUME TypeOK, [Next]_vars PROVE TypeOK'
  OBVIOUS
<1> USE DEF serverVars, mapVars, connVars, requestVars
<1>0. Nothing \in [Requests -> Nat] /\ NoNodes \in [Nodes -> {"absent", "online", "offline"}]
  BY DEF Nothing, NoNodes
<1>1. CASE Start
  <2>1. listeners' \in 0..MaxStarts
    BY <1>1, BoundsAssumption DEF Start, TypeOK
  <2>2. server' \in {"down", "up", "closing"} /\ broadcastDue' \in BOOLEAN
    BY <1>1 DEF Start, TypeOK
  <2> QED BY <1>1, <2>1, <2>2 DEF Start, TypeOK
<1>2. CASE Stop
  BY <1>2 DEF Stop, TypeOK
<1>3. CASE StopDone
  BY <1>0, <1>3 DEF StopDone, TypeOK
<1>4. CASE PrimaryCrash
  <2>1. listeners' \in 0..MaxStarts
    BY <1>4, BoundsAssumption DEF PrimaryCrash, TypeOK
  <2>2. up' \in [Conns -> Seq(UpMsg)] /\ requests' \in [Conns -> SUBSET Requests]
    BY <1>4 DEF PrimaryCrash
  <2>3. clusterSockets' \in [Conns -> Nat]
    BY <1>4 DEF PrimaryCrash
  <2> QED BY <1>0, <1>4, <2>1, <2>2, <2>3 DEF PrimaryCrash, TypeOK
<1>5. CASE Broadcast
  <2>1. told' \in BOOLEAN
    BY <1>5 DEF Broadcast
  <2> QED BY <1>5, <2>1 DEF Broadcast, TypeOK
<1>6. ASSUME NEW n \in Nodes, NewSocket(n) PROVE TypeOK'
  BY <1>6 DEF NewSocket, TypeOK
<1>7. ASSUME NEW n \in Nodes, SendState(n) PROVE TypeOK'
  BY <1>7, StateUpdateType DEF SendState, TypeOK
<1>8. ASSUME NEW n \in Nodes, NEW s \in 1..MaxSockets[n], Connect(n, s) PROVE TypeOK'
  <2>1. PICK i \in 1..MaxConns[n] :
          /\ socketOf' = [socketOf EXCEPT ![<<n, i>>] = s]
          /\ serverOpen' = serverOpen \cup {<<n, i>>}
          /\ clientOpen' = clientOpen \cup {<<n, i>>}
          /\ up' = [c \in Conns |->
                      IF c \in (IF s = clientSocket[n] THEN {<<n, i>>} ELSE Current(n))
                        THEN Append(up[c], "register") ELSE up[c]]
    BY <1>8 DEF Connect
  <2>2. <<n, i>> \in Conns /\ s \in Nat
    BY BoundsAssumption DEF Conns
  <2>3. up' \in [Conns -> Seq(UpMsg)]
    BY <2>1 DEF TypeOK, UpMsg
  <2> QED BY <1>8, <2>1, <2>2, <2>3 DEF Connect, TypeOK
<1>9. ASSUME NEW c \in Conns, ClientLoses(c) PROVE TypeOK'
  BY <1>0, <1>9 DEF ClientLoses, TypeOK
<1>10. ASSUME NEW c \in Conns, ServerLoses(c) PROVE TypeOK'
  <2>1. /\ nodes' \in [Nodes -> {"absent", "online", "offline"}]
        /\ clusterSockets' \in [Conns -> Nat]
        /\ broadcastDue' \in BOOLEAN /\ told' \in BOOLEAN
    <3>1. CASE c \in Registered
      <4>1. c[1] \in Nodes
        BY ConnNode
      <4>2. /\ nodes' = [nodes EXCEPT ![c[1]] = "offline"]
            /\ clusterSockets' = [clusterSockets EXCEPT ![c] = 0]
            /\ broadcastDue' = TRUE
            /\ told' \in BOOLEAN
        BY <1>10, <3>1 DEF ServerLoses
      <4>3. nodes' \in [Nodes -> {"absent", "online", "offline"}]
        BY <4>1, <4>2 DEF TypeOK
      <4>4. clusterSockets' \in [Conns -> Nat]
        BY <4>2 DEF TypeOK
      <4> QED BY <4>2, <4>3, <4>4
    <3>2. CASE c \notin Registered
      BY <1>10, <3>2 DEF ServerLoses, TypeOK
    <3> QED BY <3>1, <3>2
  <2>2. up' \in [Conns -> Seq(UpMsg)] /\ requests' \in [Conns -> SUBSET Requests]
    BY <1>10 DEF ServerLoses, TypeOK
  <2> QED BY <1>10, <2>1, <2>2 DEF ServerLoses, TypeOK
<1>11. ASSUME NEW c \in Conns, Register(c) PROVE TypeOK'
  <2>1. insertions' \in Nat /\ clusterSockets' \in [Conns -> Nat]
    <3>1. CASE c \in Registered
      BY <1>11, <3>1 DEF Register, TypeOK
    <3>2. CASE c \notin Registered
      <4>1. insertions + 1 \in Nat
        BY DEF TypeOK
      <4>2. /\ insertions' = insertions + 1
            /\ clusterSockets' = [clusterSockets EXCEPT ![c] = insertions + 1]
        BY <1>11, <3>2 DEF Register
      <4> QED BY <4>1, <4>2 DEF TypeOK
    <3> QED BY <3>1, <3>2
  <2>2. up' \in [Conns -> Seq(UpMsg)]
    BY <1>11 DEF Register, TypeOK
  <2> QED BY <1>11, <2>1, <2>2, ConnNode DEF Register, TypeOK
<1>12. ASSUME NEW c \in Conns, Update(c) PROVE TypeOK'
  <2>1. broadcastDue' \in BOOLEAN /\ told' \in BOOLEAN
    BY <1>12 DEF Update, TypeOK
  <2>2. up' \in [Conns -> Seq(UpMsg)] /\ pendingStates' \subseteq Nodes
    BY <1>12, ConnNode DEF Update, TypeOK
  <2> QED BY <1>12, <2>1, <2>2 DEF Update, TypeOK
<1>13. ASSUME NEW c \in Conns, NEW k \in Requests, Route(c, k) PROVE TypeOK'
  <2>1. commands' \in [Conns -> [Requests -> Nat]]
    BY <1>13, CommandType DEF Route, TypeOK
  <2>2. executed' \in [Requests -> Nat] /\ broadcastDue' \in BOOLEAN
    <3>1. executed[k] + 1 \in Nat
      BY DEF TypeOK
    <3>2. CASE c \in Registered /\ Target[k] = Primary
      BY <1>13, <3>1, <3>2 DEF Route, TypeOK
    <3>3. CASE ~(c \in Registered /\ Target[k] = Primary)
      BY <1>13, <3>3 DEF Route, TypeOK
    <3> QED BY <3>2, <3>3
  <2>3. requests' \in [Conns -> SUBSET Requests]
    BY <1>13 DEF Route, TypeOK
  <2> QED BY <1>13, <2>1, <2>2, <2>3 DEF Route, TypeOK
<1>14. ASSUME NEW k \in Requests, AskPrimary(k) PROVE TypeOK'
  <2>1. (IF k \in Listened THEN listeners ELSE 1) \in Nat
    BY BoundsAssumption DEF TypeOK
  <2> QED BY <1>14, <2>1, CommandType DEF AskPrimary, TypeOK
<1>15. ASSUME NEW k \in Requests, AskNode(k) PROVE TypeOK'
  <2>1. requests' \in [Conns -> SUBSET Requests]
    BY <1>15 DEF AskNode, TypeOK
  <2> QED BY <1>15, <2>1 DEF AskNode, TypeOK
<1>16. ASSUME NEW c \in Conns, NEW k \in Requests, Execute(c, k) PROVE TypeOK'
  <2>1. commands[c] \in [Requests -> Nat] /\ commands[c][k] - 1 \in Nat
    BY <1>16 DEF Execute, TypeOK
  <2>2. [commands[c] EXCEPT ![k] = commands[c][k] - 1] \in [Requests -> Nat]
    BY <2>1
  <2>3. commands' = [commands EXCEPT ![c] = [commands[c] EXCEPT ![k] = commands[c][k] - 1]]
    BY <1>16 DEF Execute, TypeOK
  <2>4. commands' \in [Conns -> [Requests -> Nat]]
    BY <2>2, <2>3 DEF TypeOK
  <2>5. executed' \in [Requests -> Nat]
    <3>1. executed[k] + 1 \in Nat
      BY DEF TypeOK
    <3>2. executed' = [executed EXCEPT ![k] = executed[k] + 1] \/ executed' = executed
      BY <1>16 DEF Execute, TypeOK
    <3> QED BY <3>1, <3>2 DEF TypeOK
  <2>6. up' \in [Conns -> Seq(UpMsg)]
    <3>1. StateUpdate(c[1]) \in [Conns -> Seq(UpMsg)]
      BY StateUpdateType, ConnNode
    <3> QED BY <1>16, <3>1 DEF Execute, TypeOK
  <2> QED BY <1>16, <2>4, <2>5, <2>6 DEF Execute, TypeOK
<1>17. CASE UNCHANGED vars
  BY <1>17 DEF vars, TypeOK
<1> QED BY <1>1, <1>2, <1>3, <1>4, <1>5, <1>6, <1>7, <1>8, <1>9, <1>10, <1>11, <1>12,
           <1>13, <1>14, <1>15, <1>16, <1>17 DEF Next

(* Every variable keeps to its type.                                       *)
THEOREM TypeCorrect == Spec => []TypeOK
BY InitType, NextType, PTL DEF Spec

----------------------------------------------------------------------------
(* Connections: an open one belongs to a socket that the node has opened,  *)
(* a socket has one connection at a time, and only open ones carry         *)
(* anything.                                                               *)
SocketsUsed ==
  \A c \in Conns :
    /\ socketOf[c] <= clientSocket[c[1]]
    /\ c \in serverOpen \cup clientOpen => socketOf[c] > 0

OpenPerSocket ==
  \A c, d \in clientOpen : c[1] = d[1] /\ socketOf[c] = socketOf[d] => c = d

CarriedByOpen ==
  \A c \in Conns :
    /\ up[c] # <<>> => c \in serverOpen
    /\ requests[c] # {} => c \in serverOpen
    /\ \A k \in Requests : commands[c][k] > 0 => c \in clientOpen

ConnInv == SocketsUsed /\ OpenPerSocket /\ CarriedByOpen

LEMMA CurrentOpen ==
  ASSUME TypeOK, NEW n \in Nodes, NEW c \in Current(n)
  PROVE  c \in Conns /\ c \in serverOpen /\ c \in clientOpen /\ c[1] = n
BY DEF Current, TypeOK

LEMMA StateUpdateOpen ==
  ASSUME TypeOK, NEW n \in Nodes, NEW c \in Conns, StateUpdate(n)[c] # up[c]
  PROVE  c \in serverOpen
BY DEF StateUpdate, Current

LEMMA CommandOpen ==
  ASSUME TypeOK, NEW k \in Requests, NEW copies \in Nat, NEW c \in Conns, NEW q \in Requests,
         Command(k, copies)[c][q] # commands[c][q]
  PROVE  c \in clientOpen
BY DEF Command

LEMMA ConnStep ==
  ASSUME TypeOK, ConnInv, [Next]_vars
  PROVE  ConnInv'
<1> USE DEF ConnInv, serverVars, mapVars, connVars, requestVars
<1>0. ASSUME UNCHANGED <<connVars, clientSocket>>, CarriedByOpen' PROVE ConnInv'
  BY <1>0 DEF SocketsUsed, OpenPerSocket
<1>1. CASE Start \/ Stop \/ StopDone \/ Broadcast \/ UNCHANGED vars
  BY <1>1 DEF Start, Stop, StopDone, Broadcast, vars, SocketsUsed, OpenPerSocket, CarriedByOpen
<1>4. CASE PrimaryCrash
  BY <1>4 DEF PrimaryCrash, SocketsUsed, OpenPerSocket, CarriedByOpen
<1>6. ASSUME NEW n \in Nodes, NewSocket(n) PROVE ConnInv'
  <2>1. \A m \in Nodes : clientSocket[m] \in Nat /\ clientSocket'[m] >= clientSocket[m]
    BY <1>6 DEF NewSocket, TypeOK
  <2>2. SocketsUsed'
    BY <1>6, <2>1, ConnNode DEF NewSocket, SocketsUsed, TypeOK
  <2> QED BY <1>6, <2>2 DEF NewSocket, OpenPerSocket, CarriedByOpen
<1>7. ASSUME NEW n \in Nodes, SendState(n) PROVE ConnInv'
  <2>1. CarriedByOpen'
    BY <1>7, StateUpdateOpen DEF SendState, CarriedByOpen
  <2> QED BY <1>0, <1>7, <2>1 DEF SendState
<1>8. ASSUME NEW n \in Nodes, NEW s \in 1..MaxSockets[n], Connect(n, s) PROVE ConnInv'
  <2>1. PICK i \in 1..MaxConns[n] :
          /\ \A j \in 1..MaxConns[n] : socketOf[<<n, j>>] = 0 <=> j >= i
          /\ socketOf' = [socketOf EXCEPT ![<<n, i>>] = s]
          /\ serverOpen' = serverOpen \cup {<<n, i>>}
          /\ clientOpen' = clientOpen \cup {<<n, i>>}
          /\ up' = [c \in Conns |->
                      IF c \in (IF s = clientSocket[n] THEN {<<n, i>>} ELSE Current(n))
                        THEN Append(up[c], "register") ELSE up[c]]
    BY <1>8 DEF Connect
  <2> DEFINE new == <<n, i>>
  <2>2. new \in Conns /\ new[1] = n /\ s \in Nat /\ s > 0 /\ s <= clientSocket[n]
    BY <1>8, BoundsAssumption DEF Conns, Connect, TypeOK
  <2>3. \A c \in clientOpen : c[1] = n => socketOf[c] # s
    BY <1>8 DEF Connect
  <2>4. socketOf[new] = 0
    BY <2>1, BoundsAssumption
  <2> HIDE DEF new
  <2>5. new \notin serverOpen /\ new \notin clientOpen
    BY <2>2, <2>4 DEF SocketsUsed, TypeOK
  <2>6. /\ socketOf' = [socketOf EXCEPT ![new] = s]
        /\ serverOpen' = serverOpen \cup {new}
        /\ clientOpen' = clientOpen \cup {new}
        /\ UNCHANGED <<requests, commands, clientSocket>>
    BY <1>8, <2>1 DEF Connect, new
  <2>7. SocketsUsed'
    BY <2>2, <2>6 DEF SocketsUsed, TypeOK
  <2>8. OpenPerSocket'
    BY <2>2, <2>3, <2>5, <2>6 DEF OpenPerSocket, TypeOK
  <2>9. \A c \in Conns : up'[c] # <<>> => c \in serverOpen'
    <3>1. \A c \in Conns : up'[c] # up[c] => c = new \/ c \in Current(n)
      BY <2>1 DEF new
    <3> QED BY <2>6, <3>1 DEF Current, CarriedByOpen
  <2>10. CarriedByOpen'
    BY <2>6, <2>9 DEF CarriedByOpen
  <2> QED BY <2>7, <2>8, <2>10
<1>9. ASSUME NEW c \in Conns, ClientLoses(c) PROVE ConnInv'
  <2>1. \A d \in Conns, k \in Requests : commands'[d][k] > 0 => d # c /\ commands[d][k] > 0
    BY <1>9 DEF ClientLoses, TypeOK, Nothing
  <2> QED BY <1>9, <2>1 DEF ClientLoses, SocketsUsed, OpenPerSocket, CarriedByOpen
<1>10. ASSUME NEW c \in Conns, ServerLoses(c) PROVE ConnInv'
  <2>1. \A d \in Conns : /\ up'[d] # <<>> => d # c /\ up[d] # <<>>
                         /\ requests'[d] # {} => d # c /\ requests[d] # {}
    BY <1>10 DEF ServerLoses, TypeOK
  <2> QED BY <1>10, <2>1 DEF ServerLoses, SocketsUsed, OpenPerSocket, CarriedByOpen
<1>11. ASSUME NEW c \in Conns, Register(c) \/ Update(c) PROVE ConnInv'
  <2>1. \A d \in Conns : up'[d] # <<>> => up[d] # <<>>
    BY <1>11 DEF Register, Update, TypeOK
  <2>2. CarriedByOpen'
    BY <1>11, <2>1 DEF Register, Update, CarriedByOpen
  <2> QED BY <1>0, <1>11, <2>2 DEF Register, Update
<1>13. ASSUME NEW c \in Conns, NEW k \in Requests, Route(c, k) PROVE ConnInv'
  <2>1. \A d \in Conns, q \in Requests : commands'[d][q] # commands[d][q] => d \in clientOpen
    BY <1>13, CommandOpen DEF Route
  <2>2. \A d \in Conns : requests'[d] # {} => requests[d] # {}
    BY <1>13 DEF Route, TypeOK
  <2>3. CarriedByOpen'
    BY <1>13, <2>1, <2>2 DEF Route, CarriedByOpen
  <2> QED BY <1>0, <1>13, <2>3 DEF Route
<1>14. ASSUME NEW k \in Requests, AskPrimary(k) PROVE ConnInv'
  <2>1. (IF k \in Listened THEN listeners ELSE 1) \in Nat
    BY BoundsAssumption DEF TypeOK
  <2>2. \A d \in Conns, q \in Requests : commands'[d][q] # commands[d][q] => d \in clientOpen
    BY <1>14, <2>1, CommandOpen DEF AskPrimary
  <2>3. CarriedByOpen'
    BY <1>14, <2>2 DEF AskPrimary, CarriedByOpen
  <2> QED BY <1>0, <1>14, <2>3 DEF AskPrimary
<1>15. ASSUME NEW k \in Requests, AskNode(k) PROVE ConnInv'
  <2>1. \A d \in Conns : requests'[d] # requests[d] => d \in serverOpen
    BY <1>15 DEF AskNode, Current, TypeOK
  <2>2. CarriedByOpen'
    BY <1>15, <2>1 DEF AskNode, CarriedByOpen
  <2> QED BY <1>0, <1>15, <2>2 DEF AskNode
<1>16. ASSUME NEW c \in Conns, NEW k \in Requests, Execute(c, k) PROVE ConnInv'
  <2>1. \A d \in Conns, q \in Requests : commands'[d][q] > 0 => commands[d][q] > 0
    <3>1. commands' = [commands EXCEPT ![c][k] = commands[c][k] - 1] /\ commands[c][k] > 0
      BY <1>16 DEF Execute, TypeOK
    <3> QED BY <3>1 DEF TypeOK
  <2>2. \A d \in Conns : up'[d] # up[d] => d \in serverOpen
    BY <1>16, StateUpdateOpen, ConnNode DEF Execute
  <2>3. CarriedByOpen'
    BY <1>16, <2>1, <2>2 DEF Execute, CarriedByOpen
  <2> QED BY <1>0, <1>16, <2>3 DEF Execute
<1> QED BY <1>1, <1>4, <1>6, <1>7, <1>8, <1>9, <1>10, <1>11,
           <1>13, <1>14, <1>15, <1>16 DEF Next

----------------------------------------------------------------------------
(* The records of the primary: the Map of the sockets is in the order of   *)
(* its insertions, and over the connection a node writes to it has         *)
(* registered, or the registration is the first thing to arrive.           *)
Ranks ==
  /\ \A c \in Conns : clusterSockets[c] <= insertions
  /\ \A c, d \in Registered : clusterSockets[c] = clusterSockets[d] => c = d

CurrentRegisters ==
  \A n \in Nodes : \A c \in Current(n) : c \in Registered \/ up[c] # <<>>

NodeInv ==
  /\ RegisteredIsKnown
  /\ Ranks
  /\ OnlineIsRegistered
  /\ NothingComesEarly
  /\ CurrentRegisters
  /\ RegisteredAreTold

(* The records do not depend on the requests.                              *)
recordVars ==
  <<nodes, clusterSockets, insertions, pendingStates, connVars, up, clientSocket>>

LEMMA RecordsUntouched ==
  ASSUME NodeInv, UNCHANGED recordVars, RegisteredAreTold'
  PROVE  NodeInv'
<1>1. Registered' = Registered /\ \A n \in Nodes : Current(n)' = Current(n)
  BY DEF recordVars, connVars, Registered, Current
<1> QED BY <1>1 DEF recordVars, connVars, NodeInv, RegisteredIsKnown, Ranks,
             OnlineIsRegistered, NothingComesEarly, CurrentRegisters

(* A node writes its state behind its registration.                        *)
LEMMA WriteState ==
  ASSUME TypeOK, NodeInv, NEW n \in Nodes, up' = StateUpdate(n),
         UNCHANGED <<server, mapVars, connVars, clientSocket>>
  PROVE  NodeInv'
<1> USE DEF NodeInv, mapVars, connVars
<1>1. Registered' = Registered /\ \A m \in Nodes : Current(m)' = Current(m)
  BY DEF Registered, Current
<1>2. \A c \in Conns : \/ up'[c] = up[c]
                       \/ c \in Current(n) /\ up'[c] = Append(up[c], "update")
  BY DEF StateUpdate
<1>3. \A c \in Conns : up[c] \in Seq(UpMsg)
  BY DEF TypeOK
<1>4. \A c \in Conns : up[c] # <<>> => /\ Append(up[c], "update") # <<>>
                                       /\ Head(Append(up[c], "update")) = Head(up[c])
  BY <1>3 DEF UpMsg
<1>5. NothingComesEarly'
  BY <1>1, <1>2, <1>4 DEF NothingComesEarly, CurrentRegisters
<1>6. CurrentRegisters'
  <2>1. \A c \in Conns : up'[c] # up[c] => up'[c] # <<>>
    BY <1>2, <1>3 DEF UpMsg
  <2> QED BY <1>1, <2>1, CurrentOpen DEF CurrentRegisters
<1> QED BY <1>1, <1>5, <1>6 DEF RegisteredIsKnown, Ranks, OnlineIsRegistered, RegisteredAreTold

LEMMA ConnectRecords ==
  ASSUME TypeOK, ConnInv, NodeInv, NEW n \in Nodes, NEW s \in 1..MaxSockets[n], Connect(n, s)
  PROVE  NodeInv'
<1> USE DEF NodeInv, serverVars, mapVars, connVars, requestVars
<1>1. PICK i \in 1..MaxConns[n] :
        /\ \A j \in 1..MaxConns[n] : socketOf[<<n, j>>] = 0 <=> j >= i
        /\ socketOf' = [socketOf EXCEPT ![<<n, i>>] = s]
        /\ serverOpen' = serverOpen \cup {<<n, i>>}
        /\ clientOpen' = clientOpen \cup {<<n, i>>}
        /\ up' = [c \in Conns |->
                    IF c \in (IF s = clientSocket[n] THEN {<<n, i>>} ELSE Current(n))
                      THEN Append(up[c], "register") ELSE up[c]]
  BY DEF Connect
<1> DEFINE new == <<n, i>>
<1>2. new \in Conns /\ new[1] = n /\ socketOf[new] = 0
  BY <1>1, BoundsAssumption DEF Conns
<1>3. \A c \in Conns : up'[c] = IF c \in (IF s = clientSocket[n] THEN {new} ELSE Current(n))
                                  THEN Append(up[c], "register") ELSE up[c]
  BY <1>1
<1>4. /\ socketOf' = [socketOf EXCEPT ![new] = s]
      /\ serverOpen' = serverOpen \cup {new}
      /\ clientOpen' = clientOpen \cup {new}
  BY <1>1
<1> HIDE DEF new
<1>5. new \notin serverOpen /\ new \notin clientOpen /\ up[new] = <<>>
  BY <1>2 DEF ConnInv, SocketsUsed, CarriedByOpen, TypeOK
<1>6. Registered' = Registered
  BY DEF Registered, Connect
<1>7. \A c \in Conns : up[c] \in Seq(UpMsg)
  BY DEF TypeOK
<1>8. \A c \in Conns : /\ Append(up[c], "register") # <<>>
                       /\ up[c] # <<>> => Head(Append(up[c], "register")) = Head(up[c])
                       /\ up[c] = <<>> => Head(Append(up[c], "register")) = "register"
  BY <1>7 DEF UpMsg
<1>9. NothingComesEarly'
  <2>1. ASSUME NEW c \in Conns, c \notin Registered, up'[c] # <<>>
        PROVE  Head(up'[c]) = "register"
    BY <2>1, <1>3, <1>8 DEF NothingComesEarly
  <2> QED BY <1>6, <2>1 DEF Connect, NothingComesEarly
<1>10. CurrentRegisters'
  <2>1. \A m \in Nodes : \A c \in Current(m)' :
          c \in Current(m) \/ (c = new /\ m = n /\ s = clientSocket[n])
    <3>1. clientSocket' = clientSocket
      BY DEF Connect
    <3>2. socketOf'[new] = s /\ \A c \in serverOpen : c # new => socketOf'[c] = socketOf[c]
      BY <1>2, <1>4 DEF TypeOK
    <3> QED BY <1>2, <1>4, <3>1, <3>2 DEF Current
  <2>2. \A c \in Conns : up'[c] # up[c] => up'[c] # <<>>
    BY <1>3, <1>8
  <2>3. s = clientSocket[n] => up'[new] # <<>>
    BY <1>2, <1>3, <1>8
  <2> QED BY <1>6, <2>1, <2>2, <2>3, CurrentOpen DEF CurrentRegisters
<1>11. RegisteredIsKnown' /\ Ranks' /\ OnlineIsRegistered' /\ RegisteredAreTold'
  BY <1>4, <1>6 DEF Connect, RegisteredIsKnown, Ranks, OnlineIsRegistered, RegisteredAreTold
<1> QED BY <1>9, <1>10, <1>11

LEMMA RegisterRecords ==
  ASSUME TypeOK, ConnInv, NodeInv, NEW c \in Conns, Register(c)
  PROVE  NodeInv'
<1> USE DEF NodeInv, serverVars, connVars, requestVars
<1>1. /\ up[c] # <<>>
      /\ up' = [up EXCEPT ![c] = Tail(@)]
      /\ nodes' = [nodes EXCEPT ![c[1]] = "online"]
      /\ pendingStates' = {}
      /\ UNCHANGED <<serverOpen, clientOpen, socketOf, clientSocket>>
      /\ told'
  BY DEF Register, NothingComesEarly
<1>2. c[1] \in Nodes /\ c \in serverOpen
  BY <1>1, ConnNode DEF ConnInv, CarriedByOpen
<1>3. Registered' = Registered \cup {c} /\ Ranks'
  <2>1. CASE c \in Registered
    BY <2>1 DEF Register, Registered, Ranks
  <2>2. CASE c \notin Registered
    <3>1. clusterSockets' = [clusterSockets EXCEPT ![c] = insertions + 1]
          /\ insertions' = insertions + 1
      BY <2>2 DEF Register
    <3>2. Registered' = Registered \cup {c}
      BY <3>1 DEF Registered, TypeOK
    <3> QED BY <3>1, <3>2 DEF Ranks, Registered, TypeOK
  <2> QED BY <2>1, <2>2
<1>4. RegisteredIsKnown'
  BY <1>1, <1>2, <1>3 DEF RegisteredIsKnown, TypeOK
<1>5. OnlineIsRegistered'
  BY <1>1, <1>2, <1>3 DEF OnlineIsRegistered, TypeOK
<1>6. \A d \in Conns : d # c => up'[d] = up[d]
  BY <1>1 DEF TypeOK
<1>7. NothingComesEarly'
  BY <1>1, <1>3, <1>6 DEF NothingComesEarly
<1>8. CurrentRegisters'
  <2>1. \A n \in Nodes : Current(n)' = Current(n)
    BY <1>1 DEF Current
  <2> QED BY <1>3, <1>6, <2>1, CurrentOpen DEF CurrentRegisters
<1> QED BY <1>1, <1>3, <1>4, <1>5, <1>7, <1>8 DEF RegisteredAreTold

LEMMA UpdateRecords ==
  ASSUME TypeOK, ConnInv, NodeInv, NEW c \in Conns, Update(c)
  PROVE  NodeInv'
<1> USE DEF NodeInv, serverVars, connVars, requestVars
<1>1. c \in Registered /\ nodes[c[1]] # "absent"
  BY DEF Update, NothingComesEarly, RegisteredIsKnown
<1>2. /\ up' = [up EXCEPT ![c] = Tail(@)]
      /\ broadcastDue' = TRUE
      /\ UNCHANGED <<server, nodes, clusterSockets, insertions, pendingStates, connVars,
                     clientSocket>>
  BY <1>1 DEF Update
<1>3. Registered' = Registered /\ \A n \in Nodes : Current(n)' = Current(n)
  BY <1>2 DEF Registered, Current
<1>4. \A d \in Conns : d # c => up'[d] = up[d]
  BY <1>2 DEF TypeOK
<1>5. NothingComesEarly'
  BY <1>1, <1>2, <1>3, <1>4 DEF NothingComesEarly
<1>6. CurrentRegisters'
  BY <1>1, <1>3, <1>4, CurrentOpen DEF CurrentRegisters
<1> QED BY <1>2, <1>3, <1>5, <1>6
        DEF RegisteredIsKnown, Ranks, OnlineIsRegistered, RegisteredAreTold

LEMMA ServerLosesRecords ==
  ASSUME TypeOK, ConnInv, NodeInv, NEW c \in Conns, ServerLoses(c)
  PROVE  NodeInv'
<1> USE DEF NodeInv, serverVars, mapVars, connVars, requestVars
<1>1. /\ serverOpen' = serverOpen \ {c}
      /\ up' = [up EXCEPT ![c] = <<>>]
      /\ UNCHANGED <<server, insertions, pendingStates, clientOpen, socketOf, clientSocket>>
  BY DEF ServerLoses
<1>2. Registered' = Registered \ {c}
  <2>1. CASE c \in Registered
    BY <2>1 DEF ServerLoses, Registered, TypeOK
  <2>2. CASE c \notin Registered
    BY <2>2 DEF ServerLoses, Registered
  <2> QED BY <2>1, <2>2
<1>3. \A d \in Conns : \/ clusterSockets'[d] = clusterSockets[d]
                       \/ clusterSockets'[d] = 0
  <2>1. CASE c \in Registered
    BY <2>1 DEF ServerLoses, TypeOK
  <2>2. CASE c \notin Registered
    BY <2>2 DEF ServerLoses
  <2> QED BY <2>1, <2>2
<1>4. \A n \in Nodes : \/ nodes'[n] = nodes[n] /\ (n = c[1] => c \notin Registered)
                       \/ nodes'[n] = "offline" /\ n = c[1]
  <2>1. CASE c \in Registered
    BY <2>1 DEF ServerLoses, TypeOK
  <2>2. CASE c \notin Registered
    BY <2>2 DEF ServerLoses
  <2> QED BY <2>1, <2>2
<1>5. RegisteredIsKnown'
  BY <1>1, <1>2, <1>4, ConnNode DEF RegisteredIsKnown, Registered
<1>6. Ranks'
  <2>1. \A d \in Conns : clusterSockets'[d] <= insertions'
    <3>1. \A d \in Conns : clusterSockets[d] <= insertions
      BY DEF Ranks
    <3>2. insertions' = insertions /\ insertions \in Nat
      BY <1>1 DEF TypeOK
    <3> QED BY <1>3, <3>1, <3>2
  <2>2. \A d \in Registered' : clusterSockets'[d] = clusterSockets[d] /\ d \in Registered
    BY <1>2, <1>3 DEF Registered
  <2> QED BY <2>1, <2>2 DEF Ranks
<1>7. OnlineIsRegistered'
  BY <1>2, <1>4 DEF OnlineIsRegistered
<1>8. \A d \in Conns : up'[d] = IF d = c THEN <<>> ELSE up[d]
  BY <1>1 DEF TypeOK
<1>9. NothingComesEarly'
  BY <1>1, <1>2, <1>8 DEF NothingComesEarly
<1>10. CurrentRegisters'
  <2>1. \A n \in Nodes : \A d \in Current(n)' : d # c /\ d \in Current(n)
    BY <1>1 DEF Current
  <2> QED BY <1>2, <1>8, <2>1, CurrentOpen DEF CurrentRegisters
<1>11. RegisteredAreTold'
  BY DEF ServerLoses, RegisteredAreTold
<1> QED BY <1>5, <1>6, <1>7, <1>9, <1>10, <1>11

(* The records are empty when the server is.                               *)
LEMMA NoRecords ==
  ASSUME nodes' = NoNodes, clusterSockets' = [c \in Conns |-> 0],
         pendingStates' = {}, up' = [c \in Conns |-> <<>>], serverOpen' = {},
         insertions' = 0, server' = "down"
  PROVE  NodeInv'
<1>1. Registered' = {} /\ \A n \in Nodes : Current(n)' = {}
  BY DEF Registered, Current
<1>2. Ranks'
  BY <1>1 DEF Ranks
<1> QED BY <1>1, <1>2 DEF NodeInv, RegisteredIsKnown, OnlineIsRegistered, NothingComesEarly,
             CurrentRegisters, RegisteredAreTold, NoNodes

LEMMA RecordStep ==
  ASSUME TypeOK, ConnInv, NodeInv, [Next]_vars
  PROVE  NodeInv'
<1> USE DEF serverVars, mapVars, connVars, requestVars
<1>1. CASE Start
  <2>1. RegisteredAreTold'
    BY <1>1 DEF Start, RegisteredAreTold
  <2> QED BY <1>1, <2>1, RecordsUntouched DEF Start, recordVars
<1>2. CASE Stop
  BY <1>2, RecordsUntouched DEF Stop, recordVars, RegisteredAreTold
<1>3. CASE StopDone
  <2>1. up' = [c \in Conns |-> <<>>]
    BY <1>3 DEF StopDone, ConnInv, CarriedByOpen, TypeOK
  <2> QED BY <1>3, <2>1, NoRecords DEF StopDone, ConnInv
<1>4. CASE PrimaryCrash
  BY <1>4, NoRecords DEF PrimaryCrash
<1>5. CASE Broadcast
  <2>1. RegisteredAreTold'
    BY <1>5 DEF Broadcast, RegisteredAreTold
  <2> QED BY <1>5, <2>1, RecordsUntouched DEF Broadcast, recordVars
<1>6. ASSUME NEW n \in Nodes, NewSocket(n) PROVE NodeInv'
  <2>1. Registered' = Registered
    BY <1>6 DEF NewSocket, Registered
  <2>2. \A m \in Nodes : Current(m)' \subseteq Current(m)
    <3>1. \A c \in Conns : c[1] = n => socketOf[c] # clientSocket'[n]
      BY <1>6 DEF NewSocket, ConnInv, SocketsUsed, TypeOK
    <3>2. \A m \in Nodes : m # n => clientSocket'[m] = clientSocket[m]
      BY <1>6 DEF NewSocket, TypeOK
    <3> QED BY <1>6, <3>1, <3>2 DEF NewSocket, Current, TypeOK
  <2> QED BY <1>6, <2>1, <2>2 DEF NewSocket, NodeInv, RegisteredIsKnown, Ranks,
             OnlineIsRegistered, NothingComesEarly, CurrentRegisters, RegisteredAreTold
<1>7. ASSUME NEW n \in Nodes, SendState(n) PROVE NodeInv'
  BY <1>7, WriteState DEF SendState
<1>8. ASSUME NEW n \in Nodes, NEW s \in 1..MaxSockets[n], Connect(n, s) PROVE NodeInv'
  BY <1>8, ConnectRecords
<1>9. ASSUME NEW c \in Conns, ClientLoses(c) PROVE NodeInv'
  <2>1. Registered' = Registered /\ \A m \in Nodes : Current(m)' \subseteq Current(m)
    BY <1>9 DEF ClientLoses, Registered, Current
  <2> QED BY <1>9, <2>1 DEF ClientLoses, NodeInv, RegisteredIsKnown, Ranks,
             OnlineIsRegistered, NothingComesEarly, CurrentRegisters, RegisteredAreTold
<1>10. ASSUME NEW c \in Conns, ServerLoses(c) PROVE NodeInv'
  BY <1>10, ServerLosesRecords
<1>11. ASSUME NEW c \in Conns, Register(c) PROVE NodeInv'
  BY <1>11, RegisterRecords
<1>12. ASSUME NEW c \in Conns, Update(c) PROVE NodeInv'
  BY <1>12, UpdateRecords
<1>13. ASSUME NEW c \in Conns, NEW k \in Requests, Route(c, k) PROVE NodeInv'
  <2>1. RegisteredAreTold'
    BY <1>13 DEF Route, NodeInv, RegisteredAreTold
  <2> QED BY <1>13, <2>1, RecordsUntouched DEF Route, recordVars
<1>14. ASSUME NEW k \in Requests, AskPrimary(k) \/ AskNode(k) PROVE NodeInv'
  <2>1. RegisteredAreTold'
    BY <1>14 DEF AskPrimary, AskNode, NodeInv, RegisteredAreTold
  <2> QED BY <1>14, <2>1, RecordsUntouched DEF AskPrimary, AskNode, recordVars
<1>16. ASSUME NEW c \in Conns, NEW k \in Requests, Execute(c, k) PROVE NodeInv'
  <2>1. CASE up' = up
    <3>1. RegisteredAreTold'
      BY <1>16 DEF Execute, NodeInv, RegisteredAreTold
    <3> QED BY <1>16, <2>1, <3>1, RecordsUntouched DEF Execute, recordVars
  <2>2. CASE up' = StateUpdate(c[1])
    BY <1>16, <2>2, WriteState, ConnNode DEF Execute
  <2> QED BY <1>16, <2>1, <2>2 DEF Execute
<1>17. CASE UNCHANGED vars
  <2>1. RegisteredAreTold'
    BY <1>17 DEF vars, NodeInv, RegisteredAreTold
  <2> QED BY <1>17, <2>1, RecordsUntouched DEF vars, recordVars
<1> QED BY <1>1, <1>2, <1>3, <1>4, <1>5, <1>6, <1>7, <1>8, <1>9, <1>10, <1>11, <1>12,
           <1>13, <1>14, <1>16, <1>17 DEF Next

LEMMA InitRecords == Init => ConnInv /\ NodeInv
<1> SUFFICES ASSUME Init PROVE ConnInv /\ NodeInv
  OBVIOUS
<1>1. Registered = {} /\ \A n \in Nodes : Current(n) = {}
  BY DEF Init, Registered, Current
<1>2. SocketsUsed
  BY ConnNode DEF Init, SocketsUsed
<1>3. CarriedByOpen
  BY DEF Init, CarriedByOpen, Nothing
<1>4. Ranks
  BY <1>1 DEF Init, Ranks
<1> QED BY <1>1, <1>2, <1>3, <1>4 DEF Init, ConnInv, OpenPerSocket, NodeInv, RegisteredIsKnown,
          OnlineIsRegistered, NothingComesEarly, CurrentRegisters, RegisteredAreTold, NoNodes

(* What the primary shows of the nodes, and that nothing of it stays       *)
(* untold, whatever connections break and come back, and across stops and  *)
(* crashes.                                                                *)
LEMMA RecordsCorrect ==
  Spec => [](OnlineIsRegistered /\ RegisteredIsKnown /\ NothingComesEarly /\ RegisteredAreTold)
<1> DEFINE I == TypeOK /\ ConnInv /\ NodeInv
<1>1. Init => I
  BY InitType, InitRecords
<1>2. I /\ [Next]_vars => I'
  BY NextType, ConnStep, RecordStep
<1>3. I => OnlineIsRegistered /\ RegisteredIsKnown /\ NothingComesEarly /\ RegisteredAreTold
  BY DEF NodeInv
<1> QED BY <1>1, <1>2, <1>3, PTL DEF Spec

(* A node that the users see as online can be reached (the handlers of     *)
(* "node:register" and "disconnect").                                      *)
THEOREM OnlineNodesRegistered == Spec => []OnlineIsRegistered
BY RecordsCorrect, PTL

(* Every entry of clusterSockets is an open connection of a known node.    *)
THEOREM RegisteredNodesKnown == Spec => []RegisteredIsKnown
BY RecordsCorrect, PTL

(* Nothing that a node sends comes before its registration: pendingStates  *)
(* is never used.                                                          *)
THEOREM RegistrationsComeFirst == Spec => []NothingComesEarly
BY RecordsCorrect, PTL

(* No change of a node stays untold, whatever a stop has cancelled.        *)
THEOREM ChangesAreTold == Spec => []RegisteredAreTold
BY RecordsCorrect, PTL

----------------------------------------------------------------------------
(* Requests: where one can be, how often it is there, and how often it is  *)
(* done at most.                                                           *)
BudgetOf(k) ==
  \A c, d \in Conns :
    /\ k \in requests[c] /\ k \in requests[d] => c = d
    /\ commands[c][k] > 0 /\ commands[d][k] > 0 => c = d
    /\ k \in requests[c] => commands[d][k] = 0 /\ executed[k] = 0 /\ Origin[k] # Primary
    /\ executed[k] + commands[c][k] <= Copies[k]
    /\ commands[c][k] > 0 => c[1] = Target[k]
    /\ k \notin asked => k \notin requests[c] /\ commands[c][k] = 0 /\ executed[k] = 0

(* What is done is asked for, and is within its budget.                    *)
ExecutedBound ==
  \A k \in Requests : /\ executed[k] <= Copies[k]
                      /\ k \notin asked => executed[k] = 0

BudgetInv == ExecutedBound /\ \A k \in Requests : BudgetOf(k)

LEMMA CopiesType == \A k \in Requests : Copies[k] \in Nat
BY BoundsAssumption DEF Copies

(* A command goes to one connection at most.                               *)
LEMMA CommandOnce ==
  ASSUME TypeOK, Ranks, NEW k \in Requests, NEW copies \in Nat,
         \A c \in Conns : commands[c][k] = 0
  PROVE  /\ \A c, d \in Conns : Command(k, copies)[c][k] > 0 /\ Command(k, copies)[d][k] > 0 => c = d
         /\ \A c \in Conns : /\ Command(k, copies)[c][k] \in 0..copies
                             /\ Command(k, copies)[c][k] > 0 => c[1] = Target[k]
         /\ \A c \in Conns, q \in Requests :
              q # k => Command(k, copies)[c][q] = commands[c][q]
<1>1. \A c, d \in Conns : FirstSocket(Target[k], c) /\ FirstSocket(Target[k], d) => c = d
  BY DEF FirstSocket, Ranks, TypeOK
<1>2. \A c \in Conns : commands[c] \in [Requests -> Nat]
  BY DEF TypeOK
<1>3. \A c \in Conns : Command(k, copies)[c] =
        IF FirstSocket(Target[k], c) /\ c \in clientOpen
          THEN [commands[c] EXCEPT ![k] = commands[c][k] + copies] ELSE commands[c]
  BY <1>2 DEF Command
<1>4. \A c \in Conns : Command(k, copies)[c][k] =
        IF FirstSocket(Target[k], c) /\ c \in clientOpen THEN copies ELSE 0
  <2> SUFFICES ASSUME NEW c \in Conns
               PROVE  Command(k, copies)[c][k] =
                        IF FirstSocket(Target[k], c) /\ c \in clientOpen THEN copies ELSE 0
    OBVIOUS
  <2>1. commands[c][k] = 0 /\ commands[c] \in [Requests -> Nat] /\ 0 + copies = copies
    BY <1>2
  <2>2. [commands[c] EXCEPT ![k] = commands[c][k] + copies][k] = copies
    BY <2>1
  <2> QED BY <1>3, <2>1, <2>2
<1>5. \A c \in Conns, q \in Requests : q # k => Command(k, copies)[c][q] = commands[c][q]
  BY <1>2, <1>3
<1>6. \A c \in Conns : FirstSocket(Target[k], c) => c[1] = Target[k]
  BY DEF FirstSocket
<1> QED BY <1>1, <1>4, <1>5, <1>6

LEMMA CommandAtMostOnce ==
  ASSUME TypeOK, Ranks, NEW k \in Requests, NEW copies \in 0..1,
         \A c \in Conns : commands[c][k] = 0
  PROVE  /\ \A c, d \in Conns : Command(k, copies)[c][k] > 0 /\ Command(k, copies)[d][k] > 0 => c = d
         /\ \A c \in Conns : /\ Command(k, copies)[c][k] \in 0..1
                             /\ Command(k, copies)[c][k] > 0 => c[1] = Target[k]
         /\ \A c \in Conns, q \in Requests :
              q # k => Command(k, copies)[c][q] = commands[c][q]
<1>1. copies \in Nat /\ 0..copies \subseteq 0..1
  OBVIOUS
<1> QED BY <1>1, CommandOnce

(* Copies that are lost, and requests that go nowhere, cost nothing.       *)
LEMMA BudgetShrinks ==
  ASSUME TypeOK, TypeOK', NEW k \in Requests, BudgetOf(k), executed'[k] = executed[k],
         k \in asked => k \in asked',
         \A c \in Conns : /\ k \in requests'[c] => k \in requests[c]
                          /\ commands'[c][k] \in {0, commands[c][k]}
  PROVE  BudgetOf(k)'
<1>1. \A c \in Conns : commands[c][k] \in Nat
  BY DEF TypeOK
<1>2. executed[k] \in Nat /\ Copies[k] \in Nat
  BY CopiesType DEF TypeOK
<1> QED BY <1>1, <1>2 DEF BudgetOf, Copies

LEMMA RouteBudget ==
  ASSUME TypeOK, TypeOK', NodeInv, BudgetInv, NEW c \in Conns, NEW k \in Requests, Route(c, k)
  PROVE  BudgetInv'
<1>1. /\ k \in requests[c] /\ asked' = asked
      /\ requests' = [requests EXCEPT ![c] = requests[c] \ {k}]
  BY DEF Route
<1>2. /\ \A d \in Conns, q \in Requests : q \in requests'[d] <=> q \in requests[d] /\ (q # k \/ d # c)
      /\ \A d \in Conns : commands[d][k] = 0 /\ k \notin requests'[d]
      /\ executed[k] = 0 /\ Copies[k] = 1 /\ k \in asked
  BY <1>1 DEF TypeOK, BudgetInv, BudgetOf, Copies
<1>3. \A q \in Requests : q # k => executed'[q] = executed[q]
  BY DEF Route, TypeOK
<1>4. /\ \A d \in Conns, q \in Requests : q # k => commands'[d][q] = commands[d][q]
      /\ \A d, e \in Conns : commands'[d][k] > 0 /\ commands'[e][k] > 0 => d = e
      /\ \A d \in Conns : /\ commands'[d][k] \in 0..1
                          /\ commands'[d][k] > 0 => d[1] = Target[k]
      /\ executed'[k] = 0 \/ (executed'[k] = 1 /\ \A d \in Conns : commands'[d][k] = 0)
  <2>1. CASE c \in Registered
    <3>1. commands' = Command(k, 1)
      BY <2>1 DEF Route
    <3>2. Target[k] = Primary => \A d \in Conns : ~FirstSocket(Target[k], d)
      BY RequestsAssumption, ConnNode DEF FirstSocket
    <3>3. Target[k] = Primary => \A d \in Conns : Command(k, 1)[d] = commands[d]
      BY <3>2 DEF Command
    <3>4. executed'[k] = IF Target[k] = Primary THEN 1 ELSE 0
      BY <1>2, <2>1 DEF Route, TypeOK
    <3> QED BY <1>2, <3>1, <3>3, <3>4, CommandAtMostOnce DEF NodeInv
  <2>2. CASE c \notin Registered
    <3>1. commands' = commands /\ executed' = executed
      BY <2>2 DEF Route
    <3> QED BY <1>2, <3>1
  <2> QED BY <2>1, <2>2
<1>5. ASSUME NEW q \in Requests, q # k PROVE BudgetOf(q)'
  BY <1>1, <1>2, <1>3, <1>4, <1>5, BudgetShrinks DEF BudgetInv
<1>6. BudgetOf(k)'
  BY <1>1, <1>2, <1>4 DEF BudgetOf, Copies
<1>7. ExecutedBound'
  BY <1>1, <1>2, <1>3, <1>4 DEF BudgetInv, ExecutedBound, Copies
<1> QED BY <1>5, <1>6, <1>7 DEF BudgetInv

LEMMA AskBudget ==
  ASSUME TypeOK, TypeOK', ConnInv, NodeInv, BudgetInv, NEW k \in Requests,
         AskPrimary(k) \/ AskNode(k)
  PROVE  BudgetInv'
<1>1. k \notin asked /\ asked' = asked \cup {k} /\ executed' = executed
  BY DEF AskPrimary, AskNode
<1>2. \A d \in Conns : k \notin requests[d] /\ commands[d][k] = 0
  BY <1>1 DEF BudgetInv, BudgetOf
<1>3. executed[k] = 0
  BY <1>1 DEF BudgetInv, ExecutedBound
<1>4. CASE AskPrimary(k)
  <2>1. PICK n \in Nat : /\ n = (IF k \in Listened THEN listeners ELSE 1)
                         /\ n <= Copies[k]
    BY <1>4, BoundsAssumption DEF AskPrimary, TypeOK, Copies
  <2>2. commands' = Command(k, n) /\ requests' = requests
    BY <1>4, <2>1 DEF AskPrimary
  <2>3. /\ \A d, e \in Conns : commands'[d][k] > 0 /\ commands'[e][k] > 0 => d = e
        /\ \A d \in Conns : commands'[d][k] \in 0..n /\ (commands'[d][k] > 0 => d[1] = Target[k])
        /\ \A d \in Conns, q \in Requests : q # k => commands'[d][q] = commands[d][q]
    BY <1>2, <2>2, CommandOnce DEF NodeInv
  <2>4. ASSUME NEW q \in Requests, q # k PROVE BudgetOf(q)'
    BY <1>1, <2>2, <2>3, <2>4, BudgetShrinks DEF BudgetInv
  <2>5. Copies[k] \in Nat
    BY CopiesType
  <2>6. BudgetOf(k)'
    BY <1>1, <1>2, <1>3, <2>1, <2>2, <2>3, <2>5 DEF BudgetOf, Copies
  <2> QED BY <1>1, <2>4, <2>6 DEF BudgetInv, ExecutedBound, Copies
<1>5. CASE AskNode(k)
  <2>1. /\ commands' = commands /\ Origin[k] # Primary
        /\ \A d \in Conns : k \in requests'[d] => d \in Current(Origin[k])
        /\ \A d \in Conns, q \in Requests : q # k /\ q \in requests'[d] => q \in requests[d]
    BY <1>2, <1>5, RequestsAssumption DEF AskNode
  <2>2. \A d, e \in Current(Origin[k]) : d = e
    BY DEF Current, ConnInv, OpenPerSocket, TypeOK
  <2>3. ASSUME NEW q \in Requests, q # k PROVE BudgetOf(q)'
    BY <1>1, <2>1, <2>3, BudgetShrinks DEF BudgetInv
  <2>4. Copies[k] = 1
    BY <2>1 DEF Copies
  <2>5. BudgetOf(k)'
    BY <1>1, <1>2, <1>3, <2>1, <2>2, <2>4 DEF BudgetOf, Copies
  <2> QED BY <1>1, <2>3, <2>5 DEF BudgetInv, ExecutedBound, Copies
<1> QED BY <1>4, <1>5

LEMMA ExecuteBudget ==
  ASSUME TypeOK, TypeOK', BudgetInv, NEW c \in Conns, NEW k \in Requests, Execute(c, k)
  PROVE  BudgetInv'
<1>1. /\ commands[c][k] > 0
      /\ commands' = [commands EXCEPT ![c][k] = commands[c][k] - 1]
      /\ requests' = requests /\ asked' = asked
      /\ executed' \in {executed, [executed EXCEPT ![k] = @ + 1]}
  BY DEF Execute, TypeOK
<1>2. /\ \A d \in Conns : d # c => commands[d][k] = 0
      /\ \A d \in Conns : k \notin requests[d]
      /\ c[1] = Target[k] /\ k \in asked
      /\ executed[k] + commands[c][k] <= Copies[k]
  <2>1. BudgetOf(k)
    BY DEF BudgetInv
  <2>2. \A d \in Conns : commands[d][k] \in Nat
    BY DEF TypeOK
  <2>3. \A d \in Conns : d # c => commands[d][k] = 0
    BY <1>1, <2>1, <2>2 DEF BudgetOf
  <2>4. \A d \in Conns : k \notin requests[d]
    BY <1>1, <2>1 DEF BudgetOf
  <2>5. c[1] = Target[k] /\ k \in asked
    BY <1>1, <2>1 DEF BudgetOf
  <2>6. executed[k] + commands[c][k] <= Copies[k]
    BY <2>1 DEF BudgetOf
  <2> QED BY <2>3, <2>4, <2>5, <2>6
<1>3. \A d \in Conns, q \in Requests :
        commands'[d][q] = IF d = c /\ q = k THEN commands[c][k] - 1 ELSE commands[d][q]
  BY <1>1 DEF TypeOK
<1>4. /\ executed'[k] \in {executed[k], executed[k] + 1}
      /\ \A q \in Requests : q # k => executed'[q] = executed[q]
  BY <1>1 DEF TypeOK
<1>5. ASSUME NEW q \in Requests, q # k PROVE BudgetOf(q)'
  BY <1>1, <1>3, <1>4, <1>5, BudgetShrinks DEF BudgetInv
<1>6. executed[k] \in Nat /\ commands[c][k] \in Nat /\ Copies[k] \in Nat
  BY CopiesType DEF TypeOK
<1>7. BudgetOf(k)'
  BY <1>1, <1>2, <1>3, <1>4, <1>6 DEF BudgetOf, Copies
<1>8. ExecutedBound'
  BY <1>1, <1>2, <1>4, <1>6 DEF BudgetInv, ExecutedBound, Copies
<1> QED BY <1>5, <1>7, <1>8 DEF BudgetInv

LEMMA NextBudget ==
  ASSUME TypeOK, TypeOK', ConnInv, NodeInv, BudgetInv, [Next]_vars
  PROVE  BudgetInv'
<1>1. ASSUME UNCHANGED <<asked, executed>>,
             \A c \in Conns : requests'[c] \subseteq requests[c],
             \A c \in Conns, k \in Requests : commands'[c][k] \in {0, commands[c][k]}
      PROVE  BudgetInv'
  <2>1. ASSUME NEW k \in Requests PROVE BudgetOf(k)'
    BY <1>1, BudgetShrinks DEF BudgetInv
  <2> QED BY <1>1, <2>1 DEF BudgetInv, ExecutedBound, Copies
<1>2. CASE UNCHANGED requestVars
  BY <1>1, <1>2 DEF requestVars
<1>3. CASE PrimaryCrash
  BY <1>1, <1>3 DEF PrimaryCrash
<1>4. ASSUME NEW c \in Conns, ClientLoses(c) PROVE BudgetInv'
  BY <1>1, <1>4 DEF ClientLoses, TypeOK, Nothing
<1>5. ASSUME NEW c \in Conns, ServerLoses(c) PROVE BudgetInv'
  BY <1>1, <1>5 DEF ServerLoses, TypeOK
<1>6. ASSUME NEW c \in Conns, NEW k \in Requests, Route(c, k) \/ Execute(c, k)
      PROVE  BudgetInv'
  BY <1>6, RouteBudget, ExecuteBudget
<1>7. ASSUME NEW k \in Requests, AskPrimary(k) \/ AskNode(k) PROVE BudgetInv'
  BY <1>7, AskBudget
<1>8. ASSUME Start \/ Stop \/ StopDone \/ Broadcast \/ UNCHANGED vars
      PROVE  UNCHANGED requestVars
  BY <1>8 DEF Start, Stop, StopDone, Broadcast, vars
<1>9. ASSUME NEW n \in Nodes, NewSocket(n) \/ SendState(n) PROVE UNCHANGED requestVars
  BY <1>9 DEF NewSocket, SendState
<1>10. ASSUME NEW n \in Nodes, NEW s \in 1..MaxSockets[n], Connect(n, s)
       PROVE  UNCHANGED requestVars
  BY <1>10 DEF Connect
<1>11. ASSUME NEW c \in Conns, Register(c) \/ Update(c) PROVE UNCHANGED requestVars
  BY <1>11 DEF Register, Update
<1> QED BY <1>2, <1>3, <1>4, <1>5, <1>6, <1>7, <1>8, <1>9, <1>10, <1>11 DEF Next

(* The budgets hold in every state.                                        *)
LEMMA BudgetKept == Spec => [](TypeOK /\ NodeInv /\ BudgetInv)
<1> DEFINE I == TypeOK /\ ConnInv /\ NodeInv /\ BudgetInv
<1>1. Init => BudgetInv
  <2> SUFFICES ASSUME Init PROVE BudgetInv
    OBVIOUS
  <2>1. \A c \in Conns, k \in Requests : k \notin requests[c] /\ commands[c][k] = 0
    BY DEF Init, Nothing
  <2>2. \A k \in Requests : executed[k] = 0
    BY DEF Init, Nothing
  <2> QED BY <2>1, <2>2, CopiesType DEF BudgetInv, BudgetOf, ExecutedBound
<1>2. Init => I
  BY <1>1, InitType, InitRecords
<1>3. I /\ [Next]_vars => I'
  BY NextType, ConnStep, RecordStep, NextBudget
<1> QED BY <1>2, <1>3, PTL DEF Spec

(* However often the server is started: nothing is done that nobody asked  *)
(* for, a request of a node and one that goes no way over listeners is     *)
(* done at most once, and any other at most once per start of the server,  *)
(* whichever connections of its target stand beside each other.            *)
THEOREM RequestsAreBounded == Spec => []ExecutedBound
<1>1. BudgetInv => ExecutedBound
  BY DEF BudgetInv
<1> QED BY <1>1, BudgetKept, PTL

(* What a step does to the open requests, in the terms of the contract.    *)
LEMMA LoseStep ==
  ASSUME UNCHANGED <<asked, executed>>, \A k \in Requests : UnderWay(k)' => UnderWay(k)
  PROVE  Contract!Next
<1>1. open' \in SUBSET open
  BY DEF open
<1> QED BY <1>1 DEF Contract!Lose, Contract!Next

LEMMA OneMoves ==
  ASSUME NEW k \in Requests,
         \A q \in Requests : q # k => (UnderWay(q)' <=> UnderWay(q))
  PROVE  /\ UnderWay(k) => open' \in {open, open \ {k}}
         /\ ~UnderWay(k) => open' \in {open, open \cup {k}}
BY DEF open

(* A step that does a request that is under way, within its budget.        *)
LEMMA DoStep ==
  ASSUME NEW k \in Requests, UnderWay(k), executed[k] < Copies[k],
         executed' = [executed EXCEPT ![k] = @ + 1], asked' = asked,
         \A q \in Requests : q # k => (UnderWay(q)' <=> UnderWay(q))
  PROVE  Contract!Next
<1>1. k \in open
  BY DEF open
<1>2. open' \in {open, open \ {k}}
  BY OneMoves
<1>3. Contract!Do(k)
  BY <1>1, <1>2 DEF Contract!Do
<1> QED BY <1>3 DEF Contract!Next

LEMMA RouteContract ==
  ASSUME TypeOK, NodeInv, BudgetInv, NEW c \in Conns, NEW k \in Requests, Route(c, k)
  PROVE  Contract!Next
<1>1. /\ k \in requests[c] /\ asked' = asked
      /\ requests' = [requests EXCEPT ![c] = requests[c] \ {k}]
  BY DEF Route
<1>2. /\ \A d \in Conns : commands[d][k] = 0
      /\ executed[k] = 0 /\ Copies[k] = 1 /\ UnderWay(k)
  BY <1>1 DEF TypeOK, BudgetInv, BudgetOf, Copies, UnderWay
<1>3. \A d \in Conns, q \in Requests : q # k => commands'[d][q] = commands[d][q]
  <2>1. CASE c \in Registered
    BY <1>2, <2>1, CommandAtMostOnce DEF Route, NodeInv
  <2>2. CASE c \notin Registered
    BY <2>2 DEF Route
  <2> QED BY <2>1, <2>2
<1>4. \A q \in Requests : q # k => (UnderWay(q)' <=> UnderWay(q))
  BY <1>1, <1>3 DEF UnderWay, TypeOK
<1>5. CASE c \in Registered /\ Target[k] = Primary
  <2>1. executed' = [executed EXCEPT ![k] = @ + 1]
    BY <1>5 DEF Route
  <2>2. executed[k] < Copies[k]
    BY <1>2
  <2> QED BY <1>1, <1>2, <1>4, <2>1, <2>2, DoStep
<1>6. CASE ~(c \in Registered /\ Target[k] = Primary)
  <2>1. executed' = executed
    BY <1>6 DEF Route
  <2> QED BY <1>1, <1>2, <1>4, <2>1, LoseStep
<1> QED BY <1>5, <1>6

LEMMA AskContract ==
  ASSUME TypeOK, NodeInv, BudgetInv, NEW k \in Requests, AskPrimary(k) \/ AskNode(k)
  PROVE  Contract!Next
<1>1. k \notin asked /\ asked' = asked \cup {k} /\ executed' = executed
  BY DEF AskPrimary, AskNode
<1>2. \A d \in Conns : k \notin requests[d] /\ commands[d][k] = 0
  BY <1>1 DEF BudgetInv, BudgetOf
<1>3. ~UnderWay(k)
  BY <1>2 DEF UnderWay
<1>4. \A d \in Conns, q \in Requests :
        q # k => /\ commands'[d][q] = commands[d][q]
                 /\ q \in requests'[d] <=> q \in requests[d]
  <2>1. CASE AskPrimary(k)
    <3>1. (IF k \in Listened THEN listeners ELSE 1) \in Nat
      BY BoundsAssumption DEF TypeOK
    <3>2. requests' = requests
      BY <2>1 DEF AskPrimary
    <3> QED BY <1>2, <2>1, <3>1, <3>2, CommandOnce DEF AskPrimary, NodeInv
  <2>2. CASE AskNode(k)
    BY <2>2 DEF AskNode
  <2> QED BY <2>1, <2>2
<1>5. \A q \in Requests : q # k => (UnderWay(q)' <=> UnderWay(q))
  BY <1>4 DEF UnderWay
<1>6. open' \in {open, open \cup {k}}
  BY <1>3, <1>5, OneMoves
<1>7. Contract!Ask(k)
  BY <1>1, <1>6 DEF Contract!Ask
<1> QED BY <1>7 DEF Contract!Next

LEMMA ExecuteContract ==
  ASSUME TypeOK, BudgetInv, NEW c \in Conns, NEW k \in Requests, Execute(c, k)
  PROVE  Contract!Next
<1>1. /\ commands[c][k] > 0
      /\ commands' = [commands EXCEPT ![c][k] = commands[c][k] - 1]
      /\ requests' = requests /\ asked' = asked
  BY DEF Execute, TypeOK
<1>2. UnderWay(k) /\ executed[k] + commands[c][k] <= Copies[k]
  BY <1>1 DEF UnderWay, BudgetInv, BudgetOf
<1>3. \A d \in Conns, q \in Requests : q # k => commands'[d][q] = commands[d][q]
  BY <1>1 DEF TypeOK
<1>4. \A q \in Requests : q # k => (UnderWay(q)' <=> UnderWay(q))
  BY <1>1, <1>3 DEF UnderWay
<1>5. CASE executed' = [executed EXCEPT ![k] = @ + 1]
  <2>1. executed[k] \in Nat /\ commands[c][k] \in Nat /\ Copies[k] \in Nat
    BY CopiesType DEF TypeOK
  <2>2. executed[k] < Copies[k]
    BY <1>1, <1>2, <2>1
  <2> QED BY <1>1, <1>2, <1>4, <1>5, <2>2, DoStep
<1>6. CASE executed' = executed
  BY <1>1, <1>2, <1>4, <1>6, LoseStep
<1> QED BY <1>5, <1>6 DEF Execute

(* Every step is one of the contract's.                                    *)
LEMMA ContractStep ==
  ASSUME TypeOK, NodeInv, BudgetInv, [Next]_vars
  PROVE  [Contract!Next]_(Contract!vars)
<1>1. ASSUME UNCHANGED <<asked, executed>>,
             \A c \in Conns : requests'[c] \subseteq requests[c],
             \A c \in Conns, k \in Requests : commands'[c][k] \in {0, commands[c][k]}
      PROVE  Contract!Next
  <2>1. \A k \in Requests : UnderWay(k)' => UnderWay(k)
    BY <1>1 DEF UnderWay
  <2> QED BY <1>1, <2>1, LoseStep
<1>2. CASE UNCHANGED requestVars
  BY <1>1, <1>2 DEF requestVars
<1>3. CASE PrimaryCrash
  BY <1>1, <1>3 DEF PrimaryCrash
<1>4. ASSUME NEW c \in Conns, ClientLoses(c) PROVE Contract!Next
  BY <1>1, <1>4 DEF ClientLoses, TypeOK, Nothing
<1>5. ASSUME NEW c \in Conns, ServerLoses(c) PROVE Contract!Next
  BY <1>1, <1>5 DEF ServerLoses, TypeOK
<1>6. ASSUME NEW c \in Conns, NEW k \in Requests, Route(c, k) \/ Execute(c, k)
      PROVE  Contract!Next
  BY <1>6, RouteContract, ExecuteContract
<1>7. ASSUME NEW k \in Requests, AskPrimary(k) \/ AskNode(k) PROVE Contract!Next
  BY <1>7, AskContract
<1>8. ASSUME Start \/ Stop \/ StopDone \/ Broadcast \/ UNCHANGED vars
      PROVE  UNCHANGED requestVars
  BY <1>8 DEF Start, Stop, StopDone, Broadcast, vars
<1>9. ASSUME NEW n \in Nodes, NewSocket(n) \/ SendState(n) PROVE UNCHANGED requestVars
  BY <1>9 DEF NewSocket, SendState
<1>10. ASSUME NEW n \in Nodes, NEW s \in 1..MaxSockets[n], Connect(n, s)
       PROVE  UNCHANGED requestVars
  BY <1>10 DEF Connect
<1>11. ASSUME NEW c \in Conns, Register(c) \/ Update(c) PROVE UNCHANGED requestVars
  BY <1>11 DEF Register, Update
<1> QED BY <1>2, <1>3, <1>4, <1>5, <1>6, <1>7, <1>8, <1>9, <1>10, <1>11 DEF Next

LEMMA ContractInit == Init => Contract!Init
<1> SUFFICES ASSUME Init PROVE Contract!Init
  OBVIOUS
<1>1. \A k \in Requests : ~UnderWay(k)
  BY DEF Init, Nothing, UnderWay
<1>2. open = {}
  BY <1>1 DEF open
<1> QED BY <1>2 DEF Init, Nothing, Contract!Init

(* What is asked of another node is done once, or once for every start of  *)
(* the server where it goes over the primary's listeners, or is lost,      *)
(* whatever the connections do: ClusterPrimary implements RemoteRequest.   *)
THEOREM RequestsKept == Spec => KeepsRequests
<1>1. TypeOK /\ NodeInv /\ BudgetInv /\ [Next]_vars => [Contract!Next]_(Contract!vars)
  BY ContractStep
<1>2. Spec => Contract!Init /\ [][Contract!Next]_(Contract!vars)
  BY <1>1, ContractInit, BudgetKept, PTL DEF Spec
<1> QED BY <1>2 DEF KeepsRequests, Contract!Spec

(* The steps that do something of a request: the primary does what is for  *)
(* itself, and a node does what comes over one of its own connections.     *)
LEMMA ExecutedSteps ==
  ASSUME TypeOK, BudgetInv, [Next]_vars, NEW k \in Requests
  PROVE  \/ executed'[k] = executed[k]
         \/ Target[k] = Primary /\ \E c \in Registered : Route(c, k)
         \/ \E c \in Conns : c[1] = Target[k] /\ Execute(c, k)
<1>1. CASE UNCHANGED executed
  BY <1>1
<1>2. ASSUME NEW c \in Conns, NEW q \in Requests, Route(c, q)
      PROVE  \/ executed'[k] = executed[k]
             \/ Target[k] = Primary /\ c \in Registered /\ Route(c, k)
  <2>1. CASE c \in Registered /\ Target[q] = Primary
    <3>1. executed' = [executed EXCEPT ![q] = @ + 1]
      BY <1>2, <2>1 DEF Route
    <3> QED BY <1>2, <2>1, <3>1 DEF TypeOK
  <2>2. CASE ~(c \in Registered /\ Target[q] = Primary)
    BY <1>2, <2>2 DEF Route
  <2> QED BY <2>1, <2>2
<1>3. ASSUME NEW c \in Conns, NEW q \in Requests, Execute(c, q)
      PROVE  \/ executed'[k] = executed[k]
             \/ c[1] = Target[k] /\ Execute(c, k)
  <2>1. commands[c][q] > 0 /\ executed' \in {executed, [executed EXCEPT ![q] = @ + 1]}
    BY <1>3 DEF Execute
  <2>2. CASE q = k
    BY <1>3, <2>1, <2>2 DEF BudgetInv, BudgetOf
  <2>3. CASE q # k
    BY <2>1, <2>3 DEF TypeOK
  <2> QED BY <2>2, <2>3
<1>4. ASSUME NEW q \in Requests, AskPrimary(q) \/ AskNode(q) PROVE UNCHANGED executed
  BY <1>4 DEF AskPrimary, AskNode
<1>5. ASSUME NEW c \in Conns, ClientLoses(c) \/ ServerLoses(c) \/ Register(c) \/ Update(c)
      PROVE  UNCHANGED executed
  BY <1>5 DEF ClientLoses, ServerLoses, Register, Update, requestVars
<1>6. ASSUME \/ Start \/ Stop \/ StopDone \/ PrimaryCrash \/ Broadcast \/ UNCHANGED vars
      PROVE  UNCHANGED executed
  BY <1>6 DEF Start, Stop, StopDone, PrimaryCrash, Broadcast, vars, requestVars
<1>7. ASSUME NEW n \in Nodes, NewSocket(n) \/ SendState(n) PROVE UNCHANGED executed
  BY <1>7 DEF NewSocket, SendState, requestVars
<1>8. ASSUME NEW n \in Nodes, NEW s \in 1..MaxSockets[n], Connect(n, s)
      PROVE  UNCHANGED executed
  BY <1>8 DEF Connect, requestVars
<1> QED BY <1>1, <1>2, <1>3, <1>4, <1>5, <1>6, <1>7, <1>8 DEF Next

(* A request is done by the node it is for, whatever node has asked.       *)
DoneAtTarget ==
  [][\A k \in Requests :
       \/ executed'[k] = executed[k]
       \/ Target[k] = Primary /\ \E c \in Registered : Route(c, k)
       \/ \E c \in Conns : c[1] = Target[k] /\ Execute(c, k)]_vars

(* A command reaches only sockets of the node it is for, whichever socket  *)
(* findSocketByNodeId returns and whatever is reconnected meanwhile.       *)
THEOREM RequestsDoneAtTarget == Spec => DoneAtTarget
<1>1. TypeOK /\ BudgetInv /\ [Next]_vars
        => [\A k \in Requests :
              \/ executed'[k] = executed[k]
              \/ Target[k] = Primary /\ \E c \in Registered : Route(c, k)
              \/ \E c \in Conns : c[1] = Target[k] /\ Execute(c, k)]_vars
  BY ExecutedSteps
<1> QED BY <1>1, BudgetKept, PTL DEF Spec, DoneAtTarget
=============================================================================
