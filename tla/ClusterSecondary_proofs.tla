---------------------- MODULE ClusterSecondary_proofs ----------------------
(***************************************************************************)
(* Proofs about ClusterSecondary, for every number of sockets and events:  *)
(* nothing but a stop() during an attempt, and a start() after it, leaves  *)
(* a node that is started without a socket that is connected or tries to   *)
(* be; and when nothing is left to happen, every other node that is        *)
(* started is registered and has heard of the newest state.                *)
(***************************************************************************)
EXTENDS ClusterSecondary, FiniteSetTheorems, SequenceTheorems, TLAPS

USE SecondaryAssumption

(* Nobody but stop(), which forgets it, closes the newest socket, and the  *)
(* next one has not been used.                                             *)
NewestWorks ==
  /\ clientSocket # 0 => sock[clientSocket] \in {"trying", "open"}
  /\ \A s \in Sockets : s > opened => sock[s] = "none"

BasicInv == TypeOK /\ NewestWorks

LEMMA EmitType ==
  ASSUME TypeOK, NEW v \in Nat
  PROVE  Emit(v) \in [Sockets -> Seq(Nat)]
BY DEF TypeOK, Emit

LEMMA UnlinkType ==
  ASSUME TypeOK, NEW lost, Unlink(lost)
  PROVE  /\ linked' = linked \ lost
         /\ registering' \subseteq linked'
         /\ registered' \subseteq linked'
         /\ down' \in [Sockets -> Seq(Nat)]
         /\ ghosts' \in Nat
<1>1. IsFiniteSet(Sockets)
  BY FS_Interval DEF Sockets
<1>2. registered \cap lost \subseteq Sockets
  BY DEF TypeOK
<1>3. Cardinality(registered \cap lost) \in Nat
  BY <1>1, <1>2, FS_Subset, FS_CardinalityType
<1>4. ghosts' \in Nat
  BY <1>3 DEF Unlink, TypeOK
<1>5. down' \in [Sockets -> Seq(Nat)]
  BY DEF Unlink, TypeOK
<1> QED BY <1>4, <1>5 DEF Unlink, TypeOK

(* An attempt is made when none is under way, and if one is, it goes on.   *)
LEMMA Attempt ==
  ASSUME BasicInv, connectToPrimary
  PROVE  /\ isConnecting' /\ opened' \in 0..MaxSockets /\ clientSocket' \in 0..opened'
         /\ sock' \in [Sockets -> {"none", "trying", "open", "closed"}]
         /\ \A s \in Sockets : sock'[s] = "open" <=> sock[s] = "open"
         /\ NewestWorks'
         /\ Stale \/ (clientSocket' # 0 /\ sock'[clientSocket'] = "trying")
         /\ Stale' => Stale
         /\ clientSocket' = clientSocket \/ clientSocket' \notin linked
<1>1. CASE isConnecting
  BY <1>1 DEF BasicInv, Stale, connectToPrimary, TypeOK, Sockets, NewestWorks
<1>2. CASE ~isConnecting
  <2>1. /\ opened < MaxSockets
        /\ isConnecting' = TRUE
        /\ opened' = opened + 1
        /\ clientSocket' = opened + 1
        /\ sock' = [sock EXCEPT ![opened + 1] = "trying"]
    BY <1>2 DEF connectToPrimary
  <2>2. opened + 1 \in Sockets /\ sock[opened + 1] = "none"
    BY <2>1 DEF BasicInv, TypeOK, Sockets, NewestWorks
  <2>3. sock' \in [Sockets -> {"none", "trying", "open", "closed"}]
    BY <2>1 DEF BasicInv, TypeOK
  <2>4. /\ sock'[opened + 1] = "trying"
        /\ \A s \in Sockets : s # opened + 1 => sock'[s] = sock[s]
    BY <2>1, <2>2 DEF BasicInv, TypeOK
  <2>5. NewestWorks'
    BY <2>1, <2>4 DEF BasicInv, TypeOK, NewestWorks, Sockets
  <2>6. clientSocket' \notin linked
    BY <2>1, <2>2 DEF BasicInv, TypeOK
  <2>7. clientSocket' # 0 /\ sock'[clientSocket'] = "trying"
    BY <2>1, <2>2, <2>4 DEF BasicInv, TypeOK
  <2> QED BY <2>1, <2>2, <2>3, <2>4, <2>5, <2>6, <2>7 DEF BasicInv, TypeOK, Stale
<1> QED BY <1>1, <1>2

LEMMA InitInv == Init => BasicInv
<1> SUFFICES ASSUME Init PROVE BasicInv
  OBVIOUS
<1>1. sock \in [Sockets -> {"none", "trying", "open", "closed"}]
  BY DEF Init
<1>2. down \in [Sockets -> Seq(Nat)]
  BY DEF Init
<1>3. events \in 0..MaxEvents /\ opened \in 0..MaxSockets /\ clientSocket \in 0..opened
  BY DEF Init
<1>4. TypeOK
  BY <1>1, <1>2, <1>3 DEF Init, TypeOK
<1> QED BY <1>4 DEF Init, BasicInv, NewestWorks

LEMMA NextBasic ==
  ASSUME BasicInv, [Next]_vars
  PROVE  BasicInv'
<1> USE DEF nodeVars, linkVars, primaryVars
<1>0. TypeOK /\ NewestWorks
  BY DEF BasicInv
<1>1. ASSUME connectToPrimary, wanted' \in BOOLEAN, reconnectTimeout' \in BOOLEAN,
             intentionalDisconnect' \in BOOLEAN,
             UNCHANGED <<lastReceivedVersion, linkVars, primaryVars, events>>
      PROVE  BasicInv'
  <2>1. /\ isConnecting' /\ opened' \in 0..MaxSockets /\ clientSocket' \in 0..opened'
        /\ sock' \in [Sockets -> {"none", "trying", "open", "closed"}]
        /\ \A s \in Sockets : sock'[s] = "open" <=> sock[s] = "open"
        /\ NewestWorks'
    BY <1>1, Attempt
  <2>2. isConnecting' \in BOOLEAN
    BY <1>0, <1>1 DEF connectToPrimary, TypeOK
  <2>3. TypeOK'
    BY <1>0, <1>1, <2>1, <2>2 DEF TypeOK
  <2> QED BY <2>1, <2>3 DEF BasicInv
<1>2. CASE Start
  BY <1>0, <1>1, <1>2 DEF Start, TypeOK
<1>3. CASE ReconnectTimeout
  BY <1>0, <1>1, <1>3 DEF ReconnectTimeout, TypeOK
<1>4. CASE Stop
  <2>1. /\ isConnecting' = isConnecting
        /\ wanted' = FALSE /\ clientSocket' = 0
    BY <1>4 DEF Stop
  <2>2. /\ linked' = linked \ {clientSocket}
        /\ registering' \subseteq linked'
        /\ registered' \subseteq linked'
        /\ down' \in [Sockets -> Seq(Nat)]
        /\ ghosts' \in Nat
    BY <1>0, <1>4, UnlinkType DEF Stop
  <2>3. sock' \in [Sockets -> {"none", "trying", "open", "closed"}]
    BY <1>0, <1>4 DEF Stop, TypeOK
  <2>4. \A s \in Sockets : s # clientSocket => sock'[s] = sock[s]
    BY <1>4 DEF Stop
  <2>5. events' \in 0..MaxEvents
    BY <1>0, <1>4 DEF Stop, Event, TypeOK
  <2>6. TypeOK'
    <3>1. linked' \subseteq {s \in Sockets : sock'[s] = "open"}
      BY <1>0, <2>2, <2>4 DEF TypeOK
    <3>2. clientSocket' \in 0..opened'
      BY <1>0, <1>4, <2>1 DEF Stop, TypeOK
    <3> QED BY <1>0, <1>4, <2>1, <2>2, <2>3, <2>5, <3>1, <3>2 DEF Stop, TypeOK
  <2>7. NewestWorks'
    BY <1>0, <1>4, <2>1, <2>4 DEF Stop, NewestWorks, TypeOK, Sockets
  <2> QED BY <2>6, <2>7 DEF BasicInv
<1>5. ASSUME NEW s \in Sockets, Connected(s) PROVE BasicInv'
  <2>1. sock' \in [Sockets -> {"none", "trying", "open", "closed"}]
    BY <1>0, <1>5 DEF Connected, TypeOK
  <2>2. sock'[s] = "open" /\ \A t \in Sockets : t # s => sock'[t] = sock[t]
    BY <1>0, <1>5 DEF Connected, TypeOK
  <2>3. TypeOK'
    BY <1>0, <1>5, <2>1, <2>2 DEF Connected, TypeOK
  <2>4. NewestWorks'
    BY <1>0, <1>5, <2>2 DEF Connected, NewestWorks, TypeOK, Sockets
  <2> QED BY <2>3, <2>4 DEF BasicInv
<1>6. ASSUME NEW s \in Sockets, ConnectError(s) \/ ConnectTimeout(s) PROVE BasicInv'
  <2>1. events' \in 0..MaxEvents
    BY <1>0, <1>6 DEF ConnectError, ConnectTimeout, Event, TypeOK
  <2>2. TypeOK'
    BY <1>0, <1>6, <2>1 DEF ConnectError, ConnectTimeout, AttemptFails, TypeOK
  <2> QED BY <1>0, <1>6, <2>2
          DEF ConnectError, ConnectTimeout, AttemptFails, BasicInv, NewestWorks
<1>7. ASSUME NEW s \in Sockets, Disconnected(s) PROVE BasicInv'
  <2>1. sock' \in [Sockets -> {"none", "trying", "open", "closed"}]
    BY <1>0, <1>7 DEF Disconnected, TypeOK
  <2>2. sock'[s] = "trying" /\ \A t \in Sockets : t # s => sock'[t] = sock[t]
    BY <1>0, <1>7 DEF Disconnected, TypeOK
  <2>3. reconnectTimeout' \in BOOLEAN
    BY <1>0, <1>7 DEF Disconnected, TypeOK
  <2>4. TypeOK'
    BY <1>0, <1>7, <2>1, <2>2, <2>3 DEF Disconnected, TypeOK
  <2>5. NewestWorks'
    BY <1>0, <1>7, <2>2 DEF Disconnected, NewestWorks, TypeOK, Sockets
  <2> QED BY <2>4, <2>5 DEF BasicInv
<1>8. ASSUME NEW s \in Sockets, Break(s) PROVE BasicInv'
  <2>1. /\ linked' = linked \ {s}
        /\ registering' \subseteq linked'
        /\ registered' \subseteq linked'
        /\ down' \in [Sockets -> Seq(Nat)]
        /\ ghosts' \in Nat
    BY <1>0, <1>8, UnlinkType DEF Break
  <2>2. events' \in 0..MaxEvents
    BY <1>0, <1>8 DEF Break, Event, TypeOK
  <2>3. TypeOK'
    BY <1>0, <1>8, <2>1, <2>2 DEF Break, TypeOK
  <2> QED BY <1>0, <1>8, <2>3 DEF Break, BasicInv, NewestWorks
<1>9. ASSUME NEW s \in Sockets, Receive(s) PROVE BasicInv'
  <2>1. down[s] \in Seq(Nat) /\ down[s] # <<>>
    BY <1>0, <1>9 DEF Receive, TypeOK
  <2>2. Head(down[s]) \in Nat /\ Tail(down[s]) \in Seq(Nat)
    BY <2>1
  <2>3. lastReceivedVersion' \in Nat
    BY <1>0, <1>9, <2>2 DEF Receive, TypeOK
  <2>4. down' \in [Sockets -> Seq(Nat)]
    BY <1>0, <1>9, <2>2 DEF Receive, TypeOK
  <2>5. TypeOK'
    BY <1>0, <1>9, <2>3, <2>4 DEF Receive, TypeOK
  <2> QED BY <1>0, <1>9, <2>5 DEF Receive, BasicInv, NewestWorks
<1>10. ASSUME NEW s \in Sockets, Register(s) PROVE BasicInv'
  <2>0. stateVersion + 1 \in Nat /\ stateVersion' = stateVersion + 1
    BY <1>0, <1>10 DEF Register, TypeOK
  <2>1. down' \in [Sockets -> Seq(Nat)]
    BY <1>0, <1>10, <2>0, EmitType DEF Register
  <2>2. TypeOK'
    BY <1>0, <1>10, <2>0, <2>1 DEF Register, TypeOK
  <2> QED BY <1>0, <1>10, <2>2 DEF Register, BasicInv, NewestWorks
<1>11. CASE PrimaryUp
  <2>1. TypeOK'
    BY <1>0, <1>11 DEF PrimaryUp, TypeOK
  <2> QED BY <1>0, <1>11, <2>1 DEF PrimaryUp, BasicInv, NewestWorks
<1>12. CASE PrimaryDown
  <2>1. down' \in [Sockets -> Seq(Nat)]
    BY <1>12 DEF PrimaryDown
  <2>2. events' \in 0..MaxEvents
    BY <1>0, <1>12 DEF PrimaryDown, Event, TypeOK
  <2>3. stateVersion' \in Nat
    BY <1>0, <1>12 DEF PrimaryDown, TypeOK
  <2>4. TypeOK'
    BY <1>0, <1>12, <2>1, <2>2, <2>3 DEF PrimaryDown, TypeOK
  <2> QED BY <1>0, <1>12, <2>4 DEF PrimaryDown, BasicInv, NewestWorks
<1>13. CASE ServerDisconnect
  <2>0. stateVersion + 1 \in Nat /\ stateVersion' = stateVersion + 1
    BY <1>0, <1>13 DEF ServerDisconnect, TypeOK
  <2>1. down' \in [Sockets -> Seq(Nat)]
    BY <1>0, <1>13, <2>0, EmitType DEF ServerDisconnect
  <2>2. TypeOK'
    BY <1>0, <1>13, <2>0, <2>1 DEF ServerDisconnect, TypeOK
  <2> QED BY <1>0, <1>13, <2>2 DEF ServerDisconnect, BasicInv, NewestWorks
<1>14. CASE NodesChange
  <2>0. /\ stateVersion \in Nat /\ stateVersion + 1 \in Nat
        /\ down \in [Sockets -> Seq(Nat)]
    BY <1>0 DEF TypeOK
  <2>1. down' \in [Sockets -> Seq(Nat)] /\ stateVersion' \in Nat
    <3>1. CASE stateVersion' = stateVersion + 1 /\ down' = Emit(stateVersion + 1)
      BY <1>0, <2>0, <3>1, EmitType
    <3>2. CASE UNCHANGED <<stateVersion, down>>
      BY <2>0, <3>2
    <3> QED BY <1>14, <3>1, <3>2 DEF NodesChange
  <2>2. events' \in 0..MaxEvents
    BY <1>0, <1>14 DEF NodesChange, Event, TypeOK
  <2>3. TypeOK'
    BY <1>0, <1>14, <2>1, <2>2 DEF NodesChange, TypeOK
  <2> QED BY <1>0, <1>14, <2>3 DEF NodesChange, BasicInv, NewestWorks
<1>15. CASE Broadcast
  <2>0. stateVersion + 1 \in Nat /\ stateVersion' = stateVersion + 1
    BY <1>0, <1>15 DEF Broadcast, TypeOK
  <2>1. down' \in [Sockets -> Seq(Nat)]
    BY <1>0, <1>15, <2>0, EmitType DEF Broadcast
  <2>2. TypeOK'
    BY <1>0, <1>15, <2>0, <2>1 DEF Broadcast, TypeOK
  <2> QED BY <1>0, <1>15, <2>2 DEF Broadcast, BasicInv, NewestWorks
<1>16. CASE UNCHANGED vars
  BY <1>0, <1>16 DEF vars, BasicInv, TypeOK, NewestWorks
<1> QED BY <1>2, <1>3, <1>4, <1>5, <1>6, <1>7, <1>8, <1>9, <1>10, <1>11, <1>12, <1>13,
           <1>14, <1>15, <1>16 DEF Next

(* What a step does to the flag, and to a node that has a socket.          *)
LEMMA NextFlag ==
  ASSUME BasicInv, Next
  PROVE  (Stale' => Stale \/ Stop) /\ (Stranded' => Stranded \/ Stale)
<1> DEFINE Fine == (Stale' => Stale \/ Stop) /\ (Stranded' => Stranded \/ Stale)
<1> USE DEF nodeVars, BasicInv, NewestWorks, Stale, Stranded
<1>1. CASE Start
  BY <1>1, Attempt DEF Start
<1>2. CASE ReconnectTimeout
  BY <1>2, Attempt DEF ReconnectTimeout
<1>3. CASE Stop
  BY <1>3 DEF Stop
<1>4. ASSUME NEW s \in Sockets, Connected(s) PROVE Fine
  <2>1. sock'[s] = "open" /\ \A t \in Sockets : t # s => sock'[t] = sock[t]
    BY <1>4 DEF Connected, TypeOK
  <2> QED BY <1>4, <2>1 DEF Connected, TypeOK, Sockets
<1>5. ASSUME NEW s \in Sockets, ConnectError(s) \/ ConnectTimeout(s) PROVE Fine
  BY <1>5 DEF ConnectError, ConnectTimeout, AttemptFails
<1>6. ASSUME NEW s \in Sockets, Disconnected(s) PROVE Fine
  <2>1. sock'[s] = "trying" /\ \A t \in Sockets : t # s => sock'[t] = sock[t]
    BY <1>6 DEF Disconnected, TypeOK
  <2> QED BY <1>6, <2>1 DEF Disconnected, TypeOK, Sockets
<1>7. CASE UNCHANGED <<nodeVars, sock>>
  BY <1>7
<1>8. CASE \/ PrimaryUp \/ PrimaryDown \/ ServerDisconnect \/ NodesChange \/ Broadcast
           \/ \E s \in Sockets : Break(s) \/ Receive(s) \/ Register(s)
  BY <1>7, <1>8 DEF PrimaryUp, PrimaryDown, ServerDisconnect, NodesChange, Broadcast, Break,
                    Receive, Register
<1> QED BY <1>1, <1>2, <1>3, <1>4, <1>5, <1>6, <1>7, <1>8 DEF Next

LEMMA Basic == Spec => []BasicInv
<1>1. Init => BasicInv
  BY InitInv
<1>2. BasicInv /\ [Next]_vars => BasicInv'
  BY NextBasic
<1> QED BY <1>1, <1>2, PTL DEF Spec

(* The variables of the node, its sockets and the primary have their types,*)
(* however starts, stops, breaks and crashes interleave.                   *)
THEOREM TypeCorrect == Spec => []TypeOK
<1>1. BasicInv => TypeOK
  BY DEF BasicInv
<1> QED BY <1>1, Basic, PTL

(* The flag that holds back connectToPrimary is left behind by a stop()    *)
(* and by nothing else.                                                    *)
THEOREM FlagLeftByStop == Spec => OnlyStopLeavesFlag
<1>1. BasicInv /\ [Next]_vars => [Stale' => Stale \/ Stop]_vars
  BY NextFlag
<1> QED BY <1>1, Basic, PTL DEF Spec, OnlyStopLeavesFlag

(* No start() is in vain, and no socket of a started node is given up: the *)
(* newest is connected or tries to be, unless the flag was left behind.    *)
THEOREM StrandedByFlag == Spec => OnlyFlagStrands
<1>1. BasicInv /\ [Next]_vars => [Stranded' => Stranded \/ Stale]_vars
  BY NextFlag
<1> QED BY <1>1, Basic, PTL DEF Spec, OnlyFlagStrands

----------------------------------------------------------------------------
(* The safety core of Connects and StatesAreHeard.                         *)

(* Nothing that is under way is newer than the state is.                   *)
NoneTooNew == \A s \in Sockets : \A i \in 1 .. Len(down[s]) : down[s][i] =< stateVersion

(* The newest state is the last that is under way over s.                  *)
Newest(s) == down[s] # <<>> /\ down[s][Len(down[s])] = stateVersion

(* The newest state is under way over each registered connection, or the   *)
(* node has seen its number, or a broadcast is due.                        *)
NoneMissed ==
  \A s \in registered : broadcastDue \/ lastReceivedVersion >= stateVersion \/ Newest(s)

(* A newest socket that is connected registers the node.                   *)
NewestRegisters == clientSocket \in linked => clientSocket \in registering \cup registered

HeardInv == NoneTooNew /\ NoneMissed /\ NewestRegisters

(* What Append and Tail do to the bound and to the last element.           *)
LEMMA AppendLast ==
  ASSUME NEW q \in Seq(Nat), NEW v \in Nat, \A i \in 1 .. Len(q) : q[i] =< v
  PROVE  /\ Append(q, v) # <<>>
         /\ \A i \in 1 .. Len(Append(q, v)) : Append(q, v)[i] =< v
         /\ Append(q, v)[Len(Append(q, v))] = v
<1>1. Len(q) \in Nat /\ Len(Append(q, v)) = Len(q) + 1
  OBVIOUS
<1>2. \A i \in 1 .. Len(q) : Append(q, v)[i] = q[i]
  OBVIOUS
<1>3. Append(q, v)[Len(q) + 1] = v
  OBVIOUS
<1> QED BY <1>1, <1>2, <1>3

LEMMA TailLast ==
  ASSUME NEW q \in Seq(Nat), q # <<>>, NEW v \in Nat, \A i \in 1 .. Len(q) : q[i] =< v
  PROVE  /\ Head(q) \in Nat /\ Head(q) =< v
         /\ Tail(q) \in Seq(Nat)
         /\ \A i \in 1 .. Len(Tail(q)) : Tail(q)[i] =< v
         /\ Tail(q) = <<>> => Head(q) = q[Len(q)]
         /\ Tail(q) # <<>> => Tail(q)[Len(Tail(q))] = q[Len(q)]
<1>1. Len(q) \in Nat \ {0} /\ Head(q) = q[1]
  OBVIOUS
<1>2. Tail(q) \in Seq(Nat) /\ Len(Tail(q)) = Len(q) - 1
  BY <1>1
<1>3. \A i \in 1 .. Len(q) - 1 : Tail(q)[i] = q[i + 1]
  BY <1>1
<1>4. Tail(q) = <<>> <=> Len(q) = 1
  <2> DEFINE t == Tail(q)
  <2>1. t \in Seq(Nat) /\ Len(t) = Len(q) - 1
    BY <1>2
  <2> HIDE DEF t
  <2>2. t = <<>> => Len(t) = 0
    BY EmptySeq
  <2>3. t # <<>> => Len(t) \in Nat \ {0}
    BY <2>1, EmptySeq
  <2>4. t = <<>> <=> Len(q) = 1
    BY <1>1, <2>1, <2>2, <2>3
  <2> QED BY <2>4 DEF t
<1> QED BY <1>1, <1>2, <1>3, <1>4

(* A state that is numbered and sent is the newest on every connection.    *)
LEMMA EmitStep ==
  ASSUME TypeOK, NoneTooNew, stateVersion' = stateVersion + 1, down' = Emit(stateVersion + 1)
  PROVE  NoneTooNew' /\ \A s \in linked : Newest(s)'
<1>0. stateVersion \in Nat /\ stateVersion + 1 \in Nat /\ down \in [Sockets -> Seq(Nat)]
      /\ linked \subseteq Sockets
  BY DEF TypeOK
<1>1. ASSUME NEW s \in Sockets, s \in linked
      PROVE  /\ \A i \in 1 .. Len(down'[s]) : down'[s][i] =< stateVersion'
             /\ down'[s] # <<>> /\ down'[s][Len(down'[s])] = stateVersion'
  <2>1. down'[s] = Append(down[s], stateVersion + 1)
    BY <1>1 DEF Emit
  <2>2. \A i \in 1 .. Len(down[s]) : down[s][i] \in Nat /\ down[s][i] =< stateVersion
    BY <1>0, <1>1 DEF NoneTooNew
  <2>3. \A i \in 1 .. Len(down[s]) : down[s][i] =< stateVersion + 1
    BY <1>0, <2>2
  <2> QED BY <1>0, <2>1, <2>3, AppendLast
<1>2. ASSUME NEW s \in Sockets, s \notin linked
      PROVE  \A i \in 1 .. Len(down'[s]) : down'[s][i] =< stateVersion'
  <2>1. down'[s] = down[s]
    BY <1>2 DEF Emit
  <2>2. \A i \in 1 .. Len(down[s]) : down[s][i] \in Nat /\ down[s][i] =< stateVersion
    BY <1>0, <1>2 DEF NoneTooNew
  <2> QED BY <1>0, <2>1, <2>2
<1>3. NoneTooNew'
  BY <1>0, <1>1, <1>2 DEF NoneTooNew
<1> QED BY <1>0, <1>1, <1>3 DEF Newest

(* Reading the newest state is seeing its number.                          *)
LEMMA ReceiveStep ==
  ASSUME TypeOK, HeardInv, NEW r \in Sockets, Receive(r)
  PROVE  HeardInv'
<1>0. /\ stateVersion \in Nat /\ lastReceivedVersion \in Nat /\ down \in [Sockets -> Seq(Nat)]
      /\ registered \subseteq Sockets /\ stateVersion' = stateVersion
      /\ UNCHANGED <<broadcastDue, registered, registering, linked, clientSocket>>
  BY DEF TypeOK, Receive, nodeVars, primaryVars
<1>1. /\ Head(down[r]) \in Nat /\ Head(down[r]) =< stateVersion
      /\ \A i \in 1 .. Len(Tail(down[r])) : Tail(down[r])[i] =< stateVersion
      /\ Tail(down[r]) = <<>> => Head(down[r]) = down[r][Len(down[r])]
      /\ Tail(down[r]) # <<>> => Tail(down[r])[Len(Tail(down[r]))] = down[r][Len(down[r])]
  BY <1>0, TailLast DEF Receive, HeardInv, NoneTooNew
<1>2. /\ down'[r] = Tail(down[r])
      /\ \A s \in Sockets : s # r => down'[s] = down[s]
  BY <1>0 DEF Receive
<1>3. /\ lastReceivedVersion' \in Nat
      /\ lastReceivedVersion' >= lastReceivedVersion
      /\ lastReceivedVersion' >= Head(down[r])
  BY <1>0, <1>1 DEF Receive
<1>4. NoneTooNew'
  <2>1. \A i \in 1 .. Len(down'[r]) : down'[r][i] =< stateVersion
    BY <1>1, <1>2
  <2>2. \A s \in Sockets : s # r => \A i \in 1 .. Len(down'[s]) : down'[s][i] =< stateVersion
    BY <1>2 DEF HeardInv, NoneTooNew
  <2> QED BY <1>0, <2>1, <2>2 DEF NoneTooNew
<1>5. ASSUME NEW s \in registered, ~broadcastDue
      PROVE  lastReceivedVersion' >= stateVersion \/ Newest(s)'
  <2>1. CASE lastReceivedVersion >= stateVersion
    BY <1>0, <1>3, <2>1
  <2>2. CASE Newest(s) /\ s # r
    BY <1>0, <1>2, <2>2 DEF Newest
  <2>3. CASE Newest(s) /\ s = r
    <3>1. CASE Tail(down[r]) = <<>>
      BY <1>0, <1>1, <1>3, <2>3, <3>1 DEF Newest
    <3>2. CASE Tail(down[r]) # <<>>
      BY <1>0, <1>1, <1>2, <2>3, <3>2 DEF Newest
    <3> QED BY <3>1, <3>2
  <2> QED BY <1>5, <2>1, <2>2, <2>3 DEF HeardInv, NoneMissed
<1>6. NoneMissed'
  BY <1>0, <1>5 DEF NoneMissed
<1>7. NewestRegisters'
  BY <1>0 DEF HeardInv, NewestRegisters
<1> QED BY <1>4, <1>6, <1>7 DEF HeardInv

(* Losing connections loses what they carried, and nothing else.           *)
LEMMA UnlinkStep ==
  ASSUME TypeOK, HeardInv, NEW lost, Unlink(lost),
         clientSocket' = clientSocket \/ clientSocket' \notin linked,
         UNCHANGED <<lastReceivedVersion, stateVersion, broadcastDue>>
  PROVE  HeardInv'
<1>1. \A s \in Sockets : down'[s] = IF s \in lost THEN <<>> ELSE down[s]
  BY DEF Unlink
<1>2. NoneTooNew'
  BY <1>1 DEF HeardInv, NoneTooNew
<1>3. registered' \subseteq registered /\ \A s \in registered' : s \in Sockets /\ s \notin lost
  BY DEF Unlink, TypeOK
<1>4. \A s \in registered' : Newest(s)' <=> Newest(s)
  BY <1>1, <1>3 DEF Newest
<1>5. NoneMissed'
  BY <1>3, <1>4 DEF HeardInv, NoneMissed
<1>6. NewestRegisters'
  BY DEF Unlink, HeardInv, NewestRegisters
<1> QED BY <1>2, <1>5, <1>6 DEF HeardInv

LEMMA NextHeard ==
  ASSUME BasicInv, HeardInv, [Next]_vars
  PROVE  HeardInv'
<1> USE DEF nodeVars, linkVars, primaryVars
<1>0. TypeOK /\ NewestWorks /\ NoneTooNew /\ NoneMissed /\ NewestRegisters
  BY DEF BasicInv, HeardInv
<1>1. ASSUME clientSocket' = clientSocket \/ clientSocket' \notin linked,
             UNCHANGED <<lastReceivedVersion, linkVars, primaryVars>>
      PROVE  HeardInv'
  BY <1>0, <1>1 DEF HeardInv, NoneTooNew, NoneMissed, NewestRegisters, Newest
<1>2. CASE Start \/ ReconnectTimeout
  BY <1>1, <1>2, Attempt DEF Start, ReconnectTimeout
<1>3. CASE Stop
  <2>1. clientSocket' \notin linked
    BY <1>0, <1>3 DEF Stop, TypeOK, Sockets
  <2> QED BY <1>0, <1>3, <2>1, UnlinkStep DEF Stop, HeardInv
<1>4. ASSUME NEW s \in Sockets, Break(s) PROVE HeardInv'
  BY <1>0, <1>4, UnlinkStep DEF Break, HeardInv
<1>5. ASSUME NEW s \in Sockets, ConnectError(s) \/ ConnectTimeout(s) \/ Disconnected(s)
      PROVE  HeardInv'
  BY <1>1, <1>5 DEF ConnectError, ConnectTimeout, AttemptFails, Disconnected
<1>6. ASSUME NEW s \in Sockets, Connected(s) PROVE HeardInv'
  <2>1. NewestRegisters'
    BY <1>0, <1>6 DEF Connected, NewestRegisters
  <2>2. UNCHANGED <<lastReceivedVersion, down, primaryVars>>
    BY <1>6 DEF Connected
  <2> QED BY <1>0, <2>1, <2>2 DEF HeardInv, NoneTooNew, NoneMissed, Newest
<1>7. ASSUME NEW s \in Sockets, Receive(s) PROVE HeardInv'
  BY <1>0, <1>7, ReceiveStep DEF HeardInv
<1>8. ASSUME stateVersion' = stateVersion + 1, down' = Emit(stateVersion + 1),
             registered' \cup registering' = registered \cup registering,
             UNCHANGED <<linked, clientSocket>>
      PROVE  HeardInv'
  <2>1. NoneTooNew' /\ \A s \in linked : Newest(s)'
    BY <1>0, <1>8, EmitStep
  <2>2. registered' \subseteq linked
    BY <1>0, <1>8 DEF TypeOK
  <2>3. NoneMissed'
    BY <2>1, <2>2 DEF NoneMissed
  <2>4. NewestRegisters'
    BY <1>0, <1>8 DEF NewestRegisters
  <2> QED BY <2>1, <2>3, <2>4 DEF HeardInv
<1>9. ASSUME NEW s \in Sockets, Register(s) PROVE HeardInv'
  <2>1. registered' \cup registering' = registered \cup registering
    BY <1>9 DEF Register
  <2> QED BY <1>8, <1>9, <2>1 DEF Register
<1>10. CASE ServerDisconnect
  BY <1>8, <1>10 DEF ServerDisconnect
<1>11. CASE Broadcast
  BY <1>8, <1>11 DEF Broadcast
<1>12. CASE NodesChange
  <2>1. CASE stateVersion' = stateVersion + 1 /\ down' = Emit(stateVersion + 1)
    BY <1>8, <1>12, <2>1 DEF NodesChange
  <2>2. CASE UNCHANGED <<stateVersion, down>>
    BY <1>0, <1>12, <2>2
       DEF NodesChange, HeardInv, NoneTooNew, NoneMissed, NewestRegisters, Newest
  <2> QED BY <1>12, <2>1, <2>2 DEF NodesChange
<1>13. CASE PrimaryUp
  BY <1>0, <1>13 DEF PrimaryUp, HeardInv, NoneTooNew, NoneMissed, NewestRegisters
<1>14. CASE PrimaryDown
  <2>1. /\ \A s \in Sockets : down'[s] = <<>>
        /\ registered' = {} /\ linked' = {}
    BY <1>14 DEF PrimaryDown
  <2>2. NoneTooNew'
    BY <2>1 DEF NoneTooNew
  <2> QED BY <2>1, <2>2 DEF HeardInv, NoneMissed, NewestRegisters
<1>15. CASE UNCHANGED vars
  BY <1>1, <1>15 DEF vars
<1> QED BY <1>2, <1>3, <1>4, <1>5, <1>6, <1>7, <1>9, <1>10, <1>11, <1>12, <1>13, <1>14, <1>15
        DEF Next

LEMMA Heard == Spec => []HeardInv
<1>1. Init => HeardInv
  <2> SUFFICES ASSUME Init PROVE HeardInv
    OBVIOUS
  <2>1. \A s \in Sockets : down[s] = <<>>
    BY DEF Init
  <2>2. NoneTooNew
    BY <2>1 DEF NoneTooNew
  <2> QED BY <2>2 DEF Init, HeardInv, NoneMissed, NewestRegisters
<1>2. BasicInv /\ HeardInv /\ [Next]_vars => HeardInv'
  BY NextHeard
<1> QED BY <1>1, <1>2, Basic, PTL DEF Spec

(* No state that a registered connection owes the node is missed,          *)
(* whichever sockets carry the states, break, overtake each other or       *)
(* repeat what the node has: unless the node has seen its number already   *)
(* (as after a restart of the primary, whose numbers begin again), it is   *)
(* under way over that connection, or a broadcast is due.                  *)
THEOREM NoStateIsMissed == Spec => []NoneMissed
<1>1. HeardInv => NoneMissed
  BY DEF HeardInv
<1> QED BY <1>1, Heard, PTL

(* The state the node has never goes back.                                 *)
THEOREM VersionsGrow == Spec => [][lastReceivedVersion' >= lastReceivedVersion]_vars
<1>1. TypeOK /\ [Next]_vars => [lastReceivedVersion' >= lastReceivedVersion]_vars
  <2> SUFFICES ASSUME TypeOK, Next PROVE lastReceivedVersion' >= lastReceivedVersion
    OBVIOUS
  <2>0. lastReceivedVersion \in Nat
    BY DEF TypeOK
  <2>1. CASE \E s \in Sockets : Receive(s)
    <3>1. PICK s \in Sockets : Receive(s)
      BY <2>1
    <3>2. down[s] \in Seq(Nat) /\ down[s] # <<>>
      BY <3>1 DEF Receive, TypeOK
    <3>3. Head(down[s]) \in Nat
      BY <3>2
    <3> QED BY <2>0, <3>1, <3>3 DEF Receive
  <2>2. CASE UNCHANGED lastReceivedVersion
    BY <2>0, <2>2
  <2> QED BY <2>1, <2>2
          DEF Next, Start, Stop, ReconnectTimeout, PrimaryUp, PrimaryDown, ServerDisconnect,
              NodesChange, Broadcast, Connected, ConnectError, ConnectTimeout, AttemptFails,
              Break, Disconnected, Register
<1> QED BY <1>1, TypeCorrect, PTL DEF Spec

(* Nothing of what Fairness says must happen is left to happen.            *)
AtRest ==
  /\ \A s \in Sockets : sock[s] # "trying" /\ (sock[s] = "open" => s \in linked)
  /\ registering = {}
  /\ \A s \in Sockets : down[s] = <<>>
  /\ ~broadcastDue

(* Where the system comes to rest with a primary that is up, a node that   *)
(* is not stopped is registered over its newest socket and has seen the    *)
(* number of the newest state, or it has no newest socket: there is no     *)
(* other way for both to wait for each other, with a node that is not      *)
(* connected, not registered or behind.                                    *)
RestIsCurrent ==
  wanted /\ up /\ AtRest
    => \/ clientSocket = 0
       \/ clientSocket \in linked \cap registered /\ lastReceivedVersion >= stateVersion

(* No deadlock of connectToPrimary, the registration and the broadcasts,   *)
(* whatever was stopped, broken or restarted before.                       *)
THEOREM RestsOnlyWhenCurrent == Spec => []RestIsCurrent
<1>1. BasicInv /\ HeardInv => RestIsCurrent
  <2> SUFFICES ASSUME BasicInv, HeardInv, wanted, up, AtRest, clientSocket # 0
               PROVE  clientSocket \in linked \cap registered
                      /\ lastReceivedVersion >= stateVersion
    BY DEF RestIsCurrent
  <2>1. clientSocket \in Sockets /\ sock[clientSocket] = "open"
    BY DEF AtRest, BasicInv, TypeOK, Sockets, NewestWorks
  <2>2. clientSocket \in linked /\ clientSocket \in registered
    BY <2>1 DEF AtRest, HeardInv, NewestRegisters
  <2>3. lastReceivedVersion >= stateVersion
    BY <2>1, <2>2 DEF AtRest, HeardInv, NoneMissed, Newest
  <2> QED BY <2>2, <2>3
<1> QED BY <1>1, Basic, Heard, PTL
=============================================================================
