----------------------------- MODULE SocketProofs -----------------------------
(***************************************************************************)
(* Proofs about the two ends of a WebSocket, which share nothing here: the *)
(* client in the browser and the heartbeat of the server.                  *)
(*                                                                         *)
(* The client and the runs of step 5 over it, for any number of runs and   *)
(* WebSockets: no WebSocket is orphaned, the status of a connection tells  *)
(* the truth, and runs that have ended leave nothing open.                 *)
(***************************************************************************)
EXTENDS WireRun, Heartbeat, TLAPS

\* The connections lead to WebSockets that were made for them.
InUse == \A c \in DOMAIN connections : sock[connections[c].socket] # "unused"

\* What holds of the client, whoever uses it.
ClientInv == ClientTypeOK /\ InUse /\ NoOrphanSocket /\ ConnectedIsOpen

PcTypeOK ==
    pc \in [Runs -> {"idle", "connecting", "negotiating", "answering", "transferring", "done"}]

\* The inductive invariant.
WireInv == ClientInv /\ PcTypeOK /\ NothingLeftOpen

LEMMA ClientInitInv == WireInit => WireInv
<1> SUFFICES ASSUME WireInit
             PROVE  WireInv
  OBVIOUS
<1>1. (CHOOSE c \in Conns : TRUE) \in Conns
  BY WireRunAssumption
<1>2. DOMAIN connections = {}
  BY DEF WireInit, ClientInit, EmptyMap
<1>3. ClientTypeOK
  BY <1>1, <1>2 DEF WireInit, ClientInit, ClientTypeOK, SocketStates
<1>4. InUse /\ NoOrphanSocket /\ ConnectedIsOpen
  BY <1>2 DEF WireInit, ClientInit, InUse, NoOrphanSocket, ConnectedIsOpen
<1>5. PcTypeOK /\ NothingLeftOpen
  BY DEF WireInit, ClientInit, PcTypeOK, NothingLeftOpen
<1>6. QED
  BY <1>3, <1>4, <1>5 DEF WireInv, ClientInv

\* What close() makes of a WebSocket that is in use.
LEMMA ClosingStates ==
    ASSUME ClientTypeOK, NEW s \in Sockets
    PROVE  /\ Closing(s) \in SocketStates
           /\ Closing(s) \notin {"connecting", "open"}
           /\ sock[s] # "unused" => Closing(s) # "unused"
  BY DEF ClientTypeOK, SocketStates, Closing

\* connect() of several ids at once: the new WebSockets replace those the ids
\* had, which are closed.
LEMMA ConnectAllStep ==
    ASSUME ClientInv, NEW new \in [Conns -> Sockets], ConnectAll(new)
    PROVE  ClientInv'
<1> DEFINE old == {connections[c].socket : c \in DOMAIN new \cap DOMAIN connections}
           fresh == {new[c] : c \in DOMAIN new}
           idOf(s) == CHOOSE c \in DOMAIN new : new[c] = s
<1> USE DEF ClientInv
<1>1. DOMAIN new = Conns /\ fresh \subseteq Sockets
  OBVIOUS
<1>2. /\ \A s \in fresh : sock[s] = "unused"
      /\ \A c, d \in Conns : new[c] = new[d] => c = d
      /\ sock' = [s \in Sockets |-> IF s \in fresh THEN "connecting"
                                    ELSE IF s \in old THEN Closing(s) ELSE sock[s]]
      /\ owner' = [s \in Sockets |-> IF s \in fresh THEN idOf(s) ELSE owner[s]]
      /\ promise' = [s \in Sockets |-> IF s \in fresh THEN "pending" ELSE promise[s]]
  BY <1>1 DEF ConnectAll
<1>3. DOMAIN connections \subseteq Conns
  BY DEF ClientTypeOK
<1>4. connections' = [c \in Conns |-> [socket |-> new[c], status |-> "connecting"]]
  <2>1. connections' = [c \in DOMAIN connections \cup DOMAIN new |->
                          IF c \in DOMAIN new
                          THEN [socket |-> new[c], status |-> "connecting"]
                          ELSE connections[c]]
    BY DEF ConnectAll
  <2>2. DOMAIN connections \cup DOMAIN new = Conns
    BY <1>1, <1>3
  <2>3. QED
    BY <2>1, <2>2, <1>1
<1>5. \A c \in Conns : new[c] \in fresh /\ idOf(new[c]) = c
  BY <1>1, <1>2
<1>6. \A s \in fresh : idOf(s) \in Conns /\ new[idOf(s)] = s
  BY <1>1
<1>7. \A s \in Sockets : sock'[s] \in {"connecting", "open"} => s \in fresh
  <2> SUFFICES ASSUME NEW s \in Sockets, s \notin fresh,
                      sock'[s] \in {"connecting", "open"}
               PROVE  FALSE
    OBVIOUS
  <2>1. s \notin old /\ sock'[s] = sock[s]
    BY <1>2, ClosingStates
  <2>2. owner[s] \in DOMAIN connections /\ connections[owner[s]].socket = s
    BY <2>1 DEF NoOrphanSocket
  <2>3. QED
    BY <1>1, <1>3, <2>1, <2>2
<1>8. ClientTypeOK'
  <2>1. sock' \in [Sockets -> SocketStates]
    BY <1>2, ClosingStates DEF ClientTypeOK, SocketStates
  <2>2. owner' \in [Sockets -> Conns]
    BY <1>2, <1>6 DEF ClientTypeOK
  <2>3. promise' \in [Sockets -> {"none", "pending", "resolved", "rejected"}]
    BY <1>2 DEF ClientTypeOK
  <2>4. \A c \in DOMAIN connections' :
          /\ connections'[c].socket \in Sockets
          /\ owner'[connections'[c].socket] = c
          /\ connections'[c].status = "connecting"
    BY <1>1, <1>2, <1>4, <1>5
  <2>5. QED
    BY <1>4, <2>1, <2>2, <2>3, <2>4 DEF ClientTypeOK
<1>9. InUse' /\ ConnectedIsOpen'
  <2>1. \A c \in Conns : sock'[new[c]] = "connecting"
    BY <1>2, <1>5
  <2>2. QED
    BY <1>4, <2>1 DEF InUse, ConnectedIsOpen
<1>10. NoOrphanSocket'
  BY <1>2, <1>4, <1>6, <1>7 DEF NoOrphanSocket
<1>11. QED
  BY <1>8, <1>9, <1>10

\* disconnect() of all: nothing stays open or connecting.
LEMMA DisconnectAllStep ==
    ASSUME ClientInv, DisconnectAll(Conns)
    PROVE  ClientInv' /\ \A s \in Sockets : sock'[s] \notin {"connecting", "open"}
<1> DEFINE old == {connections[c].socket : c \in Conns \cap DOMAIN connections}
<1> USE DEF ClientInv
<1>1. /\ sock' = [s \in Sockets |-> IF s \in old THEN Closing(s) ELSE sock[s]]
      /\ owner' = owner /\ promise' = promise
  BY DEF DisconnectAll
<1>2. DOMAIN connections \subseteq Conns
  BY DEF ClientTypeOK
<1>3. DOMAIN connections' = {}
  BY <1>2 DEF DisconnectAll
<1>4. \A s \in Sockets : sock'[s] \notin {"connecting", "open"}
  <2> SUFFICES ASSUME NEW s \in Sockets, sock'[s] \in {"connecting", "open"}
               PROVE  FALSE
    OBVIOUS
  <2>1. s \notin old /\ sock'[s] = sock[s]
    BY <1>1, ClosingStates
  <2>2. owner[s] \in DOMAIN connections /\ connections[owner[s]].socket = s
    BY <2>1 DEF NoOrphanSocket
  <2>3. QED
    BY <1>2, <2>1, <2>2
<1>5. ClientTypeOK'
  BY <1>1, <1>3, ClosingStates DEF ClientTypeOK
<1>6. QED
  BY <1>3, <1>4, <1>5 DEF InUse, NoOrphanSocket, ConnectedIsOpen

\* The status of the connection a WebSocket was made for, and only that, is set
\* by one of its events.
LEMMA StatusSet ==
    ASSUME ClientTypeOK, NEW s \in Sockets, NEW status,
           connections' = WithStatus(s, status)
    PROVE  /\ DOMAIN connections' = DOMAIN connections
           /\ \A c \in DOMAIN connections :
                /\ connections'[c].socket = connections[c].socket
                /\ connections'[c].status =
                     IF c = owner[s] THEN status ELSE connections[c].status
  BY DEF WithStatus, ClientTypeOK

\* An event of a WebSocket, also of one that its connection has replaced.
LEMMA SocketEventStep ==
    ASSUME ClientInv, NEW s \in Sockets, OnOpen(s) \/ OnError(s) \/ OnClose(s)
    PROVE  /\ ClientInv'
           /\ \A t \in Sockets : sock'[t] \in {"connecting", "open"} =>
                                   sock[t] \in {"connecting", "open"}
<1> USE DEF ClientInv
<1>1. Settled(s, "resolved") \in [Sockets -> {"none", "pending", "resolved", "rejected"}]
      /\ Settled(s, "rejected") \in [Sockets -> {"none", "pending", "resolved", "rejected"}]
  BY DEF Settled, ClientTypeOK
<1>2. CASE OnOpen(s)
  <2>1. /\ sock[s] = "connecting" /\ sock' = [sock EXCEPT ![s] = "open"]
        /\ connections' = WithStatus(s, "connected") /\ owner' = owner
        /\ promise' = Settled(s, "resolved")
    BY <1>2 DEF OnOpen
  <2>2. owner[s] \in DOMAIN connections /\ connections[owner[s]].socket = s
    BY <2>1 DEF NoOrphanSocket
  <2>3. ClientTypeOK'
    BY <1>1, <2>1, StatusSet DEF ClientTypeOK, SocketStates
  <2>4. InUse' /\ NoOrphanSocket'
    BY <2>1, StatusSet DEF ClientTypeOK, InUse, NoOrphanSocket
  <2>5. ConnectedIsOpen'
    BY <2>1, <2>2, StatusSet DEF ClientTypeOK, ConnectedIsOpen
  <2>6. QED
    BY <2>1, <2>3, <2>4, <2>5 DEF ClientTypeOK
<1>3. CASE OnError(s)
  <2>1. /\ sock[s] \in {"connecting", "failing"} /\ sock' = [sock EXCEPT ![s] = "failed"]
        /\ connections' = connections /\ owner' = owner
        /\ promise' = Settled(s, "rejected")
    BY <1>3 DEF OnError
  <2>2. ClientTypeOK'
    BY <1>1, <2>1 DEF ClientTypeOK, SocketStates
  <2>3. InUse' /\ NoOrphanSocket' /\ ConnectedIsOpen'
    BY <2>1 DEF ClientTypeOK, InUse, NoOrphanSocket, ConnectedIsOpen
  <2>4. QED
    BY <2>1, <2>2, <2>3 DEF ClientTypeOK
<1>4. CASE OnClose(s)
  <2>1. /\ sock' = [sock EXCEPT ![s] = "closed"]
        /\ connections' = WithStatus(s, "disconnected")
        /\ owner' = owner /\ promise' = promise
    BY <1>4 DEF OnClose
  <2>2. ClientTypeOK'
    BY <2>1, StatusSet DEF ClientTypeOK, SocketStates
  <2>3. InUse' /\ NoOrphanSocket'
    BY <2>1, StatusSet DEF ClientTypeOK, InUse, NoOrphanSocket
  <2>4. ConnectedIsOpen'
    \* The closed WebSocket is that of its own connection at most, and the
    \* status of that one is "disconnected" now.
    BY <2>1, StatusSet DEF ClientTypeOK, ConnectedIsOpen
  <2>5. QED
    BY <2>1, <2>2, <2>3, <2>4 DEF ClientTypeOK
<1>5. QED
  BY <1>2, <1>3, <1>4

\* The variables of the client do not change.
LEMMA ClientStutters ==
    ASSUME ClientInv, UNCHANGED clientVars
    PROVE  ClientInv'
  BY DEF clientVars, ClientInv, ClientTypeOK, InUse, NoOrphanSocket, ConnectedIsOpen

\* The finally block.
LEMMA FinallyStep ==
    ASSUME WireInv, NEW r \in Runs, Finally(r)
    PROVE  WireInv'
<1>1. ClientInv' /\ NothingLeftOpen'
  BY DisconnectAllStep DEF Finally, WireInv, NothingLeftOpen
<1>2. PcTypeOK'
  BY DEF Finally, WireInv, PcTypeOK
<1>3. QED
  BY <1>1, <1>2 DEF WireInv

LEMMA NextInv == WireInv /\ [WireNext]_wireVars => WireInv'
<1> SUFFICES ASSUME WireInv, [WireNext]_wireVars
             PROVE  WireInv'
  OBVIOUS
<1> USE DEF WireInv
<1>1. CASE Reset
  BY <1>1, ClientStutters DEF Reset, clientVars, PcTypeOK, NothingLeftOpen
<1>2. ASSUME NEW r \in Runs, RunWireSimulation(r)
      PROVE  WireInv'
  <2>1. PICK new \in [Conns -> Sockets] : ConnectAll(new)
    BY <1>2 DEF RunWireSimulation
  <2>2. pc' = [pc EXCEPT ![r] = "connecting"]
    BY <1>2 DEF RunWireSimulation
  <2>3. PcTypeOK' /\ pc'[r] = "connecting"
    BY <2>2 DEF PcTypeOK
  <2>4. QED
    BY <2>1, <2>3, ConnectAllStep DEF NothingLeftOpen
<1>3. ASSUME NEW r \in Runs, Connected(r)
      PROVE  WireInv'
  <2>1. CASE CanSend
    <3>1. UNCHANGED clientVars /\ pc' = [pc EXCEPT ![r] = "negotiating"]
      BY <1>3, <2>1 DEF Connected
    <3>2. PcTypeOK' /\ pc'[r] = "negotiating"
      BY <3>1 DEF PcTypeOK
    <3>3. QED
      BY <3>1, <3>2, ClientStutters DEF NothingLeftOpen
  <2>2. CASE ~CanSend
    BY <1>3, <2>2, FinallyStep DEF Connected
  <2>3. QED
    BY <2>1, <2>2
<1>4. ASSUME NEW r \in Runs, RunEnds(r)
      PROVE  WireInv'
  BY <1>4, FinallyStep DEF RunEnds
<1>5. ASSUME NEW s \in Sockets, GatewayReceives(s)
      PROVE  WireInv'
  BY <1>5, ClientStutters DEF GatewayReceives, clientVars, PcTypeOK, NothingLeftOpen
<1>6. ASSUME NEW s \in Sockets, OnMessage(s)
      PROVE  WireInv'
  <2> DEFINE event == <<owner[s], Head(fromGateway[s])>>
  <2>1. UNCHANGED clientVars
    BY <1>6 DEF OnMessage
  <2>2. pc' = [r \in Runs |->
                 IF pc[r] = "negotiating" /\ event = <<INITIATOR_ID, "handshake_response">>
                 THEN "answering"
                 ELSE IF pc[r] = "answering" /\ event = <<RESPONDER_ID, "handshake_init">>
                 THEN "transferring"
                 ELSE pc[r]]
    BY <1>6 DEF OnMessage
  <2> HIDE DEF event
  <2>3. PcTypeOK' /\ \A r \in Runs : pc'[r] \in {"idle", "done"} => pc[r] = pc'[r]
    BY <2>2 DEF PcTypeOK
  <2>4. NothingLeftOpen'
    BY <2>1, <2>3 DEF NothingLeftOpen, clientVars
  <2>5. QED
    BY <2>1, <2>3, <2>4, ClientStutters
<1>7. ASSUME NEW s \in Sockets, SocketEvent(s)
      PROVE  WireInv'
  <2>1. (OnOpen(s) \/ OnError(s) \/ OnClose(s)) /\ UNCHANGED pc
    BY <1>7 DEF SocketEvent
  <2>2. QED
    BY <2>1, SocketEventStep DEF PcTypeOK, NothingLeftOpen
<1>8. CASE UNCHANGED wireVars
  BY <1>8, ClientStutters DEF wireVars, clientVars, PcTypeOK, NothingLeftOpen
<1>9. QED
  BY <1>1, <1>2, <1>3, <1>4, <1>5, <1>6, <1>7, <1>8 DEF WireNext

LEMMA Invariance == WireSpec => []WireInv
  BY ClientInitInv, NextInv, PTL DEF WireSpec

\* Every entry of the connection Map leads to a WebSocket of its own, however
\* connect() calls of one id overlap.
THEOREM ClientTypeCorrect == WireSpec => []ClientTypeOK
  BY Invariance, PTL DEF WireInv, ClientInv

\* No WebSocket that is open or still connecting is out of reach of
\* disconnect(), on any network and for any number of overlapping runs.
THEOREM NoneOrphaned == WireSpec => []NoOrphanSocket
  BY Invariance, PTL DEF WireInv, ClientInv

\* A connection called "connected" is open: the late events of the WebSockets
\* an id had before never make it look so.
THEOREM StatusIsTrue == WireSpec => []ConnectedIsOpen
  BY Invariance, PTL DEF WireInv, ClientInv

\* Runs that have ended leave no WebSocket open or connecting, although they
\* share the connection ids and each disconnects for all of them.
THEOREM RunsCleanUp == WireSpec => []NothingLeftOpen
  BY Invariance, PTL DEF WireInv

-----------------------------------------------------------------------------
(***************************************************************************)
(* Proofs about Heartbeat, for any set of sockets and any                  *)
(* WS_MAX_MISSED_PONGS: type correctness, and both sides of the bound on   *)
(* the pings a client may leave unanswered.                                *)
(***************************************************************************)

(***************************************************************************)
(* The two bounds speak of pings, the callback of isAlive and missedPongs. *)
(* What links them: a socket that is marked alive has no ping unanswered,  *)
(* and one that is not has one more than the callback has counted, since   *)
(* the tick that clears isAlive pings without counting.  The count goes    *)
(* past WS_MAX_MISSED_PONGS for no socket, and a terminated one is at it.  *)
(***************************************************************************)
Counted(s) ==
    /\ state[s] = "none" => unanswered[s] = 0
    /\ state[s] = "open" =>
         /\ missedPongs[s] <= WS_MAX_MISSED_PONGS
         /\ isAlive[s] => missedPongs[s] = 0 /\ unanswered[s] = 0
         /\ ~isAlive[s] => unanswered[s] = missedPongs[s] + 1
    /\ state[s] = "terminated" =>
         /\ ~isAlive[s]
         /\ missedPongs[s] = WS_MAX_MISSED_PONGS
         /\ unanswered[s] = WS_MAX_MISSED_PONGS + 1

\* The inductive invariant.
HeartbeatInv == HeartbeatTypeOK /\ \A s \in ServerSockets : Counted(s)

LEMMA HeartbeatInitInv == InitHeartbeat => HeartbeatInv
  BY DEF InitHeartbeat, HeartbeatInv, HeartbeatTypeOK, Counted

\* A tick, for one socket.
LEMMA TickCounts ==
    ASSUME HeartbeatInv, Tick, NEW s \in ServerSockets
    PROVE  Counted(s)'
<1>1. /\ state'[s] = IF s \in Reaped THEN "terminated" ELSE state[s]
      /\ missedPongs'[s] = IF s \in Pinged /\ ~isAlive[s]
                           THEN missedPongs[s] + 1 ELSE missedPongs[s]
      /\ isAlive'[s] = IF s \in Pinged THEN FALSE ELSE isAlive[s]
      /\ unanswered'[s] = IF s \in Pinged THEN unanswered[s] + 1 ELSE unanswered[s]
  BY DEF Tick
<1>2. /\ WS_MAX_MISSED_PONGS \in Nat
      /\ missedPongs[s] \in Nat
      /\ unanswered[s] \in Nat
      /\ Counted(s)
  BY HeartbeatAssumption DEF HeartbeatInv, HeartbeatTypeOK
<1>3. CASE s \in Reaped
  <2>1. ~isAlive[s] /\ missedPongs[s] >= WS_MAX_MISSED_PONGS /\ s \notin Pinged
    BY <1>3 DEF Reaped, Stale, Pinged
  <2>2. state[s] \in {"open", "terminated"}
    BY <1>3 DEF Reaped, Clients
  <2>3. QED
    BY <1>1, <1>2, <1>3, <2>1, <2>2 DEF Counted
<1>4. CASE s \in Pinged
  <2>1. s \notin Reaped /\ state[s] \in {"open", "terminated"}
    BY <1>4 DEF Pinged, Clients
  <2>2. isAlive[s] \/ missedPongs[s] < WS_MAX_MISSED_PONGS
    BY <1>2, <1>4, <2>1 DEF Pinged, Reaped, Stale
  <2>3. state[s] = "open"
    BY <1>2, <2>1, <2>2 DEF Counted
  <2>4. QED
    BY <1>1, <1>2, <1>4, <2>1, <2>2, <2>3 DEF Counted
<1>5. CASE s \notin Reaped /\ s \notin Pinged
  <2>1. state[s] \notin {"open", "terminated"}
    BY <1>5 DEF Pinged, Clients
  <2>2. QED
    BY <1>1, <1>2, <1>5, <2>1 DEF Counted
<1>6. QED
  BY <1>3, <1>4, <1>5

\* Every step keeps the invariant.
LEMMA HeartbeatStepInv == HeartbeatInv /\ [HeartbeatStep]_heartbeatVars => HeartbeatInv'
<1> SUFFICES ASSUME HeartbeatInv, [HeartbeatStep]_heartbeatVars
             PROVE  HeartbeatInv'
  OBVIOUS
<1>1. CASE Tick
  <2>1. isAlive' \in [ServerSockets -> BOOLEAN]
    <3>1. \A s \in ServerSockets : (IF s \in Pinged THEN FALSE ELSE isAlive[s]) \in BOOLEAN
      BY Zenon DEF HeartbeatInv, HeartbeatTypeOK
    <3>2. QED
      BY <1>1, <3>1, Zenon DEF Tick
  <2>2. /\ missedPongs' \in [ServerSockets -> Nat] /\ unanswered' \in [ServerSockets -> Nat]
        /\ state' \in [ServerSockets -> {"none", "open", "terminated", "closed"}]
        /\ silent' \in [ServerSockets -> BOOLEAN]
    BY <1>1 DEF Tick, HeartbeatInv, HeartbeatTypeOK
  <2>3. QED
    BY <1>1, <2>1, <2>2, TickCounts DEF HeartbeatInv, HeartbeatTypeOK
<1>2. ASSUME NEW t \in ServerSockets, Connect(t) PROVE HeartbeatInv'
  <2>1. HeartbeatTypeOK'
    BY <1>2 DEF Connect, HeartbeatInv, HeartbeatTypeOK
  <2>2. ASSUME NEW s \in ServerSockets PROVE Counted(s)'
    <3>1. CASE s = t
      <4>1. state'[t] = "open" /\ isAlive'[t] /\ missedPongs'[t] = 0 /\ unanswered'[t] = 0
        BY <1>2 DEF Connect, HeartbeatInv, HeartbeatTypeOK, Counted
      <4>2. QED
        BY <3>1, <4>1, HeartbeatAssumption DEF Counted
    <3>2. CASE s # t
      <4>1. /\ state'[s] = state[s] /\ isAlive'[s] = isAlive[s]
            /\ missedPongs'[s] = missedPongs[s] /\ unanswered'[s] = unanswered[s]
        BY <1>2, <3>2 DEF Connect, HeartbeatInv, HeartbeatTypeOK
      <4>2. QED
        BY <4>1 DEF HeartbeatInv, Counted
    <3>3. QED
      BY <3>1, <3>2
  <2>3. QED
    BY <2>1, <2>2 DEF HeartbeatInv
<1>3. ASSUME NEW t \in ServerSockets, Pong(t) PROVE HeartbeatInv'
  BY <1>3, HeartbeatAssumption DEF Pong, HeartbeatInv, HeartbeatTypeOK, Counted
<1>4. ASSUME NEW t \in ServerSockets, FallSilent(t) PROVE HeartbeatInv'
  BY <1>4 DEF FallSilent, HeartbeatInv, HeartbeatTypeOK, Counted
<1>5. ASSUME NEW t \in ServerSockets, Closed(t) PROVE HeartbeatInv'
  BY <1>5 DEF Closed, HeartbeatInv, HeartbeatTypeOK, Counted
<1>6. CASE UNCHANGED heartbeatVars
  BY <1>6 DEF heartbeatVars, HeartbeatInv, HeartbeatTypeOK, Counted
<1>7. QED
  BY <1>1, <1>2, <1>3, <1>4, <1>5, <1>6 DEF HeartbeatStep

\* The inductive invariant holds in every reachable state.
THEOREM HeartbeatInvHolds == HeartbeatSpec => []HeartbeatInv
  BY HeartbeatInitInv, HeartbeatStepInv, PTL DEF HeartbeatSpec

\* Type correctness.
THEOREM HeartbeatTypeCorrect == HeartbeatSpec => []HeartbeatTypeOK
<1>1. HeartbeatInv => HeartbeatTypeOK
  BY DEF HeartbeatInv
<1>2. QED
  BY <1>1, HeartbeatInvHolds, PTL

\* No client is terminated that answered one of its last WS_MAX_MISSED_PONGS
\* pings.
THEOREM OnlySilentTerminated == HeartbeatSpec => []TerminatedOnlyIfSilent
<1>1. HeartbeatInv => TerminatedOnlyIfSilent
  BY HeartbeatAssumption DEF HeartbeatInv, Counted, TerminatedOnlyIfSilent
<1>2. QED
  BY <1>1, HeartbeatInvHolds, PTL

\* No open socket has more pings unanswered than that.
THEOREM SilenceBounded == HeartbeatSpec => []SilenceIsBounded
<1>1. HeartbeatInv => SilenceIsBounded
  BY HeartbeatAssumption DEF HeartbeatInv, HeartbeatTypeOK, Counted, SilenceIsBounded
<1>2. QED
  BY <1>1, HeartbeatInvHolds, PTL
=============================================================================
