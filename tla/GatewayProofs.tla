----------------------------- MODULE GatewayProofs -----------------------------
(***************************************************************************)
(* Proofs about the WebSocket gateway, for any number of processes,        *)
(* sockets and ids: what is registered and counted is right, and no        *)
(* message arrives twice or out of order.                                  *)
(***************************************************************************)
EXTENDS Gateway, FiniteSetTheorems, SequenceTheorems, TLAPS

-----------------------------------------------------------------------------
(* Types. *)

LEMMA InitType == Init => TypeOK
<1> SUFFICES ASSUME Init
             PROVE  TypeOK
  OBVIOUS
<1>1. DOMAIN EmptyMap = {}
  BY DEF EmptyMap
<1>2. LeadsHome(peers) /\ LeadsHome(registrant) /\ LimitsType
  BY <1>1 DEF Init, LeadsHome, LimitsType
<1>3. QED
  BY <1>2, GatewayAssumption DEF Init, TypeOK, States

\* A bucket never holds more than its capacity, nor less than nothing.
LEMMA LevelType ==
    ASSUME TypeOK, NEW p \in Procs, NEW id \in PeerIds, NEW e \in Elapsed
    PROVE  Charged(Level(p, id, e)) \in 0 .. RATE_LIMIT_TOKENS
<1>1. e * RATE_LIMIT_FILL_RATE \in Nat
  BY GatewayAssumption, TokenBucketAssumption
<1>2. ASSUME id \in DOMAIN rateLimits[p]
      PROVE  Refilled(rateLimits[p][id], e) \in 0 .. RATE_LIMIT_TOKENS
  <2> DEFINE refill == e * RATE_LIMIT_FILL_RATE
  <2>1. rateLimits[p][id] \in 0 .. RATE_LIMIT_TOKENS
    BY <1>2 DEF TypeOK, LimitsType
  <2>2. refill \in Nat
    BY <1>1
  <2>3. Refilled(rateLimits[p][id], e) = IF rateLimits[p][id] + refill > RATE_LIMIT_TOKENS
                                         THEN RATE_LIMIT_TOKENS
                                         ELSE rateLimits[p][id] + refill
    BY DEF Refilled
  <2> HIDE DEF refill
  <2>4. QED
    BY <2>1, <2>2, <2>3, TokenBucketAssumption
<1>3. Level(p, id, e) \in 0 .. RATE_LIMIT_TOKENS
  BY <1>2, TokenBucketAssumption DEF Level
<1>4. QED
  BY <1>3, TokenBucketAssumption DEF Charged, Admits

\* A message is counted, and the buckets stay what they are.
LEMMA MessageType ==
    ASSUME TypeOK, NEW s \in Sockets, NEW id \in PeerIds \cup {NoId}, NEW admitted \in BOOLEAN,
           Message(s, id, admitted)
    PROVE  /\ LimitsType'
           /\ sent' = sent + 1 /\ sent' \in 1 .. MAX_MESSAGES
           /\ ready[s] \in {"open", "closing"}
<1>1. sent' = sent + 1 /\ sent' \in 1 .. MAX_MESSAGES /\ ready[s] \in {"open", "closing"}
  BY GatewayAssumption DEF Message, TypeOK
<1>2. LimitsType'
  <2>1. CASE id = NoId
    BY <2>1 DEF Message, CheckRateLimit, TypeOK, LimitsType
  <2>2. CASE id # NoId
    <3>1. id \in PeerIds /\ Home[s] \in Procs
      BY <2>2, GatewayAssumption
    <3>2. PICK e \in Elapsed :
            rateLimits' = [rateLimits EXCEPT ![Home[s]] =
                             Put(@, id, Charged(Level(Home[s], id, e)))]
      BY <2>2 DEF Message, CheckRateLimit
    <3>3. Charged(Level(Home[s], id, e)) \in 0 .. RATE_LIMIT_TOKENS
      BY <3>1, LevelType
    <3>4. QED
      BY <3>1, <3>2, <3>3 DEF TypeOK, LimitsType, Put
  <2>3. QED
    BY <2>1, <2>2
<1>3. QED
  BY <1>1, <1>2

\* What the three handlers that relay do with a message.
LEMMA SendType ==
    ASSUME TypeOK, NEW t \in Sockets, NEW m \in Messages, Send(t, m)
    PROVE  inbox' \in [Sockets -> Seq(Messages)]
  BY DEF TypeOK, Send

LEMMA DisconnectType ==
    ASSUME TypeOK, NEW s \in Sockets, HandleDisconnect(s)
    PROVE  LeadsHome(peers)' /\ LimitsType' /\ gauge' \in [Procs -> Int]
<1>1. CASE PeersOf(s) = {}
  BY <1>1 DEF HandleDisconnect, TypeOK, LeadsHome, LimitsType
<1>2. CASE PeersOf(s) # {}
  <2>1. PICK id \in PeersOf(s) :
          /\ peers' = [peers EXCEPT ![Home[s]] = Drop(@, id)]
          /\ rateLimits' = [rateLimits EXCEPT ![Home[s]] = Drop(@, id)]
          /\ gauge' = [gauge EXCEPT ![Home[s]] = @ - 1]
    BY <1>2 DEF HandleDisconnect
  <2>2. LeadsHome(peers)'
    BY <2>1 DEF TypeOK, LeadsHome, Drop
  <2>3. LimitsType'
    BY <2>1 DEF TypeOK, LimitsType, Drop
  <2>4. gauge' \in [Procs -> Int]
    <3>1. gauge \in [Procs -> Int] /\ Home[s] \in Procs
      BY GatewayAssumption DEF TypeOK
    <3>2. QED
      BY <2>1, <3>1
  <2>5. QED
    BY <2>2, <2>3, <2>4
<1>3. QED
  BY <1>1, <1>2

\* Publishing adds one envelope to some of the queues.
LEMMA PublishType ==
    ASSUME TypeOK, NEW p \in Procs, NEW to \in PeerIds, NEW m \in Messages,
           PublishToRedis(p, to, m)
    PROVE  bus' \in [Procs -> Seq(Envelopes)]
<1>1. [from |-> p, to |-> to, msg |-> m] \in Envelopes
  BY DEF Envelopes
<1>2. QED
  BY <1>1 DEF TypeOK, PublishToRedis

LEMMA StepType == TypeOK /\ [Next]_vars => TypeOK'
<1> SUFFICES ASSUME TypeOK, [Next]_vars
             PROVE  TypeOK'
  OBVIOUS
<1>1. ASSUME NEW s \in Sockets, HandleConnection(s)
      PROVE  TypeOK'
  <2>1. Home[s] \in Procs
    BY GatewayAssumption
  <2>2. ready' \in [Sockets -> States] /\ gauge' \in [Procs -> Int]
    BY <1>1, <2>1 DEF HandleConnection, TypeOK, States
  <2>3. QED
    BY <1>1, <2>2 DEF HandleConnection, TypeOK, LeadsHome, LimitsType
<1>2. ASSUME NEW s \in Sockets, Rejected(s)
      PROVE  TypeOK'
  <2>1. LimitsType' /\ sent' \in 0 .. MAX_MESSAGES
    <3>1. PICK id \in Ids[s] \cup {NoId}, admitted \in BOOLEAN : Message(s, id, admitted)
      BY <1>2 DEF Rejected
    <3>2. id \in PeerIds \cup {NoId}
      BY GatewayAssumption
    <3>3. LimitsType' /\ sent' \in 1 .. MAX_MESSAGES
      BY <3>1, <3>2, MessageType
    <3>4. QED
      BY <3>3, GatewayAssumption
  <2>2. QED
    BY <1>2, <2>1 DEF Rejected, TypeOK, LeadsHome
<1>3. ASSUME NEW s \in Sockets, HandleHandshakeInit(s)
      PROVE  TypeOK'
  <2>1. PICK id \in Ids[s] :
          /\ Message(s, id, TRUE)
          /\ peers' = [peers EXCEPT ![Home[s]] = Put(@, id, s)]
          /\ registrant' = [registrant EXCEPT ![Home[s]] = Put(@, id, s)]
          /\ named' = [named EXCEPT ![s] = @ \cup {id}]
    BY <1>3 DEF HandleHandshakeInit
  <2>2. id \in PeerIds /\ Home[s] \in Procs
    BY GatewayAssumption
  <2>3. LimitsType' /\ sent' \in 0 .. MAX_MESSAGES
    <3>1. LimitsType' /\ sent' \in 1 .. MAX_MESSAGES
      BY <2>1, <2>2, MessageType
    <3>2. QED
      BY <3>1, GatewayAssumption
  <2>4. LeadsHome(peers)'
    BY <2>1, <2>2 DEF TypeOK, LeadsHome, Put
  <2>5. LeadsHome(registrant)'
    BY <2>1, <2>2 DEF TypeOK, LeadsHome, Put
  <2>6. QED
    <3>1. named' \in [Sockets -> SUBSET PeerIds]
      BY <2>1, <2>2 DEF TypeOK
    <3>2. QED
      BY <1>3, <2>3, <2>4, <2>5, <3>1 DEF HandleHandshakeInit, TypeOK
<1>4. ASSUME NEW s \in Sockets, Relay(s)
      PROVE  TypeOK'
  <2> DEFINE m == [n |-> sent + 1, origin |-> s]
  <2>1. LimitsType' /\ sent' \in 0 .. MAX_MESSAGES /\ sent + 1 \in 1 .. MAX_MESSAGES
    <3>1. PICK id \in Ids[s] \cup {NoId} : Message(s, id, TRUE)
      BY <1>4 DEF Relay
    <3>2. id \in PeerIds \cup {NoId}
      BY GatewayAssumption
    <3>3. LimitsType' /\ sent' = sent + 1 /\ sent' \in 1 .. MAX_MESSAGES
      BY <3>1, <3>2, MessageType
    <3>4. QED
      BY <3>3, GatewayAssumption
  <2>2. m \in Messages /\ Home[s] \in Procs
    BY <2>1, GatewayAssumption DEF Messages
  <2>3. PICK to \in PeerIds :
          IF to \in DOMAIN peers[Home[s]]
          THEN Send(peers[Home[s]][to], m) /\ UNCHANGED bus
          ELSE PublishToRedis(Home[s], to, m) /\ UNCHANGED inbox
    BY <1>4 DEF Relay
  <2>4. inbox' \in [Sockets -> Seq(Messages)] /\ bus' \in [Procs -> Seq(Envelopes)]
    <3> HIDE DEF m
    <3>1. CASE to \in DOMAIN peers[Home[s]]
      <4>1. peers[Home[s]][to] \in Sockets
        BY <2>2, <3>1 DEF TypeOK, LeadsHome
      <4>2. QED
        BY <2>2, <2>3, <3>1, <4>1, SendType DEF TypeOK
    <3>2. CASE to \notin DOMAIN peers[Home[s]]
      BY <2>2, <2>3, <3>2, PublishType DEF TypeOK
    <3>3. QED
      BY <3>1, <3>2
  <2>5. QED
    BY <1>4, <2>1, <2>4 DEF Relay, TypeOK, LeadsHome
<1>5. ASSUME NEW s \in Sockets, ErrorEvent(s) \/ CloseEvent(s)
      PROVE  TypeOK'
  <2>1. LeadsHome(peers)' /\ LimitsType' /\ gauge' \in [Procs -> Int]
    BY <1>5, DisconnectType DEF ErrorEvent, CloseEvent
  <2>2. ready' \in [Sockets -> States] /\ UNCHANGED <<bus, up, inbox, sent, registrant, named>>
    BY <1>5 DEF ErrorEvent, CloseEvent, TypeOK, States
  <2>3. QED
    BY <2>1, <2>2 DEF TypeOK, LeadsHome
<1>6. ASSUME NEW s \in Sockets, Ends(s)
      PROVE  TypeOK'
  BY <1>6 DEF Ends, TypeOK, LeadsHome, LimitsType, States
<1>7. ASSUME NEW p \in Procs, HandleCrossProcessMessage(p)
      PROVE  TypeOK'
  <2> DEFINE e == Head(bus[p])
  <2>1. e \in Envelopes /\ Tail(bus[p]) \in Seq(Envelopes)
    BY <1>7 DEF HandleCrossProcessMessage, TypeOK
  <2>2. inbox' \in [Sockets -> Seq(Messages)]
    <3>1. e.msg \in Messages
      BY <2>1 DEF Envelopes
    <3>2. CASE e.from # p /\ e.to \in DOMAIN peers[p]
      <4>1. peers[p][e.to] \in Sockets
        BY <3>2 DEF TypeOK, LeadsHome
      <4>2. Send(peers[p][e.to], e.msg)
        BY <1>7, <3>2 DEF HandleCrossProcessMessage
      <4> HIDE DEF e
      <4>3. QED
        BY <3>1, <4>1, <4>2, SendType
    <3>3. CASE ~(e.from # p /\ e.to \in DOMAIN peers[p])
      BY <1>7, <3>3 DEF HandleCrossProcessMessage, TypeOK
    <3>4. QED
      BY <3>2, <3>3
  <2>3. QED
    BY <1>7, <2>1, <2>2 DEF HandleCrossProcessMessage, TypeOK, LeadsHome, LimitsType
<1>8. ASSUME NEW p \in Procs, OnModuleDestroy(p)
      PROVE  TypeOK'
  <2>1. DOMAIN EmptyMap = {}
    BY DEF EmptyMap
  <2>2. LeadsHome(peers)' /\ LimitsType'
    BY <1>8, <2>1 DEF OnModuleDestroy, TypeOK, LeadsHome, LimitsType
  <2>3. ready' \in [Sockets -> States] /\ up' \in [Procs -> {"up", "draining", "down"}]
    BY <1>8 DEF OnModuleDestroy, TypeOK, States
  <2>4. QED
    BY <1>8, <2>2, <2>3 DEF OnModuleDestroy, TypeOK, LeadsHome
<1>9. ASSUME NEW p \in Procs, WssClosed(p)
      PROVE  TypeOK'
  BY <1>9 DEF WssClosed, TypeOK, LeadsHome, LimitsType
<1>10. ASSUME UNCHANGED vars
       PROVE  TypeOK'
  BY <1>10 DEF vars, TypeOK, LeadsHome, LimitsType
<1>11. QED
  BY <1>1, <1>2, <1>3, <1>4, <1>5, <1>6, <1>7, <1>8, <1>9, <1>10 DEF Next

\* Every process maps ids to its own sockets, no bucket is above its capacity or
\* below nothing, and only messages that were sent are on their way.
THEOREM TypeCorrect == Spec => []TypeOK
<1>1. QED
  BY InitType, StepType, PTL DEF Spec

-----------------------------------------------------------------------------
(* Registrations. *)

\* Only sockets that were connected have registered.
RegistrantUsed ==
    \A p \in Procs : \A id \in DOMAIN registrant[p] : ready[registrant[p][id]] # "none"

\* An id leads to a socket on which it was registered.
PeersOwn == \A p \in Procs : \A id \in DOMAIN peers[p] : id \in named[peers[p][id]]

RegistryInv == TypeOK /\ RegistrantUsed /\ LiveRegistrationKept /\ PeersOwn

\* The messages of a socket change nothing but the buckets, except a handshake_init.
LEMMA RegisterStep ==
    ASSUME RegistryInv, NEW s \in Sockets, HandleHandshakeInit(s)
    PROVE  RegistryInv'
<1>0. TypeOK'
  BY StepType DEF RegistryInv, Next
<1>1. PICK id \in Ids[s] :
        /\ Message(s, id, TRUE)
        /\ peers' = [peers EXCEPT ![Home[s]] = Put(@, id, s)]
        /\ registrant' = [registrant EXCEPT ![Home[s]] = Put(@, id, s)]
        /\ named' = [named EXCEPT ![s] = @ \cup {id}]
  BY DEF HandleHandshakeInit
<1>2. Home[s] \in Procs /\ UNCHANGED <<ready, up>> /\ ready[s] \in {"open", "closing"}
  BY <1>1, GatewayAssumption DEF HandleHandshakeInit, Message
<1>3. /\ DOMAIN peers = Procs /\ DOMAIN registrant = Procs
      /\ named \in [Sockets -> SUBSET PeerIds]
      /\ \A p \in Procs : \A q \in DOMAIN peers[p] : peers[p][q] \in Sockets
  BY DEF RegistryInv, TypeOK, LeadsHome
<1>4. RegistrantUsed'
  BY <1>1, <1>2, <1>3 DEF RegistryInv, RegistrantUsed, Put
<1>5. LiveRegistrationKept'
  BY <1>1, <1>2, <1>3 DEF RegistryInv, LiveRegistrationKept, Put
<1>6. PeersOwn'
  BY <1>1, <1>2, <1>3 DEF RegistryInv, PeersOwn, Put
<1>7. QED
  BY <1>0, <1>4, <1>5, <1>6 DEF RegistryInv

\* A socket that has ended takes away what it registered, and nothing else.
LEMMA DisconnectStep ==
    ASSUME RegistryInv, NEW s \in Sockets, ErrorEvent(s) \/ CloseEvent(s)
    PROVE  RegistryInv'
<1>0. TypeOK'
  BY StepType DEF RegistryInv, Next
<1>1. /\ HandleDisconnect(s)
      /\ UNCHANGED <<up, registrant, named>>
      /\ \E end \in {"ending", "closed"} : ready' = [ready EXCEPT ![s] = end]
  BY DEF ErrorEvent, CloseEvent
<1>2. /\ DOMAIN peers = Procs /\ DOMAIN registrant = Procs /\ Home[s] \in Procs
      /\ ready \in [Sockets -> States]
      /\ \A p \in Procs : \A id \in DOMAIN registrant[p] : registrant[p][id] \in Sockets
  BY GatewayAssumption DEF RegistryInv, TypeOK, LeadsHome
<1>3. ready'[s] \in {"ending", "closed"} /\ \A t \in Sockets : t # s => ready'[t] = ready[t]
  BY <1>1, <1>2
<1>4. \A p \in Procs :
        /\ DOMAIN peers'[p] \subseteq DOMAIN peers[p]
        /\ \A id \in DOMAIN peers'[p] : peers'[p][id] = peers[p][id]
        /\ \A id \in DOMAIN peers[p] : id \notin DOMAIN peers'[p] => peers[p][id] = s
  <2>1. CASE PeersOf(s) = {}
    BY <1>1, <2>1 DEF HandleDisconnect
  <2>2. CASE PeersOf(s) # {}
    <3>1. PICK id \in PeersOf(s) : peers' = [peers EXCEPT ![Home[s]] = Drop(@, id)]
      BY <1>1, <2>2 DEF HandleDisconnect
    <3>2. id \in DOMAIN peers[Home[s]] /\ peers[Home[s]][id] = s
      BY DEF PeersOf
    <3>3. QED
      BY <1>2, <3>1, <3>2 DEF Drop
  <2>3. QED
    BY <2>1, <2>2
<1>5. RegistrantUsed'
  BY <1>1, <1>2, <1>3 DEF RegistryInv, RegistrantUsed
<1>6. LiveRegistrationKept'
  BY <1>1, <1>2, <1>3, <1>4 DEF RegistryInv, LiveRegistrationKept
<1>7. PeersOwn'
  BY <1>1, <1>4 DEF RegistryInv, PeersOwn
<1>8. QED
  BY <1>0, <1>5, <1>6, <1>7 DEF RegistryInv

LEMMA RegistryStep == RegistryInv /\ [Next]_vars => RegistryInv'
<1> SUFFICES ASSUME RegistryInv, [Next]_vars
             PROVE  RegistryInv'
  OBVIOUS
<1>0. TypeOK'
  BY StepType DEF RegistryInv
<1>t. /\ DOMAIN peers = Procs /\ DOMAIN registrant = Procs
      /\ ready \in [Sockets -> States] /\ up \in [Procs -> {"up", "draining", "down"}]
      /\ \A p \in Procs : \A id \in DOMAIN registrant[p] : registrant[p][id] \in Sockets
  BY DEF RegistryInv, TypeOK, LeadsHome
<1>1. ASSUME NEW s \in Sockets, HandleConnection(s)
      PROVE  RegistryInv'
  <2>1. RegistrantUsed'
    BY <1>t, <1>1 DEF HandleConnection, RegistryInv, RegistrantUsed
  <2>2. LiveRegistrationKept'
    BY <1>t, <1>1 DEF HandleConnection, RegistryInv, RegistrantUsed, LiveRegistrationKept
  <2>3. PeersOwn'
    BY <1>1 DEF HandleConnection, RegistryInv, PeersOwn
  <2>4. QED
    BY <1>0, <2>1, <2>2, <2>3 DEF RegistryInv
<1>2. ASSUME UNCHANGED <<ready, peers, up, registrant, named>>
      PROVE  RegistryInv'
  BY <1>0, <1>2 DEF RegistryInv, RegistrantUsed, LiveRegistrationKept, PeersOwn
<1>3. ASSUME NEW s \in Sockets, Rejected(s) \/ Relay(s)
      PROVE  RegistryInv'
  BY <1>2, <1>3 DEF Rejected, Relay
<1>4. ASSUME NEW s \in Sockets, Ends(s)
      PROVE  RegistryInv'
  <2>1. RegistrantUsed'
    BY <1>t, <1>4 DEF Ends, RegistryInv, RegistrantUsed
  <2>2. LiveRegistrationKept'
    BY <1>t, <1>4 DEF Ends, RegistryInv, LiveRegistrationKept
  <2>3. PeersOwn'
    BY <1>4 DEF Ends, RegistryInv, PeersOwn
  <2>4. QED
    BY <1>0, <2>1, <2>2, <2>3 DEF RegistryInv
<1>5. ASSUME NEW p \in Procs, HandleCrossProcessMessage(p)
      PROVE  RegistryInv'
  BY <1>2, <1>5 DEF HandleCrossProcessMessage
<1>6. ASSUME NEW p \in Procs, OnModuleDestroy(p)
      PROVE  RegistryInv'
  <2>1. DOMAIN EmptyMap = {}
    BY DEF EmptyMap
  <2>2. /\ up' = [up EXCEPT ![p] = "draining"]
        /\ peers' = [peers EXCEPT ![p] = EmptyMap]
        /\ UNCHANGED <<registrant, named>>
        /\ \A s \in Sockets : ready'[s] = ready[s] \/ (ready[s] = "open" /\ ready'[s] = "closing")
    BY <1>6 DEF OnModuleDestroy
  <2>3. RegistrantUsed'
    BY <1>t, <2>2 DEF RegistryInv, RegistrantUsed
  <2>4. LiveRegistrationKept'
    BY <1>t, <2>1, <2>2 DEF RegistryInv, LiveRegistrationKept
  <2>5. PeersOwn'
    BY <1>t, <2>1, <2>2 DEF RegistryInv, PeersOwn
  <2>6. QED
    BY <1>0, <2>3, <2>4, <2>5 DEF RegistryInv
<1>7. ASSUME NEW p \in Procs, WssClosed(p)
      PROVE  RegistryInv'
  <2>1. /\ up' = [up EXCEPT ![p] = "down"]
        /\ UNCHANGED <<ready, peers, registrant, named>>
    BY <1>7 DEF WssClosed
  <2>2. LiveRegistrationKept'
    BY <1>t, <2>1 DEF RegistryInv, LiveRegistrationKept
  <2>3. QED
    BY <1>0, <2>1, <2>2 DEF RegistryInv, RegistrantUsed, PeersOwn
<1>8. ASSUME UNCHANGED vars
      PROVE  RegistryInv'
  BY <1>2, <1>8 DEF vars
<1>9. QED
  BY <1>1, <1>3, <1>4, <1>5, <1>6, <1>7, <1>8, RegisterStep, DisconnectStep DEF Next

LEMMA RegistryInit == Init => RegistryInv
<1> SUFFICES ASSUME Init
             PROVE  RegistryInv
  OBVIOUS
<1>1. DOMAIN EmptyMap = {}
  BY DEF EmptyMap
<1>2. RegistrantUsed /\ LiveRegistrationKept /\ PeersOwn
  BY <1>1 DEF Init, RegistrantUsed, LiveRegistrationKept, PeersOwn
<1>3. QED
  BY <1>2, InitType DEF RegistryInv

LEMMA RegistryHolds == Spec => []RegistryInv
<1>1. QED
  BY RegistryInit, RegistryStep, PTL DEF Spec

\* What a live socket has registered stays, whatever other sockets do with its
\* id and whichever close events are late, for any number of ids per client.
THEOREM LiveRegistrationsKept == Spec => []LiveRegistrationKept
<1>1. RegistryInv => LiveRegistrationKept
  BY DEF RegistryInv
<1>2. QED
  BY <1>1, RegistryHolds, PTL

\* What an end takes away: one of the entries of the socket, and of no other.
LEMMA OneTaken ==
    ASSUME RegistryInv, NEW s \in Sockets, HandleDisconnect(s)
    PROVE  /\ PeersOf(s) # {} => \E id \in PeersOf(s) : PeersOf(s)' = PeersOf(s) \ {id}
           /\ PeersOf(s) = {} => PeersOf(s)' = {}
           /\ \A t \in Sockets : t # s => PeersOf(t)' = PeersOf(t)
<1>1. DOMAIN peers = Procs /\ Home[s] \in Procs /\ Home \in [Sockets -> Procs]
  BY GatewayAssumption DEF RegistryInv, TypeOK, LeadsHome
<1>2. CASE PeersOf(s) = {}
  BY <1>2 DEF HandleDisconnect, PeersOf
<1>3. CASE PeersOf(s) # {}
  <2>1. PICK id \in PeersOf(s) : peers' = [peers EXCEPT ![Home[s]] = Drop(@, id)]
    BY <1>3 DEF HandleDisconnect
  <2>2. PeersOf(s)' = PeersOf(s) \ {id}
    BY <1>1, <2>1 DEF PeersOf, Drop
  <2>3. ASSUME NEW t \in Sockets, t # s
        PROVE  PeersOf(t)' = PeersOf(t)
    <3>1. peers[Home[s]][id] = s
      BY DEF PeersOf
    <3>2. CASE Home[t] = Home[s]
      BY <1>1, <2>1, <2>3, <3>1, <3>2 DEF PeersOf, Drop
    <3>3. CASE Home[t] # Home[s]
      BY <1>1, <2>1, <3>3 DEF PeersOf
    <3>4. QED
      BY <3>2, <3>3
  <2>4. QED
    BY <1>3, <2>1, <2>2, <2>3
<1>4. QED
  BY <1>2, <1>3

\* The entries of a socket are among the ids that were registered on it.
LEMMA OnlyNamed ==
    ASSUME RegistryInv, NEW s \in Sockets
    PROVE  PeersOf(s) \subseteq named[s]
  BY GatewayAssumption DEF PeersOf, RegistryInv, PeersOwn

LEMMA FewerStep ==
    ASSUME RegistryInv, ClosedSocketHoldsFewer, [Next]_vars
    PROVE  ClosedSocketHoldsFewer'
<1>1. /\ DOMAIN peers = Procs /\ Home \in [Sockets -> Procs] /\ ready \in [Sockets -> States]
      /\ named \in [Sockets -> SUBSET PeerIds]
  BY GatewayAssumption DEF RegistryInv, TypeOK, LeadsHome
<1>2. ASSUME UNCHANGED named,
             \A t \in Sockets : PeersOf(t)' \subseteq PeersOf(t),
             \A t \in Sockets : ready'[t] = "closed" => ready[t] = "closed"
      PROVE  ClosedSocketHoldsFewer'
  BY <1>2 DEF ClosedSocketHoldsFewer
<1>3. ASSUME NEW s \in Sockets, HandleConnection(s) \/ Ends(s) \/ Rejected(s) \/ Relay(s)
      PROVE  ClosedSocketHoldsFewer'
  <2>1. /\ UNCHANGED <<peers, named>>
        /\ \A t \in Sockets : ready'[t] = "closed" => ready[t] = "closed"
    BY <1>1, <1>3 DEF HandleConnection, Ends, Rejected, Relay
  <2>2. \A t \in Sockets : PeersOf(t)' \subseteq PeersOf(t)
    BY <2>1 DEF PeersOf
  <2>3. QED
    BY <1>2, <2>1, <2>2
<1>4. ASSUME NEW s \in Sockets, HandleHandshakeInit(s)
      PROVE  ClosedSocketHoldsFewer'
  <2>1. PICK id \in Ids[s] :
          /\ Message(s, id, TRUE)
          /\ peers' = [peers EXCEPT ![Home[s]] = Put(@, id, s)]
          /\ named' = [named EXCEPT ![s] = @ \cup {id}]
    BY <1>4 DEF HandleHandshakeInit
  <2>2. UNCHANGED ready /\ ready[s] \in {"open", "closing"}
    BY <1>4, <2>1 DEF HandleHandshakeInit, Message
  <2>3. SUFFICES ASSUME NEW t \in Sockets, ready[t] = "closed", named'[t] # {}
                 PROVE  PeersOf(t)' \subseteq named'[t] /\ PeersOf(t)' # named'[t]
    BY <2>2 DEF ClosedSocketHoldsFewer
  <2>4. t # s /\ named'[t] = named[t]
    BY <1>1, <2>1, <2>2, <2>3
  <2>5. PeersOf(t) \subseteq named[t] /\ PeersOf(t) # named[t]
    BY <2>3, <2>4 DEF ClosedSocketHoldsFewer
  <2>6. PeersOf(t)' \subseteq PeersOf(t)
    BY <1>1, <2>1, <2>4 DEF PeersOf, Put
  <2>7. QED
    BY <2>4, <2>5, <2>6
<1>5. ASSUME NEW s \in Sockets, ErrorEvent(s) \/ CloseEvent(s)
      PROVE  ClosedSocketHoldsFewer'
  <2>1. /\ HandleDisconnect(s) /\ UNCHANGED named
        /\ \A t \in Sockets : t # s => ready'[t] = ready[t]
    BY <1>1, <1>5 DEF ErrorEvent, CloseEvent
  <2>2. PeersOf(s) \subseteq named[s]
    BY OnlyNamed
  <2>3. named[s] # {} => PeersOf(s)' \subseteq named[s] /\ PeersOf(s)' # named[s]
    BY <2>1, <2>2, OneTaken
  <2>4. QED
    BY <2>1, <2>3, OneTaken DEF ClosedSocketHoldsFewer
<1>6. ASSUME NEW p \in Procs, OnModuleDestroy(p)
      PROVE  ClosedSocketHoldsFewer'
  <2>1. /\ peers' = [peers EXCEPT ![p] = EmptyMap]
        /\ UNCHANGED named
        /\ \A t \in Sockets : ready'[t] = "closed" => ready[t] = "closed"
    BY <1>6 DEF OnModuleDestroy
  <2>2. DOMAIN EmptyMap = {}
    BY DEF EmptyMap
  <2>3. \A t \in Sockets : PeersOf(t)' \subseteq PeersOf(t)
    BY <1>1, <2>1, <2>2 DEF PeersOf
  <2>4. QED
    BY <1>2, <2>1, <2>3
<1>7. ASSUME UNCHANGED <<ready, peers, named>>
      PROVE  ClosedSocketHoldsFewer'
  BY <1>7 DEF ClosedSocketHoldsFewer, PeersOf
<1>8. ASSUME NEW p \in Procs, HandleCrossProcessMessage(p) \/ WssClosed(p)
      PROVE  ClosedSocketHoldsFewer'
  BY <1>7, <1>8 DEF HandleCrossProcessMessage, WssClosed
<1>9. QED
  BY <1>3, <1>4, <1>5, <1>6, <1>7, <1>8 DEF Next, vars

\* Fewer ids lead to a closed socket than were registered on it: none if its
\* client kept to one id, for any number of processes, sockets and ids.
THEOREM NoDeadPeers == Spec => []ClosedSocketHoldsFewer
<1>1. Init => ClosedSocketHoldsFewer
  BY DEF Init, ClosedSocketHoldsFewer
<1>2. RegistryInv /\ ClosedSocketHoldsFewer /\ [Next]_vars => ClosedSocketHoldsFewer'
  BY FewerStep
<1>3. QED
  BY <1>1, <1>2, RegistryHolds, PTL DEF Spec

-----------------------------------------------------------------------------
(* Gauges. *)

(***************************************************************************)
(* What the gauge of p has still to take back: the live connections, and   *)
(* those that are ending and whose entry the close event will find.  An    *)
(* ending connection with several names may have been taken back already   *)
(* by its error event; it enters the sum, as one of ManyNamed, once it is  *)
(* closed.                                                                 *)
(***************************************************************************)
Owed(p) ==
    Live(p) \cup
    {s \in Sockets : Home[s] = p /\ ready[s] = "ending" /\ PeersOf(s) # {} /\ ~Several(s)}

GaugeInv == \A p \in Procs : gauge[p] + Cardinality(ManyNamed(p)) >= Cardinality(Owed(p))

LEMMA SetsFinite ==
    ASSUME IsFiniteSet(Sockets), NEW p
    PROVE  /\ IsFiniteSet(Owed(p)) /\ Cardinality(Owed(p)) \in Nat
           /\ IsFiniteSet(ManyNamed(p)) /\ Cardinality(ManyNamed(p)) \in Nat
<1>1. Owed(p) \subseteq Sockets /\ ManyNamed(p) \subseteq Sockets
  BY DEF Owed, Live, ManyNamed
<1>2. QED
  BY <1>1, FS_Subset, FS_CardinalityType

\* Where nothing more is owed, no name is lost and the gauge stays, it stays
\* high enough.
LEMMA GaugeStays ==
    ASSUME IsFiniteSet(Sockets), GaugeInv, TypeOK, NEW p \in Procs,
           Owed(p)' \subseteq Owed(p), ManyNamed(p) \subseteq ManyNamed(p)',
           ManyNamed(p)' \subseteq Sockets, gauge'[p] = gauge[p]
    PROVE  gauge'[p] + Cardinality(ManyNamed(p)') >= Cardinality(Owed(p)')
<1>1. Cardinality(Owed(p)') <= Cardinality(Owed(p)) /\ Cardinality(Owed(p)') \in Nat
  BY SetsFinite, FS_Subset, FS_CardinalityType
<1>2. Cardinality(ManyNamed(p)) <= Cardinality(ManyNamed(p)') /\ Cardinality(ManyNamed(p)') \in Nat
  <2>1. IsFiniteSet(ManyNamed(p)')
    BY FS_Subset
  <2>2. QED
    BY <2>1, FS_Subset, FS_CardinalityType
<1>3. /\ gauge[p] \in Int /\ gauge[p] + Cardinality(ManyNamed(p)) >= Cardinality(Owed(p))
      /\ Cardinality(Owed(p)) \in Nat /\ Cardinality(ManyNamed(p)) \in Nat
  BY SetsFinite DEF GaugeInv, TypeOK
<1>4. QED
  BY <1>1, <1>2, <1>3

\* Where one entry less is owed, or one more connection has several names, the
\* gauge may go down by one.
LEMMA GaugeDown ==
    ASSUME IsFiniteSet(Sockets), GaugeInv, TypeOK, NEW p \in Procs, NEW s \in Sockets,
           gauge'[p] = gauge[p] - 1,
           ManyNamed(p) \subseteq ManyNamed(p)', ManyNamed(p)' \subseteq Sockets,
           Owed(p)' \subseteq Owed(p),
           \/ s \in Owed(p) /\ s \notin Owed(p)'
           \/ s \notin ManyNamed(p) /\ s \in ManyNamed(p)'
    PROVE  gauge'[p] + Cardinality(ManyNamed(p)') >= Cardinality(Owed(p)')
<1>1. /\ gauge[p] \in Int /\ gauge[p] + Cardinality(ManyNamed(p)) >= Cardinality(Owed(p))
      /\ IsFiniteSet(Owed(p)) /\ Cardinality(Owed(p)) \in Nat
      /\ IsFiniteSet(ManyNamed(p)) /\ Cardinality(ManyNamed(p)) \in Nat
  BY SetsFinite DEF GaugeInv, TypeOK
<1>2. /\ IsFiniteSet(ManyNamed(p)') /\ Cardinality(ManyNamed(p)') \in Nat
      /\ Cardinality(ManyNamed(p)) <= Cardinality(ManyNamed(p)')
  <2>1. IsFiniteSet(ManyNamed(p)')
    BY FS_Subset
  <2>2. QED
    BY <2>1, FS_Subset, FS_CardinalityType
<1>3. /\ IsFiniteSet(Owed(p)') /\ Cardinality(Owed(p)') \in Nat
      /\ Cardinality(Owed(p)') <= Cardinality(Owed(p))
  <2>1. IsFiniteSet(Owed(p)')
    BY <1>1, FS_Subset
  <2>2. QED
    BY <1>1, <2>1, FS_Subset, FS_CardinalityType
<1>4. CASE s \in Owed(p) /\ s \notin Owed(p)'
  <2>1. Owed(p)' \subseteq Owed(p) \ {s}
    BY <1>4
  <2>2. /\ IsFiniteSet(Owed(p) \ {s})
        /\ Cardinality(Owed(p) \ {s}) = Cardinality(Owed(p)) - 1
    BY <1>1, <1>4, FS_RemoveElement
  <2>3. Cardinality(Owed(p)') <= Cardinality(Owed(p) \ {s})
    BY <2>1, <2>2, FS_Subset
  <2>4. QED
    BY <1>1, <1>2, <1>3, <2>2, <2>3
<1>5. CASE s \notin ManyNamed(p) /\ s \in ManyNamed(p)'
  <2>1. ManyNamed(p) \cup {s} \subseteq ManyNamed(p)'
    BY <1>5
  <2>2. Cardinality(ManyNamed(p) \cup {s}) = Cardinality(ManyNamed(p)) + 1
    BY <1>1, <1>5, FS_AddElement
  <2>3. Cardinality(ManyNamed(p) \cup {s}) <= Cardinality(ManyNamed(p)')
    BY <1>2, <2>1, FS_Subset
  <2>4. QED
    BY <1>1, <1>2, <1>3, <2>2, <2>3
<1>6. QED
  BY <1>4, <1>5

\* A socket of one name that ends holds nothing after it.
LEMMA LastTaken ==
    ASSUME RegistryInv, NEW s \in Sockets, HandleDisconnect(s), ~Several(s)
    PROVE  PeersOf(s)' = {}
<1>1. \A id, other \in PeersOf(s) : id = other
  BY OnlyNamed DEF Several
<1>2. QED
  BY <1>1, OneTaken

LEMMA GaugeStep ==
    ASSUME IsFiniteSet(Sockets), RegistryInv, GaugeInv, [Next]_vars
    PROVE  GaugeInv'
<1>1. /\ DOMAIN peers = Procs /\ Home \in [Sockets -> Procs] /\ ready \in [Sockets -> States]
      /\ gauge \in [Procs -> Int] /\ named \in [Sockets -> SUBSET PeerIds] /\ TypeOK
  BY GatewayAssumption DEF RegistryInv, TypeOK, LeadsHome
<1>n. \A p : ManyNamed(p)' \subseteq Sockets
  BY DEF ManyNamed
<1>s. ASSUME UNCHANGED gauge, \A p \in Procs : Owed(p)' \subseteq Owed(p),
             \A p \in Procs : ManyNamed(p) \subseteq ManyNamed(p)'
      PROVE  GaugeInv'
  BY <1>1, <1>n, <1>s, GaugeStays DEF GaugeInv
<1>2. ASSUME NEW s \in Sockets, HandleConnection(s)
      PROVE  GaugeInv'
  <2>1. /\ gauge' = [gauge EXCEPT ![Home[s]] = @ + 1]
        /\ ready' = [ready EXCEPT ![s] = "open"] /\ ready[s] = "none"
        /\ UNCHANGED <<peers, named>>
    BY <1>2 DEF HandleConnection
  <2>2. \A p \in Procs : ManyNamed(p)' = ManyNamed(p)
    BY <1>1, <2>1 DEF ManyNamed, Several
  <2>3. ASSUME NEW p \in Procs
        PROVE  gauge'[p] + Cardinality(ManyNamed(p)') >= Cardinality(Owed(p)')
    <3>1. CASE p = Home[s]
      <4>1. Owed(p)' \subseteq Owed(p) \cup {s}
        BY <1>1, <2>1 DEF Owed, Live, PeersOf, Several
      <4>2. /\ IsFiniteSet(Owed(p) \cup {s})
            /\ Cardinality(Owed(p) \cup {s}) <= Cardinality(Owed(p)) + 1
            /\ Cardinality(Owed(p)) \in Nat
        <5>1. IsFiniteSet(Owed(p)) /\ Cardinality(Owed(p)) \in Nat
          BY SetsFinite
        <5>2. /\ IsFiniteSet(Owed(p) \cup {s})
              /\ \/ Cardinality(Owed(p) \cup {s}) = Cardinality(Owed(p))
                 \/ Cardinality(Owed(p) \cup {s}) = Cardinality(Owed(p)) + 1
          BY <5>1, FS_AddElement
        <5>3. QED
          BY <5>1, <5>2
      <4>3. Cardinality(Owed(p)') <= Cardinality(Owed(p) \cup {s})
        BY <4>1, <4>2, FS_Subset
      <4>4. Cardinality(Owed(p)') \in Nat /\ Cardinality(Owed(p) \cup {s}) \in Nat
        BY <4>1, <4>2, FS_Subset, FS_CardinalityType
      <4>5. /\ gauge[p] \in Int /\ gauge'[p] = gauge[p] + 1
            /\ gauge[p] + Cardinality(ManyNamed(p)) >= Cardinality(Owed(p))
            /\ Cardinality(ManyNamed(p)) \in Nat
        BY <1>1, <2>1, <3>1, SetsFinite DEF GaugeInv
      <4>6. QED
        BY <2>2, <4>2, <4>3, <4>4, <4>5
    <3>2. CASE p # Home[s]
      <4>1. Owed(p)' \subseteq Owed(p)
        BY <1>1, <2>1, <3>2 DEF Owed, Live, PeersOf, Several
      <4>2. gauge'[p] = gauge[p]
        BY <1>1, <2>1, <3>2
      <4>3. QED
        BY <1>1, <1>n, <2>2, <4>1, <4>2, GaugeStays
    <3>3. QED
      BY <3>1, <3>2
  <2>4. QED
    BY <2>3 DEF GaugeInv
<1>3. ASSUME NEW s \in Sockets, Rejected(s) \/ Relay(s)
      PROVE  GaugeInv'
  <2>1. UNCHANGED <<gauge, peers, ready, named>>
    BY <1>3 DEF Rejected, Relay
  <2>2. \A p \in Procs : Owed(p)' = Owed(p) /\ ManyNamed(p)' = ManyNamed(p)
    BY <2>1 DEF Owed, Live, PeersOf, ManyNamed, Several
  <2>3. QED
    BY <1>s, <2>1, <2>2
<1>4. ASSUME NEW s \in Sockets, Ends(s)
      PROVE  GaugeInv'
  <2>1. /\ UNCHANGED <<gauge, peers, named>>
        /\ ready' = [ready EXCEPT ![s] = "ending"] /\ ready[s] \in {"open", "closing"}
    BY <1>4 DEF Ends
  <2>2. \A p \in Procs : Owed(p)' \subseteq Owed(p) /\ ManyNamed(p)' = ManyNamed(p)
    BY <1>1, <2>1 DEF Owed, Live, PeersOf, ManyNamed, Several
  <2>3. QED
    BY <1>s, <2>1, <2>2
<1>5. ASSUME NEW s \in Sockets, HandleHandshakeInit(s)
      PROVE  GaugeInv'
  <2>1. PICK id \in Ids[s] :
          /\ Message(s, id, TRUE)
          /\ peers' = [peers EXCEPT ![Home[s]] = Put(@, id, s)]
          /\ named' = [named EXCEPT ![s] = @ \cup {id}]
    BY <1>5 DEF HandleHandshakeInit
  <2>2. UNCHANGED <<gauge, ready>> /\ ready[s] \in {"open", "closing"}
    BY <1>5, <2>1 DEF HandleHandshakeInit, Message
  <2>3. \A t \in Sockets : t # s => PeersOf(t)' \subseteq PeersOf(t) /\ named'[t] = named[t]
    BY <1>1, <2>1 DEF PeersOf, Put
  <2>4. \A p \in Procs : Owed(p)' \subseteq Owed(p)
    BY <2>2, <2>3 DEF Owed, Live, Several
  <2>5. \A p \in Procs : ManyNamed(p)' = ManyNamed(p)
    BY <2>2, <2>3 DEF ManyNamed, Several
  <2>6. QED
    BY <1>s, <2>2, <2>4, <2>5
<1>6. ASSUME NEW s \in Sockets, ErrorEvent(s) \/ CloseEvent(s)
      PROVE  GaugeInv'
  <2>1. /\ HandleDisconnect(s) /\ UNCHANGED named
        /\ ready' = [ready EXCEPT ![s] = "ending"] \/ ready' = [ready EXCEPT ![s] = "closed"]
        /\ ready[s] \in {"open", "closing", "ending"}
        /\ ready'[s] = "ending" => ready[s] \in {"open", "closing"}
    BY <1>1, <1>6 DEF ErrorEvent, CloseEvent
  <2>2. /\ ready'[s] \in {"ending", "closed"}
        /\ \A t \in Sockets : t # s => ready'[t] = ready[t] /\ PeersOf(t)' = PeersOf(t)
    BY <1>1, <2>1, OneTaken
  <2>3. ~Several(s) => PeersOf(s)' = {}
    BY <2>1, LastTaken
  <2>4. \A t \in Sockets : Several(t)' = Several(t)
    BY <2>1 DEF Several
  <2>5. \A p \in Procs : s \notin Owed(p)'
    BY <2>2, <2>3, <2>4 DEF Owed, Live
  <2>6. \A p \in Procs : Owed(p)' \subseteq Owed(p)
    BY <2>2, <2>4, <2>5 DEF Owed, Live
  <2>7. \A p \in Procs : ManyNamed(p) \subseteq ManyNamed(p)'
    BY <2>1, <2>2, <2>4 DEF ManyNamed
  <2>8. CASE PeersOf(s) = {}
    BY <1>s, <2>1, <2>6, <2>7, <2>8 DEF HandleDisconnect
  <2>9. CASE PeersOf(s) # {}
    <3>1. gauge' = [gauge EXCEPT ![Home[s]] = @ - 1]
      BY <2>1, <2>9 DEF HandleDisconnect
    <3>2. ASSUME NEW p \in Procs
          PROVE  gauge'[p] + Cardinality(ManyNamed(p)') >= Cardinality(Owed(p)')
      <4>1. CASE p = Home[s]
        <5>1. gauge'[p] = gauge[p] - 1
          BY <1>1, <3>1, <4>1
        <5>2. CASE ready[s] \in {"open", "closing"} \/ ~Several(s)
          <6>1. s \in Owed(p)
            BY <2>1, <2>9, <4>1, <5>2 DEF Owed, Live
          <6>2. QED
            BY <1>1, <1>n, <2>5, <2>6, <2>7, <5>1, <6>1, GaugeDown
        <5>3. CASE ready[s] = "ending" /\ Several(s)
          <6>1. ready'[s] = "closed"
            BY <2>1, <2>2, <5>3
          <6>2. s \notin ManyNamed(p) /\ s \in ManyNamed(p)'
            BY <2>4, <4>1, <5>3, <6>1 DEF ManyNamed
          <6>3. QED
            BY <1>1, <1>n, <2>6, <2>7, <5>1, <6>2, GaugeDown
        <5>4. QED
          BY <2>1, <5>2, <5>3
      <4>2. CASE p # Home[s]
        <5>1. gauge'[p] = gauge[p]
          BY <1>1, <3>1, <4>2
        <5>2. QED
          BY <1>1, <1>n, <2>6, <2>7, <5>1, GaugeStays
      <4>3. QED
        BY <4>1, <4>2
    <3>3. QED
      BY <3>2 DEF GaugeInv
  <2>10. QED
    BY <2>8, <2>9
<1>7. ASSUME NEW p \in Procs, OnModuleDestroy(p)
      PROVE  GaugeInv'
  <2>1. /\ peers' = [peers EXCEPT ![p] = EmptyMap]
        /\ UNCHANGED <<gauge, named>>
        /\ \A t \in Sockets :
             ready'[t] = ready[t] \/ (ready[t] = "open" /\ ready'[t] = "closing")
    BY <1>7 DEF OnModuleDestroy
  <2>2. DOMAIN EmptyMap = {}
    BY DEF EmptyMap
  <2>3. \A t \in Sockets : PeersOf(t)' \subseteq PeersOf(t)
    BY <1>1, <2>1, <2>2 DEF PeersOf
  <2>4. \A q \in Procs : Owed(q)' \subseteq Owed(q)
    BY <2>1, <2>3 DEF Owed, Live, Several
  <2>5. \A q \in Procs : ManyNamed(q) \subseteq ManyNamed(q)'
    BY <2>1 DEF ManyNamed, Several
  <2>6. QED
    BY <1>s, <2>1, <2>4, <2>5
<1>8. ASSUME UNCHANGED <<ready, peers, gauge, named>>
      PROVE  GaugeInv'
  <2>1. \A q \in Procs : Owed(q)' = Owed(q) /\ ManyNamed(q)' = ManyNamed(q)
    BY <1>8 DEF Owed, Live, PeersOf, ManyNamed, Several
  <2>2. QED
    BY <1>s, <1>8, <2>1
<1>9. ASSUME NEW p \in Procs, HandleCrossProcessMessage(p) \/ WssClosed(p)
      PROVE  GaugeInv'
  BY <1>8, <1>9 DEF HandleCrossProcessMessage, WssClosed
<1>10. QED
  BY <1>2, <1>3, <1>4, <1>5, <1>6, <1>7, <1>8, <1>9 DEF Next, vars

\* The gauges undercount the live connections by one at most for each closed
\* one on which several ids were registered, for any number of processes,
\* sockets and ids.
THEOREM GaugesCover ==
    ASSUME IsFiniteSet(Sockets)
    PROVE  Spec => []GaugeCoversConnections
<1>1. Init => GaugeInv
  <2> SUFFICES ASSUME Init, NEW p \in Procs
               PROVE  gauge[p] + Cardinality(ManyNamed(p)) >= Cardinality(Owed(p))
    BY DEF GaugeInv
  <2>1. Owed(p) = {} /\ ManyNamed(p) = {}
    BY DEF Init, Owed, Live, ManyNamed
  <2>2. Cardinality(Owed(p)) = 0 /\ Cardinality(ManyNamed(p)) = 0
    BY <2>1, FS_EmptySet
  <2>3. QED
    BY <2>2 DEF Init
<1>2. RegistryInv /\ GaugeInv /\ [Next]_vars => GaugeInv'
  BY GaugeStep
<1>3. TypeOK /\ GaugeInv => GaugeCoversConnections
  <2> SUFFICES ASSUME TypeOK, GaugeInv, NEW p \in Procs
               PROVE  gauge[p] + Cardinality(ManyNamed(p)) >= Cardinality(Live(p))
    BY DEF GaugeCoversConnections
  <2>1. Live(p) \subseteq Owed(p)
    BY DEF Owed
  <2>2. IsFiniteSet(Live(p)) /\ Cardinality(Live(p)) <= Cardinality(Owed(p))
    BY <2>1, SetsFinite, FS_Subset
  <2>3. /\ Cardinality(Live(p)) \in Nat /\ Cardinality(Owed(p)) \in Nat
        /\ Cardinality(ManyNamed(p)) \in Nat /\ gauge[p] \in Int
    BY <2>2, SetsFinite, FS_CardinalityType DEF TypeOK
  <2>4. gauge[p] + Cardinality(ManyNamed(p)) >= Cardinality(Owed(p))
    BY DEF GaugeInv
  <2>5. QED
    BY <2>2, <2>3, <2>4
<1>4. QED
  BY <1>1, <1>2, <1>3, RegistryHolds, TypeCorrect, PTL DEF Spec

-----------------------------------------------------------------------------
(* Delivery. *)

\* What is on its way or has arrived was sent.
Numbered ==
    /\ \A t \in Sockets : \A i \in DOMAIN inbox[t] : inbox[t][i].n <= sent
    /\ \A p \in Procs : \A k \in DOMAIN bus[p] : bus[p][k].msg.n <= sent

\* The process of the sender publishes.
OwnEnvelopes ==
    \A p \in Procs : \A k \in DOMAIN bus[p] : bus[p][k].from = Home[bus[p][k].msg.origin]

\* Each process receives the envelopes in the order they were published.
BusAscends ==
    \A p \in Procs : \A k, l \in DOMAIN bus[p] : k < l => bus[p][k].msg.n < bus[p][l].msg.n

\* What a socket has from another process is older than what is on its way to it.
BusAfterInbox ==
    \A t \in Sockets : \A i \in DOMAIN inbox[t] : \A k \in DOMAIN bus[Home[t]] :
        Home[inbox[t][i].origin] # Home[t] => inbox[t][i].n < bus[Home[t]][k].msg.n

\* What was written to a socket directly is on its way to no process.
DirectStaysHome ==
    \A t \in Sockets : \A i \in DOMAIN inbox[t] :
        Home[inbox[t][i].origin] = Home[t] =>
            \A p \in Procs : \A k \in DOMAIN bus[p] : bus[p][k].msg.n # inbox[t][i].n

\* RouteIsExclusive, without counting.
Distinct(a, b, c) == a # b /\ a # c /\ b # c
Exclusive ==
    \A t, u \in Sockets : \A i \in DOMAIN inbox[t], j \in DOMAIN inbox[u] :
        (t # u /\ inbox[t][i] = inbox[u][j]) =>
            Distinct(Home[t], Home[u], Home[inbox[t][i].origin])

RouteInv == OwnEnvelopes /\ BusAscends /\ BusAfterInbox /\ DirectStaysHome
DeliveryInv == TypeOK /\ Numbered /\ RouteInv /\ InOrderOnce /\ Exclusive

\* What a sequence holds after it may have been appended to.
LEMMA MayAppend ==
    ASSUME NEW S, NEW q \in Seq(S), NEW m \in S, NEW r, r = q \/ r = Append(q, m)
    PROVE  \A i \in DOMAIN r :
             /\ i \in Nat
             /\ \/ i \in DOMAIN q /\ r[i] = q[i]
                \/ i = Len(q) + 1 /\ r[i] = m
             /\ \A h \in DOMAIN r : h < i => h \in DOMAIN q /\ r[h] = q[h]
<1>1. CASE r = q
  BY <1>1
<1>2. CASE r = Append(q, m)
  BY <1>2
<1>3. QED
  BY <1>1, <1>2

\* The messages and envelopes, as far as the numbers are concerned.
LEMMA Contents ==
    ASSUME TypeOK
    PROVE  /\ sent \in Nat
           /\ \A t \in Sockets : /\ Home[t] \in Procs
                                 /\ inbox[t] \in Seq(Messages)
                                 /\ \A i \in DOMAIN inbox[t] : inbox[t][i] \in Messages
           /\ \A p \in Procs : /\ bus[p] \in Seq(Envelopes)
                               /\ \A k \in DOMAIN bus[p] : bus[p][k] \in Envelopes
           /\ \A m \in Messages : m.n \in Nat /\ m.origin \in Sockets
           /\ \A e \in Envelopes : e.msg \in Messages
<1>1. /\ sent \in 0 .. MAX_MESSAGES
      /\ bus \in [Procs -> Seq(Envelopes)] /\ inbox \in [Sockets -> Seq(Messages)]
  BY DEF TypeOK
<1>2. sent \in Nat
  BY <1>1
<1>3. /\ \A m \in Messages : m.n \in Nat /\ m.origin \in Sockets
      /\ \A e \in Envelopes : e.msg \in Messages
  BY DEF Messages, Envelopes
<1>4. \A t \in Sockets : inbox[t] \in Seq(Messages) /\ \A i \in DOMAIN inbox[t] : inbox[t][i] \in Messages
  BY <1>1
<1>5. \A p \in Procs : bus[p] \in Seq(Envelopes) /\ \A k \in DOMAIN bus[p] : bus[p][k] \in Envelopes
  BY <1>1
<1>6. QED
  BY <1>2, <1>3, <1>4, <1>5, GatewayAssumption

\* Nothing is relayed: numbers only grow.
LEMMA QuietStep ==
    ASSUME DeliveryInv, TypeOK', UNCHANGED <<inbox, bus>>, sent' >= sent
    PROVE  DeliveryInv'
<1>1. sent \in Nat /\ sent' \in Nat
  BY DEF DeliveryInv, TypeOK
<1>2. Numbered'
  BY <1>1, Contents DEF DeliveryInv, Numbered
<1>3. RouteInv' /\ InOrderOnce' /\ Exclusive'
  BY DEF DeliveryInv, RouteInv, OwnEnvelopes, BusAscends, BusAfterInbox, DirectStaysHome,
         InOrderOnce, Exclusive
<1>4. QED
  BY <1>2, <1>3 DEF DeliveryInv

\* A message goes to a socket of the sender's process.
LEMMA DirectStep ==
    ASSUME DeliveryInv, TypeOK', NEW s \in Sockets, NEW t \in Sockets, Home[t] = Home[s],
           NEW m \in Messages, m.n = sent + 1, m.origin = s,
           Send(t, m), sent' = sent + 1, UNCHANGED bus
    PROVE  DeliveryInv'
<1>1. /\ inbox'[t] = inbox[t] \/ inbox'[t] = Append(inbox[t], m)
      /\ \A u \in Sockets : u # t => inbox'[u] = inbox[u]
  BY DEF Send, DeliveryInv, TypeOK
<1>2. TypeOK /\ sent \in Nat /\ inbox[t] \in Seq(Messages)
  BY Contents DEF DeliveryInv
<1>3. \A u \in Sockets : \A i \in DOMAIN inbox'[u] :
        \/ i \in DOMAIN inbox[u] /\ inbox'[u][i] = inbox[u][i]
        \/ u = t /\ i = Len(inbox[t]) + 1 /\ inbox'[u][i] = m
  BY <1>1, <1>2, MayAppend
<1>4. \A u \in Sockets : \A i \in DOMAIN inbox[u] : inbox[u][i].n <= sent /\ inbox[u][i].n \in Nat
  BY <1>2, Contents DEF DeliveryInv, Numbered
<1>5. \A p \in Procs : \A k \in DOMAIN bus[p] : bus[p][k].msg.n <= sent /\ bus[p][k].msg.n \in Nat
  BY <1>2, Contents DEF DeliveryInv, Numbered
<1>6. Numbered'
  BY <1>2, <1>3, <1>4, <1>5 DEF Numbered
<1>7. OwnEnvelopes' /\ BusAscends'
  BY DEF DeliveryInv, RouteInv, OwnEnvelopes, BusAscends
<1>8. BusAfterInbox'
  BY <1>3 DEF DeliveryInv, RouteInv, BusAfterInbox
<1>9. DirectStaysHome'
  BY <1>2, <1>3, <1>5 DEF DeliveryInv, RouteInv, DirectStaysHome
<1>10. InOrderOnce'
  <2> SUFFICES ASSUME NEW u \in Sockets, NEW i \in DOMAIN inbox'[u], NEW j \in DOMAIN inbox'[u],
                      i < j, inbox'[u][i].origin = inbox'[u][j].origin
               PROVE  inbox'[u][i].n < inbox'[u][j].n
    BY DEF InOrderOnce
  <2>1. i \in DOMAIN inbox[u] /\ inbox'[u][i] = inbox[u][i]
    BY <1>1, <1>2, MayAppend
  <2>2. CASE j \in DOMAIN inbox[u] /\ inbox'[u][j] = inbox[u][j]
    BY <2>1, <2>2 DEF DeliveryInv, InOrderOnce
  <2>3. CASE inbox'[u][j] = m
    BY <1>2, <1>4, <2>1, <2>3
  <2>4. QED
    BY <1>3, <2>2, <2>3
<1>11. Exclusive'
  <2> SUFFICES ASSUME NEW u \in Sockets, NEW v \in Sockets,
                      NEW i \in DOMAIN inbox'[u], NEW j \in DOMAIN inbox'[v],
                      u # v, inbox'[u][i] = inbox'[v][j]
               PROVE  Distinct(Home[u], Home[v], Home[inbox'[u][i].origin])
    BY DEF Exclusive
  <2>1. CASE /\ i \in DOMAIN inbox[u] /\ inbox'[u][i] = inbox[u][i]
             /\ j \in DOMAIN inbox[v] /\ inbox'[v][j] = inbox[v][j]
    BY <2>1 DEF DeliveryInv, Exclusive
  <2>2. CASE \/ u = t /\ inbox'[u][i] = m /\ j \in DOMAIN inbox[v] /\ inbox'[v][j] = inbox[v][j]
             \/ v = t /\ inbox'[v][j] = m /\ i \in DOMAIN inbox[u] /\ inbox'[u][i] = inbox[u][i]
    BY <1>2, <1>4, <2>2
  <2>3. QED
    BY <1>3, <2>1, <2>2
<1>12. QED
  BY <1>6, <1>7, <1>8, <1>9, <1>10, <1>11 DEF DeliveryInv, RouteInv

\* A message is published by the sender's process.
LEMMA PublishStep ==
    ASSUME DeliveryInv, TypeOK', NEW s \in Sockets, NEW to \in PeerIds,
           NEW m \in Messages, m.n = sent + 1, m.origin = s,
           PublishToRedis(Home[s], to, m), sent' = sent + 1, UNCHANGED inbox
    PROVE  DeliveryInv'
<1> DEFINE e == [from |-> Home[s], to |-> to, msg |-> m]
<1>1. e \in Envelopes /\ e.msg = m /\ e.from = Home[s]
  BY GatewayAssumption DEF Envelopes
<1>2. \A p \in Procs : bus'[p] = bus[p] \/ bus'[p] = Append(bus[p], e)
  BY DEF PublishToRedis
<1> HIDE DEF e
<1>3. /\ TypeOK /\ sent \in Nat /\ \A p \in Procs : bus[p] \in Seq(Envelopes)
      /\ \A u \in Sockets : Home[u] \in Procs
  BY Contents DEF DeliveryInv
<1>4. \A p \in Procs : \A k \in DOMAIN bus'[p] :
        /\ \/ k \in DOMAIN bus[p] /\ bus'[p][k] = bus[p][k]
           \/ bus'[p][k] = e
        /\ \A h \in DOMAIN bus'[p] : h < k => h \in DOMAIN bus[p] /\ bus'[p][h] = bus[p][h]
  <2> SUFFICES ASSUME NEW p \in Procs
               PROVE  \A k \in DOMAIN bus'[p] :
                        /\ \/ k \in DOMAIN bus[p] /\ bus'[p][k] = bus[p][k]
                           \/ bus'[p][k] = e
                        /\ \A h \in DOMAIN bus'[p] :
                             h < k => h \in DOMAIN bus[p] /\ bus'[p][h] = bus[p][h]
    OBVIOUS
  <2>1. bus[p] \in Seq(Envelopes)
    BY <1>3
  <2>2. bus'[p] = bus[p] \/ bus'[p] = Append(bus[p], e)
    BY <1>2
  <2>3. \A i \in DOMAIN bus'[p] :
           /\ i \in Nat
           /\ \/ i \in DOMAIN bus[p] /\ bus'[p][i] = bus[p][i]
              \/ i = Len(bus[p]) + 1 /\ bus'[p][i] = e
           /\ \A h \in DOMAIN bus'[p] : h < i => h \in DOMAIN bus[p] /\ bus'[p][h] = bus[p][h]
    BY <1>1, <2>1, <2>2, MayAppend
  <2>4. QED
    BY <2>3, Zenon
<1>5. \A u \in Sockets : \A i \in DOMAIN inbox[u] : inbox[u][i].n <= sent /\ inbox[u][i].n \in Nat
  BY <1>3, Contents DEF DeliveryInv, Numbered
<1>6. \A p \in Procs : \A k \in DOMAIN bus[p] : bus[p][k].msg.n <= sent /\ bus[p][k].msg.n \in Nat
  BY <1>3, Contents DEF DeliveryInv, Numbered
<1>7. Numbered'
  BY <1>1, <1>3, <1>4, <1>5, <1>6 DEF Numbered
<1>8. OwnEnvelopes'
  BY <1>1, <1>4 DEF DeliveryInv, RouteInv, OwnEnvelopes
<1>9. BusAscends'
  <2> SUFFICES ASSUME NEW p \in Procs, NEW k \in DOMAIN bus'[p], NEW l \in DOMAIN bus'[p], k < l
               PROVE  bus'[p][k].msg.n < bus'[p][l].msg.n
    BY DEF BusAscends
  <2>1. k \in DOMAIN bus[p] /\ bus'[p][k] = bus[p][k]
    BY <1>4
  <2>2. CASE l \in DOMAIN bus[p] /\ bus'[p][l] = bus[p][l]
    BY <2>1, <2>2 DEF DeliveryInv, RouteInv, BusAscends
  <2>3. CASE bus'[p][l] = e
    BY <1>1, <1>3, <1>6, <2>1, <2>3
  <2>4. QED
    BY <1>4, <2>2, <2>3
<1>10. BusAfterInbox'
  <2> SUFFICES ASSUME NEW t \in Sockets, NEW i \in DOMAIN inbox[t], NEW k \in DOMAIN bus'[Home[t]],
                      Home[inbox[t][i].origin] # Home[t]
               PROVE  inbox[t][i].n < bus'[Home[t]][k].msg.n
    BY DEF BusAfterInbox
  <2>1. CASE k \in DOMAIN bus[Home[t]] /\ bus'[Home[t]][k] = bus[Home[t]][k]
    BY <2>1 DEF DeliveryInv, RouteInv, BusAfterInbox
  <2>2. CASE bus'[Home[t]][k] = e
    BY <1>1, <1>3, <1>5, <2>2
  <2>3. QED
    BY <1>3, <1>4, <2>1, <2>2
<1>11. DirectStaysHome'
  <2> SUFFICES ASSUME NEW t \in Sockets, NEW i \in DOMAIN inbox[t], Home[inbox[t][i].origin] = Home[t],
                      NEW p \in Procs, NEW k \in DOMAIN bus'[p]
               PROVE  bus'[p][k].msg.n # inbox[t][i].n
    BY DEF DirectStaysHome
  <2>1. CASE k \in DOMAIN bus[p] /\ bus'[p][k] = bus[p][k]
    BY <2>1 DEF DeliveryInv, RouteInv, DirectStaysHome
  <2>2. CASE bus'[p][k] = e
    BY <1>1, <1>3, <1>5, <2>2
  <2>3. QED
    BY <1>4, <2>1, <2>2
<1>12. InOrderOnce' /\ Exclusive'
  BY DEF DeliveryInv, InOrderOnce, Exclusive
<1>13. QED
  BY <1>7, <1>8, <1>9, <1>10, <1>11, <1>12 DEF DeliveryInv, RouteInv

\* A process takes the oldest envelope from Redis, for a socket of its own or
\* for none.
LEMMA CrossStep ==
    ASSUME DeliveryInv, TypeOK', NEW p \in Procs, HandleCrossProcessMessage(p)
    PROVE  DeliveryInv'
<1> DEFINE e == Head(bus[p])
           m == e.msg
<1>1. /\ TypeOK /\ sent \in Nat /\ UNCHANGED sent
      /\ bus[p] \in Seq(Envelopes) /\ bus[p] # <<>>
      /\ bus' = [bus EXCEPT ![p] = Tail(@)]
      /\ DOMAIN bus = Procs
  BY Contents DEF DeliveryInv, HandleCrossProcessMessage, TypeOK
<1>2. 1 \in DOMAIN bus[p] /\ e = bus[p][1]
  BY <1>1
<1>3. \A q \in Procs : \A k \in DOMAIN bus'[q] :
        LET b == IF q = p THEN k + 1 ELSE k
        IN  k \in Nat /\ b \in DOMAIN bus[q] /\ bus'[q][k] = bus[q][b]
  <2>1. \A k \in DOMAIN bus'[p] : k \in Nat /\ k + 1 \in DOMAIN bus[p] /\ bus'[p][k] = bus[p][k + 1]
    BY <1>1
  <2>2. \A q \in Procs : bus[q] \in Seq(Envelopes)
    BY <1>1, Contents
  <2>3. \A q \in Procs : q # p => bus'[q] = bus[q]
    BY <1>1
  <2>4. \A q \in Procs : \A k \in DOMAIN bus[q] : k \in Nat
    BY <2>2
  <2>5. QED
    BY <2>1, <2>3, <2>4
<1>4. m \in Messages /\ m.n \in Nat /\ m.origin \in Sockets
  BY <1>1, <1>2, Contents
<1>5. m.n <= sent /\ e.from = Home[m.origin]
  BY <1>2 DEF DeliveryInv, Numbered, RouteInv, OwnEnvelopes
<1>6. /\ \A u \in Sockets : \A i \in DOMAIN inbox[u] : inbox[u][i].n <= sent /\ inbox[u][i].n \in Nat
      /\ \A q \in Procs : \A k \in DOMAIN bus[q] : bus[q][k].msg.n <= sent /\ bus[q][k].msg.n \in Nat
      /\ \A u \in Sockets : Home[u] \in Procs /\ inbox[u] \in Seq(Messages)
  BY <1>1, Contents DEF DeliveryInv, Numbered
<1>7. ASSUME NEW k \in DOMAIN bus'[p]
      PROVE  m.n < bus'[p][k].msg.n
  <2>1. k + 1 \in DOMAIN bus[p] /\ bus'[p][k] = bus[p][k + 1]
    BY <1>3, <1>7
  <2>2. 1 < k + 1
    <3>1. k \in Nat \ {0}
      BY <1>1, <1>7
    <3>2. QED
      BY <3>1
  <2>3. BusAscends
    BY DEF DeliveryInv, RouteInv
  <2>4. bus[p][1].msg.n < bus[p][k + 1].msg.n
    BY <1>2, <2>1, <2>2, <2>3 DEF BusAscends
  <2>5. QED
    BY <1>2, <2>1, <2>4
\* One inbox may grow, by this message.
<1>8. \/ UNCHANGED inbox
      \/ \E t \in Sockets :
           /\ Home[t] = p
           /\ \A u \in Sockets : u # t => inbox'[u] = inbox[u]
           /\ \/ inbox'[t] = inbox[t]
              \/ inbox'[t] = Append(inbox[t], m) /\ Home[m.origin] # p
  <2>1. CASE e.from # p /\ e.to \in DOMAIN peers[p]
    <3>1. peers[p][e.to] \in Sockets /\ Home[peers[p][e.to]] = p
      BY <1>1, <2>1 DEF TypeOK, LeadsHome
    <3>2. Send(peers[p][e.to], m)
      BY <2>1 DEF HandleCrossProcessMessage
    <3>3. Home[m.origin] # p
      BY <1>5, <2>1
    <3> HIDE DEF e, m
    <3>4. QED
      BY <1>1, <3>1, <3>2, <3>3 DEF Send, TypeOK
  <2>2. CASE ~(e.from # p /\ e.to \in DOMAIN peers[p])
    BY <2>2 DEF HandleCrossProcessMessage
  <2>3. QED
    BY <2>1, <2>2
<1> HIDE DEF e, m
<1>9. \A u \in Sockets : \A i \in DOMAIN inbox'[u] :
        /\ \/ i \in DOMAIN inbox[u] /\ inbox'[u][i] = inbox[u][i]
           \/ Home[u] = p /\ Home[m.origin] # p /\ inbox'[u][i] = m
        /\ \A h \in DOMAIN inbox'[u] : h < i => h \in DOMAIN inbox[u] /\ inbox'[u][h] = inbox[u][h]
  <2>1. CASE UNCHANGED inbox
    BY <2>1
  <2>2. CASE ~UNCHANGED inbox
    <3>1. PICK t \in Sockets :
            /\ Home[t] = p
            /\ \A u \in Sockets : u # t => inbox'[u] = inbox[u]
            /\ \/ inbox'[t] = inbox[t]
               \/ inbox'[t] = Append(inbox[t], m) /\ Home[m.origin] # p
      BY <1>8, <2>2
    <3>2. ASSUME NEW i \in DOMAIN inbox'[t]
          PROVE  /\ \/ i \in DOMAIN inbox[t] /\ inbox'[t][i] = inbox[t][i]
                    \/ Home[m.origin] # p /\ inbox'[t][i] = m
                 /\ \A h \in DOMAIN inbox'[t] : h < i =>
                       h \in DOMAIN inbox[t] /\ inbox'[t][h] = inbox[t][h]
      <4>1. CASE inbox'[t] = inbox[t]
        BY <4>1
      <4>2. CASE inbox'[t] = Append(inbox[t], m) /\ Home[m.origin] # p
        BY <1>4, <1>6, <4>2, MayAppend
      <4>3. QED
        BY <3>1, <4>1, <4>2
    <3>3. QED
      BY <3>1, <3>2
  <2>3. QED
    BY <2>1, <2>2
\* What p had from another process before is older than what it takes now.
<1>10. ASSUME NEW u \in Sockets, NEW i \in DOMAIN inbox[u], Home[u] = p, Home[inbox[u][i].origin] # p
       PROVE  inbox[u][i].n < m.n
  BY <1>2, <1>10 DEF DeliveryInv, RouteInv, BusAfterInbox, m
<1>11. Numbered'
  BY <1>1, <1>3, <1>5, <1>6, <1>9 DEF Numbered
<1>12. OwnEnvelopes'
  BY <1>3 DEF DeliveryInv, RouteInv, OwnEnvelopes
<1>13. BusAscends'
  BY <1>3 DEF DeliveryInv, RouteInv, BusAscends
<1>14. BusAfterInbox'
  <2> SUFFICES ASSUME NEW u \in Sockets, NEW i \in DOMAIN inbox'[u], NEW k \in DOMAIN bus'[Home[u]],
                      Home[inbox'[u][i].origin] # Home[u]
               PROVE  inbox'[u][i].n < bus'[Home[u]][k].msg.n
    BY DEF BusAfterInbox
  <2>1. CASE i \in DOMAIN inbox[u] /\ inbox'[u][i] = inbox[u][i]
    <3>1. PICK b \in DOMAIN bus[Home[u]] : bus'[Home[u]][k] = bus[Home[u]][b]
      BY <1>3, <1>6
    <3>2. BusAfterInbox
      BY DEF DeliveryInv, RouteInv
    <3>3. QED
      BY <2>1, <3>1, <3>2 DEF BusAfterInbox
  <2>2. CASE Home[u] = p /\ inbox'[u][i] = m
    BY <1>7, <2>2
  <2>3. QED
    BY <1>9, <2>1, <2>2
<1>15. DirectStaysHome'
  <2> SUFFICES ASSUME NEW u \in Sockets, NEW i \in DOMAIN inbox'[u], Home[inbox'[u][i].origin] = Home[u],
                      NEW q \in Procs, NEW k \in DOMAIN bus'[q]
               PROVE  bus'[q][k].msg.n # inbox'[u][i].n
    BY DEF DirectStaysHome
  <2>1. i \in DOMAIN inbox[u] /\ inbox'[u][i] = inbox[u][i]
    BY <1>9
  <2>2. QED
    BY <1>3, <2>1 DEF DeliveryInv, RouteInv, DirectStaysHome
<1>16. InOrderOnce'
  <2> SUFFICES ASSUME NEW u \in Sockets, NEW i \in DOMAIN inbox'[u], NEW j \in DOMAIN inbox'[u],
                      i < j, inbox'[u][i].origin = inbox'[u][j].origin
               PROVE  inbox'[u][i].n < inbox'[u][j].n
    BY DEF InOrderOnce
  <2>1. i \in DOMAIN inbox[u] /\ inbox'[u][i] = inbox[u][i]
    BY <1>9
  <2>2. CASE j \in DOMAIN inbox[u] /\ inbox'[u][j] = inbox[u][j]
    BY <2>1, <2>2 DEF DeliveryInv, InOrderOnce
  <2>3. CASE Home[u] = p /\ Home[m.origin] # p /\ inbox'[u][j] = m
    BY <1>10, <2>1, <2>3
  <2>4. QED
    BY <1>9, <2>2, <2>3
<1>17. Exclusive'
  \* The envelope is still on its way: the other socket cannot have it directly.
  <2>1. ASSUME NEW u \in Sockets, NEW v \in Sockets, Home[u] = p, Home[m.origin] # p,
               NEW j \in DOMAIN inbox[v], inbox[v][j] = m
        PROVE  Distinct(Home[u], Home[v], Home[m.origin])
    <3>1. Home[v] # p
      BY <1>4, <1>10, <2>1
    <3>2. Home[v] # Home[m.origin]
      BY <1>2, <2>1 DEF DeliveryInv, RouteInv, DirectStaysHome, m
    <3>3. QED
      BY <2>1, <3>1, <3>2 DEF Distinct
  <2> SUFFICES ASSUME NEW u \in Sockets, NEW v \in Sockets,
                      NEW i \in DOMAIN inbox'[u], NEW j \in DOMAIN inbox'[v],
                      u # v, inbox'[u][i] = inbox'[v][j]
               PROVE  Distinct(Home[u], Home[v], Home[inbox'[u][i].origin])
    BY DEF Exclusive
  <2>2. CASE /\ i \in DOMAIN inbox[u] /\ inbox'[u][i] = inbox[u][i]
             /\ j \in DOMAIN inbox[v] /\ inbox'[v][j] = inbox[v][j]
    BY <2>2 DEF DeliveryInv, Exclusive
  <2>3. CASE /\ Home[u] = p /\ Home[m.origin] # p /\ inbox'[u][i] = m
             /\ j \in DOMAIN inbox[v] /\ inbox'[v][j] = inbox[v][j]
    BY <2>1, <2>3
  <2>4. CASE /\ Home[v] = p /\ Home[m.origin] # p /\ inbox'[v][j] = m
             /\ i \in DOMAIN inbox[u] /\ inbox'[u][i] = inbox[u][i]
    BY <2>1, <2>4 DEF Distinct
  <2>5. inbox'[u] = inbox[u] \/ inbox'[v] = inbox[v]
    BY <1>8
  <2>6. QED
    BY <1>9, <2>2, <2>3, <2>4, <2>5
<1>18. QED
  BY <1>11, <1>12, <1>13, <1>14, <1>15, <1>16, <1>17 DEF DeliveryInv, RouteInv

LEMMA DeliveryStep == DeliveryInv /\ [Next]_vars => DeliveryInv'
<1> SUFFICES ASSUME DeliveryInv, [Next]_vars
             PROVE  DeliveryInv'
  OBVIOUS
<1>1. TypeOK /\ TypeOK' /\ sent \in Nat
  BY StepType, Contents DEF DeliveryInv
<1>2. ASSUME NEW s \in Sockets, Relay(s)
      PROVE  DeliveryInv'
  <2> DEFINE m == [n |-> sent + 1, origin |-> s]
  <2>1. sent' = sent + 1 /\ sent + 1 \in 1 .. MAX_MESSAGES
    <3>1. PICK id \in Ids[s] \cup {NoId} : Message(s, id, TRUE)
      BY <1>2 DEF Relay
    <3>2. id \in PeerIds \cup {NoId}
      BY GatewayAssumption
    <3>3. sent' = sent + 1 /\ sent' \in 1 .. MAX_MESSAGES
      BY <1>1, <3>1, <3>2, MessageType
    <3>4. QED
      BY <3>3
  <2>2. m \in Messages /\ m.n = sent + 1 /\ m.origin = s /\ Home[s] \in Procs
    BY <2>1, GatewayAssumption DEF Messages
  <2>3. PICK to \in PeerIds :
          IF to \in DOMAIN peers[Home[s]]
          THEN Send(peers[Home[s]][to], m) /\ UNCHANGED bus
          ELSE PublishToRedis(Home[s], to, m) /\ UNCHANGED inbox
    BY <1>2 DEF Relay
  <2> HIDE DEF m
  <2>4. CASE to \in DOMAIN peers[Home[s]]
    <3>1. peers[Home[s]][to] \in Sockets /\ Home[peers[Home[s]][to]] = Home[s]
      BY <1>1, <2>2, <2>4 DEF TypeOK, LeadsHome
    <3>2. QED
      BY <1>1, <2>1, <2>2, <2>3, <2>4, <3>1, DirectStep
  <2>5. CASE to \notin DOMAIN peers[Home[s]]
    BY <1>1, <2>1, <2>2, <2>3, <2>5, PublishStep
  <2>6. QED
    BY <2>4, <2>5
<1>3. ASSUME NEW s \in Sockets, Rejected(s) \/ HandleHandshakeInit(s)
      PROVE  DeliveryInv'
  <2>1. UNCHANGED <<inbox, bus>>
    BY <1>3 DEF Rejected, HandleHandshakeInit
  <2>2. sent' = sent + 1
    BY <1>3 DEF Rejected, HandleHandshakeInit, Message
  <2>3. sent' >= sent
    BY <1>1, <2>2
  <2>4. QED
    BY <1>1, <2>1, <2>3, QuietStep
<1>4. ASSUME UNCHANGED <<inbox, bus, sent>>
      PROVE  DeliveryInv'
  BY <1>1, <1>4, QuietStep
<1>5. ASSUME NEW s \in Sockets, HandleConnection(s) \/ ErrorEvent(s) \/ CloseEvent(s) \/ Ends(s)
      PROVE  DeliveryInv'
  BY <1>4, <1>5 DEF HandleConnection, ErrorEvent, CloseEvent, Ends
<1>6. ASSUME NEW p \in Procs, OnModuleDestroy(p) \/ WssClosed(p)
      PROVE  DeliveryInv'
  BY <1>4, <1>6 DEF OnModuleDestroy, WssClosed
<1>7. ASSUME NEW p \in Procs, HandleCrossProcessMessage(p)
      PROVE  DeliveryInv'
  BY <1>1, <1>7, CrossStep
<1>8. QED
  BY <1>2, <1>3, <1>4, <1>5, <1>6, <1>7 DEF Next, vars

LEMMA DeliveryInit == Init => DeliveryInv
<1> SUFFICES ASSUME Init
             PROVE  DeliveryInv
  OBVIOUS
<1>1. /\ \A t \in Sockets : inbox[t] = <<>>
      /\ \A p \in Procs : bus[p] = <<>>
  BY DEF Init
<1>2. \A t \in Sockets : DOMAIN inbox[t] = {}
  BY <1>1
<1>3. \A p \in Procs : DOMAIN bus[p] = {}
  BY <1>1
<1>4. QED
  BY <1>2, <1>3, InitType DEF DeliveryInv, Numbered, RouteInv, OwnEnvelopes, BusAscends,
     BusAfterInbox, DirectStaysHome, InOrderOnce, Exclusive

LEMMA CountThree ==
    ASSUME NEW a, NEW b, NEW c, Distinct(a, b, c)
    PROVE  Cardinality({a, b, c}) = 3
<1>1. IsFiniteSet({a}) /\ Cardinality({a}) = 1
  BY FS_Singleton
<1>2. IsFiniteSet({a} \cup {b}) /\ Cardinality({a} \cup {b}) = 2
  <2>1. b \notin {a}
    BY DEF Distinct
  <2>2. QED
    BY <1>1, <2>1, FS_AddElement
<1>3. Cardinality(({a} \cup {b}) \cup {c}) = 3
  <2>1. c \notin {a} \cup {b}
    BY DEF Distinct
  <2>2. QED
    BY <1>2, <2>1, FS_AddElement
<1>4. {a, b, c} = ({a} \cup {b}) \cup {c}
  OBVIOUS
<1>5. QED
  BY <1>3, <1>4

\* No socket gets a message twice or after a later one of the same sender, and
\* no message takes both routes, for any number of processes, sockets and
\* messages, with any of the envelopes lost.
THEOREM DeliveredAtMostOnce == Spec => []DeliveredOnce
<1>1. DeliveryInv => DeliveredOnce
  <2>1. SUFFICES ASSUME DeliveryInv
                 PROVE  RouteIsExclusive
    BY DEF DeliveryInv, DeliveredOnce
  <2>2. SUFFICES ASSUME NEW t \in Sockets, NEW u \in Sockets,
                        NEW i \in DOMAIN inbox[t], NEW j \in DOMAIN inbox[u],
                        t # u, inbox[t][i] = inbox[u][j]
                 PROVE  Cardinality({Home[t], Home[u], Home[inbox[t][i].origin]}) = 3
    BY DEF RouteIsExclusive
  <2>3. Distinct(Home[t], Home[u], Home[inbox[t][i].origin])
    BY <2>1, <2>2 DEF DeliveryInv, Exclusive
  <2>4. QED
    BY <2>3, CountThree
<1>2. QED
  BY <1>1, DeliveryInit, DeliveryStep, PTL DEF Spec
=============================================================================
