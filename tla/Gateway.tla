-------------------------------- MODULE Gateway --------------------------------
(***************************************************************************)
(* The WebSocket gateway: several server processes, each with its Map of   *)
(* registered peers, its rate-limit buckets and its Prometheus gauges,     *)
(* joined by the Redis channel ws:message.  Every event handler of a       *)
(* process runs to completion, so one handler is one action; the handlers  *)
(* of different sockets and processes, the arrivals from Redis, the        *)
(* heartbeat and the shutdown interleave.                                  *)
(*                                                                         *)
(* A socket is "open" until it ends: "closing" once the server has called  *)
(* close() (its client may still send), "ending" once nothing more can     *)
(* arrive but its close event is due, then "closed".                       *)
(*                                                                         *)
(* The peer a close event belongs to is searched by socket.  The Map is    *)
(* a partial function, so the search, which returns the oldest entry,      *)
(* returns here any of the entries of that socket.                         *)
(***************************************************************************)
EXTENDS TokenBucket, MapOps, Sequences, FiniteSets

CONSTANTS Procs,          \* server processes
          Sockets,        \* connections clients may open
          Home,           \* socket -> the process it is connected to
          PeerIds,        \* ids a client may register and write to
          Ids,            \* socket -> the ids its client uses as senderId
          NoId,           \* a missing senderId
          Elapsed,        \* bound: ticks that may pass between two messages
          MAX_MESSAGES    \* bound: messages that reach the gateway

ASSUME GatewayAssumption ==
    /\ Home \in [Sockets -> Procs]
    /\ Ids \in [Sockets -> SUBSET PeerIds]
    /\ NoId \notin PeerIds
    /\ Elapsed \subseteq Nat
    /\ MAX_MESSAGES \in Nat

VARIABLES ready,        \* socket -> "none", "open", "closing", "ending", "closed"
          peers,        \* process -> Map: peer id -> socket
          rateLimits,   \* process -> Map: peer id -> tokens
          gauge,        \* process -> the connection and the peer gauge (moved together)
          bus,          \* process -> ws:message envelopes on their way to it
          up,           \* process -> "up", "draining" (module destroyed), "down"
          inbox,        \* socket -> relayed messages sent on it
          sent,         \* messages so far; numbers them
          registrant,   \* observer: process -> peer id -> socket that registered it last
          named         \* observer: socket -> the ids that were registered on it

vars == <<ready, peers, rateLimits, gauge, bus, up, inbox, sent, registrant, named>>

Init ==
    /\ ready = [s \in Sockets |-> "none"]
    /\ peers = [p \in Procs |-> EmptyMap]
    /\ rateLimits = [p \in Procs |-> EmptyMap]
    /\ gauge = [p \in Procs |-> 0]
    /\ bus = [p \in Procs |-> <<>>]
    /\ up = [p \in Procs |-> "up"]
    /\ inbox = [s \in Sockets |-> <<>>]
    /\ sent = 0
    /\ registrant = [p \in Procs |-> EmptyMap]
    /\ named = [s \in Sockets |-> {}]

-----------------------------------------------------------------------------

\* handleConnection: the gauges count the socket, registered or not.
HandleConnection(s) ==
    /\ ready[s] = "none"
    /\ up[Home[s]] = "up"
    /\ ready' = [ready EXCEPT ![s] = "open"]
    /\ gauge' = [gauge EXCEPT ![Home[s]] = @ + 1]
    /\ UNCHANGED <<peers, rateLimits, bus, up, inbox, sent, registrant, named>>

\* The tokens of a sender's bucket, a new one included, e ticks later.
Level(p, id, e) ==
    IF id \in DOMAIN rateLimits[p]
    THEN Refilled(rateLimits[p][id], e)
    ELSE RATE_LIMIT_TOKENS

\* checkRateLimit lets a message through or not, and charges the bucket of the
\* id the message names; a message without a senderId is not limited.
CheckRateLimit(p, id, admitted) ==
    IF id = NoId
    THEN admitted /\ UNCHANGED rateLimits
    ELSE \E e \in Elapsed :
           /\ admitted = Admits(Level(p, id, e))
           /\ rateLimits' = [rateLimits EXCEPT ![p] = Put(@, id, Charged(Level(p, id, e)))]

\* A message event of socket s that names sender id: the limiter, first.
Message(s, id, admitted) ==
    /\ ready[s] \in {"open", "closing"}
    /\ sent < MAX_MESSAGES
    /\ sent' = sent + 1
    /\ CheckRateLimit(Home[s], id, admitted)

\* Over the limit, of an unknown type or without a field its handler needs:
\* the sender gets an error and nothing else happens.
Rejected(s) ==
    /\ \E id \in Ids[s] \cup {NoId}, admitted \in BOOLEAN : Message(s, id, admitted)
    /\ UNCHANGED <<ready, peers, gauge, bus, up, inbox, registrant, named>>

\* handleHandshakeInit: the id now belongs to this socket, whoever held it.
HandleHandshakeInit(s) ==
    LET p == Home[s] IN
    /\ \E id \in Ids[s] :
         /\ Message(s, id, TRUE)
         /\ peers' = [peers EXCEPT ![p] = Put(@, id, s)]
         /\ registrant' = [registrant EXCEPT ![p] = Put(@, id, s)]
         /\ named' = [named EXCEPT ![s] = @ \cup {id}]
    /\ UNCHANGED <<ready, gauge, bus, up, inbox>>

\* send: only an open socket takes the message.
Send(t, m) ==
    inbox' = [inbox EXCEPT ![t] = IF ready[t] = "open" THEN Append(@, m) ELSE @]

\* publishToRedis: the envelope reaches the processes whose subscription is
\* alive, the publisher's own included; without Redis, or when the publish
\* fails, it reaches none.
PublishToRedis(p, to, m) ==
    \E reached \in SUBSET Procs :
        bus' = [q \in Procs |->
                  IF q \in reached
                  THEN Append(bus[q], [from |-> p, to |-> to, msg |-> m])
                  ELSE bus[q]]

\* Mutant of Relay: no return after a local peer has been written to.
RelayOnBoth(s) ==
    LET p == Home[s]
        m == [n |-> sent + 1, origin |-> s]
    IN  /\ \E id \in Ids[s] \cup {NoId} : Message(s, id, TRUE)
        /\ \E to \in PeerIds :
             /\ IF to \in DOMAIN peers[p] THEN Send(peers[p][to], m) ELSE UNCHANGED inbox
             /\ PublishToRedis(p, to, m)
        /\ UNCHANGED <<ready, peers, gauge, up, registrant, named>>

\* handleHandshakeResponse, handleKeyExchange and handleMetadata: to a peer of
\* this process directly, and to any other over Redis.
Relay(s) ==
    LET p == Home[s]
        m == [n |-> sent + 1, origin |-> s]
    IN  /\ \E id \in Ids[s] \cup {NoId} : Message(s, id, TRUE)
        /\ \E to \in PeerIds :
             IF to \in DOMAIN peers[p]
             THEN Send(peers[p][to], m) /\ UNCHANGED bus
             ELSE PublishToRedis(p, to, m) /\ UNCHANGED inbox
        /\ UNCHANGED <<ready, peers, gauge, up, registrant, named>>

\* Mutant of HandleCrossProcessMessage: an envelope of the process itself is
\* taken for that of another, which is skipped instead.
HandleMessageOf(p, mine(_)) ==
    /\ up[p] # "down"
    /\ bus[p] # <<>>
    /\ LET e == Head(bus[p]) IN
         IF mine(e.from) /\ e.to \in DOMAIN peers[p]
         THEN Send(peers[p][e.to], e.msg)
         ELSE UNCHANGED inbox
    /\ bus' = [bus EXCEPT ![p] = Tail(@)]
    /\ UNCHANGED <<ready, peers, rateLimits, gauge, up, sent, registrant, named>>
HandleOwnMessageOnly(p) == HandleMessageOf(p, LAMBDA from : from = p)

\* The Redis subscription: a process skips what it published itself, and what
\* is for a peer it does not know.
HandleCrossProcessMessage(p) ==
    /\ up[p] # "down"
    /\ bus[p] # <<>>
    /\ LET e == Head(bus[p]) IN
         IF e.from # p /\ e.to \in DOMAIN peers[p]
         THEN Send(peers[p][e.to], e.msg)
         ELSE UNCHANGED inbox
    /\ bus' = [bus EXCEPT ![p] = Tail(@)]
    /\ UNCHANGED <<ready, peers, rateLimits, gauge, up, sent, registrant, named>>

-----------------------------------------------------------------------------

\* Mutant of PeersOf: the search is by the ids of the client.
PeersOfClient(s) == DOMAIN peers[Home[s]] \cap Ids[s]

\* The peers that the entries of this socket name.
PeersOf(s) == {id \in DOMAIN peers[Home[s]] : peers[Home[s]][id] = s}

\* Mutant of HandleDisconnect: the gauges go down for any socket.
HandleDisconnectOfAny(s) ==
    LET p == Home[s] IN
    /\ gauge' = [gauge EXCEPT ![p] = @ - 1]
    /\ IF PeersOf(s) = {}
       THEN UNCHANGED <<peers, rateLimits>>
       ELSE \E id \in PeersOf(s) :
              /\ peers' = [peers EXCEPT ![p] = Drop(@, id)]
              /\ rateLimits' = [rateLimits EXCEPT ![p] = Drop(@, id)]

\* The search by socket and handleDisconnect of the peer it finds, if any.
HandleDisconnect(s) ==
    LET p == Home[s] IN
    IF PeersOf(s) = {}
    THEN UNCHANGED <<peers, rateLimits, gauge>>
    ELSE \E id \in PeersOf(s) :
           /\ peers' = [peers EXCEPT ![p] = Drop(@, id)]
           /\ rateLimits' = [rateLimits EXCEPT ![p] = Drop(@, id)]
           /\ gauge' = [gauge EXCEPT ![p] = @ - 1]

\* The error event: the library then ends the connection.
ErrorEvent(s) ==
    /\ ready[s] \in {"open", "closing"}
    /\ ready' = [ready EXCEPT ![s] = "ending"]
    /\ HandleDisconnect(s)
    /\ UNCHANGED <<bus, up, inbox, sent, registrant, named>>

\* Mutant of CloseEvent: only the error event cleans up.
CloseEventOnly(s) ==
    /\ ready[s] \in {"closing", "ending"}
    /\ ready' = [ready EXCEPT ![s] = "closed"]
    /\ UNCHANGED <<peers, rateLimits, gauge, bus, up, inbox, sent, registrant, named>>

\* The close event.
CloseEvent(s) ==
    /\ ready[s] \in {"closing", "ending"}
    /\ ready' = [ready EXCEPT ![s] = "closed"]
    /\ HandleDisconnect(s)
    /\ UNCHANGED <<bus, up, inbox, sent, registrant, named>>

\* The client closes or its connection breaks; or the heartbeat, which runs
\* until the module is destroyed, terminates the socket.
Ends(s) ==
    /\ \/ ready[s] = "open"
       \/ ready[s] = "closing" /\ up[Home[s]] = "up"
    /\ ready' = [ready EXCEPT ![s] = "ending"]
    /\ UNCHANGED <<peers, rateLimits, gauge, bus, up, inbox, sent, registrant, named>>

\* onModuleDestroy: close() on every registered socket, then forget them all.
OnModuleDestroy(p) ==
    /\ up[p] = "up"
    /\ up' = [up EXCEPT ![p] = "draining"]
    /\ ready' = [s \in Sockets |->
          IF Home[s] = p /\ PeersOf(s) # {} /\ ready[s] = "open"
          THEN "closing" ELSE ready[s]]
    /\ peers' = [peers EXCEPT ![p] = EmptyMap]
    /\ rateLimits' = [rateLimits EXCEPT ![p] = EmptyMap]
    /\ UNCHANGED <<gauge, bus, inbox, sent, registrant, named>>

\* The callback of wss.close: it comes once every connection has ended.
WssClosed(p) ==
    /\ up[p] = "draining"
    /\ \A s \in Sockets : Home[s] = p => ready[s] \in {"none", "closed"}
    /\ up' = [up EXCEPT ![p] = "down"]
    /\ UNCHANGED <<ready, peers, rateLimits, gauge, bus, inbox, sent, registrant, named>>

Next ==
    \/ \E s \in Sockets :
         \/ HandleConnection(s)
         \/ Rejected(s)
         \/ HandleHandshakeInit(s)
         \/ Relay(s)
         \/ ErrorEvent(s)
         \/ CloseEvent(s)
         \/ Ends(s)
    \/ \E p \in Procs :
         \/ HandleCrossProcessMessage(p)
         \/ OnModuleDestroy(p)
         \/ WssClosed(p)

\* What is queued in a process is handled, a connection that ends emits its
\* close event (close() gives up waiting for the client after a timeout), and
\* a server without connections calls back.
Fairness ==
    /\ \A p \in Procs : WF_vars(HandleCrossProcessMessage(p)) /\ WF_vars(WssClosed(p))
    /\ \A s \in Sockets : WF_vars(CloseEvent(s))

Spec == Init /\ [][Next]_vars /\ Fairness

-----------------------------------------------------------------------------

States == {"none", "open", "closing", "ending", "closed"}
Messages == [n : 1 .. MAX_MESSAGES, origin : Sockets]
Envelopes == [from : Procs, to : PeerIds, msg : Messages]

\* Each process maps some of the ids to sockets of its own.
LeadsHome(maps) ==
    /\ DOMAIN maps = Procs
    /\ \A p \in Procs :
         /\ DOMAIN maps[p] \subseteq PeerIds
         /\ \A id \in DOMAIN maps[p] : maps[p][id] \in Sockets /\ Home[maps[p][id]] = p

LimitsType ==
    /\ DOMAIN rateLimits = Procs
    /\ \A p \in Procs :
         /\ DOMAIN rateLimits[p] \subseteq PeerIds
         /\ \A id \in DOMAIN rateLimits[p] : rateLimits[p][id] \in 0 .. RATE_LIMIT_TOKENS

\* Type invariant: the Maps lead to sockets of their process, and the queues
\* hold envelopes of messages that were sent.
TypeOK ==
    /\ ready \in [Sockets -> States]
    /\ LeadsHome(peers)
    /\ LeadsHome(registrant)
    /\ LimitsType
    /\ gauge \in [Procs -> Int]
    /\ up \in [Procs -> {"up", "draining", "down"}]
    /\ sent \in 0 .. MAX_MESSAGES
    /\ bus \in [Procs -> Seq(Envelopes)]
    /\ inbox \in [Sockets -> Seq(Messages)]
    /\ named \in [Sockets -> SUBSET PeerIds]

\* The registration of a live client survives everything other clients do: as
\* long as the socket that registered an id last is open, the id leads to it.
\* In particular the late close event of a client's previous socket must not
\* take away what the client registered on its new one.
LiveRegistrationKept ==
    \A p \in Procs :
        up[p] = "up" =>
            \A id \in DOMAIN registrant[p] :
                ready[registrant[p][id]] = "open" =>
                    /\ id \in DOMAIN peers[p]
                    /\ peers[p][id] = registrant[p][id]

\* The end of a socket takes a peer away: fewer ids lead to a closed socket
\* than were registered on it.  A client that keeps to one id, as those of the
\* front end do, leaves none behind; one that registers several leaves some,
\* since the close handler removes the first entry of the socket only.
ClosedSocketHoldsFewer ==
    \A s \in Sockets :
        (ready[s] = "closed" /\ named[s] # {}) =>
            PeersOf(s) \subseteq named[s] /\ PeersOf(s) # named[s]

\* The connections of p that nothing has ended, and those over on which several
\* ids were registered.
Live(p) == {s \in Sockets : Home[s] = p /\ ready[s] \in {"open", "closing"}}
Several(s) == \E id, other \in named[s] : id # other
ManyNamed(p) == {s \in Sockets : Home[s] = p /\ ready[s] = "closed" /\ Several(s)}

\* The gauges undercount the live connections by one at most for each closed
\* one on which several ids were registered: an error and a close event that
\* each find an entry of such a socket decrement twice for it.  Nothing else
\* does, neither error events followed by close events nor takeovers of an id
\* nor the shutdown.
GaugeCoversConnections ==
    \A p \in Procs : gauge[p] + Cardinality(ManyNamed(p)) >= Cardinality(Live(p))

\* Whatever mixture of direct sends and Redis a socket is reached by, the
\* messages of one sender reach it at most once and in the order they were sent.
InOrderOnce ==
    \A t \in Sockets : \A i, j \in DOMAIN inbox[t] :
        (i < j /\ inbox[t][i].origin = inbox[t][j].origin) =>
            inbox[t][i].n < inbox[t][j].n

\* The two routes exclude each other: a message that a socket of the sender's
\* own process took is on no other socket, and no process delivers it twice.
RouteIsExclusive ==
    \A t, u \in Sockets : \A i \in DOMAIN inbox[t], j \in DOMAIN inbox[u] :
        (t # u /\ inbox[t][i] = inbox[u][j]) =>
            Cardinality({Home[t], Home[u], Home[inbox[t][i].origin]}) = 3

DeliveredOnce == InOrderOnce /\ RouteIsExclusive

\* A published message reaches the peer it is for, when that peer stays
\* registered on a process that the envelope has reached.
PublishedIsDelivered ==
    \A p \in Procs : \A id \in PeerIds : \A t \in Sockets : \A k \in 1 .. MAX_MESSAGES :
        LET waits == \E i \in DOMAIN bus[p] :
                       bus[p][i].from # p /\ bus[p][i].to = id /\ bus[p][i].msg.n = k
            holds == id \in DOMAIN peers[p] /\ peers[p][id] = t /\ ready[t] = "open"
        IN  (waits /\ holds) ~> (~holds \/ \E i \in DOMAIN inbox[t] : inbox[t][i].n = k)
=============================================================================
