-------------------------------- MODULE WsClient --------------------------------
(***************************************************************************)
(* The WebSocketService of the front end: the Map of its connections, each *)
(* with a browser WebSocket and a status, and the promises connect()       *)
(* returns.  The handlers of a socket find the connection by its id, not   *)
(* by the socket, and close() is asynchronous: its events come later.      *)
(***************************************************************************)
EXTENDS MapOps

CONSTANTS Conns,    \* connection ids
          Sockets   \* bound: the WebSockets that are ever created

VARIABLES sock,          \* WebSocket -> its state
          owner,         \* WebSocket -> the connection id it was made for
          connections,   \* the Map: id -> [socket, status]
          promise        \* WebSocket -> the promise of its connect()

clientVars == <<sock, owner, connections, promise>>

\* "failing": closed before it opened, its error event is due;
\* "failed": its error event has fired, its close event is due.
SocketStates ==
    {"unused", "connecting", "open", "closing", "failing", "failed", "closed"}

ClientInit ==
    /\ sock = [s \in Sockets |-> "unused"]
    /\ owner = [s \in Sockets |-> CHOOSE c \in Conns : TRUE]
    /\ connections = EmptyMap
    /\ promise = [s \in Sockets |-> "none"]

\* Mutant of Closing: the old WebSocket is not closed.
ClosingNothing(s) == sock[s]

\* The state of a WebSocket after close().
Closing(s) ==
    IF sock[s] = "open" THEN "closing"
    ELSE IF sock[s] = "connecting" THEN "failing"
    ELSE sock[s]

\* connect() for each id in the domain of `new', which gives it a WebSocket:
\* the connection the id had is disconnected first.
ConnectAll(new) ==
    LET old == {connections[c].socket : c \in DOMAIN new \cap DOMAIN connections}
        fresh == {new[c] : c \in DOMAIN new}
        idOf(s) == CHOOSE c \in DOMAIN new : new[c] = s
    IN  /\ \A s \in fresh : sock[s] = "unused"
        /\ \A c, d \in DOMAIN new : new[c] = new[d] => c = d
        /\ sock' = [s \in Sockets |-> IF s \in fresh THEN "connecting"
                                      ELSE IF s \in old THEN Closing(s) ELSE sock[s]]
        /\ owner' = [s \in Sockets |-> IF s \in fresh THEN idOf(s) ELSE owner[s]]
        /\ connections' = [c \in DOMAIN connections \cup DOMAIN new |->
              IF c \in DOMAIN new
              THEN [socket |-> new[c], status |-> "connecting"]
              ELSE connections[c]]
        /\ promise' = [s \in Sockets |-> IF s \in fresh THEN "pending" ELSE promise[s]]

\* disconnect(): the connections with these ids are closed and forgotten.
DisconnectAll(ids) ==
    LET old == {connections[c].socket : c \in ids \cap DOMAIN connections} IN
    /\ sock' = [s \in Sockets |-> IF s \in old THEN Closing(s) ELSE sock[s]]
    /\ connections' = [c \in DOMAIN connections \ ids |-> connections[c]]
    /\ UNCHANGED <<owner, promise>>

\* Mutant of WithStatus: "disconnected" is never recorded.
WithFirstStatus(s, status) ==
    IF owner[s] \in DOMAIN connections /\ status = "connected"
    THEN [connections EXCEPT ![owner[s]].status = status]
    ELSE connections

\* The Map after an event of socket s has set the status of its connection.
WithStatus(s, status) ==
    IF owner[s] \in DOMAIN connections
    THEN [connections EXCEPT ![owner[s]].status = status]
    ELSE connections

\* Only a pending promise can be settled.
Settled(s, outcome) ==
    IF promise[s] = "pending" THEN [promise EXCEPT ![s] = outcome] ELSE promise

OnOpen(s) ==
    /\ sock[s] = "connecting"
    /\ sock' = [sock EXCEPT ![s] = "open"]
    /\ connections' = WithStatus(s, "connected")
    /\ promise' = Settled(s, "resolved")
    /\ UNCHANGED owner

\* Mutant of OnError: the promise is not rejected.
OnErrorUnreported(s) ==
    /\ sock[s] \in {"connecting", "failing"}
    /\ sock' = [sock EXCEPT ![s] = "failed"]
    /\ UNCHANGED <<owner, connections, promise>>

\* The connection cannot be established, or close() came before it was.
OnError(s) ==
    /\ sock[s] \in {"connecting", "failing"}
    /\ sock' = [sock EXCEPT ![s] = "failed"]
    /\ promise' = Settled(s, "rejected")
    /\ UNCHANGED <<owner, connections>>

\* After close(), after an error, or when the gateway or the network ends it.
OnClose(s) ==
    /\ sock[s] \in {"open", "closing", "failed"}
    /\ sock' = [sock EXCEPT ![s] = "closed"]
    /\ connections' = WithStatus(s, "disconnected")
    /\ UNCHANGED <<owner, promise>>

-----------------------------------------------------------------------------

\* Type invariant: every entry of the Map leads to a WebSocket of its own.
ClientTypeOK ==
    /\ sock \in [Sockets -> SocketStates]
    /\ owner \in [Sockets -> Conns]
    /\ DOMAIN connections \subseteq Conns
    /\ \A c \in DOMAIN connections :
         /\ connections[c].socket \in Sockets
         /\ owner[connections[c].socket] = c
         /\ connections[c].status \in {"connecting", "connected", "disconnected"}
    /\ promise \in [Sockets -> {"none", "pending", "resolved", "rejected"}]

\* No WebSocket is left behind: one that is open or still connecting is that of
\* its connection, so that disconnect() reaches it, however connect() calls of
\* one id overlap.
NoOrphanSocket ==
    \A s \in Sockets :
        sock[s] \in {"connecting", "open"} =>
            /\ owner[s] \in DOMAIN connections
            /\ connections[owner[s]].socket = s

\* A connection is "connected" only while its own WebSocket is open: the events
\* of the WebSockets the id had before never make it look so.
ConnectedIsOpen ==
    \A c \in DOMAIN connections :
        connections[c].status = "connected" => sock[connections[c].socket] = "open"

\* Every connect() is answered, also one that another connect() or a
\* disconnect() overtakes.
ConnectSettles ==
    \A s \in Sockets : promise[s] = "pending" ~> promise[s] \in {"resolved", "rejected"}
=============================================================================
