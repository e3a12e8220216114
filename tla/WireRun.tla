-------------------------------- MODULE WireRun --------------------------------
(***************************************************************************)
(* Step 5 of the wizard: runWireSimulation of handshake.step-5.tsx over    *)
(* the WebSocketService and a gateway.  A run connects as two peers, sends *)
(* handshake_init as the one, and waits first for the gateway's answer and *)
(* then for the init to arrive at the other.  Reset, and leaving the page, *)
(* let the user start a second run while the first one still waits.        *)
(*                                                                         *)
(* Of the gateway only what a handshake_init does is here (Gateway.tla has *)
(* the rest): it registers the sender and answers the sender.              *)
(***************************************************************************)
EXTENDS WsClient, Sequences

CONSTANTS INITIATOR_ID, RESPONDER_ID,
          Runs,          \* bound: calls of runWireSimulation
          NetworkFails   \* may connections fail or break?

ASSUME WireRunAssumption ==
    /\ Conns = {INITIATOR_ID, RESPONDER_ID}
    /\ INITIATOR_ID # RESPONDER_ID
    /\ NetworkFails \in BOOLEAN

VARIABLES pc,           \* run -> the await it is at
          attempt,      \* run -> the WebSockets of its two connect() calls
          isAnimating,  \* the flag that disables the button
          toGateway,    \* WebSocket -> messages on their way to the gateway
          fromGateway   \* WebSocket -> messages on their way back

wireVars == <<sock, owner, connections, promise,
              pc, attempt, isAnimating, toGateway, fromGateway>>
network == <<toGateway, fromGateway>>

WireInit ==
    /\ ClientInit
    /\ pc = [r \in Runs |-> "idle"]
    /\ attempt = [r \in Runs |-> EmptyMap]
    /\ isAnimating = FALSE
    /\ toGateway = [s \in Sockets |-> <<>>]
    /\ fromGateway = [s \in Sockets |-> <<>>]

\* The button: both connect() calls, up to the await of Promise.all.
RunWireSimulation(r) ==
    /\ pc[r] = "idle"
    /\ ~isAnimating
    /\ isAnimating' = TRUE
    /\ \E new \in [Conns -> Sockets] :
         /\ ConnectAll(new)
         /\ attempt' = [attempt EXCEPT ![r] = new]
    /\ pc' = [pc EXCEPT ![r] = "connecting"]
    /\ UNCHANGED network

\* Mutant of Finally: the connections are kept.
FinallyKeepsConnections(r) ==
    /\ pc' = [pc EXCEPT ![r] = "done"]
    /\ isAnimating' = FALSE
    /\ UNCHANGED <<clientVars, attempt, toGateway, fromGateway>>

\* The finally block: it disconnects every connection there is.
Finally(r) ==
    /\ pc' = [pc EXCEPT ![r] = "done"]
    /\ isAnimating' = FALSE
    /\ DisconnectAll(Conns)
    /\ UNCHANGED <<attempt, toGateway, fromGateway>>

\* Can send() as INITIATOR_ID, or does it throw?
CanSend ==
    /\ INITIATOR_ID \in DOMAIN connections
    /\ sock[connections[INITIATOR_ID].socket] = "open"

\* Promise.all is fulfilled: send handshake_init and wait for the answer.
Connected(r) ==
    /\ pc[r] = "connecting"
    /\ \A c \in Conns : promise[attempt[r][c]] = "resolved"
    /\ IF CanSend
       THEN /\ pc' = [pc EXCEPT ![r] = "negotiating"]
            /\ toGateway' = [toGateway EXCEPT ![connections[INITIATOR_ID].socket] =
                                 Append(@, "handshake_init")]
            /\ UNCHANGED <<clientVars, attempt, isAnimating, fromGateway>>
       ELSE Finally(r)

\* The run fails to connect, or has transferred everything.
Ending(r) ==
    IF pc[r] = "connecting"
    THEN \E c \in Conns : promise[attempt[r][c]] = "rejected"
    ELSE pc[r] = "transferring"

RunEnds(r) == Ending(r) /\ Finally(r)

\* handleHandshakeInit in the gateway: the answer goes to the sender; the init
\* itself is not forwarded.
GatewayReceives(s) ==
    /\ toGateway[s] # <<>>
    /\ toGateway' = [toGateway EXCEPT ![s] = Tail(@)]
    /\ fromGateway' = [fromGateway EXCEPT ![s] = Append(@, "handshake_response")]
    /\ UNCHANGED <<clientVars, pc, attempt, isAnimating>>

\* A message event: the listeners wait for a type on a connection id, so all
\* runs that wait for it go on.
OnMessage(s) ==
    /\ sock[s] = "open"
    /\ fromGateway[s] # <<>>
    /\ fromGateway' = [fromGateway EXCEPT ![s] = Tail(@)]
    /\ LET event == <<owner[s], Head(fromGateway[s])>> IN
         pc' = [r \in Runs |->
                  IF pc[r] = "negotiating" /\ event = <<INITIATOR_ID, "handshake_response">>
                  THEN "answering"
                  ELSE IF pc[r] = "answering" /\ event = <<RESPONDER_ID, "handshake_init">>
                  THEN "transferring"
                  ELSE pc[r]]
    /\ UNCHANGED <<clientVars, attempt, isAnimating, toGateway>>

\* handleReset, or the page is left and opened again: the button is back, and
\* the run goes on in the background.
Reset ==
    /\ isAnimating
    /\ isAnimating' = FALSE
    /\ UNCHANGED <<clientVars, pc, attempt, toGateway, fromGateway>>

\* The events of the WebSockets; a failure needs a network that fails.
SocketEvent(s) ==
    /\ \/ OnOpen(s)
       \/ (sock[s] = "failing" \/ NetworkFails) /\ OnError(s)
       \/ (sock[s] # "open" \/ NetworkFails) /\ OnClose(s)
    /\ UNCHANGED <<pc, attempt, isAnimating, toGateway, fromGateway>>

WireNext ==
    \/ Reset
    \/ \E r \in Runs : RunWireSimulation(r) \/ Connected(r) \/ RunEnds(r)
    \/ \E s \in Sockets : GatewayReceives(s) \/ OnMessage(s) \/ SocketEvent(s)

\* A continuation whose promise is settled runs, the gateway handles what it
\* gets, and the browser fires the events that are due.
WireFairness ==
    /\ \A r \in Runs : WF_wireVars(Connected(r)) /\ WF_wireVars(RunEnds(r))
    /\ \A s \in Sockets :
         /\ WF_wireVars(GatewayReceives(s))
         /\ WF_wireVars(OnMessage(s))
         /\ WF_wireVars(sock[s] # "open" /\ SocketEvent(s))

WireSpec == WireInit /\ [][WireNext]_wireVars /\ WireFairness

-----------------------------------------------------------------------------

\* When no run is under way, no connection is left open, although the runs
\* share the connection ids and each one disconnects for all of them.
NothingLeftOpen ==
    (\A r \in Runs : pc[r] \in {"idle", "done"}) =>
        \A s \in Sockets : sock[s] \notin {"connecting", "open"}

\* A run never waits for its connections for ever, even when another run takes
\* them over or disconnects them.
ConnectingEnds ==
    \A r \in Runs : pc[r] = "connecting" ~> pc[r] # "connecting"

\* Nobody waits for a connection for ever: neither who called connect(), nor a
\* run, whoever overtakes it.
WaitingEnds == ConnectSettles /\ ConnectingEnds

\* "drives real WebSocket handshake with live packet animation": on a network
\* without failures a run that starts ends.
RunCompletes ==
    \A r \in Runs : pc[r] = "connecting" ~> pc[r] = "done"
=============================================================================
