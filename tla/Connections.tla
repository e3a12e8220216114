------------------------------- MODULE Connections -------------------------------
(***************************************************************************)
(* The two guards of the gateway's connections together: the limiter of    *)
(* what the clients send and the heartbeat that ends the connections whose *)
(* clients no longer answer.  They meet where a connection is over: its    *)
(* close event deletes the bucket of the peer that is registered on it.    *)
(***************************************************************************)
EXTENDS RateLimiter, Heartbeat

connectionVars == <<limiterVars, heartbeatVars>>

Init == InitLimiter /\ InitHeartbeat

\* A client that is there sends a message: the limiter, first.
MessageArrives(s, p) ==
    /\ state[s] = "open" /\ ~silent[s]
    /\ CheckRateLimit(p)
    /\ UNCHANGED heartbeatVars

\* The close event of a socket, and handleDisconnect of the peer it finds, if
\* any (which one it is, Gateway tells).
Disconnects(s) ==
    /\ Closed(s)
    /\ UNCHANGED limiterVars \/ \E p \in Peers : ForgetPeer(p)

\* Time passes, and the observer may begin a window.
TimePasses ==
    /\ ClockMoves \/ \E p \in Peers : OpenWindow(p)
    /\ UNCHANGED heartbeatVars

Next ==
    \/ TimePasses
    \/ Tick /\ UNCHANGED limiterVars
    \/ \E s \in ServerSockets :
         \/ (Connect(s) \/ Pong(s) \/ FallSilent(s)) /\ UNCHANGED limiterVars
         \/ Disconnects(s)
         \/ \E p \in Peers : MessageArrives(s, p)

Spec == Init /\ [][Next]_connectionVars /\ HeartbeatFairness
=============================================================================
