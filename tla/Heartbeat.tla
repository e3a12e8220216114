------------------------------- MODULE Heartbeat -------------------------------
(***************************************************************************)
(* The heartbeat of the WebSocket gateway (setupHeartbeat): every          *)
(* WS_PING_INTERVAL_MS one callback walks over all the clients of the      *)
(* server, terminates those that have missed too many pongs and pings the  *)
(* others.  One tick of the interval is one step, since the callback does  *)
(* not yield; pongs, new connections, clients that close and clients that  *)
(* fall silent interleave with the ticks.                                  *)
(***************************************************************************)
EXTENDS Integers

CONSTANTS ServerSockets,        \* connections clients may open
          WS_MAX_MISSED_PONGS   \* as configured, 2 by default

ASSUME HeartbeatAssumption == WS_MAX_MISSED_PONGS \in Nat

VARIABLES state,        \* socket -> "none", "open", "terminated" or "closed"
          isAlive,      \* socket -> the flag the pong handler sets
          missedPongs,  \* socket -> the counter the callback compares
          silent,       \* socket -> has its client stopped answering?
          unanswered    \* observer: socket -> pings sent since its last pong

heartbeatVars == <<state, isAlive, missedPongs, silent, unanswered>>

\* The members of wss.clients: a socket leaves the set when its close event
\* fires, so a terminated one may still be walked over.
Clients == {s \in ServerSockets : state[s] \in {"open", "terminated"}}

InitHeartbeat ==
    /\ state = [s \in ServerSockets |-> "none"]
    /\ isAlive = [s \in ServerSockets |-> FALSE]
    /\ missedPongs = [s \in ServerSockets |-> 0]
    /\ silent = [s \in ServerSockets |-> FALSE]
    /\ unanswered = [s \in ServerSockets |-> 0]

\* The connection handler of setupHeartbeat.
Connect(s) ==
    /\ state[s] = "none"
    /\ state' = [state EXCEPT ![s] = "open"]
    /\ isAlive' = [isAlive EXCEPT ![s] = TRUE]
    /\ missedPongs' = [missedPongs EXCEPT ![s] = 0]
    /\ UNCHANGED <<silent, unanswered>>

\* Mutant of Pong: the counter is not reset.
PongKeepsCount(s) ==
    /\ state[s] = "open" /\ ~silent[s]
    /\ isAlive' = [isAlive EXCEPT ![s] = TRUE]
    /\ unanswered' = [unanswered EXCEPT ![s] = 0]
    /\ UNCHANGED <<state, missedPongs, silent>>

\* A pong arrives, late or in time.
Pong(s) ==
    /\ state[s] = "open"
    /\ ~silent[s]
    /\ isAlive' = [isAlive EXCEPT ![s] = TRUE]
    /\ missedPongs' = [missedPongs EXCEPT ![s] = 0]
    /\ unanswered' = [unanswered EXCEPT ![s] = 0]
    /\ UNCHANGED <<state, silent>>

\* What the callback finds wrong with a client.
Stale(s) == ~isAlive[s] /\ missedPongs[s] >= WS_MAX_MISSED_PONGS

\* The clients this tick terminates, and those it pings.
Reaped == {s \in Clients : Stale(s)}
Pinged == Clients \ Reaped

\* Mutant of Tick: a stale client is skipped but not terminated.
TickSkipsStale ==
    /\ missedPongs' = [s \in ServerSockets |->
          IF s \in Pinged /\ ~isAlive[s] THEN missedPongs[s] + 1 ELSE missedPongs[s]]
    /\ isAlive' = [s \in ServerSockets |-> IF s \in Pinged THEN FALSE ELSE isAlive[s]]
    /\ unanswered' = [s \in ServerSockets |->
          IF s \in Pinged THEN unanswered[s] + 1 ELSE unanswered[s]]
    /\ UNCHANGED <<state, silent>>

\* One run of the interval's callback over all the clients.  A ping to a
\* terminated socket is dropped by the library.
Tick ==
    /\ state' = [s \in ServerSockets |-> IF s \in Reaped THEN "terminated" ELSE state[s]]
    /\ missedPongs' = [s \in ServerSockets |->
          IF s \in Pinged /\ ~isAlive[s] THEN missedPongs[s] + 1 ELSE missedPongs[s]]
    /\ isAlive' = [s \in ServerSockets |-> IF s \in Pinged THEN FALSE ELSE isAlive[s]]
    /\ unanswered' = [s \in ServerSockets |->
          IF s \in Pinged THEN unanswered[s] + 1 ELSE unanswered[s]]
    /\ UNCHANGED silent

\* The client stops answering: its host hangs or its network is gone.
FallSilent(s) ==
    /\ state[s] = "open"
    /\ ~silent[s]
    /\ silent' = [silent EXCEPT ![s] = TRUE]
    /\ UNCHANGED <<state, isAlive, missedPongs, unanswered>>

\* The close event of a socket that was terminated or that its client closed.
Closed(s) ==
    /\ state[s] = "terminated" \/ (state[s] = "open" /\ ~silent[s])
    /\ state' = [state EXCEPT ![s] = "closed"]
    /\ UNCHANGED <<isAlive, missedPongs, silent, unanswered>>

HeartbeatStep ==
    \/ Tick
    \/ \E s \in ServerSockets : Connect(s) \/ Pong(s) \/ FallSilent(s) \/ Closed(s)

\* setInterval keeps firing, and a destroyed socket emits its close event.
HeartbeatFairness ==
    /\ WF_heartbeatVars(Tick)
    /\ \A s \in ServerSockets : WF_heartbeatVars(state[s] = "terminated" /\ Closed(s))

HeartbeatSpec == InitHeartbeat /\ [][HeartbeatStep]_heartbeatVars /\ HeartbeatFairness

-----------------------------------------------------------------------------

\* Type invariant: flags, and counters that never go below zero.
HeartbeatTypeOK ==
    /\ state \in [ServerSockets -> {"none", "open", "terminated", "closed"}]
    /\ isAlive \in [ServerSockets -> BOOLEAN]
    /\ missedPongs \in [ServerSockets -> Nat]
    /\ silent \in [ServerSockets -> BOOLEAN]
    /\ unanswered \in [ServerSockets -> Nat]

\* The heartbeat terminates a socket only when its last WS_MAX_MISSED_PONGS
\* pings at least all went unanswered, so never one whose pongs arrive before
\* the next tick, however ticks and pongs interleave.
TerminatedOnlyIfSilent ==
    \A s \in ServerSockets :
        state[s] = "terminated" => unanswered[s] >= WS_MAX_MISSED_PONGS

\* "Force disconnect on 2 missed pongs": a tick that finds so many pings
\* unanswered disconnects, so an open socket never has more.  The callback
\* compares its counter before it counts, and sends another ping.
DisconnectedOnMissed ==
    \A s \in ServerSockets :
        state[s] = "open" => unanswered[s] <= WS_MAX_MISSED_PONGS

\* It lets no client off longer than that one ping: an open socket has at
\* most WS_MAX_MISSED_PONGS + 1 pings unanswered.
SilenceIsBounded ==
    \A s \in ServerSockets :
        state[s] = "open" => unanswered[s] <= WS_MAX_MISSED_PONGS + 1

\* A client that falls silent is eventually off the server: "heartbeat cleans
\* stale peers".
SilentIsReaped ==
    \A s \in ServerSockets : silent[s] ~> state[s] = "closed"
=============================================================================
