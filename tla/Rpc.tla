---------------------------------- MODULE Rpc ----------------------------------
(***************************************************************************)
(* What the crypto worker promises its callers: a call is answered at most *)
(* once, with the result computed from its own request, and fails only     *)
(* when its own computation has failed or the service breaks; calls are    *)
(* independent, and may be computed and answered in any order.             *)
(***************************************************************************)
CONSTANT Calls

VARIABLES phase,   \* call -> one of the Phases
          result   \* call -> the request its result was computed from, if any

rpcVars == <<phase, result>>

\* A call waits ("pending"), is computed ("ready") or has failed ("broken"),
\* and its caller learns of it ("answered", "failed") or never will
\* ("abandoned").
Open == {"pending", "ready", "broken"}
Phases == {"idle", "answered", "failed", "abandoned"} \cup Open

Init ==
    /\ phase = [c \in Calls |-> "idle"]
    /\ result = [c \in Calls |-> {}]

Request(c) ==
    /\ phase[c] = "idle"
    /\ phase' = [phase EXCEPT ![c] = "pending"]
    /\ UNCHANGED result

Compute(c) ==
    /\ phase[c] = "pending"
    /\ \E outcome \in {"ready", "broken"} : phase' = [phase EXCEPT ![c] = outcome]
    /\ UNCHANGED result

Answer(c) ==
    /\ phase[c] = "ready"
    /\ phase' = [phase EXCEPT ![c] = "answered"]
    /\ result' = [result EXCEPT ![c] = {c}]

Fail(c) ==
    /\ phase[c] = "broken"
    /\ phase' = [phase EXCEPT ![c] = "failed"]
    /\ UNCHANGED result

\* The service breaks, and every open call fails; or it is shut down, and every
\* open call is abandoned.
Stop(how) ==
    /\ phase' = [c \in Calls |-> IF phase[c] \in Open THEN how ELSE phase[c]]
    /\ UNCHANGED result

Next ==
    \/ Stop("failed") \/ Stop("abandoned")
    \/ \E c \in Calls : Request(c) \/ Compute(c) \/ Answer(c) \/ Fail(c)

Spec == Init /\ [][Next]_rpcVars
=============================================================================
