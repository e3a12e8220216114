------------------------------ MODULE CryptoWorker ------------------------------
(***************************************************************************)
(* CryptoWorkerClient and the web worker behind it: calls become requests  *)
(* with an id, the worker computes several at a time (its handler is       *)
(* asynchronous) and answers in the order they finish, and the client      *)
(* finds the promise of a response by its id.  The script of the worker    *)
(* may fail to load, and the client may terminate the worker.              *)
(*                                                                         *)
(* A call stands for the data of its request, and for its requestId        *)
(* (generateId is taken to give distinct ids).  Data are left out, the     *)
(* types of the messages are not: the worker chooses what to do and how to *)
(* answer by the type of the request, and the client checks the type of    *)
(* the response.                                                           *)
(***************************************************************************)
EXTENDS Naturals, Sequences

CONSTANT Calls   \* the calls that are ever made

VARIABLES kind,             \* call -> the type of its request
          state,            \* call -> state of its promise
          result,           \* call -> the request its result was computed from, if any
          pendingRequests,  \* the ids in the client's Map
          worker,           \* "loading", "running", "failed" or "terminated"
          requests,         \* messages to the worker, in order
          computing,        \* the calls whose handler is suspended
          responses         \* messages from the worker, in order

vars == <<kind, state, result, pendingRequests, worker, requests, computing, responses>>

\* The type each method of the client expects of the response to its request.
Expected ==
    [PING_REQUEST |-> "PING_RESPONSE",
     RSA_KEYGEN_REQUEST |-> "RSA_KEYGEN_RESPONSE",
     AES_KEYGEN_REQUEST |-> "AES_KEYGEN_RESPONSE",
     RSA_ENCRYPT_REQUEST |-> "RSA_ENCRYPT_RESPONSE",
     RSA_DECRYPT_REQUEST |-> "RSA_DECRYPT_RESPONSE",
     AES_ENCRYPT_REQUEST |-> "AES_ENCRYPT_RESPONSE",
     AES_DECRYPT_REQUEST |-> "AES_DECRYPT_RESPONSE",
     AES_ROUND_OUTPUTS_REQUEST |-> "AES_ROUND_OUTPUTS_RESPONSE"]

RequestTypes ==
    {"PING_REQUEST", "RSA_KEYGEN_REQUEST", "AES_KEYGEN_REQUEST", "RSA_ENCRYPT_REQUEST",
     "RSA_DECRYPT_REQUEST", "AES_ENCRYPT_REQUEST", "AES_DECRYPT_REQUEST",
     "AES_ROUND_OUTPUTS_REQUEST"}

ResponseTypes ==
    {"PING_RESPONSE", "RSA_KEYGEN_RESPONSE", "AES_KEYGEN_RESPONSE", "RSA_ENCRYPT_RESPONSE",
     "RSA_DECRYPT_RESPONSE", "AES_ENCRYPT_RESPONSE", "AES_DECRYPT_RESPONSE",
     "AES_ROUND_OUTPUTS_RESPONSE"}

\* The type the error handler answers with.
responseTypeMap ==
    [PING_REQUEST |-> "PING_RESPONSE",
     RSA_KEYGEN_REQUEST |-> "RSA_KEYGEN_RESPONSE",
     RSA_ENCRYPT_REQUEST |-> "RSA_ENCRYPT_RESPONSE",
     RSA_DECRYPT_REQUEST |-> "RSA_DECRYPT_RESPONSE",
     AES_KEYGEN_REQUEST |-> "AES_KEYGEN_RESPONSE",
     AES_ENCRYPT_REQUEST |-> "AES_ENCRYPT_RESPONSE",
     AES_DECRYPT_REQUEST |-> "AES_DECRYPT_RESPONSE",
     AES_ROUND_OUTPUTS_REQUEST |-> "AES_ROUND_OUTPUTS_RESPONSE"]

\* How the cases of the worker's switch end, by the type of the request: with
\* the result ("ok") or the error ("failed") the engine returns, or with an
\* exception ("threw") of an import or a conversion around it.
KeyOutcomes == {"ok", "failed"}
CipherOutcomes == {"ok", "failed", "threw"}

\* Mutant of Cases: a case copied from its neighbour answers with its type.
CasesCopied ==
    [PING_REQUEST |-> [type |-> "PING_RESPONSE", outcomes |-> {"ok"}],
     RSA_KEYGEN_REQUEST |-> [type |-> "RSA_KEYGEN_RESPONSE", outcomes |-> KeyOutcomes],
     RSA_ENCRYPT_REQUEST |-> [type |-> "RSA_ENCRYPT_RESPONSE", outcomes |-> CipherOutcomes],
     RSA_DECRYPT_REQUEST |-> [type |-> "RSA_ENCRYPT_RESPONSE", outcomes |-> CipherOutcomes],
     AES_KEYGEN_REQUEST |-> [type |-> "AES_KEYGEN_RESPONSE", outcomes |-> KeyOutcomes],
     AES_ENCRYPT_REQUEST |-> [type |-> "AES_ENCRYPT_RESPONSE", outcomes |-> CipherOutcomes],
     AES_DECRYPT_REQUEST |-> [type |-> "AES_DECRYPT_RESPONSE", outcomes |-> CipherOutcomes],
     AES_ROUND_OUTPUTS_REQUEST |->
        [type |-> "AES_ROUND_OUTPUTS_RESPONSE", outcomes |-> {"ok", "threw"}]]

Cases ==
    [PING_REQUEST |-> [type |-> "PING_RESPONSE", outcomes |-> {"ok"}],
     RSA_KEYGEN_REQUEST |-> [type |-> "RSA_KEYGEN_RESPONSE", outcomes |-> KeyOutcomes],
     RSA_ENCRYPT_REQUEST |-> [type |-> "RSA_ENCRYPT_RESPONSE", outcomes |-> CipherOutcomes],
     RSA_DECRYPT_REQUEST |-> [type |-> "RSA_DECRYPT_RESPONSE", outcomes |-> CipherOutcomes],
     AES_KEYGEN_REQUEST |-> [type |-> "AES_KEYGEN_RESPONSE", outcomes |-> KeyOutcomes],
     AES_ENCRYPT_REQUEST |-> [type |-> "AES_ENCRYPT_RESPONSE", outcomes |-> CipherOutcomes],
     AES_DECRYPT_REQUEST |-> [type |-> "AES_DECRYPT_RESPONSE", outcomes |-> CipherOutcomes],
     AES_ROUND_OUTPUTS_REQUEST |->
        [type |-> "AES_ROUND_OUTPUTS_RESPONSE", outcomes |-> {"ok", "threw"}]]

\* The cases without an await.
Synchronous == {"PING_REQUEST", "AES_ROUND_OUTPUTS_REQUEST"}

\* The handler of call c ends: it posts its result, or the error it got or
\* caught.
Posts(c) ==
    \E outcome \in Cases[kind[c]].outcomes :
        responses' = Append(responses,
            [requestId |-> c,
             type |-> IF outcome = "threw" THEN responseTypeMap[kind[c]] ELSE Cases[kind[c]].type,
             success |-> outcome = "ok",
             of |-> c])

Init ==
    /\ kind \in [Calls -> RequestTypes]
    /\ state = [c \in Calls |-> "idle"]
    /\ result = [c \in Calls |-> {}]
    /\ pendingRequests = {}
    /\ worker = "loading"
    /\ requests = <<>>
    /\ computing = {}
    /\ responses = <<>>

\* sendRequest: what is posted to a worker that is gone is lost.
SendRequest(c) ==
    /\ state[c] = "idle"
    /\ state' = [state EXCEPT ![c] = "pending"]
    /\ pendingRequests' = pendingRequests \cup {c}
    /\ requests' = IF worker \in {"loading", "running"}
                   THEN Append(requests, c) ELSE requests
    /\ UNCHANGED <<kind, result, worker, computing, responses>>

ScriptLoads ==
    /\ worker = "loading"
    /\ worker' = "running"
    /\ UNCHANGED <<kind, state, result, pendingRequests, requests, computing, responses>>

\* onerror: every pending promise is rejected.
OnError ==
    /\ worker = "loading"
    /\ worker' = "failed"
    /\ state' = [c \in Calls |-> IF c \in pendingRequests THEN "failed" ELSE state[c]]
    /\ pendingRequests' = {}
    /\ requests' = <<>>
    /\ UNCHANGED <<kind, result, computing, responses>>

\* The worker's handler starts on the next request: it runs to its end, or to
\* its first await.
WorkerReceives ==
    /\ worker = "running"
    /\ requests # <<>>
    /\ IF kind[Head(requests)] \in Synchronous
       THEN Posts(Head(requests)) /\ UNCHANGED computing
       ELSE computing' = computing \cup {Head(requests)} /\ UNCHANGED responses
    /\ requests' = Tail(requests)
    /\ UNCHANGED <<kind, state, result, pendingRequests, worker>>

\* Mutant of WorkerResponds: an error is not caught.
WorkerRespondsUncaught(c) ==
    /\ c \in computing
    /\ computing' = computing \ {c}
    /\ Posts(c) \/ UNCHANGED responses
    /\ UNCHANGED <<kind, state, result, pendingRequests, worker, requests>>

\* A suspended handler ends.
WorkerResponds(c) ==
    /\ c \in computing
    /\ computing' = computing \ {c}
    /\ Posts(c)
    /\ UNCHANGED <<kind, state, result, pendingRequests, worker, requests>>

\* The method that sent request c is resumed with its response: it returns the
\* result or throws.  Only ping does not throw, it returns false.
Settles(response) ==
    LET c == response.requestId
        accepted == response.type = Expected[kind[c]] /\ response.success IN
      /\ state' = [state EXCEPT ![c] = IF accepted \/ kind[c] = "PING_REQUEST"
                                       THEN "answered" ELSE "failed"]
      /\ result' = IF accepted THEN [result EXCEPT ![c] = {response.of}] ELSE result

\* Mutant of OnMessage: the answered request stays in the Map.
OnMessageKeepsRequest ==
    /\ responses # <<>>
    /\ IF Head(responses).requestId \in pendingRequests
       THEN Settles(Head(responses))
       ELSE UNCHANGED <<state, result>>
    /\ responses' = Tail(responses)
    /\ UNCHANGED <<kind, pendingRequests, worker, requests, computing>>

\* onmessage in the client: the promise with the id of the response is
\* resolved.
OnMessage ==
    /\ responses # <<>>
    /\ IF Head(responses).requestId \in pendingRequests
       THEN /\ Settles(Head(responses))
            /\ pendingRequests' = pendingRequests \ {Head(responses).requestId}
       ELSE UNCHANGED <<state, result, pendingRequests>>
    /\ responses' = Tail(responses)
    /\ UNCHANGED <<kind, worker, requests, computing>>

\* terminate: the Map is cleared, the promises in it are not settled.  What the
\* worker has posted may still arrive.
Terminate ==
    /\ worker # "terminated"
    /\ worker' = "terminated"
    /\ pendingRequests' = {}
    /\ requests' = <<>>
    /\ computing' = {}
    /\ UNCHANGED <<kind, state, result, responses>>

Next ==
    \/ \E c \in Calls : SendRequest(c) \/ WorkerResponds(c)
    \/ ScriptLoads
    \/ OnError
    \/ WorkerReceives
    \/ OnMessage
    \/ Terminate

\* The browser loads the script or reports that it cannot, computations end,
\* and messages arrive.
Fairness ==
    /\ WF_vars(ScriptLoads \/ OnError)
    /\ WF_vars(WorkerReceives)
    /\ WF_vars(OnMessage)
    /\ \A c \in Calls : WF_vars(WorkerResponds(c))

Spec == Init /\ [][Next]_vars /\ Fairness

-----------------------------------------------------------------------------

Responses == [requestId : Calls, type : ResponseTypes, success : BOOLEAN, of : Calls]

\* Type invariant.
TypeOK ==
    /\ kind \in [Calls -> RequestTypes]
    /\ state \in [Calls -> {"idle", "pending", "answered", "failed"}]
    /\ result \in [Calls -> SUBSET Calls]
    /\ pendingRequests \subseteq Calls
    /\ worker \in {"loading", "running", "failed", "terminated"}
    /\ requests \in Seq(Calls)
    /\ computing \subseteq Calls
    /\ responses \in Seq(Responses)

\* The Map holds exactly the calls whose promise is still open, as long as the
\* client has a worker that works: nothing leaks in it, and no caller is
\* forgotten.
PendingIsExact ==
    /\ \A c \in pendingRequests : state[c] = "pending"
    /\ worker \in {"loading", "running"} =>
         \A c \in Calls : state[c] = "pending" => c \in pendingRequests

\* Where a call is, as its caller sees the service: an open call is computed
\* once its response is posted, and abandoned once its id has left the Map.
Posted(c, success) ==
    \E i \in 1 .. Len(responses) :
        responses[i].requestId = c /\ responses[i].success = success
Phase ==
    [c \in Calls |->
        IF state[c] # "pending" THEN state[c]
        ELSE IF c \notin pendingRequests THEN "abandoned"
        ELSE IF Posted(c, TRUE) THEN "ready"
        ELSE IF Posted(c, FALSE) THEN "broken"
        ELSE "pending"]

\* The client and its worker keep the promise of Rpc: whatever the types of the
\* calls under way and the order they are computed in, a result that was posted
\* is returned to the caller that asked for it, and an error is thrown there.
Promise == INSTANCE Rpc WITH Calls <- Calls, phase <- Phase, result <- result
KeepsPromise == Promise!Spec

\* Every call is answered in the end, its own error included, unless the client
\* has no worker any more: a call made after the script has failed to load, or
\* overtaken by terminate(), stays open.
CallsSettle ==
    \A c \in Calls :
        state[c] = "pending" ~> (state[c] # "pending" \/ worker \in {"failed", "terminated"})
=============================================================================
