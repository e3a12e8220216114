--------------------------- MODULE CryptoWorkerProofs ---------------------------
(***************************************************************************)
(* Proofs about the crypto worker, for any set of calls and any types of   *)
(* requests: type correctness, that the client's Map is exact, and that    *)
(* client and worker together implement Rpc.                               *)
(***************************************************************************)
EXTENDS CryptoWorker, SequenceTheorems, TLAPS

\* The first message of a queue, and the rest.
LEMMA QueueHead ==
    ASSUME NEW S, NEW q \in Seq(S), q # <<>>
    PROVE  /\ Head(q) \in S
           /\ Tail(q) \in Seq(S)
           /\ \A i \in 1 .. Len(Tail(q)) : i + 1 \in 1 .. Len(q) /\ Tail(q)[i] = q[i + 1]
           /\ \A i \in 1 .. Len(q) :
                i = 1 \/ (i - 1 \in 1 .. Len(Tail(q)) /\ Tail(q)[i - 1] = q[i])
           /\ Head(q) = q[1] /\ 1 \in 1 .. Len(q)
  BY HeadTailProperties

\* A queue and one more message.
LEMMA QueueAppend ==
    ASSUME NEW S, NEW q \in Seq(S), NEW e \in S
    PROVE  /\ Append(q, e) \in Seq(S)
           /\ Len(Append(q, e)) = Len(q) + 1
           /\ \A i \in 1 .. Len(q) : Append(q, e)[i] = q[i]
           /\ Append(q, e)[Len(q) + 1] = e
  BY AppendProperties

\* Every response has the type its caller expects, and was computed from the
\* request it names.
OwnResponses ==
    \A i \in 1 .. Len(responses) :
        /\ responses[i].of = responses[i].requestId
        /\ responses[i].type = Expected[kind[responses[i].requestId]]
        /\ kind[responses[i].requestId] = "PING_REQUEST" => responses[i].success

\* A call has one place: it is a request, it is computed, or it has a response;
\* and it was made.
RequestsApart ==
    \A i \in 1 .. Len(requests) :
        /\ requests[i] \notin computing
        /\ \A j \in 1 .. Len(requests) : requests[i] = requests[j] => i = j
        /\ \A j \in 1 .. Len(responses) : requests[i] # responses[j].requestId
ResponsesApart ==
    \A i \in 1 .. Len(responses) :
        /\ responses[i].requestId \notin computing
        /\ \A j \in 1 .. Len(responses) :
             responses[i].requestId = responses[j].requestId => i = j
Made ==
    /\ \A i \in 1 .. Len(requests) : state[requests[i]] # "idle"
    /\ \A i \in 1 .. Len(responses) : state[responses[i].requestId] # "idle"
    /\ \A c \in computing : state[c] # "idle"
OnePlace == RequestsApart /\ ResponsesApart /\ Made

\* The inductive invariant.
WorkerInv == TypeOK /\ PendingIsExact /\ OwnResponses /\ OnePlace

\* What a step does to the observable calls, in terms of Rpc.
PromiseStep == Promise!Next \/ UNCHANGED <<Phase, result>>

\* Every case of the worker, and its error handler, answer with the type the
\* client expects.
LEMMA TypesAgree ==
    ASSUME NEW type \in RequestTypes
    PROVE  /\ Cases[type].type = Expected[type]
           /\ responseTypeMap[type] = Expected[type]
           /\ Expected[type] \in ResponseTypes
  BY DEF RequestTypes, ResponseTypes, Cases, responseTypeMap, Expected

LEMMA InitInv == Init => WorkerInv
  BY DEF Init, WorkerInv, TypeOK, PendingIsExact, OwnResponses, OnePlace,
         RequestsApart, ResponsesApart, Made

\* What waits in the queues.
LEMMA PlacesTyped ==
    ASSUME TypeOK
    PROVE  /\ Len(requests) \in Nat /\ Len(responses) \in Nat
           /\ \A i \in 1 .. Len(requests) : requests[i] \in Calls
           /\ \A i \in 1 .. Len(responses) : responses[i].requestId \in Calls
<1>1. requests \in Seq(Calls) /\ responses \in Seq(Responses)
  BY DEF TypeOK
<1>2. \A i \in 1 .. Len(responses) : responses[i] \in Responses
  BY <1>1
<1>3. QED
  BY <1>1, <1>2 DEF Responses

\* The phases of the calls depend on these variables only.
LEMMA PhaseUnchanged ==
    ASSUME UNCHANGED <<state, pendingRequests, responses>>
    PROVE  UNCHANGED Phase
  BY DEF Phase, Posted

\* A call.
LEMMA SendRequestStep ==
    ASSUME WorkerInv, NEW c \in Calls, SendRequest(c)
    PROVE  WorkerInv' /\ PromiseStep
<1>1. TypeOK'
  BY QueueAppend DEF SendRequest, WorkerInv, TypeOK
<1>2. PendingIsExact' /\ OwnResponses'
  BY DEF SendRequest, WorkerInv, TypeOK, PendingIsExact, OwnResponses
<1>3. OnePlace'
  <2>1. CASE requests' = requests
    <3>1. \A d \in Calls : state[d] # "idle" => state'[d] # "idle"
      BY DEF SendRequest, WorkerInv, TypeOK
    <3>2. RequestsApart' /\ ResponsesApart'
      BY <2>1 DEF SendRequest, WorkerInv, OnePlace, RequestsApart, ResponsesApart
    <3>3. Made'
      BY <2>1, <3>1, PlacesTyped DEF SendRequest, WorkerInv, TypeOK, OnePlace, Made
    <3>4. QED
      BY <3>2, <3>3 DEF OnePlace
  <2>2. CASE requests' = Append(requests, c)
    BY <2>2, QueueAppend, PlacesTyped
       DEF SendRequest, WorkerInv, TypeOK, OnePlace, RequestsApart, ResponsesApart, Made
  <2>3. QED
    BY <2>1, <2>2 DEF SendRequest
<1>4. Promise!Request(c)
  <2>1. \A success \in BOOLEAN : ~Posted(c, success)
    BY DEF Posted, SendRequest, WorkerInv, OnePlace, RequestsApart, ResponsesApart, Made
  <2>2. Phase[c] = "idle" /\ Phase'[c] = "pending"
    BY <2>1 DEF SendRequest, WorkerInv, TypeOK, Phase, Posted
  <2>3. \A d \in Calls \ {c} : Phase'[d] = Phase[d]
    BY DEF SendRequest, WorkerInv, TypeOK, Phase, Posted
  <2>4. Phase' = [Phase EXCEPT ![c] = "pending"]
    BY <2>2, <2>3 DEF Phase
  <2>5. QED
    BY <2>2, <2>4 DEF SendRequest, Promise!Request
<1>5. QED
  BY <1>1, <1>2, <1>3, <1>4 DEF WorkerInv, PromiseStep, Promise!Next

\* The script does not load: every pending call fails at once.
LEMMA OnErrorStep ==
    ASSUME WorkerInv, OnError
    PROVE  WorkerInv' /\ PromiseStep
<1>1. TypeOK'
  BY DEF OnError, WorkerInv, TypeOK
<1>2. PendingIsExact' /\ OwnResponses'
  BY DEF OnError, WorkerInv, TypeOK, PendingIsExact, OwnResponses
<1>3. OnePlace'
  <2>1. RequestsApart' /\ ResponsesApart'
    BY DEF OnError, WorkerInv, OnePlace, RequestsApart, ResponsesApart
  <2>2. Made'
    BY PlacesTyped DEF OnError, WorkerInv, TypeOK, OnePlace, Made
  <2>3. QED
    BY <2>1, <2>2 DEF OnePlace
<1>4. Promise!Stop("failed")
  <2>1. \A c \in Calls : Phase[c] \in Promise!Open <=> c \in pendingRequests
    BY DEF OnError, WorkerInv, TypeOK, PendingIsExact, Phase, Promise!Open
  <2>2. \A c \in Calls :
          Phase'[c] = IF Phase[c] \in Promise!Open THEN "failed" ELSE Phase[c]
    BY <2>1 DEF OnError, WorkerInv, TypeOK, PendingIsExact, Phase
  <2>3. Phase' = [c \in Calls |->
                    IF Phase[c] \in Promise!Open THEN "failed" ELSE Phase[c]]
    BY <2>2 DEF Phase
  <2>4. QED
    BY <2>3 DEF OnError, Promise!Stop
<1>5. QED
  BY <1>1, <1>2, <1>3, <1>4 DEF WorkerInv, PromiseStep, Promise!Next

\* The client terminates the worker: every open call is abandoned.
LEMMA TerminateStep ==
    ASSUME WorkerInv, Terminate
    PROVE  WorkerInv' /\ PromiseStep
<1>1. TypeOK'
  BY DEF Terminate, WorkerInv, TypeOK
<1>2. PendingIsExact' /\ OwnResponses' /\ OnePlace'
  BY DEF Terminate, WorkerInv, TypeOK, PendingIsExact, OwnResponses, OnePlace,
         RequestsApart, ResponsesApart, Made
<1>3. Promise!Stop("abandoned")
  <2>1. \A c \in Calls :
          Phase'[c] = IF Phase[c] \in Promise!Open THEN "abandoned" ELSE Phase[c]
    BY DEF Terminate, WorkerInv, TypeOK, PendingIsExact, Phase, Promise!Open
  <2>2. Phase' = [c \in Calls |->
                    IF Phase[c] \in Promise!Open THEN "abandoned" ELSE Phase[c]]
    BY <2>1 DEF Phase
  <2>3. QED
    BY <2>2 DEF Terminate, Promise!Stop
<1>4. QED
  BY <1>1, <1>2, <1>3 DEF WorkerInv, PromiseStep, Promise!Next

\* A handler ends and posts the response to its call, which had none.
LEMMA PostsStep ==
    ASSUME WorkerInv, NEW c \in Calls, Posts(c),
           \A i \in 1 .. Len(responses) : responses[i].requestId # c,
           UNCHANGED <<kind, state, result, pendingRequests>>
    PROVE  /\ responses' \in Seq(Responses)
           /\ OwnResponses'
           /\ Len(responses') = Len(responses) + 1
           /\ \A i \in 1 .. Len(responses) : responses'[i] = responses[i]
           /\ responses'[Len(responses) + 1].requestId = c
           /\ PromiseStep
<1>1. PICK outcome \in Cases[kind[c]].outcomes :
        responses' = Append(responses,
          [requestId |-> c,
           type |-> IF outcome = "threw" THEN responseTypeMap[kind[c]] ELSE Cases[kind[c]].type,
           success |-> outcome = "ok",
           of |-> c])
  BY DEF Posts
<1> DEFINE success == outcome = "ok"
           response == [requestId |-> c, type |-> Expected[kind[c]],
                        success |-> success, of |-> c]
<1>2. kind[c] \in RequestTypes
  BY DEF WorkerInv, TypeOK
<1>3. responses' = Append(responses, response)
  BY <1>1, <1>2, TypesAgree
<1>4. response \in Responses
  BY <1>2, TypesAgree DEF Responses
<1>5. kind[c] = "PING_REQUEST" => success
  BY <1>1 DEF Cases
<1>6. /\ response.requestId = c /\ response.of = c
      /\ response.type = Expected[kind[c]] /\ response.success = success
      /\ success \in BOOLEAN
  OBVIOUS
<1> HIDE DEF response, success
<1>7. /\ responses' \in Seq(Responses)
      /\ Len(responses') = Len(responses) + 1
      /\ \A i \in 1 .. Len(responses) : responses'[i] = responses[i]
      /\ responses'[Len(responses) + 1] = response
      /\ Len(responses) \in Nat
  BY <1>3, <1>4, QueueAppend DEF WorkerInv, TypeOK
<1>8. OwnResponses'
  <2>1. \A i \in 1 .. Len(responses') : i \in 1 .. Len(responses) \/ i = Len(responses) + 1
    BY <1>7
  <2>2. QED
    BY <1>5, <1>6, <1>7, <2>1 DEF WorkerInv, OwnResponses
<1>9. PromiseStep
  <2>1. \A d \in Calls, s \in BOOLEAN :
          Posted(d, s)' <=> (Posted(d, s) \/ (d = c /\ s = success))
    BY <1>6, <1>7 DEF Posted
  <2>2. \A s \in BOOLEAN : ~Posted(c, s)
    BY DEF Posted
  <2>3. \A d \in Calls \ {c} : Phase'[d] = Phase[d]
    BY <2>1 DEF Phase
  <2>4. CASE state[c] = "pending" /\ c \in pendingRequests
    <3>1. Phase[c] = "pending"
      BY <2>2, <2>4 DEF Phase
    <3>2. Phase'[c] = IF success THEN "ready" ELSE "broken"
      BY <1>6, <2>1, <2>2, <2>4 DEF Phase
    <3>3. Phase' = [Phase EXCEPT ![c] = IF success THEN "ready" ELSE "broken"]
      BY <2>3, <3>2 DEF Phase
    <3>4. Promise!Compute(c)
      BY <1>6, <3>1, <3>3 DEF Promise!Compute
    <3>5. QED
      BY <3>4 DEF PromiseStep, Promise!Next
  <2>5. CASE ~(state[c] = "pending" /\ c \in pendingRequests)
    <3>1. Phase'[c] = Phase[c]
      BY <2>5 DEF Phase
    <3>2. Phase' = Phase
      BY <2>3, <3>1 DEF Phase
    <3>3. QED
      BY <3>2 DEF PromiseStep
  <2>6. QED
    BY <2>4, <2>5
<1>10. QED
  BY <1>6, <1>7, <1>8, <1>9

\* The worker posts a response to the request it has computed.
LEMMA WorkerRespondsStep ==
    ASSUME WorkerInv, NEW c \in Calls, WorkerResponds(c)
    PROVE  WorkerInv' /\ PromiseStep
<1>1. /\ Posts(c)
      /\ \A i \in 1 .. Len(responses) : responses[i].requestId # c
      /\ UNCHANGED <<kind, state, result, pendingRequests>>
  BY DEF WorkerResponds, WorkerInv, OnePlace, RequestsApart, ResponsesApart
<1>2. /\ responses' \in Seq(Responses)
      /\ OwnResponses'
      /\ Len(responses') = Len(responses) + 1
      /\ \A i \in 1 .. Len(responses) : responses'[i] = responses[i]
      /\ responses'[Len(responses) + 1].requestId = c
      /\ PromiseStep
  BY <1>1, PostsStep
<1>3. TypeOK'
  BY <1>2 DEF WorkerResponds, WorkerInv, TypeOK
<1>4. PendingIsExact'
  BY DEF WorkerResponds, WorkerInv, PendingIsExact
<1>5. OnePlace'
  <2>1. RequestsApart /\ ResponsesApart /\ Made /\ state[c] # "idle"
    BY DEF WorkerResponds, WorkerInv, OnePlace, Made
  <2>2. \A i \in 1 .. Len(responses') : i \in 1 .. Len(responses) \/ i = Len(responses) + 1
    BY <1>2, PlacesTyped DEF WorkerInv
  <2>3. RequestsApart'
    BY <1>1, <1>2, <2>1, <2>2 DEF WorkerResponds, RequestsApart
  <2>4. ResponsesApart'
    BY <1>1, <1>2, <2>1, <2>2 DEF WorkerResponds, ResponsesApart
  <2>5. Made'
    BY <1>1, <1>2, <2>1, <2>2 DEF WorkerResponds, Made
  <2>6. QED
    BY <2>3, <2>4, <2>5 DEF OnePlace
<1>6. QED
  BY <1>2, <1>3, <1>4, <1>5 DEF WorkerInv

\* The worker takes its next request.
LEMMA WorkerReceivesStep ==
    ASSUME WorkerInv, WorkerReceives
    PROVE  WorkerInv' /\ PromiseStep
<1> DEFINE c == Head(requests)
<1>1. /\ c \in Calls /\ requests' \in Seq(Calls)
      /\ \A i \in 1 .. Len(requests') :
           i + 1 \in 1 .. Len(requests) /\ requests'[i] = requests[i + 1]
      /\ c = requests[1] /\ 1 \in 1 .. Len(requests)
      /\ UNCHANGED <<kind, state, result, pendingRequests, worker>>
  BY QueueHead DEF WorkerReceives, WorkerInv, TypeOK
<1>2. /\ \A i \in 1 .. Len(requests') : requests'[i] # c
      /\ \A i \in 1 .. Len(responses) : responses[i].requestId # c
      /\ c \notin computing
      /\ state[c] # "idle"
  BY <1>1 DEF WorkerInv, OnePlace, RequestsApart, ResponsesApart, Made
<1>3. PendingIsExact'
  BY <1>1 DEF WorkerInv, PendingIsExact
<1>4. CASE kind[c] \in Synchronous
  <2>1. Posts(c) /\ UNCHANGED computing
    BY <1>4 DEF WorkerReceives
  <2> HIDE DEF c
  <2>2. /\ responses' \in Seq(Responses)
        /\ OwnResponses'
        /\ Len(responses') = Len(responses) + 1
        /\ \A i \in 1 .. Len(responses) : responses'[i] = responses[i]
        /\ responses'[Len(responses) + 1].requestId = c
        /\ PromiseStep
    BY <1>1, <1>2, <2>1, PostsStep
  <2>3. TypeOK'
    BY <1>1, <2>1, <2>2 DEF WorkerInv, TypeOK
  <2>4. OnePlace'
    <3>1. RequestsApart /\ ResponsesApart /\ Made
      BY DEF WorkerInv, OnePlace
    <3>2. \A i \in 1 .. Len(responses') :
            i \in 1 .. Len(responses) \/ i = Len(responses) + 1
      BY <2>2, PlacesTyped DEF WorkerInv
    <3>3. RequestsApart'
      <4> SUFFICES ASSUME NEW i \in 1 .. Len(requests')
                   PROVE  /\ requests'[i] \notin computing'
                          /\ \A j \in 1 .. Len(requests') :
                               requests'[i] = requests'[j] => i = j
                          /\ \A j \in 1 .. Len(responses') :
                               requests'[i] # responses'[j].requestId
        BY DEF RequestsApart
      <4>1. requests'[i] = requests[i + 1] /\ i + 1 \in 1 .. Len(requests)
        BY <1>1
      <4>2. requests'[i] \notin computing'
        BY <2>1, <3>1, <4>1 DEF RequestsApart
      <4>3. ASSUME NEW j \in 1 .. Len(requests'), requests'[i] = requests'[j]
            PROVE  i = j
        <5>1. requests'[j] = requests[j + 1] /\ j + 1 \in 1 .. Len(requests)
          BY <1>1
        <5>2. i + 1 = j + 1
          BY <3>1, <4>1, <4>3, <5>1 DEF RequestsApart
        <5>3. QED
          BY <5>2
      <4>4. ASSUME NEW j \in 1 .. Len(responses')
            PROVE  requests'[i] # responses'[j].requestId
        BY <1>2, <2>2, <3>1, <3>2, <4>1 DEF RequestsApart
      <4>5. QED
        BY <4>2, <4>3, <4>4
    <3>4. ResponsesApart'
      BY <1>2, <2>1, <2>2, <3>1, <3>2 DEF ResponsesApart
    <3>5. Made'
      BY <1>1, <1>2, <2>1, <2>2, <3>1, <3>2 DEF Made
    <3>6. QED
      BY <3>3, <3>4, <3>5 DEF OnePlace
  <2>5. QED
    BY <1>3, <2>2, <2>3, <2>4 DEF WorkerInv
<1>5. CASE kind[c] \notin Synchronous
  <2>1. computing' = computing \cup {c} /\ UNCHANGED responses
    BY <1>5 DEF WorkerReceives
  <2> HIDE DEF c
  <2>2. TypeOK' /\ OwnResponses'
    BY <1>1, <2>1 DEF WorkerInv, TypeOK, OwnResponses
  <2>3. OnePlace'
    <3>1. RequestsApart /\ ResponsesApart /\ Made
      BY DEF WorkerInv, OnePlace
    <3>2. RequestsApart'
      BY <1>1, <1>2, <2>1, <3>1 DEF RequestsApart
    <3>3. ResponsesApart'
      BY <1>2, <2>1, <3>1 DEF ResponsesApart
    <3>4. Made'
      BY <1>1, <1>2, <2>1, <3>1 DEF Made
    <3>5. QED
      BY <3>2, <3>3, <3>4 DEF OnePlace
  <2>4. PromiseStep
    BY <1>1, <2>1, PhaseUnchanged DEF PromiseStep
  <2>5. QED
    BY <1>3, <2>2, <2>3, <2>4 DEF WorkerInv
<1>6. QED
  BY <1>4, <1>5

\* A response leaves its queue.
LEMMA TailKeepsPlaces ==
    ASSUME TypeOK, OnePlace, UNCHANGED <<requests, computing>>,
           \A d \in Calls : state[d] # "idle" => state'[d] # "idle",
           \A i \in 1 .. Len(responses') :
             i + 1 \in 1 .. Len(responses) /\ responses'[i] = responses[i + 1]
    PROVE  OnePlace'
<1>1. RequestsApart'
  BY DEF OnePlace, RequestsApart
<1>2. ResponsesApart'
  <2> SUFFICES ASSUME NEW i \in 1 .. Len(responses')
               PROVE  /\ responses'[i].requestId \notin computing
                      /\ \A j \in 1 .. Len(responses') :
                           responses'[i].requestId = responses'[j].requestId => i = j
    BY DEF ResponsesApart
  <2>1. responses'[i].requestId \notin computing
    BY DEF OnePlace, ResponsesApart
  <2>2. ASSUME NEW j \in 1 .. Len(responses'),
               responses'[i].requestId = responses'[j].requestId
        PROVE  i = j
    <3>1. i + 1 = j + 1
      BY <2>2 DEF OnePlace, ResponsesApart
    <3>2. QED
      BY <3>1
  <2>3. QED
    BY <2>1, <2>2
<1>3. Made'
  <2>1. \A i \in 1 .. Len(requests) : state[requests[i]] # "idle" /\ requests[i] \in Calls
    BY PlacesTyped DEF OnePlace, Made
  <2>2. \A i \in 1 .. Len(responses) :
          state[responses[i].requestId] # "idle" /\ responses[i].requestId \in Calls
    BY PlacesTyped DEF OnePlace, Made
  <2>3. \A d \in computing : state[d] # "idle" /\ d \in Calls
    BY DEF OnePlace, Made, TypeOK
  <2>4. \A i \in 1 .. Len(responses') : state'[responses'[i].requestId] # "idle"
    BY <2>2
  <2>5. QED
    BY <2>1, <2>3, <2>4 DEF Made
<1>4. QED
  BY <1>1, <1>2, <1>3 DEF OnePlace

\* A response arrives.
LEMMA OnMessageStep ==
    ASSUME WorkerInv, OnMessage
    PROVE  WorkerInv' /\ PromiseStep
<1> DEFINE response == Head(responses)
           c == response.requestId
<1>1. /\ response \in Responses
      /\ responses' \in Seq(Responses)
      /\ \A i \in 1 .. Len(responses') :
           i + 1 \in 1 .. Len(responses) /\ responses'[i] = responses[i + 1]
      /\ \A i \in 1 .. Len(responses) :
           i = 1 \/ (i - 1 \in 1 .. Len(responses') /\ responses'[i - 1] = responses[i])
      /\ response = responses[1] /\ 1 \in 1 .. Len(responses)
      /\ UNCHANGED <<kind, worker, requests, computing>>
  BY QueueHead DEF OnMessage, WorkerInv, TypeOK
<1>2. /\ c \in Calls /\ response.success \in BOOLEAN
      /\ response.of = c /\ response.type = Expected[kind[c]]
  BY <1>1 DEF WorkerInv, OwnResponses, Responses
<1>3. OwnResponses'
  BY <1>1 DEF WorkerInv, OwnResponses
<1>4. /\ \A i \in 1 .. Len(responses') : responses'[i].requestId # c
      /\ \A i \in 1 .. Len(responses) : responses[i].requestId = c => i = 1
  <2>1. \A i \in 1 .. Len(responses) : responses[i].requestId = c => i = 1
    BY <1>1 DEF WorkerInv, OnePlace, ResponsesApart
  <2>2. \A i \in 1 .. Len(responses') : i + 1 # 1
    OBVIOUS
  <2>3. QED
    BY <1>1, <2>1, <2>2
<1>5. \A d \in Calls \ {c}, s \in BOOLEAN : Posted(d, s)' <=> Posted(d, s)
  <2> SUFFICES ASSUME NEW d \in Calls \ {c}, NEW s \in BOOLEAN
               PROVE  Posted(d, s)' <=> Posted(d, s)
    OBVIOUS
  <2>1. Posted(d, s)' => Posted(d, s)
    BY <1>1 DEF Posted
  <2>2. ASSUME NEW i \in 1 .. Len(responses),
               responses[i].requestId = d, responses[i].success = s
        PROVE  Posted(d, s)'
    <3>1. i # 1
      BY <1>1, <2>2
    <3>2. i - 1 \in 1 .. Len(responses') /\ responses'[i - 1] = responses[i]
      BY <1>1, <3>1
    <3>3. QED
      BY <2>2, <3>2 DEF Posted
  <2>3. QED
    BY <2>1, <2>2 DEF Posted
<1>6. Posted(c, response.success) /\ ~Posted(c, ~response.success)
  BY <1>1, <1>2, <1>4 DEF Posted
<1>7. CASE c \in pendingRequests
  <2>1. /\ Settles(response)
        /\ pendingRequests' = pendingRequests \ {c}
    BY <1>7 DEF OnMessage
  <2>2. state[c] = "pending"
    BY <1>7 DEF WorkerInv, PendingIsExact
  <2>3. kind[c] = "PING_REQUEST" => response.success
    BY <1>1 DEF WorkerInv, OwnResponses
  <2>4. state' = [state EXCEPT ![c] = IF response.success THEN "answered" ELSE "failed"]
    BY <1>2, <2>1, <2>3 DEF Settles
  <2>5. result' = IF response.success THEN [result EXCEPT ![c] = {c}] ELSE result
    BY <1>2, <2>1 DEF Settles
  <2> HIDE DEF response, c
  <2>6. TypeOK'
    BY <1>1, <1>2, <2>1, <2>4, <2>5 DEF WorkerInv, TypeOK
  <2>7. PendingIsExact'
    BY <1>1, <1>2, <2>1, <2>4 DEF WorkerInv, TypeOK, PendingIsExact
  <2>8. OnePlace'
    <3>1. \A d \in Calls : state[d] # "idle" => state'[d] # "idle"
      BY <1>2, <2>4 DEF WorkerInv, TypeOK
    <3>2. QED
      BY <1>1, <3>1, TailKeepsPlaces DEF WorkerInv
  <2>9. \A d \in Calls \ {c} : Phase'[d] = Phase[d]
    BY <1>5, <2>1, <2>4 DEF WorkerInv, TypeOK, Phase
  <2>10. CASE response.success
    <3>1. Phase[c] = "ready" /\ Phase'[c] = "answered"
      BY <1>2, <1>6, <1>7, <2>2, <2>4, <2>10 DEF WorkerInv, TypeOK, Phase
    <3>2. Phase' = [Phase EXCEPT ![c] = "answered"]
      BY <2>9, <3>1 DEF Phase
    <3>3. Promise!Answer(c)
      BY <2>5, <2>10, <3>1, <3>2 DEF Promise!Answer
    <3>4. QED
      BY <1>2, <1>3, <2>6, <2>7, <2>8, <3>3 DEF WorkerInv, PromiseStep, Promise!Next
  <2>11. CASE ~response.success
    <3>1. Phase[c] = "broken" /\ Phase'[c] = "failed"
      BY <1>2, <1>6, <1>7, <2>2, <2>4, <2>11 DEF WorkerInv, TypeOK, Phase
    <3>2. Phase' = [Phase EXCEPT ![c] = "failed"]
      BY <2>9, <3>1 DEF Phase
    <3>3. Promise!Fail(c)
      BY <2>5, <2>11, <3>1, <3>2 DEF Promise!Fail
    <3>4. QED
      BY <1>2, <1>3, <2>6, <2>7, <2>8, <3>3 DEF WorkerInv, PromiseStep, Promise!Next
  <2>12. QED
    BY <2>10, <2>11
<1>8. CASE c \notin pendingRequests
  <2>1. UNCHANGED <<state, result, pendingRequests>>
    BY <1>8 DEF OnMessage
  <2> HIDE DEF response, c
  <2>2. \A d \in Calls : Phase'[d] = Phase[d]
    BY <1>5, <1>8, <2>1 DEF Phase
  <2>3. PromiseStep
    BY <2>1, <2>2 DEF PromiseStep, Phase
  <2>4. TypeOK' /\ PendingIsExact'
    BY <1>1, <2>1 DEF WorkerInv, TypeOK, PendingIsExact
  <2>5. OnePlace'
    BY <1>1, <2>1, TailKeepsPlaces DEF WorkerInv
  <2>6. QED
    BY <1>3, <2>3, <2>4, <2>5 DEF WorkerInv
<1>9. QED
  BY <1>7, <1>8

\* Every step keeps the invariant, and is a step of Rpc or none.
LEMMA StepKeepsPromise ==
    ASSUME WorkerInv, [Next]_vars
    PROVE  WorkerInv' /\ PromiseStep
<1>1. CASE ScriptLoads
  <2>1. WorkerInv'
    BY <1>1 DEF ScriptLoads, WorkerInv, TypeOK, PendingIsExact, OwnResponses, OnePlace,
         RequestsApart, ResponsesApart, Made
  <2>2. QED
    BY <1>1, <2>1, PhaseUnchanged DEF ScriptLoads, PromiseStep
<1>2. CASE UNCHANGED vars
  <2>1. WorkerInv'
    <3>1. UNCHANGED <<kind, state, result, pendingRequests, worker, requests,
                      computing, responses>>
      BY <1>2 DEF vars
    <3>2. TypeOK' /\ PendingIsExact' /\ OwnResponses'
      BY <3>1 DEF WorkerInv, TypeOK, PendingIsExact, OwnResponses
    <3>3. RequestsApart' /\ ResponsesApart'
      BY <3>1 DEF WorkerInv, OnePlace, RequestsApart, ResponsesApart
    <3>4. Made'
      BY <3>1 DEF WorkerInv, OnePlace, Made
    <3>5. QED
      BY <3>2, <3>3, <3>4 DEF WorkerInv, OnePlace
  <2>2. QED
    BY <1>2, <2>1, PhaseUnchanged DEF vars, PromiseStep
<1>3. QED
  BY <1>1, <1>2, SendRequestStep, OnErrorStep, TerminateStep, WorkerRespondsStep,
     WorkerReceivesStep, OnMessageStep DEF Next

\* The inductive invariant holds in every reachable state.
THEOREM InvHolds == Spec => []WorkerInv
<1>1. WorkerInv /\ [Next]_vars => WorkerInv'
  BY StepKeepsPromise
<1>2. QED
  BY <1>1, InitInv, PTL DEF Spec

\* Type correctness.
THEOREM TypeCorrect == Spec => []TypeOK
<1>1. WorkerInv => TypeOK
  BY DEF WorkerInv
<1>2. QED
  BY <1>1, InvHolds, PTL

\* The client's Map holds exactly the open calls.
THEOREM MapIsExact == Spec => []PendingIsExact
<1>1. WorkerInv => PendingIsExact
  BY DEF WorkerInv
<1>2. QED
  BY <1>1, InvHolds, PTL

\* Client and worker implement Rpc: a call ends as its own computation did,
\* with the result of no other.
THEOREM Implements == Spec => KeepsPromise
<1>1. Init => Promise!Init
  BY DEF Init, Promise!Init, Phase
<1>2. WorkerInv /\ [Next]_vars => [Promise!Next]_(Promise!rpcVars)
  BY StepKeepsPromise DEF PromiseStep, Promise!rpcVars
<1>3. QED
  BY <1>1, <1>2, InvHolds, PTL DEF Spec, KeepsPromise, Promise!Spec
=============================================================================
