------------------------------ MODULE RestProofs ------------------------------
(***************************************************************************)
(* Proofs about the REST services, for any number of calls, rows, keys and *)
(* days, and any constants: every answer is true of what happened, merges  *)
(* lose metadata only to merges they overlap with, an expired challenge    *)
(* stays so, the key directory is serial, and a purge leaves the tables    *)
(* tidy.                                                                   *)
(***************************************************************************)
EXTENDS RestApi, SequenceTheorems, FiniteSetTheorems, WellFoundedInduction, TLAPS

-----------------------------------------------------------------------------
(* The calls.                                                              *)

\* Calls begin idle; two that wait know that they overlap.
CallsOK ==
    /\ DOMAIN call = Calls
    /\ \A c \in Calls :
         /\ call[c].phase \in {"idle", "waiting", "done"}
         /\ call[c].phase = "idle" => call[c] = NotMade
         /\ call[c].phase = "waiting" => call[c].answer = "none"
    /\ \A c, d \in InFlight : c # d => <<c, d>> \in together

\* Call c makes a step, alone.
Moves(c) ==
    /\ DOMAIN call' = Calls
    /\ \A d \in Calls \ {c} : call'[d] = call[d]
    /\ together \subseteq together'

\* What a call does in one step: it begins to wait, is answered at once, or is
\* answered after it has waited.
BeginsToWait(c) ==
    /\ call[c].phase = "idle"
    /\ call'[c].phase = "waiting" /\ call'[c].answer = "none"
    /\ (InFlight \X {c}) \cup ({c} \X InFlight) \subseteq together'
IsAnsweredAtOnce(c) == call[c].phase = "idle" /\ call'[c].phase = "done"
IsAnswered(c) ==
    /\ call[c].phase = "waiting" /\ call'[c].phase = "done"
    /\ call'[c].op = call[c].op /\ call'[c].on = call[c].on
CallStep(c) == Moves(c) /\ (BeginsToWait(c) \/ IsAnsweredAtOnce(c) \/ IsAnswered(c))

LEMMA Refuses ==
    ASSUME CallsOK, NEW c \in Calls, Refused(c)
    PROVE  /\ CallStep(c) /\ IsAnsweredAtOnce(c)
           /\ call'[c].op = "refused" /\ call'[c].answer \in {"TooMany", "NotFound", "Unauthorized", "BadRequest"}
<1>1. Refusals \subseteq {"NotFound", "Unauthorized", "BadRequest"}
  BY DEF Refusals, Refusal
<1>2. QED
  BY <1>1 DEF CallsOK, Refused, CallStep, Moves, IsAnsweredAtOnce

LEMMA StepKeepsCalls ==
    ASSUME CallsOK, NEW c \in Calls, CallStep(c)
    PROVE  CallsOK'
<1> USE DEF CallStep, Moves
<1>1. DOMAIN call' = Calls
  OBVIOUS
<1>2. ASSUME NEW d \in Calls
      PROVE  /\ call'[d].phase \in {"idle", "waiting", "done"}
             /\ call'[d].phase = "idle" => call'[d] = NotMade
             /\ call'[d].phase = "waiting" => call'[d].answer = "none"
  BY <1>2 DEF CallsOK, BeginsToWait, IsAnsweredAtOnce, IsAnswered
<1>3. ASSUME NEW d \in InFlight', NEW e \in InFlight', d # e
      PROVE  <<d, e>> \in together'
  <2>1. d \in Calls /\ e \in Calls /\ call'[d].phase = "waiting" /\ call'[e].phase = "waiting"
    BY DEF InFlight
  <2>2. CASE d # c /\ e # c
    BY <2>1, <2>2, <1>3 DEF InFlight, CallsOK
  <2>3. CASE d = c
    <3>1. BeginsToWait(c) /\ e \in InFlight
      BY <2>1, <2>3, <1>3 DEF IsAnsweredAtOnce, IsAnswered, InFlight
    <3>2. QED
      BY <3>1, <2>3 DEF BeginsToWait
  <2>4. CASE e = c
    <3>1. BeginsToWait(c) /\ d \in InFlight
      BY <2>1, <2>4, <1>3 DEF IsAnsweredAtOnce, IsAnswered, InFlight
    <3>2. QED
      BY <3>1, <2>4 DEF BeginsToWait
  <2>5. QED
    BY <2>2, <2>3, <2>4
<1>4. QED
  BY <1>1, <1>2, <1>3 DEF CallsOK

-----------------------------------------------------------------------------
(* The key directory.                                                      *)

\* Who is about to revoke a row has found it; a row somebody was told to have
\* revoked is revoked.
DirectoryOK ==
    /\ publicKey \in [KeyIds -> KeyTexts \cup {"none", "revoked"}]
    /\ \A c \in Calls : Waiting(c, "revokeKey") => call[c].on \in KeyIds
    /\ \A c \in Calls : call[c].op = "revokeKey" /\ call[c].answer = "done" =>
         call[c].on \in KeyIds /\ publicKey[call[c].on] = "revoked"
    /\ \A id, other \in KeyIds : id # other /\ Held(id) => publicKey[id] # publicKey[other]

-----------------------------------------------------------------------------

\* Whose calls they are: the operations of a controller, and no answer of
\* another one than that of the sessions speaks of a challenge.
HandshakeOps == {"findOne", "findBySession", "findByUser", "create", "update", "addMetadata", "delete"}
KeyOps == {"getKeyByKeyId", "getFingerprint", "getKeyByUserId", "registerKey", "revokeKey"}
SessionOps == {"createSession", "getSession", "validateChallenge", "completeSession"}
AuditOps == {"logEvent", "recordMetric", "getLogs", "getLogsByActor", "getLogById", "getMetrics",
             "getMetricsByType", "getSummary", "getPrometheusMetrics"}
OtherOps == {"refused", "check", "readiness"}
Concerns(c, ops) == CallStep(c) /\ call'[c].op \in ops
SaysNothingOfExpiry(c) == call'[c].answer \notin {"EXPIRED", "valid"}

LEMMA OfNoStore ==
    ASSUME CallsOK, NEW c \in Calls, Refused(c) \/ HealthCall(c)
    PROVE  Concerns(c, OtherOps) /\ SaysNothingOfExpiry(c) /\ IsAnsweredAtOnce(c)
<1>1. CASE Refused(c)
  BY <1>1, Refuses DEF Concerns, OtherOps, SaysNothingOfExpiry
<1>2. CASE HealthCall(c)
  <2>1. PICK op \in {"check", "readiness"}, up \in BOOLEAN :
            AnswerAtOnce(c, op, {}, IF up THEN "done" ELSE "Error")
    BY <1>2 DEF HealthCall
  <2>2. QED
    BY <2>1 DEF Concerns, OtherOps, SaysNothingOfExpiry, Done,
                AnswerAtOnce, Admitted, CallsOK, CallStep, Moves, IsAnsweredAtOnce
<1>3. QED
  BY <1>1, <1>2

LEMMA OfNoRow ==
    ASSUME CallsOK, NEW c \in Calls, StatementFails(c)
    PROVE  /\ CallStep(c) /\ SaysNothingOfExpiry(c)
           /\ call'[c].phase = "done" /\ call'[c].answer = "Error"
           /\ \E op : call'[c].status = StatusOf(op, "Error")
<1> USE DEF Done, AnswerAtOnce, AnswerWaiting, Admitted, CallsOK, SaysNothingOfExpiry,
            CallStep, Moves, IsAnsweredAtOnce, IsAnswered
<1>1. ASSUME NEW op \in Operations, AnswerAtOnce(c, op, {}, "Error")
      PROVE  /\ CallStep(c) /\ SaysNothingOfExpiry(c)
             /\ call'[c].phase = "done" /\ call'[c].answer = "Error"
             /\ call'[c].status = StatusOf(op, "Error")
  BY <1>1
<1>2. ASSUME call[c].phase = "waiting", AnswerWaiting(c, "Error")
      PROVE  /\ CallStep(c) /\ SaysNothingOfExpiry(c)
             /\ call'[c].phase = "done" /\ call'[c].answer = "Error"
             /\ call'[c].status = StatusOf(call[c].op, "Error")
  BY <1>2
<1>3. QED
  BY <1>1, <1>2 DEF StatementFails

LEMMA OfHandshakes ==
    ASSUME CallsOK, NEW c \in Calls, HandshakeCall(c)
    PROVE  Concerns(c, HandshakeOps) /\ SaysNothingOfExpiry(c)
<1> USE DEF Concerns, HandshakeOps, SaysNothingOfExpiry, Done,
            AnswerAtOnce, Await, AnswerWaiting, Admitted, CallsOK,
            CallStep, Moves, BeginsToWait, IsAnsweredAtOnce, IsAnswered
<1>1. CASE GetHandshake(c)
  BY <1>1 DEF GetHandshake, Exists, Statuses
<1>2. CASE GetHandshakesByUser(c)
  BY <1>2 DEF GetHandshakesByUser
<1>3. CASE CreateHandshake(c)
  BY <1>3 DEF CreateHandshake
<1>4. CASE UpdateHandshake(c)
  BY <1>4 DEF UpdateHandshake
<1>5. CASE DeleteHandshake(c)
  BY <1>5 DEF DeleteHandshake
<1>6. CASE FindForMerge(c)
  BY <1>6 DEF FindForMerge
<1>7. CASE WriteMerged(c)
  BY <1>7 DEF WriteMerged, Waiting
<1>8. QED
  BY <1>1, <1>2, <1>3, <1>4, <1>5, <1>6, <1>7 DEF HandshakeCall

LEMMA OfSessions ==
    ASSUME CallsOK, NEW c \in Calls, SessionCall(c)
    PROVE  Concerns(c, SessionOps)
<1> USE DEF Concerns, SessionOps, Done,
            AnswerAtOnce, Await, AnswerWaiting, Admitted, CallsOK,
            CallStep, Moves, BeginsToWait, IsAnsweredAtOnce, IsAnswered
<1>1. CASE CreateSession(c)
  BY <1>1 DEF CreateSession
<1>2. CASE GetSession(c)
  BY <1>2 DEF GetSession
<1>3. CASE FindForValidation(c)
  BY <1>3 DEF FindForValidation
<1>4. CASE Validate(c)
  BY <1>4 DEF Validate, Waiting
<1>5. CASE CompleteSession(c)
  BY <1>5 DEF CompleteSession
<1>6. QED
  BY <1>1, <1>2, <1>3, <1>4, <1>5 DEF SessionCall

LEMMA OfKeys ==
    ASSUME CallsOK, DirectoryOK, NEW c \in Calls, KeyCall(c)
    PROVE  Concerns(c, KeyOps) /\ SaysNothingOfExpiry(c)
<1> USE DEF Concerns, KeyOps, SaysNothingOfExpiry, Done,
            AnswerAtOnce, Await, AnswerWaiting, Admitted, CallsOK,
            CallStep, Moves, BeginsToWait, IsAnsweredAtOnce, IsAnswered
<1>1. CASE GetKey(c)
  BY <1>1, KeyDirectoryAssumption DEF GetKey, Held
<1>2. CASE GetKeysOfUser(c)
  BY <1>2 DEF GetKeysOfUser
<1>3. CASE RegisterKey(c)
  BY <1>3 DEF RegisterKey
<1>4. CASE FindForRevocation(c)
  BY <1>4 DEF FindForRevocation
<1>5. CASE Revoke(c)
  BY <1>5 DEF Revoke, Waiting
<1>6. QED
  BY <1>1, <1>2, <1>3, <1>4, <1>5 DEF KeyCall

LEMMA OfTheAudit ==
    ASSUME CallsOK, NEW c \in Calls, AuditCall(c)
    PROVE  Concerns(c, AuditOps) /\ SaysNothingOfExpiry(c) /\ IsAnsweredAtOnce(c)
<1> USE DEF Concerns, AuditOps, SaysNothingOfExpiry, Done,
            AnswerAtOnce, Await, AnswerWaiting, Admitted, CallsOK,
            CallStep, Moves, BeginsToWait, IsAnsweredAtOnce, IsAnswered
<1>1. CASE Log(c)
  BY <1>1 DEF Log
<1>2. CASE Record(c)
  BY <1>2 DEF Record
<1>3. ASSUME NEW op \in AuditOps, NEW bag, NEW rows, NEW default, AnswerPage(c, op, bag, rows, default)
      PROVE  Concerns(c, AuditOps) /\ SaysNothingOfExpiry(c) /\ IsAnsweredAtOnce(c)
  BY <1>3 DEF AnswerPage
<1>4. CASE ReadCall(c)
  <2>1. CASE GetLogs(c)
    BY <2>1, <1>3 DEF GetLogs
  <2>2. CASE GetLogsByActor(c)
    BY <2>2, <1>3 DEF GetLogsByActor
  <2>3. CASE GetLogById(c)
    BY <2>3 DEF GetLogById
  <2>4. CASE GetMetrics(c)
    BY <2>4, <1>3 DEF GetMetrics
  <2>5. CASE GetSummary(c)
    BY <2>5 DEF GetSummary
  <2>6. QED
    BY <1>4, <2>1, <2>2, <2>3, <2>4, <2>5 DEF ReadCall
<1>5. QED
  BY <1>1, <1>2, <1>4 DEF AuditCall

-----------------------------------------------------------------------------
(* The handshakes.                                                         *)

\* Rows, and what is known of who wrote them.  A merge under way brings fields
\* of its own only.
StoreOK ==
    /\ DOMAIN handshake = Handshakes
    /\ \A h \in Handshakes :
         /\ DOMAIN handshake[h] = {"status", "metadata"}
         /\ handshake[h].status \in Statuses \cup {"none", "deleted"}
         /\ handshake[h].status = "none" => handshake[h] = NoRow
    /\ writes \in Seq([by : Calls, row : Handshakes, keys : SUBSET (Actors \X Fields)])
    /\ \A i \in 1 .. Len(writes) :
         call[writes[i].by].phase = "done" /\ handshake[writes[i].row] # NoRow
    /\ \A c \in Calls : Waiting(c, "addMetadata") =>
         /\ call[c].on \in Handshakes
         /\ handshake[call[c].on] # NoRow
         /\ DOMAIN call[c].read.brings \subseteq Actors \X Fields
         /\ \A k \in DOMAIN call[c].read.brings : call[c].read.brings[k] = c

\* Is this still the value of write i?
Holds(metadata, i, k) == k \in DOMAIN metadata /\ metadata[k] = writes[i].by

\* Was there another write of the field later, or one by a call that overlapped?
WrittenLater(i, k) ==
    \E j \in i + 1 .. Len(writes) :
        /\ writes[j].row = writes[i].row
        /\ k \in writes[j].keys \/ <<writes[i].by, writes[j].by>> \in together

\* What a merge wrote is in the row, and in what the merges under way have read,
\* but for those that overlapped with it.
Merges(i, k) ==
    /\ Holds(handshake[writes[i].row].metadata, i, k) \/ WrittenLater(i, k)
    /\ \A c \in Calls : Waiting(c, "addMetadata") /\ call[c].on = writes[i].row =>
         \/ Holds(call[c].read.metadata, i, k)
         \/ <<writes[i].by, c>> \in together
         \/ WrittenLater(i, k)
MergesKept ==
    \A i \in 1 .. Len(writes) : \A k \in writes[i].keys :
        call[writes[i].by].op = "addMetadata" /\ Exists(writes[i].row) => Merges(i, k)

StoreInv == CallsOK /\ StoreOK /\ MergesKept

\* The row of a handshake is replaced, not taken away.
RowStep(h) ==
    /\ DOMAIN handshake' = Handshakes
    /\ \A g \in Handshakes \ {h} : handshake'[g] = handshake[g]
    /\ DOMAIN handshake'[h] = {"status", "metadata"}
    /\ handshake'[h].status \in Statuses \cup {"deleted"}

AllKeys == SUBSET (Actors \X Fields)

LEMMA WriteType ==
    ASSUME StoreOK, NEW i \in 1 .. Len(writes)
    PROVE  writes[i].by \in Calls /\ writes[i].row \in Handshakes /\ writes[i].keys \in AllKeys
<1>1. writes \in Seq([by : Calls, row : Handshakes, keys : AllKeys])
  BY DEF StoreOK, AllKeys
<1>2. writes[i] \in [by : Calls, row : Handshakes, keys : AllKeys]
  BY <1>1, ElementOfSeq
<1>3. QED
  BY <1>2

\* What a body gives it gives for keys of the metadata.
LEMMA GivenKeys ==
    ASSUME NEW c, NEW m \in Given(c)
    PROVE  DOMAIN m \in AllKeys /\ \A k \in DOMAIN m : m[k] = c
<1>1. PICK a \in Actors, fs \in SUBSET Fields : m = [k \in {a} \X fs |-> c]
  BY Z3T(30) DEF Given
<1>2. DOMAIN m = {a} \X fs
  BY <1>1
<1>3. QED
  BY <1>1, <1>2 DEF AllKeys

\* The history after one more write.
LEMMA WriteAppends ==
    ASSUME StoreOK, NEW c \in Calls, NEW h \in Handshakes, NEW keys \in AllKeys, Write(c, h, keys)
    PROVE  /\ writes' \in Seq([by : Calls, row : Handshakes, keys : AllKeys])
           /\ Len(writes') = Len(writes) + 1 /\ Len(writes) \in Nat
           /\ \A i \in 1 .. Len(writes) : writes'[i] = writes[i]
           /\ writes'[Len(writes) + 1] = [by |-> c, row |-> h, keys |-> keys]
           /\ writes \in Seq([by : Calls, row : Handshakes, keys : AllKeys])
<1>1. [by |-> c, row |-> h, keys |-> keys] \in [by : Calls, row : Handshakes, keys : AllKeys]
  OBVIOUS
<1>2. writes \in Seq([by : Calls, row : Handshakes, keys : AllKeys])
  BY DEF StoreOK, AllKeys
<1>3. QED
  BY <1>1, <1>2, AppendProperties DEF Write

\* What was written later stays so.
LEMMA LaterStays ==
    ASSUME StoreOK, together \subseteq together',
           \/ UNCHANGED writes
           \/ \E c \in Calls, h \in Handshakes, keys \in AllKeys : Write(c, h, keys),
           NEW i \in 1 .. Len(writes), NEW k, WrittenLater(i, k)
    PROVE  WrittenLater(i, k)'
<1>1. PICK j \in i + 1 .. Len(writes) :
        /\ writes[j].row = writes[i].row
        /\ k \in writes[j].keys \/ <<writes[i].by, writes[j].by>> \in together
  BY DEF WrittenLater
<1>2. CASE UNCHANGED writes
  BY <1>1, <1>2 DEF WrittenLater
<1>3. ASSUME NEW c \in Calls, NEW h \in Handshakes, NEW keys \in AllKeys, Write(c, h, keys)
      PROVE  WrittenLater(i, k)'
  <2>0. Len(writes) \in Nat /\ Len(writes') = Len(writes) + 1
    BY <1>3, WriteAppends
  <2>1. j \in 1 .. Len(writes) /\ j \in i + 1 .. Len(writes')
    BY <1>1, <2>0
  <2>2. writes'[j] = writes[j] /\ writes'[i] = writes[i]
    BY <1>3, <2>1, WriteAppends
  <2>3. QED
    BY <1>1, <2>1, <2>2 DEF WrittenLater
<1>4. QED
  BY <1>2, <1>3

\* A step that writes no row, and after which its call waits for no merge.
LEMMA StoreUntouched ==
    ASSUME StoreInv, NEW c \in Calls, CallStep(c), UNCHANGED storeVars,
           ~Waiting(c, "addMetadata")'
    PROVE  StoreInv'
<1>1. CallsOK'
  BY StepKeepsCalls DEF StoreInv
<1>2. /\ UNCHANGED <<handshake, writes>>
      /\ \A d \in Calls : call[d].phase = "done" => call'[d] = call[d]
      /\ \A d \in Calls : Waiting(d, "addMetadata")' => Waiting(d, "addMetadata") /\ call'[d] = call[d]
      /\ together \subseteq together'
  BY DEF storeVars, CallStep, Moves, BeginsToWait, IsAnsweredAtOnce, IsAnswered, Waiting
<1>3. \A i \in 1 .. Len(writes) : writes[i].by \in Calls /\ call[writes[i].by].phase = "done"
  BY WriteType DEF StoreInv, StoreOK
<1>4. StoreOK'
  <2>1. \A i \in 1 .. Len(writes) : call'[writes[i].by].phase = "done" /\ handshake[writes[i].row] # NoRow
    BY <1>2, <1>3 DEF StoreInv, StoreOK
  <2>2. \A d \in Calls : Waiting(d, "addMetadata")' =>
          /\ call'[d].on \in Handshakes
          /\ handshake[call'[d].on] # NoRow
          /\ DOMAIN call'[d].read.brings \subseteq Actors \X Fields
          /\ \A k \in DOMAIN call'[d].read.brings : call'[d].read.brings[k] = d
    BY <1>2 DEF StoreInv, StoreOK
  <2>3. QED
    BY <1>2, <2>1, <2>2 DEF StoreInv, StoreOK
<1>5. MergesKept'
  <2> SUFFICES ASSUME NEW i \in 1 .. Len(writes), NEW k \in writes[i].keys,
                      call[writes[i].by].op = "addMetadata", Exists(writes[i].row)
               PROVE  Merges(i, k)'
    BY <1>2, <1>3 DEF MergesKept, Exists
  <2>1. Merges(i, k)
    BY DEF StoreInv, MergesKept
  <2>2. WrittenLater(i, k) => WrittenLater(i, k)'
    BY <1>2, LaterStays DEF StoreInv
  <2>3. QED
    BY <1>2, <2>1, <2>2 DEF Merges, Holds
<1>6. QED
  BY <1>1, <1>4, <1>5 DEF StoreInv

\* A step that replaces a row, whose call is answered by it.
LEMMA RowKeepsStoreOK ==
    ASSUME StoreInv, NEW c \in Calls, CallStep(c), call'[c].phase = "done",
           NEW h \in Handshakes, RowStep(h),
           \/ UNCHANGED writes
           \/ \E keys \in AllKeys : Write(c, h, keys)
    PROVE  StoreOK'
<1>1. /\ \A d \in Calls : call[d].phase = "done" => call'[d] = call[d]
      /\ \A d \in Calls : Waiting(d, "addMetadata")' => Waiting(d, "addMetadata") /\ call'[d] = call[d]
  BY DEF CallStep, Moves, BeginsToWait, IsAnsweredAtOnce, IsAnswered, Waiting
<1>2. /\ DOMAIN handshake' = Handshakes
      /\ \A g \in Handshakes :
           /\ DOMAIN handshake'[g] = {"status", "metadata"}
           /\ handshake'[g].status \in Statuses \cup {"none", "deleted"}
           /\ handshake'[g].status = "none" => handshake'[g] = NoRow
           /\ handshake[g] # NoRow => handshake'[g] # NoRow
           /\ handshake'[h] # NoRow
  BY DEF RowStep, StoreInv, StoreOK, NoRow, Statuses
<1>3. \A d \in Calls : Waiting(d, "addMetadata")' =>
        /\ call'[d].on \in Handshakes
        /\ handshake'[call'[d].on] # NoRow
        /\ DOMAIN call'[d].read.brings \subseteq Actors \X Fields
        /\ \A k \in DOMAIN call'[d].read.brings : call'[d].read.brings[k] = d
  BY <1>1, <1>2 DEF StoreInv, StoreOK
<1>4. \A i \in 1 .. Len(writes) :
        call'[writes[i].by].phase = "done" /\ handshake'[writes[i].row] # NoRow
  BY <1>1, <1>2, WriteType DEF StoreInv, StoreOK
<1>5. CASE UNCHANGED writes
  BY <1>2, <1>3, <1>4, <1>5 DEF StoreInv, StoreOK
<1>6. ASSUME NEW keys \in AllKeys, Write(c, h, keys)
      PROVE  StoreOK'
  <2>1. /\ writes' \in Seq([by : Calls, row : Handshakes, keys : AllKeys])
        /\ Len(writes') = Len(writes) + 1 /\ Len(writes) \in Nat
        /\ \A i \in 1 .. Len(writes) : writes'[i] = writes[i]
        /\ writes'[Len(writes) + 1] = [by |-> c, row |-> h, keys |-> keys]
    BY <1>6, WriteAppends DEF StoreInv
  <2>2. ASSUME NEW i \in 1 .. Len(writes')
        PROVE  call'[writes'[i].by].phase = "done" /\ handshake'[writes'[i].row] # NoRow
    <3>1. CASE i \in 1 .. Len(writes)
      BY <1>4, <2>1, <3>1
    <3>2. CASE i = Len(writes) + 1
      BY <1>2, <2>1, <3>2
    <3>3. QED
      BY <2>1, <3>1, <3>2
  <2>3. QED
    BY <1>2, <1>3, <2>1, <2>2 DEF StoreOK, AllKeys
<1>7. QED
  BY <1>5, <1>6

\* What such a step leaves of an earlier merge, if the row did not lose it.
LEMMA MergeStays ==
    ASSUME StoreInv, NEW c \in Calls, CallStep(c), call'[c].phase = "done",
           NEW h \in Handshakes, RowStep(h),
           \/ UNCHANGED writes
           \/ \E keys \in AllKeys : Write(c, h, keys),
           NEW i \in 1 .. Len(writes), NEW k, Merges(i, k),
           writes[i].row = h => \/ Holds(handshake'[h].metadata, i, k)
                                \/ WrittenLater(i, k)
                                \/ WrittenLater(i, k)'
    PROVE  Merges(i, k)'
<1>1. /\ \A d \in Calls : Waiting(d, "addMetadata")' => Waiting(d, "addMetadata") /\ call'[d] = call[d]
      /\ together \subseteq together'
  BY DEF CallStep, Moves, BeginsToWait, IsAnsweredAtOnce, IsAnswered, Waiting
<1>2. writes'[i] = writes[i] /\ writes[i].row \in Handshakes
  <2>1. ASSUME NEW keys \in AllKeys, Write(c, h, keys)
        PROVE  writes'[i] = writes[i]
    BY <2>1, WriteAppends DEF StoreInv
  <2>2. QED
    BY <2>1, WriteType DEF StoreInv
<1>3. WrittenLater(i, k) => WrittenLater(i, k)'
  BY <1>1, LaterStays DEF StoreInv
<1>4. Holds(handshake[writes[i].row].metadata, i, k) /\ writes[i].row # h
        => Holds(handshake[writes[i].row].metadata, i, k)'
  BY <1>2 DEF Holds, RowStep
<1>5. \/ Holds(handshake[writes[i].row].metadata, i, k)'
      \/ WrittenLater(i, k)'
  BY <1>2, <1>3, <1>4 DEF Merges, Holds
<1>6. ASSUME NEW d \in Calls, Waiting(d, "addMetadata")', call'[d].on = writes[i].row
      PROVE  \/ Holds(call[d].read.metadata, i, k)'
             \/ <<writes[i].by, d>> \in together'
             \/ WrittenLater(i, k)'
  BY <1>1, <1>2, <1>3, <1>6 DEF Merges, Holds
<1>7. QED
  BY <1>2, <1>5, <1>6 DEF Merges

\* A row is created, deleted, or updated by another operation than addMetadata.
LEMMA RowKeepsMerges ==
    ASSUME StoreInv, NEW c \in Calls, CallStep(c), call'[c].phase = "done",
           call'[c].op # "addMetadata",
           NEW h \in Handshakes, RowStep(h),
           \/ handshake[h] = NoRow /\ \E keys \in AllKeys : Write(c, h, keys)
           \/ Exists(h) /\ Write(c, h, Actors \X Fields)
           \/ Exists(h) /\ UNCHANGED writes /\ handshake'[h].metadata = handshake[h].metadata
           \/ ~Exists(h)' /\ UNCHANGED writes
    PROVE  StoreInv'
<1>1. CallsOK'
  BY StepKeepsCalls DEF StoreInv
<1>2. UNCHANGED writes \/ \E keys \in AllKeys : Write(c, h, keys)
  BY DEF AllKeys
<1>3. StoreOK'
  BY <1>2, RowKeepsStoreOK
<1>4. \A d \in Calls : call[d].phase = "done" => call'[d] = call[d]
  BY DEF CallStep, Moves, BeginsToWait, IsAnsweredAtOnce, IsAnswered
<1>5. ASSUME NEW i \in 1 .. Len(writes), NEW k \in writes[i].keys,
             call[writes[i].by].op = "addMetadata", handshake'[writes[i].row].status \in Statuses
      PROVE  Merges(i, k)'
  <2>1. /\ handshake[writes[i].row] # NoRow /\ writes[i].row \in Handshakes
        /\ k \in Actors \X Fields
    BY WriteType DEF StoreInv, StoreOK, AllKeys
  <2>2. Exists(writes[i].row)
    BY <1>5, <2>1 DEF RowStep, Exists, StoreInv, StoreOK
  <2>3. Merges(i, k)
    BY <1>5, <2>2 DEF StoreInv, MergesKept
  <2>4. writes[i].row = h => \/ Holds(handshake'[h].metadata, i, k)
                             \/ WrittenLater(i, k)
                             \/ WrittenLater(i, k)'
    <3>1. CASE Write(c, h, Actors \X Fields) /\ writes[i].row = h
      <4>0. PICK keys \in AllKeys : keys = Actors \X Fields
        BY DEF AllKeys
      <4>a. Write(c, h, keys)
        BY <3>1, <4>0
      <4>1. /\ Len(writes') = Len(writes) + 1 /\ Len(writes) \in Nat
            /\ writes'[i] = writes[i]
            /\ writes'[Len(writes) + 1] = [by |-> c, row |-> h, keys |-> keys]
        BY <4>a, WriteAppends DEF StoreInv
      <4>2. Len(writes) + 1 \in i + 1 .. Len(writes')
        BY <4>1
      <4>3. QED
        BY <2>1, <3>1, <4>0, <4>1, <4>2 DEF WrittenLater
    <3>2. CASE UNCHANGED writes /\ handshake'[h].metadata = handshake[h].metadata
      BY <2>3, <3>2 DEF Merges, Holds
    <3>3. QED
      BY <1>5, <2>1, <3>1, <3>2 DEF Exists
  <2>5. QED
    BY <1>2, <2>3, <2>4, MergeStays
<1>6. MergesKept'
  <2>1. CASE UNCHANGED writes
    BY <1>4, <1>5, <2>1, WriteType DEF MergesKept, Exists, StoreInv, StoreOK
  <2>2. ASSUME NEW keys \in AllKeys, Write(c, h, keys)
        PROVE  MergesKept'
    <3>1. /\ Len(writes') = Len(writes) + 1 /\ Len(writes) \in Nat
          /\ \A i \in 1 .. Len(writes) : writes'[i] = writes[i]
          /\ writes'[Len(writes) + 1] = [by |-> c, row |-> h, keys |-> keys]
      BY <2>2, WriteAppends DEF StoreInv
    <3>2. ASSUME NEW i \in 1 .. Len(writes'), NEW k \in writes'[i].keys,
                 call'[writes'[i].by].op = "addMetadata", Exists(writes[i].row)'
          PROVE  Merges(i, k)'
      <4>1. i # Len(writes) + 1
        BY <3>1, <3>2
      <4>2. i \in 1 .. Len(writes) /\ writes'[i] = writes[i]
        BY <3>1, <4>1
      <4>3. call[writes[i].by].op = "addMetadata"
        BY <1>4, <3>2, <4>2, WriteType DEF StoreInv, StoreOK
      <4>4. QED
        BY <1>5, <3>2, <4>2, <4>3 DEF Exists
    <3>3. QED
      BY <3>2 DEF MergesKept, Exists
  <2>3. QED
    BY <1>2, <2>1, <2>2
<1>7. QED
  BY <1>1, <1>3, <1>6 DEF StoreInv

\* addMetadata writes back what it read and what it brings: an earlier merge is
\* still in what it read, unless the two overlapped.
LEMMA WriteMergedKeepsMerges ==
    ASSUME StoreInv, NEW c \in Calls, WriteMerged(c)
    PROVE  StoreInv'
<1>0. PICK h, read : h = call[c].on /\ read = call[c].read
  OBVIOUS
<1>1. /\ Waiting(c, "addMetadata") /\ call[c].phase = "waiting"
      /\ h \in Handshakes /\ handshake[h] # NoRow
      /\ DOMAIN read.brings \in AllKeys
      /\ \A k \in DOMAIN read.brings : read.brings[k] = c
  BY <1>0 DEF WriteMerged, Waiting, StoreInv, StoreOK, AllKeys
<1>2. CallStep(c) /\ call'[c].phase = "done" /\ call'[c].op = "addMetadata"
  BY <1>1 DEF WriteMerged, Waiting, StoreInv, CallsOK, Done, AnswerWaiting, CallStep, Moves, IsAnswered
<1>3. CallsOK'
  BY <1>2, StepKeepsCalls DEF StoreInv
<1>4. CASE UNCHANGED storeVars
  <2>1. ~Waiting(c, "addMetadata")'
    BY <1>2 DEF Waiting
  <2>2. QED
    BY <1>2, <1>4, <2>1, StoreUntouched
<1>5. CASE /\ Exists(h)
           /\ handshake' = [handshake EXCEPT ![h].metadata = Merged(read)]
           /\ Write(c, h, DOMAIN read.brings)
  <2>1. /\ RowStep(h)
        /\ handshake'[h].metadata = Merged(read)
        /\ \A g \in Handshakes : Exists(g)' <=> Exists(g)
    BY <1>1, <1>5 DEF RowStep, Exists, StoreInv, StoreOK
  <2>2. PICK keys \in AllKeys : keys = DOMAIN read.brings /\ Write(c, h, keys)
    BY <1>1, <1>5
  <2>0. PICK n : n = Len(writes) + 1
    OBVIOUS
  <2>3. /\ Len(writes') = Len(writes) + 1 /\ Len(writes) \in Nat
        /\ \A i \in 1 .. Len(writes) : writes'[i] = writes[i]
        /\ writes'[Len(writes) + 1] = [by |-> c, row |-> h, keys |-> keys]
    BY <1>1, <2>2, WriteAppends DEF StoreInv
  <2>4. \A d \in Calls : call[d].phase = "done" => call'[d] = call[d]
    BY <1>2 DEF CallStep, Moves, BeginsToWait, IsAnsweredAtOnce, IsAnswered
  <2>5. together \subseteq together'
    BY <1>2 DEF CallStep, Moves
  <2>6. StoreOK'
    BY <1>1, <1>2, <2>1, <2>2, RowKeepsStoreOK
  <2>7. ASSUME NEW i \in 1 .. Len(writes), NEW k \in writes[i].keys,
               call[writes[i].by].op = "addMetadata", Exists(writes[i].row)
        PROVE  Merges(i, k)'
    <3>1. Merges(i, k)
      BY <2>7 DEF StoreInv, MergesKept
    <3>2. ASSUME writes[i].row = h
          PROVE  \/ Holds(handshake'[h].metadata, i, k)
                 \/ WrittenLater(i, k)
                 \/ WrittenLater(i, k)'
      <4>1. \/ Holds(read.metadata, i, k)
            \/ <<writes[i].by, c>> \in together
            \/ WrittenLater(i, k)
        BY <1>0, <1>1, <3>1, <3>2 DEF Merges
      <4>2. ASSUME k \in keys \/ <<writes[i].by, c>> \in together
            PROVE  WrittenLater(i, k)'
        <5>1. Len(writes) + 1 \in i + 1 .. Len(writes')
          BY <2>3
        <5>2. writes'[i] = writes[i]
          BY <2>3
        <5>3. \/ k \in writes'[Len(writes) + 1].keys
              \/ <<writes'[i].by, writes'[Len(writes) + 1].by>> \in together'
          BY <2>3, <2>5, <4>2, <5>2
        <5>4. writes'[Len(writes) + 1].row = writes'[i].row
          BY <2>3, <3>2, <5>2
        <5>5. QED
          BY <5>1, <5>3, <5>4 DEF WrittenLater
      <4>3. ASSUME k \notin keys, Holds(read.metadata, i, k)
            PROVE  Holds(handshake'[h].metadata, i, k)
        BY <2>1, <2>2, <4>3 DEF Holds, Merged
      <4>4. QED
        BY <4>1, <4>2, <4>3
    <3>3. QED
      BY <1>1, <1>2, <2>1, <2>2, <3>1, <3>2, MergeStays
  <2>8. ASSUME NEW k \in keys
        PROVE  Merges(n, k)'
    <3>1. Holds(handshake[h].metadata, n, k)'
      <4>1. handshake'[h].metadata = Merged(read) /\ k \in DOMAIN Merged(read) /\ Merged(read)[k] = c
        BY <1>1, <2>1, <2>2 DEF Merged
      <4>2. QED
        BY <2>0, <2>3, <4>1 DEF Holds
    <3>2. ASSUME NEW d \in Calls, Waiting(d, "addMetadata")'
          PROVE  <<c, d>> \in together'
      <4>1. d # c /\ Waiting(d, "addMetadata")
        BY <1>2, <3>2 DEF Waiting, CallStep, Moves
      <4>2. d \in InFlight /\ c \in InFlight
        BY <1>1, <4>1 DEF Waiting, InFlight
      <4>3. QED
        BY <2>5, <4>1, <4>2 DEF StoreInv, CallsOK
    <3>3. QED
      BY <2>0, <2>3, <3>1, <3>2 DEF Merges
  <2>9. MergesKept'
    <3>1. ASSUME NEW i \in 1 .. Len(writes'), NEW k \in writes'[i].keys,
                 call'[writes'[i].by].op = "addMetadata", Exists(writes[i].row)'
          PROVE  Merges(i, k)'
      <4>1. CASE i = Len(writes) + 1
        BY <2>0, <2>3, <2>8, <3>1, <4>1
      <4>2. CASE i # Len(writes) + 1
        <5>1. i \in 1 .. Len(writes) /\ writes'[i] = writes[i]
          BY <2>3, <4>2
        <5>2. call[writes[i].by].op = "addMetadata" /\ writes[i].row \in Handshakes
          BY <2>4, <3>1, <5>1, WriteType DEF StoreInv, StoreOK
        <5>3. Exists(writes[i].row)
          BY <2>1, <3>1, <5>1, <5>2 DEF Exists
        <5>4. QED
          BY <2>7, <3>1, <5>1, <5>2, <5>3
      <4>3. QED
        BY <4>1, <4>2
    <3>2. QED
      BY <3>1 DEF MergesKept, Exists
  <2>10. QED
    BY <1>3, <2>6, <2>9 DEF StoreInv
<1>6. QED
  BY <1>0, <1>4, <1>5 DEF WriteMerged

\* addMetadata reads: what earlier merges left in the row is in what it read.
LEMMA FindForMergeKeepsMerges ==
    ASSUME StoreInv, NEW c \in Calls, FindForMerge(c)
    PROVE  StoreInv'
<1>1. PICK h \in Handshakes, m \in Given(c) :
        \/ Exists(h) /\ Await(c, "addMetadata", h, [metadata |-> handshake[h].metadata, brings |-> m])
        \/ ~Exists(h) /\ AnswerAtOnce(c, "addMetadata", h, "NotFound")
  BY DEF FindForMerge
<1>2. UNCHANGED storeVars /\ CallStep(c)
  BY OfHandshakes DEF FindForMerge, HandshakeCall, Concerns, StoreInv
<1>3. CASE AnswerAtOnce(c, "addMetadata", h, "NotFound")
  <2>1. ~Waiting(c, "addMetadata")'
    BY <1>3 DEF AnswerAtOnce, Done, Waiting, StoreInv, CallsOK
  <2>2. QED
    BY <1>2, <2>1, StoreUntouched
<1>4. CASE Exists(h) /\ Await(c, "addMetadata", h, [metadata |-> handshake[h].metadata, brings |-> m])
  <2>1. /\ call[c].phase = "idle"
        /\ call'[c].on = h
        /\ call'[c].read = [metadata |-> handshake[h].metadata, brings |-> m]
    BY <1>4 DEF Await, Admitted, StoreInv, CallsOK
  <2>2. /\ UNCHANGED <<handshake, writes>>
        /\ \A d \in Calls : call[d].phase = "done" => call'[d] = call[d] /\ d # c
        /\ \A d \in Calls : Waiting(d, "addMetadata")' /\ d # c =>
             Waiting(d, "addMetadata") /\ call'[d] = call[d]
        /\ together \subseteq together'
    BY <1>2, <2>1 DEF storeVars, CallStep, Moves, Waiting
  <2>3. handshake[h] # NoRow
    BY <1>4 DEF Exists, NoRow, Statuses
  <2>4. DOMAIN m \subseteq Actors \X Fields /\ \A k \in DOMAIN m : m[k] = c
    BY GivenKeys DEF AllKeys
  <2>5. \A i \in 1 .. Len(writes) : writes[i].by \in Calls /\ call[writes[i].by].phase = "done"
    BY WriteType DEF StoreInv, StoreOK
  <2>6. StoreOK'
    <3>1. \A i \in 1 .. Len(writes) : call'[writes[i].by].phase = "done" /\ handshake[writes[i].row] # NoRow
      BY <2>2, <2>5 DEF StoreInv, StoreOK
    <3>2. ASSUME NEW d \in Calls, Waiting(d, "addMetadata")'
          PROVE  /\ call'[d].on \in Handshakes
                 /\ handshake[call'[d].on] # NoRow
                 /\ DOMAIN call'[d].read.brings \subseteq Actors \X Fields
                 /\ \A k \in DOMAIN call'[d].read.brings : call'[d].read.brings[k] = d
      <4>1. CASE d = c
        BY <2>1, <2>3, <2>4, <4>1
      <4>2. CASE d # c
        BY <2>2, <3>2, <4>2 DEF StoreInv, StoreOK
      <4>3. QED
        BY <4>1, <4>2
    <3>3. QED
      BY <2>2, <3>1, <3>2 DEF StoreInv, StoreOK
  <2>7. MergesKept'
    <3> SUFFICES ASSUME NEW i \in 1 .. Len(writes), NEW k \in writes[i].keys,
                        call[writes[i].by].op = "addMetadata", Exists(writes[i].row)
                 PROVE  Merges(i, k)'
      BY <2>2, <2>5 DEF MergesKept, Exists
    <3>1. Merges(i, k)
      BY DEF StoreInv, MergesKept
    <3>2. WrittenLater(i, k) => WrittenLater(i, k)'
      BY <2>2, LaterStays DEF StoreInv
    <3>3. Holds(call[c].read.metadata, i, k)' \/ WrittenLater(i, k)' \/ call'[c].on # writes[i].row
      BY <2>1, <2>2, <3>1, <3>2 DEF Merges, Holds
    <3>4. QED
      BY <2>2, <3>1, <3>2, <3>3 DEF Merges, Holds
  <2>8. CallsOK'
    BY <1>2, StepKeepsCalls DEF StoreInv
  <2>9. QED
    BY <2>6, <2>7, <2>8 DEF StoreInv
<1>5. QED
  BY <1>1, <1>3, <1>4

LEMMA HandshakeCallKeepsMerges ==
    ASSUME StoreInv, NEW c \in Calls, HandshakeCall(c)
    PROVE  StoreInv'
<1>1. CallStep(c)
  BY OfHandshakes DEF StoreInv, Concerns
<1>2. ASSUME NEW op, NEW on, NEW answer, AnswerAtOnce(c, op, on, answer)
      PROVE  call'[c].phase = "done" /\ call'[c].op = op
  BY <1>2 DEF AnswerAtOnce, Done, StoreInv, CallsOK
<1>3. CASE GetHandshake(c) \/ GetHandshakesByUser(c)
  <2>1. UNCHANGED storeVars /\ call'[c].phase = "done"
    BY <1>3 DEF GetHandshake, GetHandshakesByUser, AnswerAtOnce, Done, StoreInv, CallsOK
  <2>2. QED
    BY <1>1, <2>1, StoreUntouched DEF Waiting
<1>4. CASE CreateHandshake(c)
  <2>1. PICK h \in Handshakes, m \in Given(c) :
          /\ handshake[h] = NoRow
          /\ handshake' = [handshake EXCEPT ![h] = [status |-> "pending", metadata |-> m]]
          /\ Write(c, h, DOMAIN m)
          /\ AnswerAtOnce(c, "create", h, "done")
    BY <1>4 DEF CreateHandshake
  <2>2. call'[c].phase = "done" /\ call'[c].op # "addMetadata"
    BY <2>1 DEF AnswerAtOnce, Done, StoreInv, CallsOK
  <2>3. RowStep(h)
    BY <2>1 DEF RowStep, Statuses, StoreInv, StoreOK
  <2>4. DOMAIN m \in AllKeys
    BY GivenKeys
  <2>5. QED
    BY <1>1, <2>1, <2>2, <2>3, <2>4, RowKeepsMerges
<1>5. CASE UpdateHandshake(c)
  <2>1. PICK h \in Handshakes, status \in Statuses \cup {"omitted"}, m \in Given(c), gives \in BOOLEAN :
          \/ /\ Exists(h)
             /\ handshake' = [handshake EXCEPT
                    ![h].status = IF status = "omitted" THEN @ ELSE status,
                    ![h].metadata = IF gives THEN m ELSE @]
             /\ IF gives THEN Write(c, h, Actors \X Fields) ELSE UNCHANGED writes
             /\ AnswerAtOnce(c, "update", h, "done")
          \/ /\ ~Exists(h)
             /\ AnswerAtOnce(c, "update", h, "Error")
             /\ UNCHANGED storeVars
    BY <1>5 DEF UpdateHandshake
  <2>2. call'[c].phase = "done" /\ call'[c].op # "addMetadata"
    BY <2>1 DEF AnswerAtOnce, Done, StoreInv, CallsOK
  <2>3. CASE UNCHANGED storeVars
    BY <1>1, <2>2, <2>3, StoreUntouched DEF Waiting
  <2>4. CASE ~UNCHANGED storeVars
    <3>1. /\ Exists(h)
          /\ handshake' = [handshake EXCEPT
                 ![h].status = IF status = "omitted" THEN @ ELSE status,
                 ![h].metadata = IF gives THEN m ELSE @]
          /\ IF gives THEN Write(c, h, Actors \X Fields) ELSE UNCHANGED writes
      BY <2>1, <2>4
    <3>2. /\ DOMAIN handshake' = Handshakes
          /\ \A g \in Handshakes \ {h} : handshake'[g] = handshake[g]
          /\ DOMAIN handshake'[h] = {"status", "metadata"}
          /\ handshake'[h].status = IF status = "omitted" THEN handshake[h].status ELSE status
          /\ ~gives => handshake'[h].metadata = handshake[h].metadata
      BY <3>1 DEF StoreInv, StoreOK
    <3>3. RowStep(h)
      BY <3>1, <3>2 DEF RowStep, Exists, Statuses
    <3>4. QED
      BY <1>1, <2>2, <3>1, <3>2, <3>3, RowKeepsMerges
  <2>5. QED
    BY <2>3, <2>4
<1>6. CASE DeleteHandshake(c)
  <2>1. PICK h \in Handshakes :
          \/ /\ Exists(h)
             /\ handshake' = [handshake EXCEPT ![h] = DeletedRow]
             /\ AnswerAtOnce(c, "delete", h, "done")
             /\ UNCHANGED writes
          \/ /\ ~Exists(h)
             /\ AnswerAtOnce(c, "delete", h, "Error")
             /\ UNCHANGED storeVars
    BY <1>6 DEF DeleteHandshake
  <2>2. call'[c].phase = "done" /\ call'[c].op # "addMetadata"
    BY <2>1 DEF AnswerAtOnce, Done, StoreInv, CallsOK
  <2>3. CASE UNCHANGED storeVars
    BY <1>1, <2>2, <2>3, StoreUntouched DEF Waiting
  <2>4. CASE handshake' = [handshake EXCEPT ![h] = DeletedRow] /\ UNCHANGED writes
    <3>1. RowStep(h) /\ ~Exists(h)'
      BY <2>4 DEF RowStep, Exists, DeletedRow, Statuses, StoreInv, StoreOK
    <3>2. QED
      BY <1>1, <2>2, <2>4, <3>1, RowKeepsMerges
  <2>5. QED
    BY <2>1, <2>3, <2>4
<1>7. QED
  BY <1>3, <1>4, <1>5, <1>6, FindForMergeKeepsMerges, WriteMergedKeepsMerges DEF HandshakeCall

LEMMA InitStoreInv == Init => StoreInv
  BY DEF Init, InitCalls, InitStore, StoreInv, CallsOK, StoreOK, MergesKept, InFlight, Waiting,
         NotMade, NoRow, Statuses

\* Every step keeps the invariant.  Steps of other calls touch no handshake.
LEMMA StepKeepsStoreInv ==
    ASSUME StoreInv, DirectoryOK, [Next]_restVars
    PROVE  StoreInv'
<1>1. ASSUME NEW c \in Calls, CallStep(c), UNCHANGED storeVars, call'[c].op # "addMetadata"
      PROVE  StoreInv'
  BY <1>1, StoreUntouched DEF Waiting
<1>2. ASSUME NEW c \in Calls, (Refused(c) \/ HealthCall(c)) /\ UNCHANGED storeVars
      PROVE  StoreInv'
  BY <1>1, <1>2, OfNoStore DEF StoreInv, Concerns, OtherOps
<1>3. ASSUME NEW c \in Calls, SessionCall(c) /\ UNCHANGED storeVars
      PROVE  StoreInv'
  BY <1>1, <1>3, OfSessions DEF StoreInv, Concerns, SessionOps
<1>4. ASSUME NEW c \in Calls, KeyCall(c) /\ UNCHANGED storeVars
      PROVE  StoreInv'
  BY <1>1, <1>4, OfKeys DEF StoreInv, Concerns, KeyOps
<1>5. ASSUME NEW c \in Calls, AuditCall(c) /\ UNCHANGED storeVars
      PROVE  StoreInv'
  BY <1>1, <1>5, OfTheAudit DEF StoreInv, Concerns, AuditOps
<1>a. ASSUME NEW c \in Calls, StatementFails(c) /\ UNCHANGED storeVars
      PROVE  StoreInv'
  BY <1>a, OfNoRow, StoreUntouched DEF StoreInv, Waiting
<1>6. ASSUME UNCHANGED <<call, together>>, UNCHANGED storeVars
      PROVE  StoreInv'
  BY <1>6 DEF storeVars, StoreInv, CallsOK, StoreOK, MergesKept, Merges, WrittenLater, Holds,
              Exists, Waiting, InFlight
<1>7. CASE \/ (TimePasses \/ RetentionPurge \/ WindowEnds) /\ UNCHANGED storeVars
           \/ UNCHANGED restVars
  <2>1. UNCHANGED <<call, together>> /\ UNCHANGED storeVars
    BY <1>7 DEF TimePasses, RetentionPurge, Midnight, PurgeLogs, PurgeMetrics, RecordPurge,
                PurgeFails, WindowEnds, restVars, callVars
  <2>2. QED
    BY <1>6, <1>7, <2>1
<1>8. QED
  BY <1>2, <1>3, <1>4, <1>5, <1>a, <1>7, HandshakeCallKeepsMerges DEF Next, Serve, Elapse

-----------------------------------------------------------------------------
(* The sessions.                                                           *)

\* Only a session whose end has passed is shown to have expired; who is about to
\* validate one holds the end it has.
ExpiryOK ==
    /\ now \in Nat
    /\ DOMAIN session = Sessions
    /\ \A s \in Sessions :
         /\ DOMAIN session[s] = {"status", "expires"}
         /\ session[s].status \in {"none", "PENDING", "EXPIRED", "COMPLETED"}
         /\ session[s].expires \in Nat
         /\ session[s].status = "none" => session[s] = NoSession
         /\ session[s].status = "EXPIRED" => session[s].expires < now
    /\ \A c \in Calls : Waiting(c, "validateChallenge") =>
         /\ call[c].on \in Sessions
         /\ session[call[c].on] # NoSession
         /\ call[c].read.expires = session[call[c].on].expires
    /\ \A c \in Calls : call[c].answer = "EXPIRED" =>
         /\ call[c].on \in Sessions
         /\ session[call[c].on] # NoSession
         /\ session[call[c].on].expires < now

LEMMA InitExpiryOK == Init => ExpiryOK
  BY SessionAssumption
     DEF Init, InitCalls, InitSessions, ExpiryOK, NotMade, NoSession, Waiting

\* A call of another service, or one of this service that only says something
\* that is no news of an expiry.
LEMMA ExpiryUntouched ==
    ASSUME CallsOK, ExpiryOK, NEW c \in Calls, CallStep(c), UNCHANGED sessionVars,
           ~Waiting(c, "validateChallenge")', call'[c].answer # "EXPIRED"
    PROVE  ExpiryOK'
<1>1. UNCHANGED <<session, now>> /\ \A d \in Calls \ {c} : call'[d] = call[d]
  BY DEF sessionVars, CallStep, Moves
<1>2. QED
  BY <1>1 DEF ExpiryOK, Waiting

\* A session gets another status, or is created, while calls are answered.
LEMMA SessionChanges ==
    ASSUME CallsOK, ExpiryOK, NEW c \in Calls, CallStep(c), UNCHANGED now,
           ~Waiting(c, "validateChallenge")', call'[c].answer # "EXPIRED",
           NEW s \in Sessions, DOMAIN session' = Sessions,
           \A t \in Sessions \ {s} : session'[t] = session[t],
           DOMAIN session'[s] = {"status", "expires"},
           session'[s].status \in {"PENDING", "EXPIRED", "COMPLETED"},
           session'[s].expires \in Nat,
           session[s] # NoSession => session'[s].expires = session[s].expires,
           session'[s].status = "EXPIRED" => session'[s].expires < now
    PROVE  ExpiryOK'
<1>1. \A d \in Calls \ {c} : call'[d] = call[d]
  BY DEF CallStep, Moves
<1>2. session'[s] # NoSession
  BY DEF NoSession
<1>3. \A t \in Sessions : session[t] # NoSession =>
        session'[t] # NoSession /\ session'[t].expires = session[t].expires
  BY <1>2
<1>4. ASSUME NEW d \in Calls, Waiting(d, "validateChallenge")'
      PROVE  /\ call'[d].on \in Sessions
             /\ session'[call'[d].on] # NoSession
             /\ call'[d].read.expires = session'[call'[d].on].expires
  BY <1>1, <1>3, <1>4 DEF ExpiryOK, Waiting
<1>5. ASSUME NEW d \in Calls, call'[d].answer = "EXPIRED"
      PROVE  /\ call'[d].on \in Sessions
             /\ session'[call'[d].on] # NoSession
             /\ session'[call'[d].on].expires < now
  BY <1>1, <1>3, <1>5 DEF ExpiryOK
<1>6. \A t \in Sessions :
         /\ DOMAIN session'[t] = {"status", "expires"}
         /\ session'[t].status \in {"none", "PENDING", "EXPIRED", "COMPLETED"}
         /\ session'[t].expires \in Nat
         /\ session'[t].status = "none" => session'[t] = NoSession
         /\ session'[t].status = "EXPIRED" => session'[t].expires < now
  BY DEF ExpiryOK
<1>7. QED
  BY <1>4, <1>5, <1>6 DEF ExpiryOK

LEMMA SessionCallKeepsExpiry ==
    ASSUME CallsOK, ExpiryOK, NEW c \in Calls, SessionCall(c)
    PROVE  ExpiryOK'
<1>1. CallStep(c)
  BY OfSessions DEF Concerns
<1> USE DEF CallsOK, Done, AnswerAtOnce, AnswerWaiting, Await, Admitted
<1>2. CASE CreateSession(c)
  <2>1. PICK s \in Sessions :
          /\ session[s] = NoSession
          /\ session' = [session EXCEPT ![s] = [status |-> "PENDING", expires |-> now + Lifetime]]
          /\ AnswerAtOnce(c, "createSession", s, "done")
          /\ UNCHANGED now
    BY <1>2 DEF CreateSession
  <2>a. call'[c].phase = "done" /\ call'[c].answer = "done"
    BY <2>1
  <2>2. now + Lifetime \in Nat /\ DOMAIN session = Sessions
    BY SessionAssumption DEF ExpiryOK
  <2>3. QED
    BY <1>1, <2>1, <2>a, <2>2, SessionChanges DEF Waiting
<1>3. CASE GetSession(c)
  <2>1. PICK s \in Sessions :
          /\ call'[c].phase = "done" /\ call'[c].on = s
          /\ call'[c].answer = session[s].status
          /\ UNCHANGED <<session, now>>
    BY <1>3 DEF GetSession, sessionVars
  <2>2. \A d \in Calls \ {c} : call'[d] = call[d]
    BY <1>1 DEF CallStep, Moves
  <2>3. session[s].status = "EXPIRED" => session[s] # NoSession /\ session[s].expires < now
    BY DEF ExpiryOK, NoSession
  <2>4. QED
    BY <2>1, <2>2, <2>3 DEF ExpiryOK, Waiting
<1>4. CASE FindForValidation(c)
  <2>1. UNCHANGED <<session, now>> /\ \A d \in Calls \ {c} : call'[d] = call[d]
    BY <1>1, <1>4 DEF FindForValidation, sessionVars, CallStep, Moves
  <2>2. Waiting(c, "validateChallenge")' =>
          /\ call'[c].on \in Sessions
          /\ session[call'[c].on] # NoSession
          /\ call'[c].read.expires = session[call'[c].on].expires
    BY <1>4 DEF FindForValidation, Waiting
  <2>3. call'[c].answer # "EXPIRED"
    BY <1>4 DEF FindForValidation
  <2>4. QED
    BY <2>1, <2>2, <2>3 DEF ExpiryOK, Waiting
<1>5. CASE Validate(c)
  <2>1. /\ call[c].on \in Sessions
        /\ session[call[c].on] # NoSession
        /\ call[c].read.expires = session[call[c].on].expires
    BY <1>5 DEF Validate, ExpiryOK
  <2>2. call'[c].phase = "done" /\ call'[c].answer # "EXPIRED" /\ UNCHANGED now
    BY <1>5 DEF Validate
  <2>3. CASE UNCHANGED session
    BY <1>1, <2>2, <2>3, ExpiryUntouched DEF sessionVars, Waiting
  <2>4. CASE Overdue(c) /\ session' = [session EXCEPT ![call[c].on].status = "EXPIRED"]
    <3>1. PICK s \in Sessions : s = call[c].on
      BY <2>1
    <3>2. /\ DOMAIN session' = Sessions
          /\ \A t \in Sessions \ {s} : session'[t] = session[t]
          /\ DOMAIN session'[s] = {"status", "expires"}
          /\ session'[s].status = "EXPIRED"
          /\ session'[s].expires = session[s].expires
      BY <2>4, <3>1 DEF ExpiryOK
    <3>3. session[s].expires < now /\ session[s].expires \in Nat
      BY <2>1, <2>4, <3>1 DEF Overdue, ExpiryOK
    <3>4. QED
      BY <1>1, <2>2, <3>2, <3>3, SessionChanges DEF Waiting
  <2>5. QED
    BY <1>5, <2>3, <2>4 DEF Validate
<1>6. CASE CompleteSession(c)
  <2>1. PICK s \in Sessions :
          /\ \/ session[s] # NoSession /\ session' = [session EXCEPT ![s].status = "COMPLETED"]
             \/ UNCHANGED session
          /\ call'[c].phase = "done" /\ call'[c].answer # "EXPIRED"
          /\ UNCHANGED now
    BY <1>6 DEF CompleteSession
  <2>2. CASE UNCHANGED session
    BY <1>1, <2>1, <2>2, ExpiryUntouched DEF sessionVars, Waiting
  <2>3. CASE session' = [session EXCEPT ![s].status = "COMPLETED"]
    <3>1. /\ DOMAIN session' = Sessions
          /\ \A t \in Sessions \ {s} : session'[t] = session[t]
          /\ DOMAIN session'[s] = {"status", "expires"}
          /\ session'[s].status = "COMPLETED"
          /\ session'[s].expires = session[s].expires
          /\ session[s].expires \in Nat
      BY <2>3 DEF ExpiryOK
    <3>2. QED
      BY <1>1, <2>1, <3>1, SessionChanges DEF Waiting
  <2>4. QED
    BY <2>1, <2>2, <2>3
<1>7. QED
  BY <1>2, <1>3, <1>4, <1>5, <1>6 DEF SessionCall

LEMMA StepKeepsExpiryOK ==
    ASSUME CallsOK, ExpiryOK, DirectoryOK, [Next]_restVars
    PROVE  ExpiryOK'
<1>1. ASSUME NEW c \in Calls, CallStep(c), UNCHANGED sessionVars,
             call'[c].op # "validateChallenge", SaysNothingOfExpiry(c)
      PROVE  ExpiryOK'
  BY <1>1, ExpiryUntouched DEF Waiting, SaysNothingOfExpiry
<1>2. ASSUME NEW c \in Calls, (Refused(c) \/ HealthCall(c)) /\ UNCHANGED sessionVars
      PROVE  ExpiryOK'
  BY <1>1, <1>2, OfNoStore DEF Concerns, OtherOps
<1>3. ASSUME NEW c \in Calls, HandshakeCall(c) /\ UNCHANGED sessionVars
      PROVE  ExpiryOK'
  BY <1>1, <1>3, OfHandshakes DEF Concerns, HandshakeOps
<1>4. ASSUME NEW c \in Calls, KeyCall(c)
      PROVE  ExpiryOK'
  BY <1>1, <1>4, OfKeys DEF Concerns, KeyOps, KeyCall
<1>5. ASSUME NEW c \in Calls, AuditCall(c) /\ UNCHANGED sessionVars
      PROVE  ExpiryOK'
  BY <1>1, <1>5, OfTheAudit DEF Concerns, AuditOps
<1>a. ASSUME NEW c \in Calls, StatementFails(c) /\ UNCHANGED sessionVars
      PROVE  ExpiryOK'
  BY <1>a, OfNoRow, ExpiryUntouched DEF Waiting
<1>6. CASE TimePasses
  <2>1. now' = now + 1 /\ UNCHANGED <<session, call>>
    BY <1>6 DEF TimePasses, callVars
  <2>2. QED
    BY <2>1 DEF ExpiryOK, Waiting
<1>7. CASE ((RetentionPurge \/ WindowEnds) /\ UNCHANGED sessionVars) \/ UNCHANGED restVars
  <2>1. UNCHANGED <<call, session, now>>
    BY <1>7 DEF RetentionPurge, Midnight, PurgeLogs, PurgeMetrics, RecordPurge,
                PurgeFails, WindowEnds, restVars, callVars, sessionVars
  <2>2. QED
    BY <2>1 DEF ExpiryOK, Waiting
<1>8. QED
  BY <1>2, <1>3, <1>4, <1>5, <1>a, <1>6, <1>7, SessionCallKeepsExpiry DEF Next, Serve, Elapse

\* Only validateChallenge calls a challenge valid, and it looks at the end.
LEMMA ValidIsInTime ==
    ASSUME CallsOK, ExpiryOK, DirectoryOK, [Next]_restVars,
           NEW c \in Calls, call[c].answer # "valid", call'[c].answer = "valid"
    PROVE  now <= session[call[c].on].expires /\ ~ShownExpired(call[c].on)
<1>1. ASSUME NEW d \in Calls, CallStep(d), SaysNothingOfExpiry(d)
      PROVE  FALSE
  BY <1>1 DEF CallStep, Moves, SaysNothingOfExpiry
<1>2. PICK d \in Calls : SessionCall(d)
  <2>1. UNCHANGED <<call>> \/ \E d \in Calls : SessionCall(d)
    BY <1>1, OfNoStore, OfNoRow, OfHandshakes, OfKeys, OfTheAudit
       DEF Next, Serve, Elapse, Concerns, TimePasses, RetentionPurge, Midnight, PurgeLogs, PurgeMetrics,
           RecordPurge, PurgeFails, WindowEnds, restVars, callVars
  <2>2. QED
    BY <2>1
<1>3. d = c
  BY <1>2, OfSessions DEF Concerns, CallStep, Moves
<1>4. Validate(c) /\ ~Overdue(c)
  BY <1>2, <1>3 DEF SessionCall, CreateSession, GetSession, FindForValidation, Validate,
       CompleteSession, AnswerAtOnce, AnswerWaiting, Await, Admitted, Done, CallsOK, ExpiryOK
<1>5. /\ call[c].on \in Sessions
      /\ ~(session[call[c].on].expires < now)
      /\ now \in Nat /\ session[call[c].on].expires \in Nat
  BY <1>4 DEF Validate, Overdue, ExpiryOK
<1>6. QED
  BY <1>5 DEF ShownExpired, ExpiryOK

-----------------------------------------------------------------------------
(* The key directory implements KeyRegistry.                               *)

\* The refinement mapping.
HeldKeys == [id \in KeyIds |-> IF Held(id) THEN {publicKey[id]} ELSE {}]
Revokers == [id \in KeyIds |-> RevokersOf(id)]

LEMMA InitDirectoryOK == Init => DirectoryOK
  BY DEF Init, InitCalls, InitKeys, DirectoryOK, NotMade, Waiting

\* Who has revoked a row, after a step of one call.
LEMMA RevokersGrow ==
    ASSUME CallsOK, NEW c \in Calls, CallStep(c), NEW id
    PROVE  RevokersOf(id)' =
             IF call'[c].op = "revokeKey" /\ call'[c].answer = "done" /\ call'[c].on = id
             THEN RevokersOf(id) \cup {c} ELSE RevokersOf(id)
<1>1. call[c].answer = "none" /\ \A d \in Calls \ {c} : call'[d] = call[d]
  BY DEF CallsOK, NotMade, CallStep, Moves, BeginsToWait, IsAnsweredAtOnce, IsAnswered
<1>2. QED
  BY <1>1 DEF RevokersOf

\* A call that revokes nothing and leaves the keys as they are.
LEMMA DirectoryUntouched ==
    ASSUME CallsOK, DirectoryOK, NEW c \in Calls, CallStep(c), UNCHANGED publicKey,
           Waiting(c, "revokeKey")' => call'[c].on \in KeyIds,
           call'[c].op # "revokeKey" \/ call'[c].answer # "done"
    PROVE  DirectoryOK' /\ UNCHANGED <<HeldKeys, Revokers>>
<1>1. \A d \in Calls \ {c} : call'[d] = call[d]
  BY DEF CallStep, Moves
<1>2. DirectoryOK'
  BY <1>1 DEF DirectoryOK, Waiting, Held
<1>3. \A id \in KeyIds : RevokersOf(id)' = RevokersOf(id)
  BY RevokersGrow
<1>4. QED
  BY <1>2, <1>3 DEF HeldKeys, Revokers, Held

\* What a call of the directory is to the registry.
RegistryStep == Registry!Next \/ UNCHANGED <<HeldKeys, Revokers>>

LEMMA RegistrationRegisters ==
    ASSUME CallsOK, DirectoryOK, NEW c \in Calls, CallStep(c), RegisterKey(c)
    PROVE  DirectoryOK' /\ RegistryStep
<1>1. call'[c].op = "registerKey" /\ call'[c].phase = "done"
  BY DEF RegisterKey, AnswerAtOnce, Done, CallsOK
<1>2. CASE UNCHANGED publicKey
  BY <1>1, <1>2, DirectoryUntouched DEF RegistryStep, Waiting
<1>3. CASE ~UNCHANGED publicKey
  <2>1. PICK k \in KeyTexts, id \in KeyIds :
          /\ \A other \in KeyIds : publicKey[other] # k
          /\ publicKey[id] = "none"
          /\ publicKey' = [publicKey EXCEPT ![id] = k]
    BY <1>3 DEF RegisterKey
  <2>2. \A d \in Calls \ {c} : call'[d] = call[d]
    BY DEF CallStep, Moves
  <2>3. /\ publicKey' \in [KeyIds -> KeyTexts \cup {"none", "revoked"}]
        /\ publicKey'[id] = k
        /\ \A other \in KeyIds \ {id} : publicKey'[other] = publicKey[other]
    BY <2>1 DEF DirectoryOK
  <2>4. DirectoryOK'
    <3>1. \A d \in Calls : Waiting(d, "revokeKey")' => call'[d].on \in KeyIds
      BY <1>1, <2>2 DEF DirectoryOK, Waiting
    <3>2. \A d \in Calls : call'[d].op = "revokeKey" /\ call'[d].answer = "done" =>
            call'[d].on \in KeyIds /\ publicKey'[call'[d].on] = "revoked"
      BY <1>1, <2>1, <2>2, <2>3 DEF DirectoryOK
    <3>3. \A one, other \in KeyIds : one # other /\ Held(one)' => publicKey'[one] # publicKey'[other]
      BY <2>1, <2>3 DEF DirectoryOK, Held
    <3>4. QED
      BY <2>3, <3>1, <3>2, <3>3 DEF DirectoryOK
  <2>5. Registry!Register(id, k)
    <3>1. ~Held(id) /\ RevokersOf(id) = {}
      BY <2>1, KeyDirectoryAssumption DEF Held, RevokersOf, DirectoryOK
    <3>2. \A other \in KeyIds : k \notin (IF Held(other) THEN {publicKey[other]} ELSE {})
      BY <2>1
    <3>3. HeldKeys' = [HeldKeys EXCEPT ![id] = {k}]
      BY <2>1, <2>3 DEF HeldKeys, Held
    <3>4. UNCHANGED Revokers
      BY <1>1, RevokersGrow DEF Revokers
    <3>5. QED
      BY <3>1, <3>2, <3>3, <3>4 DEF Registry!Register, HeldKeys, Revokers
  <2>6. QED
    BY <2>4, <2>5 DEF RegistryStep, Registry!Next
<1>4. QED
  BY <1>2, <1>3

LEMMA RevocationRevokes ==
    ASSUME CallsOK, DirectoryOK, NEW c \in Calls, CallStep(c), Revoke(c)
    PROVE  DirectoryOK' /\ RegistryStep
<1>1. /\ Waiting(c, "revokeKey") /\ call[c].on \in KeyIds
      /\ call'[c].op = "revokeKey" /\ call'[c].phase = "done" /\ call'[c].on = call[c].on
  BY DEF Revoke, AnswerWaiting, Done, CallsOK, DirectoryOK, Waiting
<1>2. PICK id \in KeyIds : id = call[c].on
  BY <1>1
<1>3. CASE ~Held(id)
  <2>1. UNCHANGED publicKey /\ call'[c].answer = "Error"
    BY <1>2, <1>3 DEF Revoke, AnswerWaiting, Done, CallsOK
  <2>2. QED
    BY <1>1, <2>1, DirectoryUntouched DEF RegistryStep
<1>4. CASE Held(id)
  <2>1. publicKey' = [publicKey EXCEPT ![id] = "revoked"] /\ call'[c].answer = "done"
    BY <1>2, <1>4 DEF Revoke, AnswerWaiting, Done, CallsOK
  <2>2. \A d \in Calls \ {c} : call'[d] = call[d]
    BY DEF CallStep, Moves
  <2>3. /\ publicKey' \in [KeyIds -> KeyTexts \cup {"none", "revoked"}]
        /\ publicKey'[id] = "revoked"
        /\ \A other \in KeyIds \ {id} : publicKey'[other] = publicKey[other]
    BY <2>1 DEF DirectoryOK
  <2>4. DirectoryOK'
    <3>1. \A d \in Calls : Waiting(d, "revokeKey")' => call'[d].on \in KeyIds
      BY <1>1, <2>2 DEF DirectoryOK, Waiting
    <3>2. \A d \in Calls : call'[d].op = "revokeKey" /\ call'[d].answer = "done" =>
            call'[d].on \in KeyIds /\ publicKey'[call'[d].on] = "revoked"
      BY <1>1, <1>2, <2>2, <2>3 DEF DirectoryOK
    <3>3. \A one, other \in KeyIds : one # other /\ Held(one)' => publicKey'[one] # publicKey'[other]
      BY <2>3, KeyDirectoryAssumption DEF DirectoryOK, Held
    <3>4. QED
      BY <2>3, <3>1, <3>2, <3>3 DEF DirectoryOK
  <2>5. Registry!Revoke(id, c)
    <3>1. RevokersOf(id) = {}
      BY <1>4, KeyDirectoryAssumption DEF Held, RevokersOf, DirectoryOK
    <3>2. HeldKeys' = [HeldKeys EXCEPT ![id] = {}]
      BY <2>3, KeyDirectoryAssumption DEF HeldKeys, Held
    <3>3. Revokers' = [Revokers EXCEPT ![id] = {c}]
      <4>1. \A r \in KeyIds : RevokersOf(r)' = IF r = id THEN {c} ELSE RevokersOf(r)
        BY <1>1, <1>2, <2>1, <3>1, RevokersGrow
      <4>2. QED
        BY <4>1 DEF Revokers
    <3>4. QED
      BY <1>4, <3>2, <3>3 DEF Registry!Revoke, HeldKeys, Revokers
  <2>6. QED
    BY <2>4, <2>5 DEF RegistryStep, Registry!Next
<1>5. QED
  BY <1>3, <1>4

LEMMA KeyCallIsRegistryStep ==
    ASSUME CallsOK, DirectoryOK, NEW c \in Calls, KeyCall(c)
    PROVE  DirectoryOK' /\ RegistryStep
<1>1. CallStep(c)
  BY OfKeys DEF Concerns
<1>2. CASE GetKey(c) \/ GetKeysOfUser(c)
  <2>1. UNCHANGED publicKey /\ call'[c].op # "revokeKey"
    BY <1>2 DEF GetKey, GetKeysOfUser, AnswerAtOnce, Done, CallsOK
  <2>2. QED
    BY <1>1, <2>1, DirectoryUntouched DEF RegistryStep, Waiting
<1>3. CASE FindForRevocation(c)
  <2>1. UNCHANGED publicKey /\ call'[c].answer # "done" /\ call'[c].on \in KeyIds
    BY <1>3 DEF FindForRevocation, AnswerAtOnce, Await, Admitted, Done, CallsOK
  <2>2. QED
    BY <1>1, <2>1, DirectoryUntouched DEF RegistryStep
<1>4. QED
  BY <1>1, <1>2, <1>3, RegistrationRegisters, RevocationRevokes DEF KeyCall

LEMMA StepKeepsDirectory ==
    ASSUME CallsOK, DirectoryOK, [Next]_restVars
    PROVE  DirectoryOK' /\ RegistryStep
<1>1. ASSUME NEW c \in Calls, CallStep(c), UNCHANGED publicKey, call'[c].op # "revokeKey"
      PROVE  DirectoryOK' /\ RegistryStep
  BY <1>1, DirectoryUntouched DEF Waiting, RegistryStep
<1>2. ASSUME NEW c \in Calls, (Refused(c) \/ HealthCall(c)) /\ UNCHANGED publicKey
      PROVE  DirectoryOK' /\ RegistryStep
  BY <1>1, <1>2, OfNoStore DEF Concerns, OtherOps
<1>3. ASSUME NEW c \in Calls, HandshakeCall(c) /\ UNCHANGED publicKey
      PROVE  DirectoryOK' /\ RegistryStep
  BY <1>1, <1>3, OfHandshakes DEF Concerns, HandshakeOps
<1>4. ASSUME NEW c \in Calls, SessionCall(c) /\ UNCHANGED publicKey
      PROVE  DirectoryOK' /\ RegistryStep
  BY <1>1, <1>4, OfSessions DEF Concerns, SessionOps
<1>5. ASSUME NEW c \in Calls, AuditCall(c) /\ UNCHANGED publicKey
      PROVE  DirectoryOK' /\ RegistryStep
  BY <1>1, <1>5, OfTheAudit DEF Concerns, AuditOps
<1>a. ASSUME NEW c \in Calls, StatementFails(c) /\ UNCHANGED publicKey
      PROVE  DirectoryOK' /\ RegistryStep
  BY <1>a, OfNoRow, DirectoryUntouched DEF Waiting, RegistryStep
<1>6. CASE \/ (TimePasses \/ RetentionPurge \/ WindowEnds) /\ UNCHANGED publicKey
           \/ UNCHANGED restVars
  <2>1. UNCHANGED <<call, publicKey>>
    BY <1>6 DEF TimePasses, RetentionPurge, Midnight, PurgeLogs, PurgeMetrics, RecordPurge,
                PurgeFails, WindowEnds, restVars, callVars
  <2>2. QED
    BY <2>1 DEF DirectoryOK, Waiting, Held, RegistryStep, HeldKeys, Revokers, RevokersOf
<1>7. QED
  BY <1>2, <1>3, <1>4, <1>5, <1>a, <1>6, KeyCallIsRegistryStep DEF Next, Serve, Elapse

LEMMA InitIsRegistryInit == Init => Registry!Init
<1> SUFFICES ASSUME Init PROVE Registry!Init
  OBVIOUS
<1>1. /\ publicKey \in [KeyIds -> KeyTexts \cup {"none"}]
      /\ \A id, other \in KeyIds : id # other /\ Held(id) => publicKey[id] # publicKey[other]
      /\ \A c \in Calls : call[c] = NotMade
  BY DEF Init, InitKeys, InitCalls
<1>2. \A id \in KeyIds : RevokersOf(id) = {}
  BY <1>1 DEF RevokersOf, NotMade
<1>3. HeldKeys \in [KeyIds -> {{}} \cup {{k} : k \in KeyTexts}]
  BY <1>1 DEF HeldKeys, Held
<1>4. \A r, other \in KeyIds : r # other => HeldKeys[r] \cap HeldKeys[other] = {}
  BY <1>1 DEF HeldKeys, Held
<1>5. Revokers = [r \in KeyIds |-> {}]
  BY <1>2 DEF Revokers
<1>6. QED
  BY <1>3, <1>4, <1>5 DEF Registry!Init, HeldKeys, Revokers

-----------------------------------------------------------------------------
(* Sums over finite sets.                                                  *)

\* Induction over the subsets of a finite set: a family that has each set whose
\* proper subsets it has, has them all.
LEMMA SubsetInduction ==
    ASSUME NEW S, IsFiniteSet(S), NEW Family,
           \A T \in SUBSET S : (\A U \in SUBSET T : U # T => U \in Family) => T \in Family
    PROVE  SUBSET S \subseteq Family
<1>1. PICK R : R = StrictSubsetOrdering(S)
  OBVIOUS
<1>2. IsWellFoundedOn(R, SUBSET S)
  BY <1>1, FS_StrictSubsetOrderingWellFounded, FS_FiniteSubsetsOfFinite
<1>3. \A T, U \in SUBSET S : U \subseteq T /\ U # T => <<U, T>> \in R
  BY <1>1 DEF StrictSubsetOrdering
<1>4. PICK Missing : Missing = {T \in SUBSET S : T \notin Family}
  OBVIOUS
<1>5. ASSUME Missing # {}
      PROVE  FALSE
  <2>1. Missing \subseteq SUBSET S
    BY <1>4
  <2>2. PICK T \in Missing : \A U \in Missing : ~(<<U, T>> \in R)
    BY <1>2, <1>5, <2>1, WFMin
  <2>3. ASSUME NEW U \in SUBSET T, U # T
        PROVE  U \in Family
    <3>1. T \in SUBSET S /\ U \in SUBSET S
      BY <1>4, <2>2
    <3>2. <<U, T>> \in R
      BY <1>3, <2>3, <3>1
    <3>3. QED
      BY <1>4, <2>2, <3>1, <3>2
  <2>4. QED
    BY <1>4, <2>2, <2>3
<1>6. QED
  BY <1>4, <1>5

\* Element of a set that is added first, and the sums by which the library
\* defines a sum.
FirstOf(s) == CHOOSE x \in s : TRUE
Adds(f, S, iter) ==
    iter = [s \in SUBSET S |-> IF s = {} THEN 0 ELSE f[FirstOf(s)] + iter[s \ {FirstOf(s)}]]
Sums(f, S) == CHOOSE iter : Adds(f, S, iter)

LEMMA SumIs == ASSUME NEW f, NEW S PROVE SumFunctionOnSet(f, S) = Sums(f, S)[S]
  BY Zenon DEF SumFunctionOnSet, FoldFunctionOnSet, MapThenFoldSet, Sums, Adds, FirstOf

LEMMA FirstIsIn == ASSUME NEW s, s # {} PROVE FirstOf(s) \in s
  BY DEF FirstOf

\* Such sums agree.
LEMMA SumsAgree ==
    ASSUME NEW f, NEW S, IsFiniteSet(S), NEW U,
           NEW a, NEW b, Adds(f, S, a), Adds(f, U, b)
    PROVE  \A s \in SUBSET (S \cap U) : a[s] = b[s]
<1>1. PICK Same : Same = {s \in SUBSET S : s \subseteq U => a[s] = b[s]}
  OBVIOUS
<1>2. ASSUME NEW T \in SUBSET S, \A V \in SUBSET T : V # T => V \in Same, T \subseteq U
      PROVE  a[T] = b[T]
  <2>1. /\ a[T] = IF T = {} THEN 0 ELSE f[FirstOf(T)] + a[T \ {FirstOf(T)}]
        /\ b[T] = IF T = {} THEN 0 ELSE f[FirstOf(T)] + b[T \ {FirstOf(T)}]
    BY <1>2, Zenon DEF Adds
  <2>2. ASSUME T # {} PROVE a[T \ {FirstOf(T)}] = b[T \ {FirstOf(T)}]
    <3>1. FirstOf(T) \in T
      BY <2>2, FirstIsIn
    <3>2. T \ {FirstOf(T)} \in SUBSET T /\ T \ {FirstOf(T)} # T /\ T \ {FirstOf(T)} \subseteq U
      BY <1>2, <3>1
    <3>3. QED
      BY <1>1, <1>2, <3>2
  <2>3. QED
    BY <2>1, <2>2, Zenon
<1>3. SUBSET S \subseteq Same
  <2>1. \A T \in SUBSET S : (\A V \in SUBSET T : V # T => V \in Same) => T \in Same
    BY <1>1, <1>2
  <2>2. QED
    BY <2>1, SubsetInduction
<1>4. QED
  BY <1>1, <1>3

\* There are such sums for every finite set.
LEMMA SumsExist ==
    ASSUME NEW f, NEW S, IsFiniteSet(S)
    PROVE  Adds(f, S, Sums(f, S))
<1>1. PICK Summed : Summed = {s \in SUBSET S : \E iter : Adds(f, s, iter)}
  OBVIOUS
<1>2. ASSUME NEW T \in SUBSET S, \A V \in SUBSET T : V # T => V \in Summed
      PROVE  T \in Summed
  <2>3. \A V \in SUBSET T : V # T => Adds(f, V, Sums(f, V))
    <3>1. SUFFICES ASSUME NEW V \in SUBSET T, V # T
                   PROVE  \E iter : Adds(f, V, iter)
      BY Zenon DEF Sums
    <3>2. QED
      BY <1>1, <1>2, <3>1
  <2>4. PICK g : g = [s \in SUBSET T |-> IF s = {} THEN 0 ELSE f[FirstOf(s)] + Sums(f, s \ {FirstOf(s)})[s \ {FirstOf(s)}]]
    OBVIOUS
  <2>5. ASSUME NEW s \in SUBSET T, s # {}
        PROVE  g[s \ {FirstOf(s)}] = Sums(f, s \ {FirstOf(s)})[s \ {FirstOf(s)}]
    <3>1. PICK r : r = s \ {FirstOf(s)}
      OBVIOUS
    <3>2. FirstOf(s) \in s
      BY <2>5, FirstIsIn
    <3>3. r \in SUBSET T /\ r # T /\ r \in SUBSET r
      BY <2>5, <3>1, <3>2
    <3>4. Adds(f, r, Sums(f, r))
      BY <2>3, <3>3
    <3>5. Sums(f, r)[r] = IF r = {} THEN 0 ELSE f[FirstOf(r)] + Sums(f, r)[r \ {FirstOf(r)}]
      BY <3>3, <3>4, Zenon DEF Adds
    <3>6. g[r] = IF r = {} THEN 0 ELSE f[FirstOf(r)] + Sums(f, r \ {FirstOf(r)})[r \ {FirstOf(r)}]
      BY <2>4, <3>3, Zenon
    <3>7. ASSUME r # {} PROVE Sums(f, r)[r \ {FirstOf(r)}] = Sums(f, r \ {FirstOf(r)})[r \ {FirstOf(r)}]
      <4>1. PICK t : t = r \ {FirstOf(r)}
        OBVIOUS
      <4>2. FirstOf(r) \in r
        BY <3>7, FirstIsIn
      <4>3. t \in SUBSET T /\ t # T /\ t \in SUBSET (r \cap t)
        BY <3>3, <4>1, <4>2
      <4>4. IsFiniteSet(r)
        BY <3>3, FS_Subset
      <4>5. Adds(f, t, Sums(f, t))
        BY <2>3, <4>3
      <4>6. \A s1 \in SUBSET (r \cap t) : Sums(f, r)[s1] = Sums(f, t)[s1]
        <5>1. \A a, b : Adds(f, r, a) /\ Adds(f, t, b) => \A s1 \in SUBSET (r \cap t) : a[s1] = b[s1]
          BY <4>4, SumsAgree
        <5>2. QED
          BY <3>4, <4>5, <5>1
      <4>7. QED
        BY <4>1, <4>3, <4>6, Zenon
    <3>8. QED
      BY <3>1, <3>5, <3>6, <3>7, Zenon
  <2>6. Adds(f, T, g)
    <3>1. \A s \in SUBSET T : (IF s = {} THEN 0 ELSE f[FirstOf(s)] + Sums(f, s \ {FirstOf(s)})[s \ {FirstOf(s)}])
                            = (IF s = {} THEN 0 ELSE f[FirstOf(s)] + g[s \ {FirstOf(s)}])
      BY <2>5, Zenon
    <3>2. QED
      BY <2>4, <3>1 DEF Adds
  <2>7. QED
    BY <1>1, <2>6
<1>3. SUBSET S \subseteq Summed
  BY <1>2, SubsetInduction
<1>4. \E iter : Adds(f, S, iter)
  BY <1>1, <1>3
<1>5. QED
  BY <1>4, Zenon DEF Sums

\* The sum over a finite set begins with one of its elements.
LEMMA SumBegins ==
    ASSUME NEW f, NEW S, IsFiniteSet(S)
    PROVE  /\ S = {} => SumFunctionOnSet(f, S) = 0
           /\ S # {} => SumFunctionOnSet(f, S) = f[FirstOf(S)] + SumFunctionOnSet(f, S \ {FirstOf(S)})
<1>1. PICK r : r = S \ {FirstOf(S)}
  OBVIOUS
<1>2. IsFiniteSet(r) /\ r \in SUBSET (S \cap r)
  BY <1>1, FS_Subset
<1>3. Adds(f, S, Sums(f, S)) /\ Adds(f, r, Sums(f, r))
  BY <1>2, SumsExist
<1>4. Sums(f, S)[S] = IF S = {} THEN 0 ELSE f[FirstOf(S)] + Sums(f, S)[S \ {FirstOf(S)}]
  BY <1>3, Zenon DEF Adds
<1>5. Sums(f, S)[r] = Sums(f, r)[r]
  <2>1. \A a, b : Adds(f, S, a) /\ Adds(f, r, b) => \A s \in SUBSET (S \cap r) : a[s] = b[s]
    BY SumsAgree
  <2>2. QED
    BY <1>2, <1>3, <2>1
<1>6. SumFunctionOnSet(f, S) = Sums(f, S)[S] /\ SumFunctionOnSet(f, r) = Sums(f, r)[r]
  BY SumIs
<1>7. QED
  BY <1>1, <1>4, <1>5, <1>6, Zenon

\* A sum of natural numbers is one, and takes its elements in any order.
LEMMA SumOfNone == ASSUME NEW f PROVE SumFunctionOnSet(f, {}) = 0
  BY FS_EmptySet, SumBegins

LEMMA SumIsNat ==
    ASSUME NEW f, NEW S, IsFiniteSet(S), \A x \in S : f[x] \in Nat
    PROVE  SumFunctionOnSet(f, S) \in Nat
<1>1. PICK Natural : Natural = {T \in SUBSET S : SumFunctionOnSet(f, T) \in Nat}
  OBVIOUS
<1>2. ASSUME NEW T \in SUBSET S, \A U \in SUBSET T : U # T => U \in Natural
      PROVE  SumFunctionOnSet(f, T) \in Nat
  <2>1. IsFiniteSet(T)
    BY FS_Subset
  <2>2. CASE T = {}
    BY <2>2, SumOfNone
  <2>3. CASE T # {}
    <3>1. FirstOf(T) \in T
      BY <2>3, FirstIsIn
    <3>2. T \ {FirstOf(T)} \in Natural
      BY <1>2, <3>1
    <3>3. f[FirstOf(T)] \in Nat /\ SumFunctionOnSet(f, T \ {FirstOf(T)}) \in Nat
      BY <1>1, <3>1, <3>2
    <3>4. QED
      BY <2>1, <2>3, <3>3, SumBegins
  <2>4. QED
    BY <2>2, <2>3
<1>3. SUBSET S \subseteq Natural
  <2>1. \A T \in SUBSET S : (\A U \in SUBSET T : U # T => U \in Natural) => T \in Natural
    BY <1>1, <1>2
  <2>2. QED
    BY <2>1, SubsetInduction
<1>4. QED
  BY <1>1, <1>3

LEMMA SumWithout ==
    ASSUME NEW f, NEW S, IsFiniteSet(S), \A x \in S : f[x] \in Nat, NEW x \in S
    PROVE  SumFunctionOnSet(f, S) = f[x] + SumFunctionOnSet(f, S \ {x})
<1> DEFINE Sum(T) == SumFunctionOnSet(f, T)
<1>1. PICK Good : Good = {T \in SUBSET S : \A y \in T : Sum(T) = f[y] + Sum(T \ {y})}
  OBVIOUS
<1>2. ASSUME NEW T \in SUBSET S, \A U \in SUBSET T : U # T => U \in Good, NEW y \in T
      PROVE  Sum(T) = f[y] + Sum(T \ {y})
  <2>1. PICK z : z = FirstOf(T)
    OBVIOUS
  <2>2. z \in T
    BY <2>1, FirstIsIn
  <2>3. Sum(T) = f[z] + Sum(T \ {z})
    BY <2>1, SumBegins, FS_Subset
  <2>4. CASE z = y
    BY <2>3, <2>4
  <2>5. CASE z # y
    <3>1. PICK t : t = T \ {y, z}
      OBVIOUS
    <3>2. (T \ {y}) \ {z} = t /\ (T \ {z}) \ {y} = t /\ t \in SUBSET S
      BY <3>1
    <3>3. T \ {y} \in Good /\ T \ {z} \in Good /\ z \in T \ {y} /\ y \in T \ {z}
      BY <1>2, <2>2, <2>5
    <3>4. Sum(T \ {y}) = f[z] + Sum(t) /\ Sum(T \ {z}) = f[y] + Sum(t)
      BY <1>1, <3>2, <3>3
    <3>5. f[y] \in Nat /\ f[z] \in Nat /\ Sum(t) \in Nat
      BY <2>2, <3>2, SumIsNat, FS_Subset
    <3>6. QED
      BY <2>3, <3>4, <3>5
  <2>6. QED
    BY <2>4, <2>5
<1>3. SUBSET S \subseteq Good
  <2>1. \A T \in SUBSET S : (\A U \in SUBSET T : U # T => U \in Good) => T \in Good
    BY <1>1, <1>2
  <2>2. QED
    BY <2>1, SubsetInduction
<1>4. QED
  BY <1>1, <1>3

LEMMA SumSame ==
    ASSUME NEW f, NEW g, NEW S, IsFiniteSet(S), \A x \in S : f[x] = g[x]
    PROVE  SumFunctionOnSet(f, S) = SumFunctionOnSet(g, S)
<1>1. PICK Same : Same = {T \in SUBSET S : SumFunctionOnSet(f, T) = SumFunctionOnSet(g, T)}
  OBVIOUS
<1>2. ASSUME NEW T \in SUBSET S, \A U \in SUBSET T : U # T => U \in Same
      PROVE  T \in Same
  <2>1. IsFiniteSet(T)
    BY FS_Subset
  <2>2. CASE T = {}
    BY <1>1, <2>2, SumOfNone
  <2>3. CASE T # {}
    <3>1. FirstOf(T) \in T
      BY <2>3, FirstIsIn
    <3>2. T \ {FirstOf(T)} \in Same
      BY <1>2, <3>1
    <3>3. f[FirstOf(T)] = g[FirstOf(T)] /\ SumFunctionOnSet(f, T \ {FirstOf(T)}) = SumFunctionOnSet(g, T \ {FirstOf(T)})
      BY <1>1, <3>1, <3>2
    <3>4. SumFunctionOnSet(f, T) = SumFunctionOnSet(g, T)
      BY <2>1, <2>3, <3>3, SumBegins
    <3>5. QED
      BY <1>1, <3>4
  <2>4. QED
    BY <2>2, <2>3
<1>3. SUBSET S \subseteq Same
  BY <1>2, SubsetInduction
<1>4. QED
  BY <1>1, <1>3

\* A sum is that over a subset and that over the rest.
LEMMA SumSplits ==
    ASSUME NEW f, NEW S, IsFiniteSet(S), \A x \in S : f[x] \in Nat, NEW T \in SUBSET S
    PROVE  /\ SumFunctionOnSet(f, S) = SumFunctionOnSet(f, T) + SumFunctionOnSet(f, S \ T)
           /\ SumFunctionOnSet(f, T) \in Nat /\ SumFunctionOnSet(f, S \ T) \in Nat
           /\ SumFunctionOnSet(f, T) <= SumFunctionOnSet(f, S)
<1> DEFINE Sum(U) == SumFunctionOnSet(f, U)
<1>1. PICK Good : Good = {U \in SUBSET S : Sum(S) = Sum(U) + Sum(S \ U)}
  OBVIOUS
<1>2. ASSUME NEW U \in SUBSET S PROVE Sum(U) \in Nat /\ IsFiniteSet(U)
  BY SumIsNat, FS_Subset
<1>3. ASSUME NEW U \in SUBSET S, \A V \in SUBSET U : V # U => V \in Good
      PROVE  U \in Good
  <2>1. CASE U = {}
    <3>1. Sum(U) = 0 /\ S \ U = S /\ Sum(S) \in Nat
      BY <1>2, <2>1, SumOfNone
    <3>2. Sum(S \ U) = Sum(S)
      BY <3>1
    <3>3. Sum(S) = Sum(U) + Sum(S \ U)
      BY <3>1, <3>2
    <3>4. QED
      BY <1>1, <3>3
  <2>2. CASE U # {}
    <3>1. PICK x \in U : TRUE
      BY <2>2
    <3>2. PICK V : V = U \ {x}
      OBVIOUS
    <3>3. V \in Good /\ V \in SUBSET S
      BY <1>3, <3>1, <3>2
    <3>4. Sum(S) = Sum(V) + Sum(S \ V)
      BY <1>1, <3>3
    <3>5. Sum(U) = f[x] + Sum(V)
      BY <1>2, <3>1, <3>2, SumWithout
    <3>6. Sum(S \ V) = f[x] + Sum(S \ U)
      <4>1. PICK W : W = S \ V
        OBVIOUS
      <4>2. x \in W /\ W \ {x} = S \ U /\ W \in SUBSET S
        BY <3>1, <3>2, <4>1
      <4>3. Sum(W) = f[x] + Sum(W \ {x})
        BY <1>2, <4>2, SumWithout
      <4>4. QED
        BY <4>1, <4>2, <4>3
    <3>7. f[x] \in Nat /\ Sum(V) \in Nat /\ Sum(S \ U) \in Nat
      BY <1>2, <3>1, <3>3
    <3>8. Sum(S) = Sum(U) + Sum(S \ U)
      BY <3>4, <3>5, <3>6, <3>7
    <3>9. QED
      BY <1>1, <3>8
  <2>3. QED
    BY <2>1, <2>2
<1>4. SUBSET S \subseteq Good
  BY <1>3, SubsetInduction
<1>5. Sum(S) = Sum(T) + Sum(S \ T)
  BY <1>1, <1>4
<1>6. S \ T \in SUBSET S
  OBVIOUS
<1>7. Sum(T) \in Nat /\ Sum(S \ T) \in Nat
  BY <1>2, <1>6
<1>8. QED
  BY <1>5, <1>7

\* The elements of S with one of the keys.
Grouped(S, key, keys) == {x \in S : key[x] \in keys}

\* g has for each key the sum over its elements.
SumsByKey(f, S, key, K, g) ==
    /\ IsFiniteSet(S) /\ IsFiniteSet(K)
    /\ \A x \in S : f[x] \in Nat
    /\ \A k \in K : g[k] = SumFunctionOnSet(f, Grouped(S, key, {k}))

\* A sum of sums over groups is that over all of them.
LEMMA SumOfGroups ==
    ASSUME NEW f, NEW S, NEW key, NEW K, NEW g, SumsByKey(f, S, key, K, g)
    PROVE  SumFunctionOnSet(g, K) = SumFunctionOnSet(f, Grouped(S, key, K))
<1> DEFINE Of(L) == Grouped(S, key, L)
<1> USE DEF SumsByKey
<1>1. PICK Good : Good = {L \in SUBSET K : SumFunctionOnSet(g, L) = SumFunctionOnSet(f, Of(L))}
  OBVIOUS
<1>2. ASSUME NEW L \in SUBSET K, \A M \in SUBSET L : M # L => M \in Good
      PROVE  L \in Good
  <2>1. IsFiniteSet(L)
    BY FS_Subset
  <2>2. CASE L = {}
    <3>1. Of(L) = {}
      BY <2>2 DEF Grouped
    <3>2. QED
      BY <1>1, <2>2, <3>1, SumOfNone
  <2>3. CASE L # {}
    <3>1. PICK k : k = FirstOf(L)
      OBVIOUS
    <3>2. k \in L /\ SumFunctionOnSet(g, L) = g[k] + SumFunctionOnSet(g, L \ {k})
      BY <2>1, <2>3, <3>1, FirstIsIn, SumBegins
    <3>3. PICK M : M = L \ {k}
      OBVIOUS
    <3>4. SumFunctionOnSet(g, M) = SumFunctionOnSet(f, Of(M))
      BY <1>1, <1>2, <3>2, <3>3
    <3>5. PICK all : all = Of(L)
      OBVIOUS
    <3>6. PICK group : group = Of({k})
      OBVIOUS
    <3>7. group \in SUBSET all /\ all \ group = Of(M) /\ all \in SUBSET S
      BY <3>2, <3>3, <3>5, <3>6 DEF Grouped
    <3>8. IsFiniteSet(all) /\ \A x \in all : f[x] \in Nat
      BY <3>7, FS_Subset
    <3>9. /\ SumFunctionOnSet(f, all) = SumFunctionOnSet(f, group) + SumFunctionOnSet(f, all \ group)
      BY <3>7, <3>8, SumSplits
    <3>10. g[k] = SumFunctionOnSet(f, group)
      BY <3>2, <3>6
    <3>11. SumFunctionOnSet(g, L) = SumFunctionOnSet(f, Of(L))
      BY <3>2, <3>3, <3>4, <3>5, <3>7, <3>9, <3>10
    <3>12. QED
      BY <1>1, <3>11
  <2>4. QED
    BY <2>2, <2>3
<1>3. SUBSET K \subseteq Good
  BY <1>2, SubsetInduction
<1>4. QED
  BY <1>1, <1>3

\* Least and greatest element.
LEMMA MinIs ==
    ASSUME NEW S \in SUBSET Nat, S # {}
    PROVE  Min(S) \in S /\ \A y \in S : Min(S) <= y
<1>1. PICK R : R = OpToRel(<, Nat)
  OBVIOUS
<1>2. IsWellFoundedOn(R, Nat)
  BY <1>1, NatLessThanWellFounded
<1>3. PICK x \in S : \A y \in S : ~(<<y, x>> \in R)
  BY <1>2, WFMin
<1>4. \A z, y \in Nat : y < z => <<y, z>> \in R
  BY <1>1 DEF OpToRel
<1>5. ASSUME NEW y \in S PROVE x <= y
  <2>1. x \in Nat /\ y \in Nat /\ ~(y < x)
    BY <1>3, <1>4
  <2>2. QED
    BY <2>1
<1>6. QED
  BY <1>5 DEF Min

LEMMA MaxIs ==
    ASSUME NEW S \in SUBSET Nat, S # {}, IsFiniteSet(S)
    PROVE  Max(S) \in S /\ \A y \in S : Max(S) >= y
<1>1. PICK Good : Good = {T \in SUBSET S : T # {} => \E x \in T : \A y \in T : x >= y}
  OBVIOUS
<1>2. ASSUME NEW T \in SUBSET S, \A U \in SUBSET T : U # T => U \in Good
      PROVE  T \in Good
  <2>1. ASSUME NEW z \in T
        PROVE  \E x \in T : \A y \in T : x >= y
    <3>1. CASE T = {z}
      BY <3>1
    <3>2. CASE T # {z}
      <4>1. T \ {z} \in Good /\ T \ {z} # {}
        BY <1>2, <2>1, <3>2
      <4>2. PICK x \in T \ {z} : \A y \in T \ {z} : x >= y
        BY <1>1, <4>1
      <4>3. x \in Nat /\ z \in Nat
        OBVIOUS
      <4>4. CASE x >= z
        BY <4>2, <4>4
      <4>5. CASE z > x
        BY <4>2, <4>3, <4>5
      <4>6. QED
        BY <4>3, <4>4, <4>5
    <3>3. QED
      BY <3>1, <3>2
  <2>2. QED
    BY <1>1, <2>1
<1>3. SUBSET S \subseteq Good
  BY <1>2, SubsetInduction
<1>4. \E x \in S : \A y \in S : x >= y
  BY <1>1, <1>3
<1>5. QED
  BY <1>4 DEF Max

-----------------------------------------------------------------------------
(* The audit trail.                                                        *)

\* Tables are bags.
TablesOK ==
    /\ IsABag(auditLog) /\ IsABag(metrics)
    /\ \A row \in DOMAIN auditLog \cup DOMAIN metrics : row.day \in Int

\* Since a purge began, its cutoff is that of the day; each statement leaves its
\* table tidy, and rows are added with the day's date only.
PurgeOK ==
    /\ day \in Nat
    /\ DOMAIN purge = {"at", "cutoff", "logs"}
    /\ purge.at \in {"logs", "metrics", "record", "done", "failed"}
    /\ Working => purge.cutoff = day - RetentionDays
    /\ purge.at \in {"metrics", "record", "done"} =>
         \A row \in BagToSet(auditLog) : row.day >= day - RetentionDays
    /\ purge.at \in {"record", "done"} =>
         \A row \in BagToSet(metrics) : row.day >= day - RetentionDays

AuditInv == TablesOK /\ PurgeOK

\* One row more in a table.
LEMMA OneMore ==
    ASSUME NEW table, IsABag(table), NEW row
    PROVE  /\ IsABag(table (+) One(row))
           /\ DOMAIN (table (+) One(row)) = DOMAIN table \cup {row}
           /\ table (+) One(row) # table
<1> DEFINE more == table (+) One(row)
<1>1. DOMAIN One(row) = {row} /\ One(row)[row] = 1
  BY DEF One, SetToBag
<1>2. table \in [DOMAIN table -> {n \in Nat : n > 0}]
  BY DEF IsABag
<1>3. more = [e \in DOMAIN table \cup {row} |->
                (IF e \in DOMAIN table THEN table[e] ELSE 0) + (IF e \in {row} THEN 1 ELSE 0)]
  BY <1>1 DEF (+)
<1>4. \A e \in DOMAIN table \cup {row} : more[e] \in Nat /\ more[e] > 0
  BY <1>2, <1>3
<1>5. DOMAIN more = DOMAIN table \cup {row}
  BY <1>3
<1>6. IsABag(more)
  BY <1>3, <1>4 DEF IsABag
<1>7. more # table
  <2>1. CASE row \in DOMAIN table
    BY <1>2, <1>3, <2>1
  <2>2. CASE row \notin DOMAIN table
    BY <1>5, <2>2
  <2>3. QED
    BY <2>1, <2>2
<1>8. QED
  BY <1>5, <1>6, <1>7

\* Rows are taken out of a table, all copies of them.
LEMMA RowsTaken ==
    ASSUME NEW table, IsABag(table), NEW rows \in SUBSET DOMAIN table
    PROVE  /\ IsABag(table (-) Taken(table, rows))
           /\ DOMAIN (table (-) Taken(table, rows)) = DOMAIN table \ rows
<1> DEFINE rest == [e \in DOMAIN table |->
                      IF e \in rows THEN table[e] - table[e] ELSE table[e]]
<1>1. table \in [DOMAIN table -> {n \in Nat : n > 0}]
  BY DEF IsABag
<1>2. DOMAIN Taken(table, rows) = rows /\ \A e \in rows : Taken(table, rows)[e] = table[e]
  BY DEF Taken
<1>3. table (-) Taken(table, rows) = [e \in {d \in DOMAIN rest : rest[d] > 0} |-> rest[e]]
  <2>1. [e \in DOMAIN table |-> IF e \in DOMAIN Taken(table, rows)
                                THEN table[e] - Taken(table, rows)[e] ELSE table[e]] = rest
    BY <1>2
  <2>2. QED
    BY <2>1 DEF (-)
<1>4. {d \in DOMAIN rest : rest[d] > 0} = DOMAIN table \ rows
  BY <1>1
<1>5. \A e \in DOMAIN table \ rows : rest[e] \in Nat /\ rest[e] > 0
  BY <1>1
<1> HIDE DEF rest
<1>6. QED
  BY <1>3, <1>4, <1>5 DEF IsABag

\* The statements of the purge, and the calls that add a row.
LEMMA AuditStepKeepsInv ==
    ASSUME AuditInv,
           \/ \E c \in Calls : AuditCall(c)
           \/ RetentionPurge
           \/ UNCHANGED auditVars
    PROVE  AuditInv'
<1>1. /\ IsABag(auditLog) /\ IsABag(metrics)
      /\ day \in Nat /\ RetentionDays \in Nat
      /\ DOMAIN purge = {"at", "cutoff", "logs"}
      /\ purge.at \in {"logs", "metrics", "record", "done", "failed"}
      /\ \A row \in DOMAIN auditLog \cup DOMAIN metrics : row.day \in Int
  BY AuditAssumption DEF AuditInv, TablesOK, PurgeOK
<1>2. ASSUME NEW c \in Calls, Log(c)
      PROVE  AuditInv'
  <2>1. PICK row : row = [day |-> day, actor |-> "client", purged |-> 0]
    OBVIOUS
  <2>2. auditLog' = auditLog (+) One(row) /\ UNCHANGED <<metrics, day, purge>> /\ row.day = day
    BY <1>2, <2>1 DEF Log
  <2>3. IsABag(auditLog') /\ DOMAIN auditLog' = DOMAIN auditLog \cup {row}
    BY <1>1, <2>2, OneMore
  <2>4. QED
    BY <1>1, <2>2, <2>3 DEF AuditInv, TablesOK, PurgeOK, BagToSet, Working
<1>3. ASSUME NEW c \in Calls, Record(c)
      PROVE  AuditInv'
  <2>0. PICK d \in Durations : metrics' = metrics (+) One([day |-> day, duration |-> d])
    BY <1>3 DEF Record
  <2>1. PICK row : row = [day |-> day, duration |-> d] /\ metrics' = metrics (+) One(row)
    BY <2>0
  <2>2. UNCHANGED <<auditLog, day, purge>> /\ row.day = day
    BY <1>3, <2>1 DEF Record
  <2>3. IsABag(metrics') /\ DOMAIN metrics' = DOMAIN metrics \cup {row}
    BY <1>1, <2>1, OneMore
  <2>4. QED
    BY <1>1, <2>2, <2>3 DEF AuditInv, TablesOK, PurgeOK, BagToSet, Working
<1>4. CASE Midnight
  <2>1. /\ day' = day + 1 /\ UNCHANGED <<auditLog, metrics>>
        /\ purge' = [at |-> "logs", cutoff |-> day' - RetentionDays, logs |-> 0]
    BY <1>4 DEF Midnight
  <2>2. QED
    BY <1>1, <2>1 DEF AuditInv, TablesOK, PurgeOK, BagToSet, Working
<1>5. CASE PurgeLogs
  <2>1. /\ purge.at = "logs" /\ UNCHANGED <<metrics, day>>
        /\ auditLog' = auditLog (-) Taken(auditLog, OldLogs)
        /\ purge'.at = "metrics" /\ purge'.cutoff = purge.cutoff
        /\ DOMAIN purge' = {"at", "cutoff", "logs"}
    BY <1>1, <1>5 DEF PurgeLogs
  <2>2. purge.cutoff = day - RetentionDays
    BY <2>1 DEF AuditInv, PurgeOK, Working
  <2>3. IsABag(auditLog') /\ DOMAIN auditLog' = DOMAIN auditLog \ OldLogs
    <3>1. OldLogs \in SUBSET DOMAIN auditLog
      BY DEF OldLogs, BagToSet
    <3>2. QED
      BY <1>1, <2>1, <3>1, RowsTaken
  <2>4. \A row \in DOMAIN auditLog' : row.day >= day - RetentionDays
    BY <1>1, <2>2, <2>3 DEF OldLogs, BagToSet
  <2>5. QED
    BY <1>1, <2>1, <2>2, <2>3, <2>4 DEF AuditInv, TablesOK, PurgeOK, BagToSet, Working
<1>6. CASE PurgeMetrics
  <2>1. /\ purge.at = "metrics" /\ UNCHANGED <<auditLog, day>>
        /\ metrics' = metrics (-) Taken(metrics, OldMetrics)
        /\ purge'.at = "record" /\ purge'.cutoff = purge.cutoff
        /\ DOMAIN purge' = {"at", "cutoff", "logs"}
    BY <1>1, <1>6 DEF PurgeMetrics
  <2>2. purge.cutoff = day - RetentionDays
    BY <2>1 DEF AuditInv, PurgeOK, Working
  <2>3. IsABag(metrics') /\ DOMAIN metrics' = DOMAIN metrics \ OldMetrics
    <3>1. OldMetrics \in SUBSET DOMAIN metrics
      BY DEF OldMetrics, BagToSet
    <3>2. QED
      BY <1>1, <2>1, <3>1, RowsTaken
  <2>4. \A row \in DOMAIN metrics' : row.day >= day - RetentionDays
    BY <1>1, <2>2, <2>3 DEF OldMetrics, BagToSet
  <2>5. QED
    BY <1>1, <2>1, <2>2, <2>3, <2>4 DEF AuditInv, TablesOK, PurgeOK, BagToSet, Working
<1>7. CASE RecordPurge
  <2>1. PICK row : row = [day |-> day, actor |-> "system", purged |-> purge.logs]
    OBVIOUS
  <2>2. /\ purge.at = "record" /\ UNCHANGED <<metrics, day>> /\ row.day = day
        /\ auditLog' = auditLog (+) One(row)
        /\ purge' = Ended("done")
    BY <1>7, <2>1 DEF RecordPurge
  <2>3. IsABag(auditLog') /\ DOMAIN auditLog' = DOMAIN auditLog \cup {row}
    BY <1>1, <2>2, OneMore
  <2>4. QED
    BY <1>1, <2>2, <2>3 DEF AuditInv, TablesOK, PurgeOK, BagToSet, Working, Ended
<1>8. CASE PurgeFails
  BY <1>1, <1>8 DEF PurgeFails, AuditInv, TablesOK, PurgeOK, BagToSet, Working, Ended
<1>9. CASE UNCHANGED auditVars
  BY <1>9 DEF auditVars, AuditInv, TablesOK, PurgeOK, BagToSet, Working
<1>10. QED
  BY <1>2, <1>3, <1>4, <1>5, <1>6, <1>7, <1>8, <1>9 DEF AuditCall, ReadCall, RetentionPurge

LEMMA InitAuditInv == Init => AuditInv
  BY AuditAssumption
     DEF Init, InitAudit, AuditInv, TablesOK, PurgeOK, EmptyBag, SetToBag, IsABag, BagToSet,
         Working, Ended

\* Tables are finite, the job has counted nothing before it has deleted, and no
\* row is lost without a report.
AccountsOK ==
    /\ IsFiniteSet(DOMAIN auditLog) /\ IsFiniteSet(DOMAIN metrics)
    /\ \A row \in DOMAIN metrics : row.duration \in Nat /\ Trackable(Rounded(row.duration))
    /\ purge.logs \in Nat /\ logged \in Nat /\ reported \in Nat /\ failures \in Nat
    /\ purge.at \in {"logs", "done", "failed"} => purge.logs = 0
    /\ DeletionsReported

\* A row that is added is one more, also when there were such rows before.
LEMMA CountOneMore ==
    ASSUME NEW table, IsABag(table), IsFiniteSet(DOMAIN table), NEW row
    PROVE  /\ Count(table) \in Nat
           /\ Count(table (+) One(row)) = Count(table) + 1
<1>1. PICK more : more = table (+) One(row)
  OBVIOUS
<1>2. PICK D : D = DOMAIN table
  OBVIOUS
<1>3. \A x \in D : table[x] \in Nat
  BY <1>2 DEF IsABag
<1>4. /\ DOMAIN more = D \cup {row} /\ more[row] = (IF row \in D THEN table[row] ELSE 0) + 1
      /\ \A x \in D \ {row} : more[x] = table[x]
  <2>1. DOMAIN One(row) = {row} /\ One(row)[row] = 1
    BY DEF One, SetToBag
  <2>2. more = [e \in D \cup {row} |->
                  (IF e \in D THEN table[e] ELSE 0) + (IF e \in {row} THEN 1 ELSE 0)]
    BY <1>1, <1>2, <2>1 DEF (+)
  <2>3. QED
    BY <1>3, <2>2
<1>5. PICK E : E = D \cup {row}
  OBVIOUS
<1>6. IsFiniteSet(D) /\ IsFiniteSet(E) /\ IsFiniteSet(D \ {row})
  BY <1>2, <1>5, FS_AddElement, FS_RemoveElement
<1>7. \A x \in E : more[x] \in Nat
  BY <1>3, <1>4, <1>5
<1>8. SumFunctionOnSet(more, E) = more[row] + SumFunctionOnSet(more, D \ {row})
  <2>1. \A x \in E : SumFunctionOnSet(more, E) = more[x] + SumFunctionOnSet(more, E \ {x})
    BY <1>6, <1>7, SumWithout
  <2>2. row \in E /\ E \ {row} = D \ {row}
    BY <1>5
  <2>3. QED
    BY <2>1, <2>2
<1>9. SumFunctionOnSet(more, D \ {row}) = SumFunctionOnSet(table, D \ {row})
  BY <1>4, <1>6, SumSame
<1>10. SumFunctionOnSet(table, D) \in Nat /\ SumFunctionOnSet(table, D \ {row}) \in Nat
  BY <1>3, <1>6, SumIsNat
<1>11. SumFunctionOnSet(more, E) = SumFunctionOnSet(table, D) + 1
  <2>1. CASE row \in D
    <3>1. SumFunctionOnSet(table, D) = table[row] + SumFunctionOnSet(table, D \ {row})
      BY <1>3, <1>6, <2>1, SumWithout
    <3>2. QED
      BY <1>3, <1>4, <1>8, <1>9, <1>10, <2>1, <3>1
  <2>2. CASE row \notin D
    <3>1. D \ {row} = D
      BY <2>2
    <3>2. QED
      BY <1>4, <1>8, <1>9, <1>10, <2>2, <3>1
  <2>3. QED
    BY <2>1, <2>2
<1>12. QED
  BY <1>1, <1>2, <1>4, <1>5, <1>10, <1>11 DEF Count, SumFunction

\* Rows that are taken out are counted once, and the rest is what it was.
LEMMA CountTaken ==
    ASSUME NEW table, IsABag(table), IsFiniteSet(DOMAIN table), NEW rows \in SUBSET DOMAIN table
    PROVE  /\ Count(Taken(table, rows)) \in Nat
           /\ Count(table (-) Taken(table, rows)) \in Nat
           /\ Count(table) = Count(Taken(table, rows)) + Count(table (-) Taken(table, rows))
<1>1. PICK old : old = Taken(table, rows)
  OBVIOUS
<1>2. PICK rest : rest = table (-) old
  OBVIOUS
<1>3. PICK D : D = DOMAIN table
  OBVIOUS
<1>4. \A x \in D : table[x] \in Nat /\ table[x] > 0
  BY <1>3 DEF IsABag
<1>5. DOMAIN old = rows /\ \A x \in rows : old[x] = table[x]
  BY <1>1 DEF Taken
<1>6. DOMAIN rest = D \ rows /\ \A x \in D \ rows : rest[x] = table[x]
  <2>1. DOMAIN rest = D \ rows
    BY <1>1, <1>2, <1>3, RowsTaken
  <2>2. PICK kept : kept = [e \in D |-> IF e \in rows THEN table[e] - old[e] ELSE table[e]]
    OBVIOUS
  <2>3. rest = [e \in {d \in DOMAIN kept : kept[d] > 0} |-> kept[e]]
    BY <1>2, <1>3, <1>5, <2>2 DEF (-)
  <2>4. {d \in DOMAIN kept : kept[d] > 0} = DOMAIN rest
    BY <2>3
  <2>5. \A x \in DOMAIN rest : rest[x] = kept[x]
    BY <2>3, <2>4
  <2>6. QED
    BY <2>1, <2>2, <2>5
<1>7. IsFiniteSet(D) /\ IsFiniteSet(rows) /\ IsFiniteSet(D \ rows) /\ rows \in SUBSET D
  BY <1>3, FS_Subset, FS_Difference
<1>8. /\ SumFunctionOnSet(table, D) = SumFunctionOnSet(table, rows) + SumFunctionOnSet(table, D \ rows)
      /\ SumFunctionOnSet(table, rows) \in Nat /\ SumFunctionOnSet(table, D \ rows) \in Nat
  <2>1. IsFiniteSet(D) /\ \A x \in D : table[x] \in Nat
    BY <1>4, <1>7
  <2>2. SumFunctionOnSet(table, D) = SumFunctionOnSet(table, rows) + SumFunctionOnSet(table, D \ rows)
    BY <1>7, <2>1, SumSplits
  <2>3. (\A x \in rows : table[x] \in Nat) /\ (\A x \in D \ rows : table[x] \in Nat)
    BY <1>7, <2>1
  <2>4. SumFunctionOnSet(table, rows) \in Nat /\ SumFunctionOnSet(table, D \ rows) \in Nat
    BY <1>7, <2>3, SumIsNat
  <2>5. QED
    BY <2>2, <2>4
<1>9. SumFunctionOnSet(old, rows) = SumFunctionOnSet(table, rows)
  BY <1>5, <1>7, SumSame
<1>10. SumFunctionOnSet(rest, D \ rows) = SumFunctionOnSet(table, D \ rows)
  BY <1>6, <1>7, SumSame
<1>11. QED
  BY <1>1, <1>2, <1>3, <1>5, <1>6, <1>8, <1>9, <1>10 DEF Count, SumFunction

LEMMA AuditStepKeepsAccounts ==
    ASSUME AuditInv, AccountsOK,
           \/ \E c \in Calls : AuditCall(c)
           \/ RetentionPurge
           \/ UNCHANGED auditVars
    PROVE  AccountsOK'
<1>1. /\ IsABag(auditLog) /\ IsABag(metrics)
      /\ IsFiniteSet(DOMAIN auditLog) /\ IsFiniteSet(DOMAIN metrics)
      /\ DOMAIN purge = {"at", "cutoff", "logs"}
      /\ \A row \in DOMAIN metrics : row.duration \in Nat /\ Trackable(Rounded(row.duration))
      /\ purge.logs \in Nat /\ logged \in Nat /\ reported \in Nat /\ failures \in Nat
      /\ purge.at \in {"logs", "done", "failed"} => purge.logs = 0
      /\ failures = 0 => logged = Count(auditLog) + reported + purge.logs
  BY DEF AuditInv, TablesOK, PurgeOK, AccountsOK, DeletionsReported
<1>2. ASSUME NEW c \in Calls, Log(c)
      PROVE  AccountsOK'
  <2>1. PICK row : row = [day |-> day, actor |-> "client", purged |-> 0]
    OBVIOUS
  <2>2. /\ auditLog' = auditLog (+) One(row) /\ logged' = logged + 1
        /\ UNCHANGED <<metrics, day, purge, failures, reported>>
    BY <1>2, <2>1 DEF Log
  <2>3. DOMAIN auditLog' = DOMAIN auditLog \cup {row}
    BY <1>1, <2>2, OneMore
  <2>4. IsFiniteSet(DOMAIN auditLog')
    BY <1>1, <2>3, FS_AddElement
  <2>5. Count(auditLog) \in Nat /\ Count(auditLog') = Count(auditLog) + 1
    BY <1>1, <2>2, CountOneMore
  <2>6. failures' = 0 => logged' = Count(auditLog') + reported' + purge'.logs
    BY <1>1, <2>2, <2>5
  <2>7. QED
    BY <1>1, <2>2, <2>4, <2>6 DEF AccountsOK, DeletionsReported
<1>3. ASSUME NEW c \in Calls, Record(c)
      PROVE  AccountsOK'
  <2>1. PICK d \in Durations : metrics' = metrics (+) One([day |-> day, duration |-> d])
    BY <1>3 DEF Record
  <2>2. PICK row : row = [day |-> day, duration |-> d] /\ metrics' = metrics (+) One(row)
    BY <2>1
  <2>3. UNCHANGED <<auditLog, purge, failures, logged, reported>>
    BY <1>3 DEF Record
  <2>4. DOMAIN metrics' = DOMAIN metrics \cup {row}
    BY <1>1, <2>2, OneMore
  <2>5. IsFiniteSet(DOMAIN metrics')
    BY <1>1, <2>4, FS_AddElement
  <2>6. row.duration \in Nat /\ Trackable(Rounded(row.duration))
    BY <2>2, AuditAssumption
  <2>7. QED
    BY <1>1, <2>3, <2>4, <2>5, <2>6 DEF AccountsOK, DeletionsReported
<1>4. CASE Midnight
  <2>1. /\ UNCHANGED <<auditLog, metrics, failures, logged, reported>>
        /\ purge' = [at |-> "logs", cutoff |-> day' - RetentionDays, logs |-> 0]
        /\ purge.at \in {"done", "failed"}
    BY <1>4 DEF Midnight, Working, AuditInv, PurgeOK
  <2>2. QED
    BY <1>1, <2>1 DEF AccountsOK, DeletionsReported
<1>5. CASE PurgeLogs
  <2>1. /\ purge.at = "logs" /\ UNCHANGED <<metrics, failures, logged, reported>>
        /\ auditLog' = auditLog (-) Taken(auditLog, OldLogs)
        /\ purge'.at = "metrics" /\ purge'.logs = Count(Taken(auditLog, OldLogs))
    BY <1>1, <1>5 DEF PurgeLogs
  <2>2. OldLogs \in SUBSET DOMAIN auditLog
    BY DEF OldLogs, BagToSet
  <2>3. DOMAIN auditLog' = DOMAIN auditLog \ OldLogs
    BY <1>1, <2>1, <2>2, RowsTaken
  <2>4. IsFiniteSet(DOMAIN auditLog')
    <3>1. DOMAIN auditLog' \in SUBSET DOMAIN auditLog
      BY <2>3
    <3>2. QED
      BY <1>1, <3>1, FS_Subset
  <2>5. /\ purge'.logs \in Nat /\ Count(auditLog') \in Nat
        /\ Count(auditLog) = purge'.logs + Count(auditLog')
    BY <1>1, <2>1, <2>2, CountTaken
  <2>6. failures' = 0 => logged' = Count(auditLog') + reported' + purge'.logs
    BY <1>1, <2>1, <2>5
  <2>7. QED
    BY <1>1, <2>1, <2>4, <2>5, <2>6 DEF AccountsOK, DeletionsReported
<1>6. CASE PurgeMetrics
  <2>1. /\ purge.at = "metrics" /\ UNCHANGED <<auditLog, failures, logged, reported>>
        /\ metrics' = metrics (-) Taken(metrics, OldMetrics)
        /\ purge'.at = "record" /\ purge'.logs = purge.logs
    BY <1>1, <1>6 DEF PurgeMetrics
  <2>2. OldMetrics \in SUBSET DOMAIN metrics
    BY DEF OldMetrics, BagToSet
  <2>3. DOMAIN metrics' = DOMAIN metrics \ OldMetrics
    BY <1>1, <2>1, <2>2, RowsTaken
  <2>4. IsFiniteSet(DOMAIN metrics')
    <3>1. DOMAIN metrics' \in SUBSET DOMAIN metrics
      BY <2>3
    <3>2. QED
      BY <1>1, <3>1, FS_Subset
  <2>5. QED
    BY <1>1, <2>1, <2>3, <2>4 DEF AccountsOK, DeletionsReported
<1>7. CASE RecordPurge
  <2>1. PICK row : row = [day |-> day, actor |-> "system", purged |-> purge.logs]
    OBVIOUS
  <2>2. /\ auditLog' = auditLog (+) One(row) /\ logged' = logged + 1
        /\ reported' = reported + purge.logs
        /\ UNCHANGED <<metrics, failures>> /\ purge' = Ended("done")
    BY <1>7, <2>1 DEF RecordPurge
  <2>3. DOMAIN auditLog' = DOMAIN auditLog \cup {row}
    BY <1>1, <2>2, OneMore
  <2>4. IsFiniteSet(DOMAIN auditLog')
    BY <1>1, <2>3, FS_AddElement
  <2>5. Count(auditLog) \in Nat /\ Count(auditLog') = Count(auditLog) + 1
    BY <1>1, <2>2, CountOneMore
  <2>6. purge'.at = "done" /\ purge'.logs = 0
    BY <2>2 DEF Ended
  <2>7. failures' = 0 => logged' = Count(auditLog') + reported' + purge'.logs
    BY <1>1, <2>2, <2>5, <2>6
  <2>8. QED
    BY <1>1, <2>2, <2>4, <2>6, <2>7 DEF AccountsOK, DeletionsReported
<1>8. CASE PurgeFails
  <2>1. /\ failures' = failures + 1 /\ UNCHANGED <<auditLog, metrics, logged, reported>>
        /\ purge'.at = "failed" /\ purge'.logs = 0
    BY <1>8 DEF PurgeFails, Ended
  <2>2. failures' \in Nat /\ failures' # 0
    BY <1>1, <2>1
  <2>3. QED
    BY <1>1, <2>1, <2>2 DEF AccountsOK, DeletionsReported
<1>9. CASE UNCHANGED auditVars
  BY <1>9 DEF auditVars, AccountsOK, DeletionsReported
<1>10. QED
  BY <1>2, <1>3, <1>4, <1>5, <1>6, <1>7, <1>8, <1>9 DEF AuditCall, ReadCall, RetentionPurge

LEMMA InitAccountsOK == Init => AccountsOK
<1> SUFFICES ASSUME Init PROVE AccountsOK
  OBVIOUS
<1>1. /\ DOMAIN auditLog = {} /\ DOMAIN metrics = {} /\ failures = 0 /\ logged = 0 /\ reported = 0
      /\ purge.logs = 0
  BY DEF Init, InitAudit, EmptyBag, SetToBag, Ended
<1>2. Count(auditLog) = 0
  BY <1>1, SumOfNone DEF Count, SumFunction
<1>3. QED
  BY <1>1, <1>2, FS_EmptySet DEF AccountsOK, DeletionsReported

\* A bag of durations: a finite one that is not empty, of natural numbers.
IsDurations(bag) ==
    /\ BagToSet(bag) \in SUBSET Nat /\ \A d \in BagToSet(bag) : Trackable(Rounded(d))
    /\ IsFiniteSet(BagToSet(bag)) /\ BagToSet(bag) # {}
    /\ \A d \in BagToSet(bag) : bag[d] \in Nat
    /\ Count(bag) \in Nat /\ Count(bag) >= 1

\* How many durations a percentile asks for.
Wanted(bag, percent) == Max({1, (percent * Count(bag) + 50) \div 100})

LEMMA WantedIs ==
    ASSUME NEW bag, IsDurations(bag)
    PROVE  /\ Wanted(bag, 50) \in Nat /\ Wanted(bag, 95) \in Nat /\ Wanted(bag, 99) \in Nat
           /\ Wanted(bag, 50) <= Wanted(bag, 95) /\ Wanted(bag, 95) <= Wanted(bag, 99)
           /\ Wanted(bag, 99) <= Count(bag)
<1> PICK n \in Nat : n = Count(bag) /\ n >= 1
  BY DEF IsDurations
<1>1. ASSUME NEW x \in Nat
      PROVE  /\ Max({1, x}) \in Nat /\ (Max({1, x}) = 1 \/ Max({1, x}) = x)
             /\ Max({1, x}) >= 1 /\ Max({1, x}) >= x
  <2>1. IsFiniteSet({1, x}) /\ {1, x} \in SUBSET Nat /\ {1, x} # {}
    <3>1. IsFiniteSet({x} \cup {1}) /\ {x} \cup {1} = {1, x}
      BY FS_Singleton, FS_AddElement
    <3>2. QED
      BY <3>1
  <2>2. Max({1, x}) \in {1, x} /\ \A y \in {1, x} : Max({1, x}) >= y
    BY <2>1, MaxIs
  <2>3. QED
    BY <2>2
<1>2. PICK a : a = (50 * n + 50) \div 100
  OBVIOUS
<1>3. PICK b : b = (95 * n + 50) \div 100
  OBVIOUS
<1>4. PICK c : c = (99 * n + 50) \div 100
  OBVIOUS
<1>5. a \in Nat /\ b \in Nat /\ c \in Nat /\ a <= b /\ b <= c /\ c <= n
  BY <1>2, <1>3, <1>4
<1>6. /\ Max({1, a}) \in Nat /\ Max({1, b}) \in Nat /\ Max({1, c}) \in Nat
      /\ Max({1, a}) <= Max({1, b}) /\ Max({1, b}) <= Max({1, c}) /\ Max({1, c}) <= n
  BY <1>1, <1>5
<1>7. Wanted(bag, 50) = Max({1, a}) /\ Wanted(bag, 95) = Max({1, b}) /\ Wanted(bag, 99) = Max({1, c})
  BY <1>2, <1>3, <1>4 DEF Wanted
<1>8. QED
  BY <1>6, <1>7

\* All durations are at most the greatest, and rounding keeps their order.
LEMMA RoundedAscends ==
    ASSUME NEW d \in Nat, NEW e \in Nat, d <= e
    PROVE  Rounded(d) \in Nat /\ Rounded(e) \in Nat /\ Rounded(d) <= Rounded(e)
  BY DEF Rounded

\* A bucket's greatest value is above the values it counts by one part in 1024
\* at most: where buckets are wider than one, the values are as many times 1024.
LEMMA HighestIsNear ==
    ASSUME NEW ms \in Nat, Trackable(ms)
    PROVE  /\ HighestEquivalent(ms) \in Nat
           /\ ms <= HighestEquivalent(ms) /\ 1024 * HighestEquivalent(ms) <= 1025 * ms
<1>1. PICK fits : fits = {w \in Widths : ms < SubBuckets * w}
  OBVIOUS
<1>2. fits \in SUBSET Nat /\ fits # {}
  BY <1>1 DEF Trackable, Widths
<1>3. PICK least \in Widths : least \in fits /\ \A w \in fits : least <= w
  BY <1>1, <1>2, MinIs
<1>4. \E w \in Widths : ms < SubBuckets * w /\ (w = 1 \/ SubBuckets * w <= 2 * ms)
  <2>1. CASE least = 1
    BY <1>1, <1>3, <2>1
  <2>2. CASE least # 1
    <3>1. PICK half \in Widths : least = 2 * half
      BY <2>2 DEF Widths
    <3>2. half \in Nat /\ half >= 1
      BY DEF Widths
    <3>3. half \notin fits
      BY <1>3, <3>1, <3>2
    <3>4. ~(ms < 2048 * half)
      BY <1>1, <3>3 DEF SubBuckets
    <3>5. 2048 * least <= 2 * ms
      BY <3>1, <3>2, <3>4
    <3>6. QED
      BY <1>1, <1>3, <3>5 DEF SubBuckets
  <2>3. QED
    BY <2>1, <2>2
<1>5. PICK width \in Widths : /\ width = Width(ms) /\ width \in Nat /\ width >= 1
                              /\ width = 1 \/ 2048 * width <= 2 * ms
  <2>1. Width(ms) \in Widths /\ (Width(ms) = 1 \/ SubBuckets * Width(ms) <= 2 * ms)
    BY <1>4 DEF Width
  <2>2. \A w \in Widths : w \in Nat /\ w >= 1
    BY DEF Widths
  <2>3. QED
    BY <2>1, <2>2 DEF SubBuckets
<1>6. width = 1 \/ 1024 * width <= ms
  BY <1>5
<1>7. PICK k \in Nat : k = ms \div width
  BY <1>5
<1>8. PICK rest \in Nat : rest = ms % width /\ rest < width
  BY <1>5
<1>9. PICK floor \in Nat : floor = k * width
  BY <1>5
<1>10. ms = floor + rest
  <2>1. ms = width * (ms \div width) + (ms % width)
    BY <1>5
  <2>2. k * width = width * k
    BY <1>5
  <2>3. QED
    BY <1>7, <1>8, <1>9, <2>1, <2>2
<1>11. HighestEquivalent(ms) = floor + width - 1
  BY <1>5, <1>7, <1>9 DEF HighestEquivalent
<1>12. QED
  BY <1>5, <1>6, <1>8, <1>10, <1>11

LEMMA RecordedIsNear ==
    ASSUME NEW d \in Nat, Trackable(Rounded(d))
    PROVE  /\ Recorded(d) \in Nat
           /\ Rounded(d) <= Recorded(d) /\ 1024 * Recorded(d) <= 1025 * Rounded(d)
<1>1. Rounded(d) \in Nat
  BY DEF Rounded
<1>2. QED
  BY <1>1, HighestIsNear DEF Recorded

\* The recorded durations, and those with enough of the others at or below.
AllRecorded(bag) == {Recorded(d) : d \in BagToSet(bag)}
Reached(bag, w) == {ms \in AllRecorded(bag) : AtMost(bag, ms) >= w}

\* A percentile is a duration, as recorded, and the more it asks for the greater it is.
LEMMA ReachedIs ==
    ASSUME NEW bag, IsDurations(bag), NEW wanted \in Nat, wanted <= Count(bag)
    PROVE  /\ Min(Reached(bag, wanted)) \in AllRecorded(bag)
           /\ \A less \in Nat : less <= wanted => Min(Reached(bag, less)) <= Min(Reached(bag, wanted))
<1>1. PICK K : K = BagToSet(bag)
  OBVIOUS
<1>2. /\ K \in SUBSET Nat /\ IsFiniteSet(K) /\ K # {} /\ \A d \in K : bag[d] \in Nat
      /\ \A d \in K : Recorded(d) \in Nat
  BY <1>1, RecordedIsNear DEF IsDurations
<1>3. /\ AllRecorded(bag) = {Recorded(d) : d \in K} /\ AllRecorded(bag) \in SUBSET Nat
      /\ AllRecorded(bag) # {} /\ IsFiniteSet(AllRecorded(bag))
  <2>1. AllRecorded(bag) = {Recorded(d) : d \in K}
    BY <1>1 DEF AllRecorded
  <2>2. PICK record : record = [d \in K |-> Recorded(d)]
    OBVIOUS
  <2>3. record \in Surjection(K, AllRecorded(bag))
    BY <2>1, <2>2 DEF Surjection
  <2>4. IsFiniteSet(AllRecorded(bag))
    BY <1>2, <2>3, FS_Surjection
  <2>5. QED
    BY <1>2, <2>1, <2>4
<1>4. PICK top : top = Max(AllRecorded(bag))
  OBVIOUS
<1>5. top \in AllRecorded(bag) /\ {d \in K : Recorded(d) <= top} = K
  <2>1. top \in AllRecorded(bag) /\ \A ms \in AllRecorded(bag) : top >= ms
    BY <1>3, <1>4, MaxIs
  <2>2. \A d \in K : Recorded(d) <= top
    BY <1>2, <1>3, <2>1
  <2>3. QED
    BY <2>1, <2>2
<1>6. AtMost(bag, top) = Count(bag)
  BY <1>1, <1>5 DEF AtMost, Count, SumFunction, BagToSet
<1>7. ASSUME NEW ms \in AllRecorded(bag) PROVE AtMost(bag, ms) \in Nat
  <2>1. PICK below : below = {d \in K : Recorded(d) <= ms}
    OBVIOUS
  <2>2. below \in SUBSET K
    BY <2>1
  <2>3. IsFiniteSet(below) /\ \A d \in below : bag[d] \in Nat
    BY <1>2, <2>2, FS_Subset
  <2>4. SumFunctionOnSet(bag, below) \in Nat
    BY <2>3, SumIsNat
  <2>5. QED
    BY <1>1, <2>1, <2>4 DEF AtMost
<1>8. ASSUME NEW w \in Nat, w <= wanted
      PROVE  /\ Reached(bag, w) \in SUBSET Nat /\ Reached(bag, w) # {}
             /\ Reached(bag, wanted) \subseteq Reached(bag, w)
  <2>1. top \in Reached(bag, w)
    <3>1. Count(bag) \in Nat
      BY DEF IsDurations
    <3>2. QED
      BY <1>5, <1>6, <1>8, <3>1 DEF Reached
  <2>2. QED
    BY <1>3, <1>7, <1>8, <2>1 DEF Reached
<1>9. ASSUME NEW w \in Nat, w <= wanted
      PROVE  Min(Reached(bag, w)) \in Reached(bag, w) /\ \A ms \in Reached(bag, w) : Min(Reached(bag, w)) <= ms
  <2>1. PICK V : V = Reached(bag, w)
    OBVIOUS
  <2>2. V \in SUBSET Nat /\ V # {}
    BY <1>8, <1>9, <2>1
  <2>3. Min(V) \in V /\ \A ms \in V : Min(V) <= ms
    BY <2>2, MinIs
  <2>4. QED
    BY <2>1, <2>3
<1>10. Min(Reached(bag, wanted)) \in Reached(bag, wanted)
  BY <1>9
<1>11. ASSUME NEW less \in Nat, less <= wanted
       PROVE  Min(Reached(bag, less)) <= Min(Reached(bag, wanted))
  <2>1. Reached(bag, wanted) \subseteq Reached(bag, less)
    BY <1>8, <1>11
  <2>2. \A ms \in Reached(bag, less) : Min(Reached(bag, less)) <= ms
    BY <1>9, <1>11
  <2>3. QED
    BY <1>10, <2>1, <2>2
<1>12. Min(Reached(bag, wanted)) \in AllRecorded(bag)
  BY <1>10 DEF Reached
<1>13. QED
  BY <1>11, <1>12

LEMMA PercentilesAscend ==
    ASSUME NEW bag, IsDurations(bag)
    PROVE  /\ Rounded(Least(bag)) <= ValueAtPercentile(bag, 50)
           /\ ValueAtPercentile(bag, 50) <= ValueAtPercentile(bag, 95)
           /\ ValueAtPercentile(bag, 95) <= ValueAtPercentile(bag, 99)
           /\ 1024 * ValueAtPercentile(bag, 99) <= 1025 * Rounded(Greatest(bag))
<1>1. /\ Wanted(bag, 50) \in Nat /\ Wanted(bag, 95) \in Nat /\ Wanted(bag, 99) \in Nat
      /\ Wanted(bag, 50) <= Wanted(bag, 95) /\ Wanted(bag, 95) <= Wanted(bag, 99)
      /\ Wanted(bag, 50) <= Count(bag) /\ Wanted(bag, 95) <= Count(bag) /\ Wanted(bag, 99) <= Count(bag)
  BY WantedIs DEF IsDurations
<1>2. ASSUME NEW percent
      PROVE  ValueAtPercentile(bag, percent) = Min(Reached(bag, Wanted(bag, percent)))
  BY Zenon DEF ValueAtPercentile, Wanted, Reached, AllRecorded
<1>3. ASSUME NEW w \in Nat, w <= Count(bag)
      PROVE  /\ Min(Reached(bag, w)) \in AllRecorded(bag)
             /\ \A less \in Nat : less <= w => Min(Reached(bag, less)) <= Min(Reached(bag, w))
  BY <1>3, ReachedIs
<1>4. /\ ValueAtPercentile(bag, 50) \in AllRecorded(bag) /\ ValueAtPercentile(bag, 99) \in AllRecorded(bag)
      /\ ValueAtPercentile(bag, 50) <= ValueAtPercentile(bag, 95)
      /\ ValueAtPercentile(bag, 95) <= ValueAtPercentile(bag, 99)
  BY <1>1, <1>2, <1>3
<1>5. ASSUME NEW ms \in AllRecorded(bag)
      PROVE  Rounded(Least(bag)) <= ms /\ 1024 * ms <= 1025 * Rounded(Greatest(bag))
  <2>1. PICK d \in BagToSet(bag) : ms = Recorded(d)
    BY DEF AllRecorded
  <2>2. PICK K : K = BagToSet(bag)
    OBVIOUS
  <2>3. K \in SUBSET Nat /\ IsFiniteSet(K) /\ K # {} /\ d \in K /\ Trackable(Rounded(d))
    BY <2>1, <2>2 DEF IsDurations
  <2>4. Min(K) \in K /\ Min(K) <= d /\ Max(K) \in K /\ d <= Max(K)
    BY <2>3, MinIs, MaxIs
  <2>5. PICK low \in Nat, mid \in Nat, high \in Nat :
          /\ low = Rounded(Min(K)) /\ mid = Rounded(d) /\ high = Rounded(Max(K))
          /\ low <= mid /\ mid <= high
    BY <2>3, <2>4, RoundedAscends
  <2>6. ms \in Nat /\ mid <= ms /\ 1024 * ms <= 1025 * mid
    BY <2>1, <2>3, <2>5, RecordedIsNear
  <2>7. low <= ms /\ 1024 * ms <= 1025 * high
    BY <2>5, <2>6
  <2>8. QED
    BY <2>2, <2>5, <2>7 DEF Least, Greatest
<1>6. QED
  BY <1>4, <1>5

\* The durations of a table: each row's, as often as the row is there.
LEMMA DurationsAre ==
    ASSUME NEW table, IsABag(table), IsFiniteSet(DOMAIN table), DOMAIN table # {},
           \A row \in DOMAIN table : row.duration \in Nat /\ Trackable(Rounded(row.duration))
    PROVE  IsDurations(DurationsOf(table)) /\ Count(DurationsOf(table)) = Count(table)
<1>1. PICK D : D = DOMAIN table
  OBVIOUS
<1>2. PICK K : K = {row.duration : row \in D}
  OBVIOUS
<1>3. PICK bag : bag = DurationsOf(table)
  OBVIOUS
<1>4. /\ DOMAIN bag = K
      /\ \A d \in K : bag[d] = SumFunctionOnSet(table, {row \in D : row.duration = d})
  BY <1>1, <1>2, <1>3 DEF DurationsOf, BagToSet
<1>5. K \in SUBSET Nat /\ K # {} /\ IsFiniteSet(D) /\ IsFiniteSet(K)
  <2>1. PICK duration : duration = [row \in D |-> row.duration]
    OBVIOUS
  <2>2. duration \in Surjection(D, K)
    BY <1>2, <2>1 DEF Surjection
  <2>3. IsFiniteSet(D)
    BY <1>1
  <2>4. IsFiniteSet(K)
    BY <2>2, <2>3, FS_Surjection
  <2>5. QED
    BY <1>1, <1>2, <2>3, <2>4
<1>6. (\A row \in D : table[row] \in Nat) /\ (\A row \in D : table[row] > 0)
  BY <1>1 DEF IsABag
<1>7. ASSUME NEW d \in K PROVE bag[d] \in Nat
  <2>1. PICK copies : copies = {row \in D : row.duration = d}
    OBVIOUS
  <2>2. copies \in SUBSET D
    BY <2>1
  <2>3. IsFiniteSet(copies) /\ \A row \in copies : table[row] \in Nat
    BY <1>5, <1>6, <2>2, FS_Subset
  <2>4. SumFunctionOnSet(table, copies) \in Nat
    BY <2>3, SumIsNat
  <2>5. QED
    BY <1>4, <2>1, <2>4
<1>8. SumFunctionOnSet(bag, K) = SumFunctionOnSet(table, D)
  <2>1. PICK key : key = [row \in D |-> row.duration]
    OBVIOUS
  <2>2. \A row \in D : key[row] = row.duration /\ key[row] \in K
    BY <1>2, <2>1
  <2>3. ASSUME NEW d \in K
        PROVE  bag[d] = SumFunctionOnSet(table, Grouped(D, key, {d}))
    <3>1. Grouped(D, key, {d}) = {row \in D : row.duration = d}
      BY <2>2 DEF Grouped
    <3>2. QED
      BY <1>4, <3>1
  <2>4. SumFunctionOnSet(bag, K) = SumFunctionOnSet(table, Grouped(D, key, K))
    <3>1. SumsByKey(table, D, key, K, bag)
      BY <1>5, <1>6, <2>3 DEF SumsByKey
    <3>2. QED
      BY <3>1, SumOfGroups
  <2>5. Grouped(D, key, K) = D
    BY <2>2 DEF Grouped
  <2>6. QED
    BY <2>4, <2>5
<1>9. SumFunctionOnSet(table, D) \in Nat /\ SumFunctionOnSet(table, D) >= 1
  <2>1. PICK row \in D : TRUE
    BY <1>1
  <2>2. SumFunctionOnSet(table, D) = table[row] + SumFunctionOnSet(table, D \ {row})
    BY <1>5, <1>6, SumWithout
  <2>3. IsFiniteSet(D \ {row}) /\ \A x \in D \ {row} : table[x] \in Nat
    BY <1>5, <1>6, FS_RemoveElement
  <2>4. SumFunctionOnSet(table, D \ {row}) \in Nat
    BY <2>3, SumIsNat
  <2>5. QED
    BY <1>6, <2>2, <2>4
<1>10. Count(bag) = SumFunctionOnSet(bag, K) /\ Count(table) = SumFunctionOnSet(table, D)
  BY <1>1, <1>4 DEF Count, SumFunction
<1>11. \A d \in K : Trackable(Rounded(d))
  BY <1>1, <1>2
<1>12. QED
  BY <1>3, <1>4, <1>5, <1>7, <1>8, <1>9, <1>10, <1>11 DEF IsDurations, BagToSet

LEMMA SummaryIsFit ==
    ASSUME AuditInv, AccountsOK, metrics # EmptyBag
    PROVE  LET s == Summary(DurationsOf(metrics)) IN
           /\ s.count = Count(metrics)
           /\ Rounded(s.min) <= s.p50 /\ s.p50 <= s.p95 /\ s.p95 <= s.p99
           /\ 1024 * s.p99 <= 1025 * Rounded(s.max)
<1>1. DOMAIN metrics # {}
  <2>1. metrics = [row \in DOMAIN metrics |-> metrics[row]]
    BY DEF AuditInv, TablesOK, IsABag
  <2>2. DOMAIN metrics = {} => metrics = EmptyBag
    BY <2>1 DEF EmptyBag, SetToBag
  <2>3. QED
    BY <2>2
<1>2. PICK bag : bag = DurationsOf(metrics)
  OBVIOUS
<1>3. IsDurations(bag) /\ Count(bag) = Count(metrics)
  BY <1>1, <1>2, DurationsAre DEF AuditInv, TablesOK, AccountsOK
<1>4. /\ Rounded(Least(bag)) <= ValueAtPercentile(bag, 50)
      /\ ValueAtPercentile(bag, 50) <= ValueAtPercentile(bag, 95)
      /\ ValueAtPercentile(bag, 95) <= ValueAtPercentile(bag, 99)
      /\ 1024 * ValueAtPercentile(bag, 99) <= 1025 * Rounded(Greatest(bag))
  BY <1>3, PercentilesAscend
<1>5. PICK s : s = Summary(bag)
  OBVIOUS
<1>6. /\ s.count = Count(bag) /\ s.min = Least(bag) /\ s.max = Greatest(bag)
      /\ s.p50 = ValueAtPercentile(bag, 50) /\ s.p95 = ValueAtPercentile(bag, 95)
      /\ s.p99 = ValueAtPercentile(bag, 99)
  BY <1>5 DEF Summary
<1>7. QED
  BY <1>2, <1>3, <1>4, <1>5, <1>6

-----------------------------------------------------------------------------
(* The answers.                                                            *)

\* The status of a call that changes a table and is answered with no exception.
LEMMA SuccessStatus ==
    ASSUME NEW op \in {"create", "createSession", "registerKey", "logEvent", "recordMetric", "addMetadata",
                       "validateChallenge", "update", "completeSession", "delete", "revokeKey"},
           NEW answer, answer \notin Exceptions
    PROVE  /\ op \in Creates \cup {"addMetadata", "validateChallenge"} => StatusOf(op, answer) = 201
           /\ op \in {"update", "completeSession"} => StatusOf(op, answer) = 200
           /\ op \in Deletes => StatusOf(op, answer) = 204
<1>1. StatusOf(op, answer) = Routes[op].success
  BY DEF StatusOf
<1> USE DEF Routes, And, HandshakeController, SessionController, PublicKeyDirectoryController,
            AuditLogController, PerformanceMetricController, HealthController, Open, ApiKey, Route
<1>2. /\ Routes["create"].success = 201 /\ Routes["createSession"].success = 201
      /\ Routes["registerKey"].success = 201
  OBVIOUS
<1>3. Routes["logEvent"].success = 201 /\ Routes["recordMetric"].success = 201
  OBVIOUS
<1>4. Routes["addMetadata"].success = 201 /\ Routes["validateChallenge"].success = 201
  OBVIOUS
<1>5. Routes["update"].success = 200 /\ Routes["completeSession"].success = 200
  OBVIOUS
<1>6. Routes["delete"].success = 204 /\ Routes["revokeKey"].success = 204
  OBVIOUS
<1> HIDE DEF Routes
<1>7. QED
  BY <1>1, <1>2, <1>3, <1>4, <1>5, <1>6 DEF Creates, Deletes

\* The status of one that is answered with an exception.
LEMMA FailureStatus ==
    ASSUME NEW op, NEW answer \in Exceptions
    PROVE  StatusOf(op, answer) \in {400, 401, 404, 409, 500}
BY DEF StatusOf, Exceptions, StatusOfException

\* What RepliesMatchEffects asks of the statement with which call c is answered.
Answered(c) == call[c].phase # "done" /\ call'[c].phase = "done"
Truthful(c) ==
    /\ call'[c].status >= 400 => UNCHANGED tables
    /\ call'[c].op \in Creates /\ call'[c].status = 201 => tables' # tables
    /\ call'[c].op \in Deletes /\ call'[c].status = 204 => tables' # tables

\* A call that changes nothing and does not say so, or that changes a table and
\* says that it was done.
LEMMA NothingIsTruthful ==
    ASSUME NEW c \in Calls, UNCHANGED tables,
           \/ call'[c].op \notin Creates \cup Deletes
           \/ \E op : \E answer \in Exceptions : call'[c].status = StatusOf(op, answer)
    PROVE  Truthful(c)
BY FailureStatus DEF Truthful

LEMMA SomethingIsTruthful ==
    ASSUME NEW c \in Calls,
           NEW op \in Creates \cup Deletes \cup {"addMetadata", "validateChallenge", "update", "completeSession"},
           NEW answer, answer \notin Exceptions, call'[c].op = op, call'[c].status = StatusOf(op, answer),
           op \in Creates \cup Deletes => tables' # tables
    PROVE  Truthful(c)
<1>1. StatusOf(op, answer) \in {200, 201, 204}
  BY SuccessStatus DEF Creates, Deletes
<1>2. QED
  BY <1>1 DEF Truthful

LEMMA HandshakesAnsweredTruthfully ==
    ASSUME StoreInv, NEW c \in Calls, HandshakeCall(c), Answered(c),
           UNCHANGED <<session, publicKey, auditLog, metrics>>
    PROVE  Truthful(c)
<1> USE DEF StoreInv, CallsOK, Done, AnswerAtOnce, AnswerWaiting, Await, Admitted, Answered
<1>1. UNCHANGED handshake => UNCHANGED tables
  BY DEF tables
<1>2. handshake' # handshake => tables' # tables
  BY DEF tables
<1>3. CASE GetHandshake(c)
  BY <1>1, <1>3, NothingIsTruthful DEF GetHandshake, storeVars, Creates, Deletes
<1>4. CASE GetHandshakesByUser(c)
  BY <1>1, <1>4, NothingIsTruthful DEF GetHandshakesByUser, storeVars, Creates, Deletes
<1>5. CASE CreateHandshake(c)
  <2>1. /\ call'[c].op = "create" /\ call'[c].status = StatusOf("create", "done")
        /\ handshake' # handshake
    BY <1>5 DEF CreateHandshake, StoreOK, NoRow
  <2>2. QED
    BY <1>2, <2>1, SomethingIsTruthful DEF Exceptions, Creates
<1>6. CASE UpdateHandshake(c)
  <2>1. /\ call'[c].op = "update"
        /\ \/ call'[c].status = StatusOf("update", "done")
           \/ UNCHANGED handshake
    BY <1>6 DEF UpdateHandshake, storeVars
  <2>2. CASE UNCHANGED handshake
    BY <1>1, <2>1, <2>2, NothingIsTruthful DEF Creates, Deletes
  <2>3. CASE call'[c].status = StatusOf("update", "done")
    BY <2>1, <2>3, SomethingIsTruthful DEF Exceptions, Creates, Deletes
  <2>4. QED
    BY <2>1, <2>2, <2>3
<1>7. CASE DeleteHandshake(c)
  <2>1. /\ call'[c].op = "delete"
        /\ \/ call'[c].status = StatusOf("delete", "done") /\ handshake' # handshake
           \/ call'[c].status = StatusOf("delete", "Error") /\ UNCHANGED handshake
    BY <1>7 DEF DeleteHandshake, storeVars, Exists, StoreOK, DeletedRow, Statuses
  <2>2. CASE call'[c].status = StatusOf("delete", "done") /\ handshake' # handshake
    BY <1>2, <2>1, <2>2, SomethingIsTruthful DEF Exceptions, Deletes
  <2>3. CASE call'[c].status = StatusOf("delete", "Error") /\ UNCHANGED handshake
    <3>1. PICK op \in {"delete"}, answer \in Exceptions : call'[c].status = StatusOf(op, answer)
      BY <2>3 DEF Exceptions
    <3>2. QED
      BY <1>1, <2>3, <3>1, NothingIsTruthful
  <2>4. QED
    BY <2>1, <2>2, <2>3
<1>8. CASE FindForMerge(c)
  BY <1>1, <1>8, NothingIsTruthful DEF FindForMerge, storeVars, Creates, Deletes
<1>9. CASE WriteMerged(c)
  <2>1. /\ call'[c].op = "addMetadata"
        /\ \/ call'[c].status = StatusOf("addMetadata", "done")
           \/ UNCHANGED handshake
    BY <1>9 DEF WriteMerged, Waiting, storeVars
  <2>2. CASE UNCHANGED handshake
    BY <1>1, <2>1, <2>2, NothingIsTruthful DEF Creates, Deletes
  <2>3. CASE call'[c].status = StatusOf("addMetadata", "done")
    BY <2>1, <2>3, SomethingIsTruthful DEF Exceptions, Creates, Deletes
  <2>4. QED
    BY <2>1, <2>2, <2>3
<1>10. QED
  BY <1>3, <1>4, <1>5, <1>6, <1>7, <1>8, <1>9 DEF HandshakeCall

LEMMA SessionsAnsweredTruthfully ==
    ASSUME CallsOK, ExpiryOK, NEW c \in Calls, SessionCall(c), Answered(c),
           UNCHANGED <<handshake, publicKey, auditLog, metrics>>
    PROVE  Truthful(c)
<1> USE DEF CallsOK, Done, AnswerAtOnce, AnswerWaiting, Await, Admitted, Answered
<1>1. UNCHANGED session => UNCHANGED tables
  BY DEF tables
<1>2. session' # session => tables' # tables
  BY DEF tables
<1>3. CASE CreateSession(c)
  <2>1. /\ call'[c].op = "createSession" /\ call'[c].status = StatusOf("createSession", "done")
        /\ session' # session
    BY <1>3 DEF CreateSession, ExpiryOK, NoSession
  <2>2. QED
    BY <1>2, <2>1, SomethingIsTruthful DEF Exceptions, Creates
<1>4. CASE GetSession(c)
  BY <1>1, <1>4, NothingIsTruthful DEF GetSession, sessionVars, Creates, Deletes
<1>5. CASE FindForValidation(c)
  BY <1>1, <1>5, NothingIsTruthful DEF FindForValidation, sessionVars, Creates, Deletes
<1>6. CASE Validate(c)
  <2>1. /\ call'[c].op = "validateChallenge"
        /\ \E answer \in {"valid", "invalid"} : call'[c].status = StatusOf("validateChallenge", answer)
    BY <1>6 DEF Validate, Waiting
  <2>2. QED
    BY <2>1, SomethingIsTruthful DEF Exceptions, Creates, Deletes
<1>7. CASE CompleteSession(c)
  <2>1. /\ call'[c].op = "completeSession"
        /\ \/ call'[c].status = StatusOf("completeSession", "done")
           \/ UNCHANGED session
    BY <1>7 DEF CompleteSession
  <2>2. CASE UNCHANGED session
    BY <1>1, <2>1, <2>2, NothingIsTruthful DEF Creates, Deletes
  <2>3. CASE call'[c].status = StatusOf("completeSession", "done")
    BY <2>1, <2>3, SomethingIsTruthful DEF Exceptions, Creates, Deletes
  <2>4. QED
    BY <2>1, <2>2, <2>3
<1>8. QED
  BY <1>3, <1>4, <1>5, <1>6, <1>7 DEF SessionCall

LEMMA KeysAnsweredTruthfully ==
    ASSUME CallsOK, DirectoryOK, NEW c \in Calls, KeyCall(c), Answered(c),
           UNCHANGED <<handshake, session, auditLog, metrics>>
    PROVE  Truthful(c)
<1> USE DEF CallsOK, Done, AnswerAtOnce, AnswerWaiting, Await, Admitted, Answered
<1>1. UNCHANGED publicKey => UNCHANGED tables
  BY DEF tables
<1>2. publicKey' # publicKey => tables' # tables
  BY DEF tables
<1>3. CASE GetKey(c) \/ GetKeysOfUser(c)
  BY <1>1, <1>3, NothingIsTruthful DEF GetKey, GetKeysOfUser, Creates, Deletes
<1>4. CASE RegisterKey(c)
  <2>1. /\ call'[c].op = "registerKey"
        /\ \/ call'[c].status = StatusOf("registerKey", "done") /\ publicKey' # publicKey
           \/ /\ \E answer \in {"Conflict", "Error"} : call'[c].status = StatusOf("registerKey", answer)
              /\ UNCHANGED publicKey
    BY <1>4 DEF RegisterKey, DirectoryOK
  <2>2. CASE call'[c].status = StatusOf("registerKey", "done") /\ publicKey' # publicKey
    BY <1>2, <2>1, <2>2, SomethingIsTruthful DEF Exceptions, Creates
  <2>3. CASE /\ \E answer \in {"Conflict", "Error"} : call'[c].status = StatusOf("registerKey", answer)
             /\ UNCHANGED publicKey
    <3>1. PICK op \in {"registerKey"}, answer \in Exceptions : call'[c].status = StatusOf(op, answer)
      BY <2>3 DEF Exceptions
    <3>2. QED
      BY <1>1, <2>3, <3>1, NothingIsTruthful
  <2>4. QED
    BY <2>1, <2>2, <2>3
<1>5. CASE FindForRevocation(c)
  <2>1. call'[c].status = StatusOf("revokeKey", "NotFound") /\ UNCHANGED publicKey
    BY <1>5 DEF FindForRevocation
  <2>2. PICK op \in {"revokeKey"}, answer \in Exceptions : call'[c].status = StatusOf(op, answer)
    BY <2>1 DEF Exceptions
  <2>3. QED
    BY <1>1, <2>1, <2>2, NothingIsTruthful
<1>6. CASE Revoke(c)
  <2>1. /\ call'[c].op = "revokeKey" /\ call[c].on \in KeyIds
        /\ \/ call'[c].status = StatusOf("revokeKey", "done") /\ publicKey' # publicKey
           \/ call'[c].status = StatusOf("revokeKey", "Error") /\ UNCHANGED publicKey
    BY <1>6, KeyDirectoryAssumption DEF Revoke, Waiting, Held, DirectoryOK
  <2>2. CASE call'[c].status = StatusOf("revokeKey", "done") /\ publicKey' # publicKey
    BY <1>2, <2>1, <2>2, SomethingIsTruthful DEF Exceptions, Deletes
  <2>3. CASE call'[c].status = StatusOf("revokeKey", "Error") /\ UNCHANGED publicKey
    <3>1. PICK op \in {"revokeKey"}, answer \in Exceptions : call'[c].status = StatusOf(op, answer)
      BY <2>3 DEF Exceptions
    <3>2. QED
      BY <1>1, <2>3, <3>1, NothingIsTruthful
  <2>4. QED
    BY <2>1, <2>2, <2>3
<1>7. QED
  BY <1>3, <1>4, <1>5, <1>6 DEF KeyCall

LEMMA AuditAnsweredTruthfully ==
    ASSUME CallsOK, AuditInv, NEW c \in Calls, AuditCall(c), Answered(c),
           UNCHANGED <<handshake, session, publicKey>>
    PROVE  Truthful(c)
<1> USE DEF CallsOK, Done, AnswerAtOnce, Admitted, Answered
<1>1. UNCHANGED <<auditLog, metrics>> => UNCHANGED tables
  BY DEF tables
<1>2. auditLog' # auditLog \/ metrics' # metrics => tables' # tables
  BY DEF tables
<1>3. CASE Log(c)
  <2>1. /\ call'[c].op = "logEvent" /\ call'[c].status = StatusOf("logEvent", "done")
        /\ auditLog' = auditLog (+) One([day |-> day, actor |-> "client", purged |-> 0])
    BY <1>3 DEF Log
  <2>2. auditLog' # auditLog
    BY <2>1, OneMore DEF AuditInv, TablesOK
  <2>3. QED
    BY <1>2, <2>1, <2>2, SomethingIsTruthful DEF Exceptions, Creates
<1>4. CASE Record(c)
  <2>1. PICK d \in Durations :
          /\ call'[c].op = "recordMetric" /\ call'[c].status = StatusOf("recordMetric", "done")
          /\ metrics' = metrics (+) One([day |-> day, duration |-> d])
    BY <1>4 DEF Record
  <2>2. metrics' # metrics
    BY <2>1, OneMore DEF AuditInv, TablesOK
  <2>3. QED
    BY <1>2, <2>1, <2>2, SomethingIsTruthful DEF Exceptions, Creates
<1>5. CASE ReadCall(c)
  <2>1. UNCHANGED <<auditLog, metrics>>
    BY <1>5 DEF ReadCall, auditVars
  <2>2. call'[c].op \notin Creates \cup Deletes
    BY <1>5 DEF ReadCall, GetLogs, GetLogsByActor, GetLogById, GetMetrics, GetSummary, AnswerPage,
                Creates, Deletes
  <2>3. QED
    BY <1>1, <2>1, <2>2, NothingIsTruthful
<1>6. QED
  BY <1>3, <1>4, <1>5 DEF AuditCall

\* The statement a call begins with, when it is to wait, changes no table.
LEMMA NothingBeforeTheWait ==
    ASSUME CallsOK, DirectoryOK, NEW c \in Calls, Serve(c), BeginsToWait(c)
    PROVE  UNCHANGED tables
<1> USE DEF CallsOK, Done, AnswerAtOnce, AnswerWaiting, Await, Admitted, BeginsToWait
<1>1. CASE Refused(c) \/ HealthCall(c) \/ StatementFails(c)
  BY <1>1, OfNoStore, OfNoRow DEF IsAnsweredAtOnce
<1>2. CASE HandshakeCall(c) /\ UNCHANGED <<sessionVars, publicKey, auditVars>>
  <2>1. FindForMerge(c)
    <3>1. ~GetHandshake(c) /\ ~GetHandshakesByUser(c) /\ ~CreateHandshake(c)
      BY DEF GetHandshake, GetHandshakesByUser, CreateHandshake
    <3>a. ASSUME NEW op, NEW on, NEW answer, AnswerAtOnce(c, op, on, answer)
          PROVE  FALSE
      BY <3>a
    <3>2. ~UpdateHandshake(c) /\ ~DeleteHandshake(c)
      <4> HIDE DEF AnswerAtOnce, Await, Admitted, Done, CallsOK, BeginsToWait
      <4>1. QED
        BY <3>a DEF UpdateHandshake, DeleteHandshake
    <3>3. ~WriteMerged(c)
      BY DEF WriteMerged, Waiting
    <3>4. QED
      BY <1>2, <3>1, <3>2, <3>3 DEF HandshakeCall
  <2>2. QED
    BY <1>2, <2>1 DEF FindForMerge, storeVars, sessionVars, auditVars, tables
<1>3. CASE SessionCall(c) /\ UNCHANGED <<storeVars, publicKey, auditVars>>
  <2>1. FindForValidation(c)
    BY <1>3 DEF SessionCall, CreateSession, GetSession, Validate, CompleteSession, Waiting
  <2>2. QED
    BY <1>3, <2>1 DEF FindForValidation, storeVars, sessionVars, auditVars, tables
<1>4. CASE KeyCall(c) /\ UNCHANGED <<storeVars, auditVars>>
  <2>1. FindForRevocation(c)
    BY <1>4 DEF KeyCall, GetKey, GetKeysOfUser, RegisterKey, Revoke, Waiting
  <2>2. QED
    BY <1>4, <2>1 DEF KeyCall, FindForRevocation, storeVars, sessionVars, auditVars, tables
<1>5. CASE AuditCall(c)
  BY <1>5, OfTheAudit DEF IsAnsweredAtOnce
<1>6. QED
  BY <1>1, <1>2, <1>3, <1>4, <1>5 DEF Serve

\* The statement with which a call is answered changes a table or it does not,
\* as the answer says.
LEMMA EveryAnswerIsTruthful ==
    ASSUME StoreInv, ExpiryOK, DirectoryOK, AuditInv, NEW c \in Calls, Serve(c), Answered(c)
    PROVE  Truthful(c)
<1> USE DEF StoreInv
<1>1. CASE /\ Refused(c) \/ HealthCall(c)
           /\ UNCHANGED <<storeVars, sessionVars, publicKey, auditVars>>
  <2>1. UNCHANGED tables
    BY <1>1 DEF tables, storeVars, sessionVars, auditVars
  <2>2. call'[c].op \notin Creates \cup Deletes
    BY <1>1, OfNoStore DEF Concerns, OtherOps, Creates, Deletes
  <2>3. QED
    BY <2>1, <2>2, NothingIsTruthful
<1>2. CASE StatementFails(c) /\ UNCHANGED <<storeVars, sessionVars, publicKey, auditVars>>
  <2>1. UNCHANGED tables
    BY <1>2 DEF tables, storeVars, sessionVars, auditVars
  <2>2. \E op : \E answer \in Exceptions : call'[c].status = StatusOf(op, answer)
    BY <1>2, OfNoRow DEF Exceptions
  <2>3. QED
    BY <2>1, <2>2, NothingIsTruthful
<1>3. CASE HandshakeCall(c) /\ UNCHANGED <<sessionVars, publicKey, auditVars>>
  BY <1>3, HandshakesAnsweredTruthfully DEF sessionVars, auditVars
<1>4. CASE SessionCall(c) /\ UNCHANGED <<storeVars, publicKey, auditVars>>
  BY <1>4, SessionsAnsweredTruthfully DEF storeVars, auditVars
<1>5. CASE KeyCall(c) /\ UNCHANGED <<storeVars, auditVars>>
  BY <1>5, KeysAnsweredTruthfully DEF KeyCall, storeVars, sessionVars, auditVars
<1>6. CASE AuditCall(c) /\ UNCHANGED <<storeVars, sessionVars, publicKey>>
  BY <1>6, AuditAnsweredTruthfully DEF storeVars, sessionVars
<1>7. QED
  BY <1>1, <1>2, <1>3, <1>4, <1>5, <1>6 DEF Serve

\* A statement is one of a call that moves.
LEMMA ServedCallMoves ==
    ASSUME CallsOK, DirectoryOK, NEW c \in Calls, Serve(c)
    PROVE  CallStep(c)
BY OfNoStore, OfNoRow, OfHandshakes, OfSessions, OfKeys, OfTheAudit DEF Serve, Concerns

\* Only calls that are done have changed a table, since no statement comes after
\* one that changes any; and what they were told is true of it.
RepliesOK ==
    /\ \A c \in Calls \cap changed : call[c].phase = "done"
    /\ RepliesMatchEffects

LEMMA InitRepliesOK == Init => RepliesOK
  BY DEF Init, InitCalls, NotMade, RepliesOK, RepliesMatchEffects

LEMMA StepKeepsReplies ==
    ASSUME StoreInv, ExpiryOK, DirectoryOK, AuditInv, RepliesOK, [Next]_restVars
    PROVE  RepliesOK'
<1>1. ASSUME NEW c \in Calls, Serve(c),
             changed' = IF tables' = tables THEN changed ELSE changed \cup {c}
      PROVE  RepliesOK'
  <2>1. CallStep(c) /\ \A d \in Calls \ {c} : call'[d] = call[d]
    BY <1>1, ServedCallMoves DEF StoreInv, CallStep, Moves
  <2>2. call[c].phase # "done" /\ c \notin changed
    BY <2>1 DEF RepliesOK, CallStep, BeginsToWait, IsAnsweredAtOnce, IsAnswered
  <2>3. /\ \A d \in Calls \ {c} : d \in changed' <=> d \in changed
        /\ c \in changed' <=> tables' # tables
    BY <1>1, <2>2
  <2>4. CASE Answered(c)
    <3>1. Truthful(c) /\ call'[c].phase = "done"
      BY <1>1, <2>4, EveryAnswerIsTruthful DEF Answered
    <3>2. QED
      BY <2>1, <2>3, <3>1 DEF RepliesOK, RepliesMatchEffects, Truthful
  <2>5. CASE BeginsToWait(c)
    <3>1. c \notin changed' /\ call'[c].phase = "waiting"
      BY <1>1, <2>3, <2>5, NothingBeforeTheWait DEF StoreInv, BeginsToWait
    <3>2. QED
      BY <2>1, <2>3, <3>1 DEF RepliesOK, RepliesMatchEffects
  <2>6. QED
    BY <2>1, <2>2, <2>4, <2>5 DEF CallStep, IsAnsweredAtOnce, IsAnswered, Answered
<1>2. CASE (Elapse /\ UNCHANGED changed) \/ UNCHANGED restVars
  <2>1. UNCHANGED <<call, changed>>
    BY <1>2 DEF Elapse, TimePasses, RetentionPurge, Midnight, PurgeLogs, PurgeMetrics, RecordPurge,
                PurgeFails, WindowEnds, restVars, callVars
  <2>2. QED
    BY <2>1 DEF RepliesOK, RepliesMatchEffects
<1>3. QED
  BY <1>1, <1>2 DEF Next

-----------------------------------------------------------------------------
(* The theorems.                                                           *)

\* The inductive invariant of the services: each part is needed to keep
\* another, as the handshakes' part needs to know what a call was about.
RestInv == StoreInv /\ ExpiryOK /\ DirectoryOK /\ AuditInv /\ AccountsOK /\ RepliesOK

\* Every step of the API and of the nightly job keeps it.
LEMMA StepKeepsRestInv ==
    ASSUME RestInv, [Next]_restVars
    PROVE  RestInv'
<1>1. CallsOK /\ StoreInv /\ ExpiryOK /\ DirectoryOK /\ AuditInv /\ AccountsOK /\ RepliesOK
  BY DEF RestInv, StoreInv
<1>2. StoreInv' /\ ExpiryOK' /\ DirectoryOK'
  BY <1>1, StepKeepsStoreInv, StepKeepsExpiryOK, StepKeepsDirectory
<1>3. \/ \E c \in Calls : AuditCall(c)
      \/ RetentionPurge
      \/ UNCHANGED auditVars
  BY DEF Next, Serve, Elapse, restVars
<1>4. AuditInv' /\ AccountsOK'
  BY <1>1, <1>3, AuditStepKeepsInv, AuditStepKeepsAccounts
<1>5. RepliesOK'
  BY <1>1, StepKeepsReplies
<1>6. QED
  BY <1>2, <1>4, <1>5 DEF RestInv

\* What the services know of their calls, rows and sessions holds in every
\* state, for every number of calls, rows, fields, keys and sessions, every
\* retention time and every lifetime: an answered call stays answered, a
\* waiting one holds a row that was there, ends of sessions are never moved,
\* two rows never hold the same key, tables are finite bags of dated rows, and
\* as long as no statement fails each row that is gone was reported.
THEOREM RestInvHolds == Spec => []RestInv
<1>1. Init => RestInv
  BY InitStoreInv, InitExpiryOK, InitDirectoryOK, InitAuditInv, InitAccountsOK, InitRepliesOK DEF RestInv
<1>2. RestInv /\ [Next]_restVars => RestInv'
  BY StepKeepsRestInv
<1>3. QED
  BY <1>1, <1>2, PTL DEF Spec

\* A merge into the metadata of a handshake (addMetadata, one statement to read
\* the row and one to write it) is lost only to a merge that was under way at
\* the same time, or to a later write of that field, or with the row.
THEOREM MergesAreLostToOverlapsOnly == Spec => []LossNeedsOverlap
<1>1. RestInv => LossNeedsOverlap
  BY DEF RestInv, StoreInv, MergesKept, Merges, Holds, WrittenLater, LossNeedsOverlap
<1>2. QED
  BY <1>1, RestInvHolds, PTL

\* When the nightly job is done (cleanupOldData), no row of either table is
\* older than the retention time, although rows were added while its
\* statements ran and days may have passed since the last run.
THEOREM PurgeLeavesNothingOld == Spec => []TidyAfterPurge
<1>1. RestInv => TidyAfterPurge
  BY DEF RestInv, AuditInv, PurgeOK, TidyAfterPurge
<1>2. QED
  BY <1>1, RestInvHolds, PTL

\* As long as no statement of the nightly job failed, every audit row ever
\* written is there or was counted in what a job reported, the rows of former
\* reports among them, whatever is logged between its statements.
THEOREM EveryDeletionIsReported == Spec => []DeletionsReported
<1>1. RestInv => DeletionsReported
  BY DEF RestInv, AccountsOK
<1>2. QED
  BY <1>1, RestInvHolds, PTL

\* The percentiles of a summary, which come from a histogram, fit its minimum
\* and maximum, which do not, for any bag of measurements: they ascend, none is
\* below the rounded minimum, and none above the rounded maximum by more than
\* one part in 1024 (getSummary).
THEOREM SummariesFit == Spec => []SummaryFits
<1>1. RestInv => SummaryFits
  BY SummaryIsFit DEF RestInv, SummaryFits
<1>2. QED
  BY <1>1, RestInvHolds, PTL

\* A challenge is called valid only up to the end of its session, and never
\* after that end was noticed by or shown to anyone: validateChallenge decides
\* with the end it read, after other calls and the clock had their turns.
THEOREM ValidChallengesAreInTime == Spec => ValidBeforeExpiry
<1>1. RestInv /\ [Next]_restVars =>
        [\A c \in Calls : call[c].answer # "valid" /\ call'[c].answer = "valid" =>
            now <= session[call[c].on].expires /\ ~ShownExpired(call[c].on)]_<<session, now, call>>
  BY ValidIsInTime DEF RestInv, StoreInv
<1>2. QED
  BY <1>1, RestInvHolds, PTL DEF Spec, ValidBeforeExpiry

\* The key directory, with its two statements to revoke a key, implements the
\* registry in which each registration and each revocation is one step.
THEOREM DirectoryImplementsRegistry == Spec => DirectoryIsSerial
<1>1. RestInv /\ [Next]_restVars => [Registry!Next]_<<HeldKeys, Revokers>>
  BY StepKeepsDirectory DEF RestInv, StoreInv, RegistryStep
<1>2. QED
  BY <1>1, InitIsRegistryInit, RestInvHolds, PTL
     DEF Spec, DirectoryIsSerial, Registry!Spec, HeldKeys, Revokers

\* What a client is told is what happened, whatever ran between the
\* statements of its call and whichever of them failed: an error means that
\* none of them changed a table, and "created" or "deleted" that one did.
THEOREM RepliesAreTruthful == Spec => []RepliesMatchEffects
<1>1. RestInv => RepliesMatchEffects
  BY DEF RestInv, RepliesOK
<1>2. QED
  BY <1>1, RestInvHolds, PTL
=============================================================================
