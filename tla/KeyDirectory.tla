------------------------------ MODULE KeyDirectory ------------------------------
(***************************************************************************)
(* PublicKeyDirectoryService: the public keys of users.  A row has an id   *)
(* of its own (the keyId) and a kid made from the key's fingerprint, which *)
(* is unique; its owner is also written to sessionId, a foreign key to the *)
(* sessions.  Distinct keys are taken to have distinct fingerprints.       *)
(***************************************************************************)
EXTENDS SessionStore

CONSTANTS KeyIds,     \* ids of the rows ever created
          KeyTexts    \* the keys

\* A key is none of the words that stand for something else in its place.
ASSUME KeyDirectoryAssumption ==
    KeyTexts \cap {"none", "revoked", "NotFound", "EXPIRED", "valid"} = {}

VARIABLE publicKey    \* keyId -> "none", "revoked" or the key it holds

Held(id) == publicKey[id] \in KeyTexts

\* The database outlives the process: there may be keys from before.
InitKeys ==
    /\ publicKey \in [KeyIds -> KeyTexts \cup {"none"}]
    /\ \A id, other \in KeyIds : id # other /\ Held(id) => publicKey[id] # publicKey[other]
    /\ (\E id \in KeyIds : Held(id)) => (\E s \in Sessions : session[s] # NoSession)

\* One insert.  userId is any string; it is the id of a session or it is not.
RegisterKey(c) ==
    \E k \in KeyTexts, user \in Sessions :
        \/ /\ \E id \in KeyIds : publicKey[id] = k            \* P2002
           /\ AnswerAtOnce(c, "registerKey", k, "Conflict")
           /\ UNCHANGED publicKey
        \/ /\ \A id \in KeyIds : publicKey[id] # k
           /\ session[user] = NoSession                       \* PublicKey_sessionId_fkey
           /\ AnswerAtOnce(c, "registerKey", k, "Error")
           /\ UNCHANGED publicKey
        \/ /\ \A id \in KeyIds : publicKey[id] # k
           /\ session[user] # NoSession
           /\ \E id \in KeyIds :
                 /\ publicKey[id] = "none"
                 /\ publicKey' = [publicKey EXCEPT ![id] = k]
           /\ AnswerAtOnce(c, "registerKey", k, "done")

\* revokeKey up to its first await.
FindForRevocation(c) ==
    /\ \E id \in KeyIds :
          \/ Held(id) /\ Await(c, "revokeKey", id, [found |-> id])
          \/ ~Held(id) /\ AnswerAtOnce(c, "revokeKey", id, "NotFound")
    /\ UNCHANGED publicKey

\* Mutant of Revoke: deleteMany, which does not mind a row that is gone.
RevokeIfThere(c) ==
    /\ Waiting(c, "revokeKey")
    /\ publicKey' = [publicKey EXCEPT ![call[c].on] = "revoked"]
    /\ AnswerWaiting(c, "done")

\* revokeKey after it: delete throws if the row is gone.
Revoke(c) ==
    /\ Waiting(c, "revokeKey")
    /\ \/ /\ Held(call[c].on)
          /\ publicKey' = [publicKey EXCEPT ![call[c].on] = "revoked"]
          /\ AnswerWaiting(c, "done")
       \/ /\ ~Held(call[c].on)
          /\ AnswerWaiting(c, "Error")
          /\ UNCHANGED publicKey

\* getKeyByKeyId, which getFingerprint calls as well.
GetKey(c) ==
    /\ \E id \in KeyIds, op \in {"getKeyByKeyId", "getFingerprint"} :
          AnswerAtOnce(c, op, id, IF Held(id) THEN publicKey[id] ELSE "NotFound")
    /\ UNCHANGED publicKey

\* getKeyByUserId, of a user who owns them all.
GetKeysOfUser(c) ==
    /\ AnswerAtOnce(c, "getKeyByUserId", {id \in KeyIds : Held(id)}, "done")
    /\ UNCHANGED publicKey

KeyCall(c) ==
    /\ \/ GetKey(c) \/ GetKeysOfUser(c)
       \/ RegisterKey(c) \/ FindForRevocation(c) \/ Revoke(c)
    /\ UNCHANGED sessionVars

-----------------------------------------------------------------------------
\* The calls that were told they revoked the row.
RevokersOf(id) == {c \in Calls : call[c].op = "revokeKey" /\ call[c].answer = "done" /\ call[c].on = id}

Registry == INSTANCE KeyRegistry WITH
    Registrations <- KeyIds,
    Callers <- Calls,
    held <- [id \in KeyIds |-> IF Held(id) THEN {publicKey[id]} ELSE {}],
    revokedBy <- [id \in KeyIds |-> RevokersOf(id)]

\* Concurrent revocations and registrations of one key behave as if they ran
\* one after the other, the two statements of revokeKey included: one
\* revocation of a row succeeds, and never takes a row registered later.
DirectoryIsSerial == Registry!Spec
=============================================================================
