------------------------------- MODULE KeyRegistry -------------------------------
(***************************************************************************)
(* What the public key directory promises: registrations and revocations   *)
(* take effect one at a time.  No key is held twice; of the revocations of *)
(* one registration one is told that it succeeded, at the moment the key   *)
(* goes; a revoked key can be registered again, as another registration.   *)
(***************************************************************************)
CONSTANTS Registrations,   \* ids, one for each registration that succeeds
          KeyTexts,        \* the public keys
          Callers          \* the calls

VARIABLES held,       \* registration -> {its key} while the directory holds it, or {}
          revokedBy   \* registration -> the callers told that they revoked it

Init ==
    /\ held \in [Registrations -> {{}} \cup {{k} : k \in KeyTexts}]
    /\ \A r, other \in Registrations : r # other => held[r] \cap held[other] = {}
    /\ revokedBy = [r \in Registrations |-> {}]

Register(r, k) ==
    /\ held[r] = {} /\ revokedBy[r] = {}
    /\ \A other \in Registrations : k \notin held[other]
    /\ held' = [held EXCEPT ![r] = {k}]
    /\ UNCHANGED revokedBy

Revoke(r, c) ==
    /\ held[r] # {}
    /\ held' = [held EXCEPT ![r] = {}]
    /\ revokedBy' = [revokedBy EXCEPT ![r] = {c}]

Next ==
    \E r \in Registrations :
        \/ \E k \in KeyTexts : Register(r, k)
        \/ \E c \in Callers : Revoke(r, c)

Spec == Init /\ [][Next]_<<held, revokedBy>>
=============================================================================
