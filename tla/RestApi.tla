--------------------------------- MODULE RestApi ---------------------------------
(***************************************************************************)
(* The REST services over their common database, with the calls of the API *)
(* and the nightly job interleaved at their awaits.                        *)
(***************************************************************************)
EXTENDS HandshakeStore, KeyDirectory, AuditTrail

VARIABLE changed   \* observer: calls of which some statement changed a table

restVars == <<callVars, storeVars, sessionVars, publicKey, auditVars, changed>>

Init == InitCalls /\ InitStore /\ InitSessions /\ InitKeys /\ InitAudit /\ changed = {}

tables == <<handshake, session, publicKey, auditLog, metrics>>

\* GET /health and /health/ready: the database is asked, and the gateway for
\* its statistics, which are always fine.  What the indicator throws is a plain
\* Error, which Terminus does not turn into a 503.
HealthCall(c) ==
    \E op \in {"check", "readiness"}, up \in BOOLEAN :
        AnswerAtOnce(c, op, {}, IF up THEN "done" ELSE "Error")

\* A statement of a call runs, and the code up to its next one.
Serve(c) ==
    \/ /\ Refused(c) \/ HealthCall(c) \/ StatementFails(c)
       /\ UNCHANGED <<storeVars, sessionVars, publicKey, auditVars>>
    \/ HandshakeCall(c) /\ UNCHANGED <<sessionVars, publicKey, auditVars>>
    \/ SessionCall(c) /\ UNCHANGED <<storeVars, publicKey, auditVars>>
    \/ KeyCall(c) /\ UNCHANGED <<storeVars, auditVars>>
    \/ AuditCall(c) /\ UNCHANGED <<storeVars, sessionVars, publicKey>>

\* What happens without a call.
Elapse ==
    \/ TimePasses /\ UNCHANGED <<storeVars, publicKey, auditVars>>
    \/ RetentionPurge /\ UNCHANGED <<storeVars, sessionVars, publicKey>>
    \/ WindowEnds /\ UNCHANGED <<storeVars, sessionVars, publicKey, auditVars>>

Next ==
    \/ \E c \in Calls :
          /\ Serve(c)
          /\ changed' = IF tables' = tables THEN changed ELSE changed \cup {c}
    \/ Elapse /\ UNCHANGED changed

Spec == Init /\ [][Next]_restVars

-----------------------------------------------------------------------------
\* What a client is told is what happened: a call that is answered with an
\* error of any layer has changed nothing in the database by any of its
\* statements, whichever of them failed; and one that is told something was
\* created, deleted or revoked has changed a row, also when others changed
\* rows between its statements (the status comes from the exception filter).
Creates == {"create", "createSession", "registerKey", "logEvent", "recordMetric"}
Deletes == {"delete", "revokeKey"}
RepliesMatchEffects ==
    \A c \in Calls : call[c].phase = "done" =>
        /\ call[c].status >= 400 => c \notin changed
        /\ call[c].op \in Creates /\ call[c].status = 201 => c \in changed
        /\ call[c].op \in Deletes /\ call[c].status = 204 => c \in changed
=============================================================================
