-------------------------------- MODULE MCRestApi --------------------------------
EXTENDS RestApi, FiniteSets, TLC

SymmetricCalls == Permutations(Calls)

\* Handshakes, sessions with their keys, and the audit trail have no row in
\* common, and a call of one cannot disturb another: it is enough to follow
\* behaviours that concern one of the three.
Concerns ==
    LET made(ops) == \E c \in Calls : call[c].op \in ops IN
    (IF made(DOMAIN HandshakeController) THEN {"handshakes"} ELSE {})
    \cup (IF made(DOMAIN SessionController \cup DOMAIN PublicKeyDirectoryController) \/ now > 0
          THEN {"sessions"} ELSE {})
    \cup (IF made(DOMAIN AuditLogController \cup DOMAIN PerformanceMetricController) \/ day > 0 THEN {"audit"} ELSE {})

OneConcern == Cardinality(Concerns) <= 1

\* A call that was refused, or only shown something nobody compares with later
\* answers, changes nothing another call looks at: TLC takes the step and
\* checks it, and need not go on from there.
Shown ==
    {"refused", "check", "readiness", "findOne", "findBySession", "findByUser", "getKeyByKeyId",
     "getFingerprint", "getKeyByUserId", "getLogs", "getLogsByActor", "getLogById", "getMetrics",
     "getMetricsByType", "getSummary", "getPrometheusMetrics"}
StopAtShown ==
    \A c \in Calls : call[c].op \notin Shown /\ ~(call[c].answer = "Error" /\ call[c].on = {})
=============================================================================
