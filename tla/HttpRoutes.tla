------------------------------- MODULE HttpRoutes -------------------------------
(***************************************************************************)
(* The routes of the REST API as its controllers declare them: who may     *)
(* call an operation, which body it takes and which status it answers with *)
(* when it succeeds; and how a request is judged before its handler.       *)
(***************************************************************************)
LOCAL INSTANCE Naturals

\* A DTO: the fields a body must and may have.
Dto(must, may) == [must |-> must, may |-> may]
NoDto == Dto({}, {})

CreateHandshakeDto == Dto({"initiatorId", "responderId", "sessionId"}, {"metadata"})
UpdateHandshakeDto == Dto({}, {"status", "metadata", "completedAt"})
HandshakeMetadataDto == Dto({"handshakeId", "metadata", "actorId"}, {})
CreateSessionDto == Dto({}, {"clientId", "preferredKeySize"})
ValidateSessionDto == Dto({"sessionId", "challenge"}, {})
RegisterKeyDto == Dto({"userId", "publicKey", "algorithm"}, {"expiresAt"})
CreateAuditLogDto == Dto({"eventType", "actorId"}, {"targetId", "actionPayload", "details"})
AuditLogQueryDto == Dto({}, {"eventType", "actorId", "startDate", "endDate", "limit"})
CreatePerformanceMetricDto == Dto({"operationType", "durationMs"}, {"clientEnvironment"})

\* The global ValidationPipe: every field that must be there is, no other is
\* (forbidNonWhitelisted), and each has its type.
Accepts(dto, given, mistyped) ==
    /\ dto.must \subseteq given
    /\ given \subseteq dto.must \cup dto.may
    /\ given \cap mistyped = {}

Route(guarded, dto, success) == [guarded |-> guarded, dto |-> dto, success |-> success]
Open(dto, success) == Route(FALSE, dto, success)
ApiKey(dto, success) == Route(TRUE, dto, success)

HandshakeController ==
    [create |-> Open(CreateHandshakeDto, 201), findOne |-> Open(NoDto, 200),
     findBySession |-> Open(NoDto, 200), findByUser |-> Open(NoDto, 200),
     update |-> ApiKey(UpdateHandshakeDto, 200), addMetadata |-> ApiKey(HandshakeMetadataDto, 201),
     delete |-> ApiKey(NoDto, 204)]

SessionController ==
    [createSession |-> Open(CreateSessionDto, 201), getSession |-> Open(NoDto, 200),
     validateChallenge |-> Open(ValidateSessionDto, 201), completeSession |-> ApiKey(NoDto, 200)]

PublicKeyDirectoryController ==
    [registerKey |-> Open(RegisterKeyDto, 201), getKeyByKeyId |-> Open(NoDto, 200),
     getKeyByUserId |-> Open(NoDto, 200), getFingerprint |-> Open(NoDto, 200),
     revokeKey |-> ApiKey(NoDto, 204)]

AuditLogController ==
    [logEvent |-> ApiKey(CreateAuditLogDto, 201), getLogs |-> ApiKey(AuditLogQueryDto, 200),
     getLogById |-> ApiKey(NoDto, 200), getLogsByActor |-> ApiKey(NoDto, 200)]

PerformanceMetricController ==
    [recordMetric |-> ApiKey(CreatePerformanceMetricDto, 201), getMetrics |-> ApiKey(NoDto, 200),
     getMetricsByType |-> ApiKey(NoDto, 200), getSummary |-> ApiKey(NoDto, 200),
     getPrometheusMetrics |-> ApiKey(NoDto, 200)]

HealthController == [check |-> Open(NoDto, 200), readiness |-> Open(NoDto, 200)]

\* The routes of two controllers, which have no operation in common.
And(these, those) ==
    [op \in DOMAIN these \cup DOMAIN those |-> IF op \in DOMAIN these THEN these[op] ELSE those[op]]

Routes ==
    And(And(And(HandshakeController, SessionController), And(PublicKeyDirectoryController, HealthController)),
        And(AuditLogController, PerformanceMetricController))

Operations == DOMAIN Routes

\* Bodies a client may send: a right one, one that lacks a field, one with a
\* field too many, and one with a field of the wrong type.
Body(given, mistyped) == [given |-> given, mistyped |-> mistyped]
Bodies(dto) ==
    {Body(dto.must, {}), Body(dto.must \cup {"other"}, {})}
    \cup {Body(dto.must \ {f}, {}) : f \in dto.must}
    \cup {Body(dto.must \cup {f}, {f}) : f \in dto.must \cup dto.may}

\* What HttpExceptionFilter makes of an exception: an HttpException keeps its
\* status, any other error is the server's.
StatusOfException(exception) ==
    CASE exception = "BadRequest" -> 400
      [] exception = "Unauthorized" -> 401
      [] exception = "NotFound" -> 404
      [] exception = "Conflict" -> 409
      [] OTHER -> 500
Exceptions == {"BadRequest", "Unauthorized", "NotFound", "Conflict", "Error"}

\* The status of an operation that ended with this outcome.
StatusOf(op, outcome) ==
    IF outcome \in Exceptions THEN StatusOfException(outcome) ELSE Routes[op].success
=============================================================================
