------------------------------- MODULE AuditTrail -------------------------------
(***************************************************************************)
(* AuditLogService, PerformanceMetricService and the nightly purge of      *)
(* AuditRetentionService: rows are only added, and go when they are older  *)
(* than the retention.  The purge runs its statements one after the other  *)
(* without a transaction; each of them may fail.                           *)
(*                                                                         *)
(* Rows are told apart by their day and by what they report, so a table    *)
(* is a bag of such rows.                                                  *)
(***************************************************************************)
EXTENDS RestCalls, MetricSummary

CONSTANTS RetentionDays,
          Durations,     \* of performance metrics, in tenths of a millisecond
          MaxDay,        \* bound of the model: the last day
          MaxFailures    \* bound of the model: statements of the purge that fail

ASSUME AuditAssumption == RetentionDays \in Nat /\ MaxDay \in Nat /\ MaxFailures \in Nat
                          /\ Durations \subseteq Nat /\ \A d \in Durations : Trackable(Rounded(d))

VARIABLES auditLog,    \* bag of [day, actor, purged]: purged is what a retention_purge row reports
          metrics,     \* bag of [day, duration]
          day,
          purge,       \* the cron job: where it is, its cutoff, the rows it deleted
          failures,
          logged,      \* observer: audit rows ever added
          reported     \* observer: sum of what the purges reported

auditVars == <<auditLog, metrics, day, purge, failures, logged, reported>>

Ended(how) == [at |-> how, cutoff |-> 0, logs |-> 0]

InitAudit ==
    /\ auditLog = EmptyBag /\ metrics = EmptyBag
    /\ day = 0
    /\ purge = Ended("done")
    /\ failures = 0 /\ logged = 0 /\ reported = 0

Working == purge.at \in {"logs", "metrics", "record"}

One(row) == SetToBag({row})

\* AuditLogService.log, on behalf of a caller of the API.
Log(c) ==
    /\ auditLog' = auditLog (+) One([day |-> day, actor |-> "client", purged |-> 0])
    /\ logged' = logged + 1
    /\ AnswerAtOnce(c, "logEvent", {}, "done")
    /\ UNCHANGED <<metrics, day, purge, failures, reported>>

\* PerformanceMetricService.record.
Record(c) ==
    /\ \E d \in Durations : metrics' = metrics (+) One([day |-> day, duration |-> d])
    /\ AnswerAtOnce(c, "recordMetric", {}, "done")
    /\ UNCHANGED <<auditLog, day, purge, failures, logged, reported>>

\* Midnight: the cron job starts; its cutoff is that of this moment.  The
\* previous one has ended.
Midnight ==
    /\ day < MaxDay /\ ~Working
    /\ day' = day + 1
    /\ purge' = [at |-> "logs", cutoff |-> day' - RetentionDays, logs |-> 0]
    /\ UNCHANGED <<auditLog, metrics, failures, logged, reported, callVars>>

\* Mutant of OldLogs: a cutoff a day too early.
OldLogsTooFew == {row \in BagToSet(auditLog) : row.day < purge.cutoff - 1}

OldLogs == {row \in BagToSet(auditLog) : row.day < purge.cutoff}
OldMetrics == {row \in BagToSet(metrics) : row.day < purge.cutoff}
Taken(bag, rows) == [row \in rows |-> bag[row]]

PurgeLogs ==
    /\ purge.at = "logs"
    /\ LET old == Taken(auditLog, OldLogs) IN
          /\ auditLog' = auditLog (-) old
          /\ purge' = [purge EXCEPT !.at = "metrics", !.logs = Count(old)]
    /\ UNCHANGED <<metrics, day, failures, logged, reported, callVars>>

\* Mutant of PurgeMetrics: its count replaces that of the logs.
PurgeMetricsOverwrites ==
    /\ purge.at = "metrics"
    /\ LET old == Taken(metrics, OldMetrics) IN
          /\ metrics' = metrics (-) old
          /\ purge' = [purge EXCEPT !.at = "record", !.logs = Count(old)]
    /\ UNCHANGED <<auditLog, day, failures, logged, reported, callVars>>

PurgeMetrics ==
    /\ purge.at = "metrics"
    /\ LET old == Taken(metrics, OldMetrics) IN
          /\ metrics' = metrics (-) old
          /\ purge' = [purge EXCEPT !.at = "record"]
    /\ UNCHANGED <<auditLog, day, failures, logged, reported, callVars>>

RecordPurge ==
    /\ purge.at = "record"
    /\ auditLog' = auditLog (+) One([day |-> day, actor |-> "system", purged |-> purge.logs])
    /\ logged' = logged + 1
    /\ reported' = reported + purge.logs
    /\ purge' = Ended("done")
    /\ UNCHANGED <<metrics, day, failures, callVars>>

\* A statement throws: the job logs an error to the console and ends.
PurgeFails ==
    /\ Working /\ failures < MaxFailures
    /\ failures' = failures + 1
    /\ purge' = Ended("failed")
    /\ UNCHANGED <<auditLog, metrics, day, logged, reported, callVars>>

\* orderBy desc and take: how many rows of each day are in the answer.
Page(bag, rows, limit) ==
    LET of(days) == SumFunctionOnSet(bag, {row \in rows : row.day \in days})
        left(d) == limit - of(d + 1 .. MaxDay)
    IN  {[day |-> d, rows |-> Max({0, Min({of({d}), left(d)})})] : d \in {row.day : row \in rows}}

\* Rows of a table, since a day the query may name.  Its limit is given, left
\* out, or no number, with which the statement throws.
AnswerPage(c, op, bag, rows, default) ==
    \/ \E limit \in {1, default}, since \in {0, day} :
          AnswerAtOnce(c, op, Page(bag, {row \in rows : row.day >= since}, limit), "done")
    \/ AnswerAtOnce(c, op, {}, "Error")

GetLogs(c) == AnswerPage(c, "getLogs", auditLog, BagToSet(auditLog), 100)

GetLogsByActor(c) ==
    \E actor \in {"client", "system"} :
        AnswerPage(c, "getLogsByActor", auditLog, {row \in BagToSet(auditLog) : row.actor = actor}, 50)

GetLogById(c) ==
    \/ auditLog # EmptyBag /\ AnswerAtOnce(c, "getLogById", {}, "done")
    \/ AnswerAtOnce(c, "getLogById", {}, "BadRequest")

GetMetrics(c) ==
    \E op \in {"getMetrics", "getMetricsByType"} :
        AnswerPage(c, op, metrics, BagToSet(metrics), 100)

\* The durations of the one operation type the model records.
DurationsOf(rows) ==
    LET present == {row.duration : row \in BagToSet(rows)}
        Copies(d) == {row \in BagToSet(rows) : row.duration = d}
    IN  [d \in present |-> SumFunctionOnSet(rows, Copies(d))]

\* getSummary, and getPrometheusMetrics, which prints it.
GetSummary(c) ==
    \E op \in {"getSummary", "getPrometheusMetrics"} :
        AnswerAtOnce(c, op, IF metrics = EmptyBag THEN {} ELSE {Summary(DurationsOf(metrics))}, "done")

ReadCall(c) ==
    /\ GetLogs(c) \/ GetLogsByActor(c) \/ GetLogById(c) \/ GetMetrics(c) \/ GetSummary(c)
    /\ UNCHANGED auditVars

AuditCall(c) == Log(c) \/ Record(c) \/ ReadCall(c)

RetentionPurge == Midnight \/ PurgeLogs \/ PurgeMetrics \/ RecordPurge \/ PurgeFails

-----------------------------------------------------------------------------
\* The numbers of a summary fit each other, also when rows were purged and
\* although the percentiles come from a histogram of rounded durations and the
\* minimum and the maximum do not: the percentiles ascend, none is below the
\* rounded minimum, and none above the rounded maximum by more than the three
\* significant digits of the histogram allow, which is one part in 1024
\* (getSummary; of a single 2048 ms it says 2049).
SummaryFits ==
    metrics # EmptyBag =>
        LET s == Summary(DurationsOf(metrics)) IN
        /\ s.count = Count(metrics)
        /\ Rounded(s.min) <= s.p50 /\ s.p50 <= s.p95 /\ s.p95 <= s.p99
        /\ 1024 * s.p99 <= 1025 * Rounded(s.max)

\* A purge that ends well leaves nothing older than the retention in either
\* table, whatever the earlier ones failed to delete and although rows are
\* added between its statements (purgeOldLogs).
TidyAfterPurge ==
    purge.at = "done" =>
        /\ \A row \in BagToSet(auditLog) : row.day >= day - RetentionDays
        /\ \A row \in BagToSet(metrics) : row.day >= day - RetentionDays

\* As long as no statement of a purge failed, the audit log accounts for all
\* its rows: those that are gone were counted by a retention_purge row, also
\* when they were such rows themselves (purgeOldLogs).
DeletionsReported ==
    failures = 0 => logged = Count(auditLog) + reported + purge.logs
=============================================================================
