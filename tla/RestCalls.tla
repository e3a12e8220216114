------------------------------- MODULE RestCalls -------------------------------
(***************************************************************************)
(* The calls of the REST API under way, all from one address.  A handler   *)
(* runs between two awaits of the database without interruption, so one    *)
(* with one statement is one step, and one with two statements is two:     *)
(* between them the call waits, holding what it has read, and other        *)
(* handlers run.  What comes before the handler (rate limit, guard, pipe)  *)
(* awaits nothing and belongs to its first step.                           *)
(***************************************************************************)
EXTENDS HttpRoutes, Naturals

CONSTANTS Calls,      \* the calls that are ever made
          MaxHits,    \* calls of an address in a window of the rate limiter
          MaxWindows  \* bound: windows that end

VARIABLES call,      \* call -> what it asks, holds and was answered
          together,  \* pairs of calls that were under way at the same time
          hits,      \* calls in the current window
          windows    \* windows that ended

callVars == <<call, together, hits, windows>>

NotMade == [op |-> "none", phase |-> "idle", answer |-> "none"]

InitCalls ==
    /\ call = [c \in Calls |-> NotMade]
    /\ together = {}
    /\ hits = 0 /\ windows = 0

Waiting(c, op) == call[c].phase = "waiting" /\ call[c].op = op

InFlight == {c \in Calls : call[c].phase = "waiting"}

\* express-rate-limit, the first of all.
Limited == hits = MaxHits

\* The call passes the rate limiter; its key and its body are right.
Admitted(c) ==
    /\ call[c].phase = "idle"
    /\ ~Limited
    /\ hits' = hits + 1
    /\ UNCHANGED windows

\* The handler awaits the database, with what it has read so far.
Await(c, op, on, read) ==
    /\ Admitted(c)
    /\ call' = [call EXCEPT ![c] = [op |-> op, phase |-> "waiting", answer |-> "none",
                                    on |-> on, read |-> read]]
    /\ together' = together \cup (InFlight \X {c}) \cup ({c} \X InFlight)

\* A call that was answered.
Done(op, answer, on) ==
    [op |-> op, phase |-> "done", answer |-> answer, on |-> on, status |-> StatusOf(op, answer)]

\* The handler of a call with a single statement returns, or throws.
AnswerAtOnce(c, op, on, answer) ==
    /\ Admitted(c)
    /\ call' = [call EXCEPT ![c] = Done(op, answer, on)]
    /\ together' = together \cup (InFlight \X {c}) \cup ({c} \X InFlight)

\* The handler of a call that waited returns, or throws.
AnswerWaiting(c, answer) ==
    /\ call' = [call EXCEPT ![c] = Done(call[c].op, answer, call[c].on)]
    /\ UNCHANGED <<together, hits, windows>>

\* The database throws at a statement, the first of the call or the one it
\* waits for: the connection is lost, say.  Such a statement has done nothing.
StatementFails(c) ==
    \/ \E op \in Operations : AnswerAtOnce(c, op, {}, "Error")
    \/ call[c].phase = "waiting" /\ AnswerWaiting(c, "Error")

\* Why a call may not get to its handler: the ApiKeyGuard, which comes first,
\* the ValidationPipe, or for want of such a route.
Refusal(route, key, body) ==
    IF route.guarded /\ ~key THEN {"Unauthorized"}
    ELSE IF ~Accepts(route.dto, body.given, body.mistyped) THEN {"BadRequest"}
    ELSE {}

Refusals ==
    {"NotFound"} \cup
    UNION {UNION {Refusal(Routes[op], key, body) : body \in Bodies(Routes[op].dto)} :
               op \in Operations, key \in BOOLEAN}

Refused(c) ==
    /\ call[c].phase = "idle"
    /\ \/ /\ Limited
          /\ call' = [call EXCEPT ![c] = [op |-> "refused", phase |-> "done", answer |-> "TooMany",
                                          on |-> {}, status |-> 429]]
          /\ UNCHANGED hits
       \/ /\ ~Limited
          /\ \E why \in Refusals :
                call' = [call EXCEPT ![c] = [op |-> "refused", phase |-> "done", answer |-> why,
                                             on |-> {}, status |-> StatusOfException(why)]]
          /\ hits' = hits + 1
    /\ UNCHANGED <<together, windows>>

\* Quarter of an hour is over.
WindowEnds ==
    /\ hits > 0 /\ windows < MaxWindows
    /\ hits' = 0
    /\ windows' = windows + 1
    /\ UNCHANGED <<call, together>>
=============================================================================
