------------------------------ MODULE SessionStore ------------------------------
(***************************************************************************)
(* SessionService: sessions with a challenge and an end.  Nothing watches  *)
(* the end: a session is found to have expired when somebody validates its *)
(* challenge.  expireSession and cleanupExpiredSessions have no caller.    *)
(***************************************************************************)
EXTENDS RestCalls, Naturals

CONSTANTS Sessions,   \* ids of the sessions ever created
          Lifetime,   \* ticks from the creation of a session to its end
          MaxTime     \* bound of the model: the last tick

ASSUME SessionAssumption == Lifetime \in Nat /\ MaxTime \in Nat

VARIABLES session,    \* id -> [status, expires]
          now         \* the wall clock

sessionVars == <<session, now>>

NoSession == [status |-> "none", expires |-> 0]

InitSessions ==
    /\ session \in [Sessions -> {NoSession, [status |-> "PENDING", expires |-> Lifetime]}]
    /\ now = 0

TimePasses ==
    /\ now < MaxTime
    /\ now' = now + 1
    /\ UNCHANGED <<session, callVars>>

CreateSession(c) ==
    \E s \in Sessions :
        /\ session[s] = NoSession
        /\ session' = [session EXCEPT ![s] = [status |-> "PENDING", expires |-> now + Lifetime]]
        /\ AnswerAtOnce(c, "createSession", s, "done")
        /\ UNCHANGED now

\* The answer shows the status of the session, or says that there is none, with
\* status 200 as well.
GetSession(c) ==
    /\ \E s \in Sessions : AnswerAtOnce(c, "getSession", s, session[s].status)
    /\ UNCHANGED sessionVars

\* validateChallenge up to its first await; the body has the session's
\* challenge or another one.  The row that was read is held from here on.
FindForValidation(c) ==
    \E s \in Sessions, right \in BOOLEAN :
        /\ \/ session[s] = NoSession /\ AnswerAtOnce(c, "validateChallenge", s, "invalid")
           \/ /\ session[s] # NoSession
              /\ Await(c, "validateChallenge", s, [expires |-> session[s].expires, right |-> right])
        /\ UNCHANGED sessionVars

\* Mutant of Overdue: a session that was marked already is not looked at again,
\* and its challenge is accepted.
OverdueWhilePending(c) == call[c].read.expires < now /\ session[call[c].on].status = "PENDING"

\* What is decided once the row is there.
Overdue(c) == call[c].read.expires < now

\* The rest of validateChallenge: whatever the status, an overdue session
\* becomes EXPIRED.
Validate(c) ==
    /\ Waiting(c, "validateChallenge")
    /\ \/ /\ Overdue(c)
          /\ session' = [session EXCEPT ![call[c].on].status = "EXPIRED"]
          /\ AnswerWaiting(c, "invalid")
       \/ /\ ~Overdue(c)
          /\ AnswerWaiting(c, IF call[c].read.right THEN "valid" ELSE "invalid")
          /\ UNCHANGED session
    /\ UNCHANGED now

\* completeSession looks at no status and no end.
CompleteSession(c) ==
    \E s \in Sessions :
        /\ \/ /\ session[s] # NoSession
              /\ session' = [session EXCEPT ![s].status = "COMPLETED"]
              /\ AnswerAtOnce(c, "completeSession", s, "done")
           \/ /\ session[s] = NoSession
              /\ AnswerAtOnce(c, "completeSession", s, "Error")
              /\ UNCHANGED session
        /\ UNCHANGED now

SessionCall(c) ==
    CreateSession(c) \/ GetSession(c) \/ FindForValidation(c) \/ Validate(c)
    \/ CompleteSession(c)

-----------------------------------------------------------------------------
\* A challenge is called valid only up to the end of its session, and never
\* again once the session was found to have expired, whoever noticed it and
\* whoever is shown it: neither by a call that had read the row before, nor
\* after completeSession has overwritten the status (validateChallenge,
\* getSession).
ShownExpired(s) ==
    \/ session[s].status = "EXPIRED"
    \/ \E c \in Calls : call[c].answer = "EXPIRED" /\ call[c].on = s
ValidBeforeExpiry ==
    [][\A c \in Calls : call[c].answer # "valid" /\ call'[c].answer = "valid" =>
            now <= session[call[c].on].expires /\ ~ShownExpired(call[c].on)]_<<session, now, call>>
=============================================================================
