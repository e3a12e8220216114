------------------------------ MODULE RateLimiter ------------------------------
(***************************************************************************)
(* The per-peer rate limiter of the WebSocket gateway: the map rateLimits, *)
(* the method checkRateLimit and the deletion of a bucket when its peer    *)
(* disconnects, which is how a peer that returns gets a full one at once.  *)
(* Time is the wall clock Date.now() reads, which an operator or NTP may   *)
(* set back: CLOCK_MAY_STEP_BACK says whether it does.                     *)
(*                                                                         *)
(* Two observers, which are not state of the program: `window' may start   *)
(* to count, at any instant, the messages of a peer that are admitted and  *)
(* the buckets of this peer that are deleted; `burst' counts the messages  *)
(* from the creation of the peer's bucket and remembers whether the last   *)
(* one was refused.                                                        *)
(***************************************************************************)
EXTENDS TokenBucket, MapOps

CONSTANTS Peers,                \* ids of the senders
          MAX_CLOCK,            \* bound: last instant of the clock
          MAX_ADMITTED,         \* bound: messages a bucket admits
          CLOCK_MAY_STEP_BACK   \* may Date.now() go back?

ASSUME RateLimiterAssumption ==
    /\ MAX_CLOCK \in Nat
    /\ MAX_ADMITTED \in Nat
    /\ CLOCK_MAY_STEP_BACK \in BOOLEAN

VARIABLES now,         \* what Date.now() returns
          rateLimits,  \* the Map: peer -> bucket, for the peers it holds
          window,      \* observer: peer -> start of a window, messages admitted and
                       \* buckets deleted in it
          burst        \* observer: peer -> messages admitted by its bucket, last one refused?

limiterVars == <<now, rateLimits, window, burst>>

Instants == 0 .. MAX_CLOCK

NewWindow(t) == [start |-> t, admitted |-> 0, forgotten |-> 0]
NoBurst == [admitted |-> 0, refused |-> FALSE]

InitLimiter ==
    /\ now = 0
    /\ rateLimits = EmptyMap
    /\ window = [p \in Peers |-> NewWindow(0)]
    /\ burst = [p \in Peers |-> NoBurst]

\* The bucket checkRateLimit works on: a new, full one for an unknown peer.
Bucket(p) == IF p \in DOMAIN rateLimits
             THEN rateLimits[p]
             ELSE [tokens |-> RATE_LIMIT_TOKENS, lastRefill |-> now]

\* What that bucket holds at this instant.
Available(p) == Refilled(Bucket(p).tokens, now - Bucket(p).lastRefill)

\* A message of sender p reaches the gateway: refill, then admit or refuse.
CheckRateLimit(p) ==
    LET admitted == Admits(Available(p)) IN
    /\ burst[p].admitted < MAX_ADMITTED
    /\ rateLimits' = Put(rateLimits, p,
                         [tokens |-> Charged(Available(p)), lastRefill |-> now])
    /\ window' = [window EXCEPT ![p].admitted = IF admitted THEN @ + 1 ELSE @]
    /\ burst' = [burst EXCEPT ![p] =
                     [admitted |-> IF admitted THEN @.admitted + 1 ELSE @.admitted,
                      refused |-> ~admitted]]
    /\ UNCHANGED now

\* The peer disconnects: its bucket, if there is one, is deleted, and the next
\* message makes a full one.  The window goes on.
ForgetPeer(p) ==
    /\ rateLimits' = Drop(rateLimits, p)
    /\ window' = [window EXCEPT ![p].forgotten = IF p \in DOMAIN rateLimits THEN @ + 1 ELSE @]
    /\ burst' = [burst EXCEPT ![p] = NoBurst]
    /\ UNCHANGED now

\* The observer begins a new window for peer p.
OpenWindow(p) ==
    /\ window' = [window EXCEPT ![p] = NewWindow(now)]
    /\ UNCHANGED <<now, rateLimits, burst>>

\* The clock moves on, or is set back.
ClockMoves ==
    /\ \E t \in Instants :
         /\ t > now \/ (CLOCK_MAY_STEP_BACK /\ t < now)
         /\ now' = t
    /\ UNCHANGED <<rateLimits, window, burst>>

LimiterStep ==
    \/ ClockMoves
    \/ \E p \in Peers : CheckRateLimit(p) \/ ForgetPeer(p) \/ OpenWindow(p)

LimiterSpec == InitLimiter /\ [][LimiterStep]_limiterVars

-----------------------------------------------------------------------------

\* Type invariant: the Map holds buckets for some of the peers, none above its
\* capacity (a token count is negative only after the clock has gone back).
LimiterTypeOK ==
    /\ now \in Instants
    /\ DOMAIN rateLimits \subseteq Peers
    /\ \A p \in DOMAIN rateLimits :
         /\ DOMAIN rateLimits[p] = {"tokens", "lastRefill"}
         /\ rateLimits[p].tokens \in Int
         /\ rateLimits[p].tokens <= RATE_LIMIT_TOKENS
         /\ rateLimits[p].lastRefill \in Instants
    /\ window \in [Peers -> [start : Instants, admitted : Nat, forgotten : Nat]]
    /\ burst \in [Peers -> [admitted : Nat, refused : BOOLEAN]]

\* What a window of `elapsed` ticks can cost a peer at most.
Allowance(elapsed) == RATE_LIMIT_TOKENS + RATE_LIMIT_FILL_RATE * elapsed

\* In every window of time, however it lies relative to refills, refusals and
\* disconnections, the limiter admits a peer at most a full bucket, what the
\* window refills, and one more full bucket for each time the peer's bucket was
\* deleted in it (checkRateLimit refills before it charges, and never above the
\* capacity; handleDisconnect deletes).  The rate over a window is bounded only
\* as far as the disconnections in it are.
RateBound ==
    \A p \in Peers :
        RATE_LIMIT_COST * window[p].admitted
            <= Allowance(now - window[p].start) + RATE_LIMIT_TOKENS * window[p].forgotten

\* A message is refused only when the peer has used up its burst: while the
\* bucket has admitted fewer messages than its capacity pays for, none is
\* refused, whatever the times between them (the refill never takes away).
RefusedOnlyWhenExceeded ==
    \A p \in Peers :
        burst[p].refused => RATE_LIMIT_COST * (burst[p].admitted + 1) > RATE_LIMIT_TOKENS
=============================================================================
