--------------------------- MODULE RateLimiterProofs ---------------------------
(***************************************************************************)
(* Proofs about RateLimiter: type correctness, and, for a clock that never *)
(* steps back, the two bounds that make it a token bucket, for every set   *)
(* of peers, capacity, refill rate and cost.  They hold of the limiter by  *)
(* itself and, since the steps of Connections are its steps or leave it    *)
(* alone, of the gateway's connections.                                    *)
(***************************************************************************)
EXTENDS Connections, TLAPS

-----------------------------------------------------------------------------
\* The arithmetic of a bucket.

\* Refilled never exceeds the capacity nor what the elapsed time pays for,
\* and takes nothing from a bucket when time has not gone back.
LEMMA RefilledBounds ==
    ASSUME NEW tokens \in Int, NEW elapsed \in Int
    PROVE  /\ Refilled(tokens, elapsed) \in Int
           /\ Refilled(tokens, elapsed) <= RATE_LIMIT_TOKENS
           /\ Refilled(tokens, elapsed) <= tokens + elapsed * RATE_LIMIT_FILL_RATE
           /\ (elapsed >= 0 /\ tokens <= RATE_LIMIT_TOKENS)
                  => Refilled(tokens, elapsed) >= tokens
<1> DEFINE refill == elapsed * RATE_LIMIT_FILL_RATE
<1>1. refill \in Int /\ (elapsed >= 0 => refill >= 0)
  BY TokenBucketAssumption
<1>2. RATE_LIMIT_TOKENS \in Int
  BY TokenBucketAssumption
<1> HIDE DEF refill
<1>3. Refilled(tokens, elapsed) =
        IF tokens + refill > RATE_LIMIT_TOKENS THEN RATE_LIMIT_TOKENS ELSE tokens + refill
  BY DEF Refilled, refill
<1>4. /\ Refilled(tokens, elapsed) <= tokens + refill
      /\ Refilled(tokens, elapsed) \in Int
      /\ Refilled(tokens, elapsed) <= RATE_LIMIT_TOKENS
      /\ (elapsed >= 0 /\ tokens <= RATE_LIMIT_TOKENS) => Refilled(tokens, elapsed) >= tokens
  BY <1>1, <1>2, <1>3
<1>5. QED
  BY <1>4 DEF refill

\* A message is admitted exactly when the bucket pays for it.
LEMMA ChargedBounds ==
    ASSUME NEW tokens \in Int
    PROVE  /\ Charged(tokens) \in Int
           /\ Charged(tokens) <= tokens
           /\ Admits(tokens) => Charged(tokens) = tokens - RATE_LIMIT_COST
           /\ ~Admits(tokens) => Charged(tokens) = tokens /\ tokens < RATE_LIMIT_COST
BY TokenBucketAssumption DEF Charged, Admits

-----------------------------------------------------------------------------
\* The bucket a check works on is well typed.
LEMMA BucketType ==
    ASSUME LimiterTypeOK, NEW p \in Peers
    PROVE  /\ Bucket(p).tokens \in Int
           /\ Bucket(p).lastRefill \in Instants
           /\ Available(p) \in Int
           /\ Available(p) <= RATE_LIMIT_TOKENS
<1>1. Bucket(p).tokens \in Int /\ Bucket(p).lastRefill \in Instants
  BY TokenBucketAssumption DEF Bucket, LimiterTypeOK
<1>2. now - Bucket(p).lastRefill \in Int
  BY <1>1 DEF LimiterTypeOK, Instants
<1>3. QED
  BY <1>1, <1>2, RefilledBounds DEF Available

\* Every reachable state is well typed.
THEOREM TypeCorrect == LimiterSpec => []LimiterTypeOK
<1>1. InitLimiter => LimiterTypeOK
  BY RateLimiterAssumption DEF InitLimiter, EmptyMap, NewWindow, NoBurst, LimiterTypeOK, Instants
<1>2. LimiterTypeOK /\ [LimiterStep]_limiterVars => LimiterTypeOK'
  <2> SUFFICES ASSUME LimiterTypeOK, [LimiterStep]_limiterVars
               PROVE  LimiterTypeOK'
    OBVIOUS
  <2>1. CASE ClockMoves
    BY <2>1 DEF ClockMoves, LimiterTypeOK
  <2>2. ASSUME NEW p \in Peers, CheckRateLimit(p)
        PROVE  LimiterTypeOK'
    <3> DEFINE b == [tokens |-> Charged(Available(p)), lastRefill |-> now]
    <3>1. Charged(Available(p)) \in Int /\ Charged(Available(p)) <= RATE_LIMIT_TOKENS
      BY BucketType, ChargedBounds, TokenBucketAssumption
    <3>2. rateLimits' = Put(rateLimits, p, b)
      BY <2>2 DEF CheckRateLimit
    <3>3. /\ DOMAIN rateLimits' \subseteq Peers
          /\ \A q \in DOMAIN rateLimits' :
               /\ DOMAIN rateLimits'[q] = {"tokens", "lastRefill"}
               /\ rateLimits'[q].tokens \in Int
               /\ rateLimits'[q].tokens <= RATE_LIMIT_TOKENS
               /\ rateLimits'[q].lastRefill \in Instants
      BY <3>1, <3>2 DEF Put, LimiterTypeOK
    <3>4. window' \in [Peers -> [start : Instants, admitted : Nat, forgotten : Nat]]
      BY <2>2 DEF CheckRateLimit, LimiterTypeOK
    <3>5. burst' \in [Peers -> [admitted : Nat, refused : BOOLEAN]]
      BY <2>2 DEF CheckRateLimit, LimiterTypeOK, Admits
    <3>6. QED
      BY <2>2, <3>3, <3>4, <3>5 DEF CheckRateLimit, LimiterTypeOK
  <2>3. ASSUME NEW p \in Peers, ForgetPeer(p)
        PROVE  LimiterTypeOK'
    BY <2>3 DEF ForgetPeer, Drop, NoBurst, LimiterTypeOK
  <2>4. ASSUME NEW p \in Peers, OpenWindow(p)
        PROVE  LimiterTypeOK'
    BY <2>4 DEF OpenWindow, NewWindow, LimiterTypeOK
  <2>5. CASE UNCHANGED limiterVars
    BY <2>5 DEF limiterVars, LimiterTypeOK
  <2>6. QED
    BY <2>1, <2>2, <2>3, <2>4, <2>5 DEF LimiterStep
<1>3. QED
  BY <1>1, <1>2, PTL DEF LimiterSpec

-----------------------------------------------------------------------------
(***************************************************************************)
(* RateBound is not inductive: it says nothing of what the bucket still    *)
(* holds.  The accounting below adds it.  Once a bucket has been refilled  *)
(* inside the window, what it holds plus what was admitted is at most the  *)
(* allowance of the window up to that refill, and the buckets that were    *)
(* deleted in it; a bucket that has not been refilled in the window has    *)
(* admitted nothing in it; and a peer without a bucket is as good as one   *)
(* that holds a full bucket now.                                           *)
(***************************************************************************)
RefilledIn(p) == p \in DOMAIN rateLimits /\ rateLimits[p].lastRefill >= window[p].start

Granted(p) == RATE_LIMIT_TOKENS * window[p].forgotten

Accounts(p) ==
    /\ window[p].start <= now
    /\ p \in DOMAIN rateLimits =>
         /\ rateLimits[p].lastRefill <= now
         /\ rateLimits[p].tokens \in 0 .. RATE_LIMIT_TOKENS
    /\ RefilledIn(p) =>
         rateLimits[p].tokens + RATE_LIMIT_COST * window[p].admitted
             <= Allowance(rateLimits[p].lastRefill - window[p].start) + Granted(p)
    /\ (p \in DOMAIN rateLimits /\ ~RefilledIn(p)) => window[p].admitted = 0
    /\ p \notin DOMAIN rateLimits =>
         RATE_LIMIT_TOKENS + RATE_LIMIT_COST * window[p].admitted
             <= Allowance(now - window[p].start) + Granted(p)

\* A bucket never holds less than its capacity minus what it admitted.
BurstAccounts(p) ==
    /\ p \in DOMAIN rateLimits =>
         rateLimits[p].tokens >= RATE_LIMIT_TOKENS - RATE_LIMIT_COST * burst[p].admitted
    /\ p \notin DOMAIN rateLimits => burst[p] = NoBurst
    /\ burst[p].refused =>
         RATE_LIMIT_COST * (burst[p].admitted + 1) > RATE_LIMIT_TOKENS

RateInv == \A p \in Peers : Accounts(p) /\ BurstAccounts(p)

-----------------------------------------------------------------------------
\* An allowance is a number of units, at least a full bucket.
LEMMA AllowanceType ==
    ASSUME NEW a \in Int
    PROVE  /\ Allowance(a) \in Int
           /\ a >= 0 => Allowance(a) >= RATE_LIMIT_TOKENS
<1>1. RATE_LIMIT_FILL_RATE * a \in Int /\ (a >= 0 => RATE_LIMIT_FILL_RATE * a >= 0)
  BY TokenBucketAssumption
<1>2. QED
  BY <1>1, TokenBucketAssumption DEF Allowance

\* Allowances of adjacent windows add up.
LEMMA AllowanceAdds ==
    ASSUME NEW a \in Int, NEW b \in Int
    PROVE  Allowance(a) + b * RATE_LIMIT_FILL_RATE = Allowance(a + b)
<1>1. RATE_LIMIT_FILL_RATE * (a + b) = RATE_LIMIT_FILL_RATE * a + b * RATE_LIMIT_FILL_RATE
  BY TokenBucketAssumption
<1>2. /\ RATE_LIMIT_FILL_RATE * a \in Int
      /\ b * RATE_LIMIT_FILL_RATE \in Int
  BY TokenBucketAssumption
<1>3. QED
  BY <1>1, <1>2, TokenBucketAssumption DEF Allowance

\* What the deleted buckets of a window were worth is a number of units.
LEMMA GrantedType ==
    ASSUME LimiterTypeOK, NEW p \in Peers
    PROVE  Granted(p) \in Nat
BY TokenBucketAssumption DEF Granted, LimiterTypeOK

\* What a bucket with the accounts of its window in order holds after the
\* refill of a check, and what its burst is owed at least.
LEMMA AvailableBounds ==
    ASSUME LimiterTypeOK, NEW p \in Peers, Accounts(p), BurstAccounts(p)
    PROVE  /\ Available(p) \in 0 .. RATE_LIMIT_TOKENS
           /\ Available(p) + RATE_LIMIT_COST * window[p].admitted
                <= Allowance(now - window[p].start) + Granted(p)
           /\ Available(p) >= RATE_LIMIT_TOKENS - RATE_LIMIT_COST * burst[p].admitted
<1> DEFINE last == Bucket(p).lastRefill
           held == Bucket(p).tokens
           start == window[p].start
           spent == RATE_LIMIT_COST * window[p].admitted
           granted == Granted(p)
<1>1. /\ last \in Int /\ held \in Int /\ start \in Int /\ now \in Int
      /\ window[p].admitted \in Nat /\ burst[p].admitted \in Nat
      /\ Available(p) \in Int
  BY BucketType DEF LimiterTypeOK, Instants
<1>2. spent \in Int /\ RATE_LIMIT_COST * burst[p].admitted \in Int /\ RATE_LIMIT_TOKENS \in Int
  BY <1>1, TokenBucketAssumption
<1>9. granted \in Nat
  BY GrantedType
<1>3. last <= now /\ held \in 0 .. RATE_LIMIT_TOKENS /\ start <= now
  BY TokenBucketAssumption, <1>1, <1>2 DEF Bucket, Accounts
<1>4. /\ Available(p) <= RATE_LIMIT_TOKENS
      /\ Available(p) <= held + (now - last) * RATE_LIMIT_FILL_RATE
      /\ Available(p) >= held
  <2>1. Available(p) = Refilled(held, now - last)
    BY DEF Available
  <2> HIDE DEF last, held, start, spent, granted
  <2>2. now - last \in Int /\ now - last >= 0 /\ held \in Int /\ held <= RATE_LIMIT_TOKENS
    BY <1>1, <1>2, <1>3
  <2>3. QED
    BY <2>1, <2>2, RefilledBounds
<1>5. Available(p) + spent <= Allowance(now - start) + granted
  <2>1. CASE RefilledIn(p)
    <3>1. held + spent <= Allowance(last - start) + granted
      BY <2>1 DEF Accounts, RefilledIn, Bucket
    <3> HIDE DEF last, held, start, spent, granted
    <3>2. Allowance(last - start) + (now - last) * RATE_LIMIT_FILL_RATE
            = Allowance((last - start) + (now - last))
      <4>1. last - start \in Int /\ now - last \in Int
        BY <1>1
      <4>2. QED
        BY <4>1, AllowanceAdds
    <3>3. (last - start) + (now - last) = now - start
      BY <1>1
    <3>4. (now - last) * RATE_LIMIT_FILL_RATE \in Int
      BY <1>1, TokenBucketAssumption
    <3>5. Allowance(last - start) \in Int /\ Allowance(now - start) \in Int
      BY <1>1, AllowanceType
    <3>6. QED
      BY <1>1, <1>9, <1>2, <1>4, <3>1, <3>2, <3>3, <3>4, <3>5
  <2>2. CASE p \in DOMAIN rateLimits /\ ~RefilledIn(p)
    <3>1. spent = 0
      BY <2>2, <1>1, TokenBucketAssumption DEF Accounts
    <3> HIDE DEF last, held, start, spent, granted
    <3>2. Allowance(now - start) \in Int /\ Allowance(now - start) >= RATE_LIMIT_TOKENS
      <4>1. now - start \in Int /\ now - start >= 0
        BY <1>1, <1>3
      <4>2. QED
        BY <4>1, AllowanceType
    <3>3. QED
      BY <1>1, <1>9, <1>2, <1>4, <3>1, <3>2
  <2>3. CASE p \notin DOMAIN rateLimits
    <3>1. RATE_LIMIT_TOKENS + spent <= Allowance(now - start) + granted
      BY <2>3 DEF Accounts
    <3> HIDE DEF last, held, start, spent, granted
    <3>2. Allowance(now - start) \in Int
      BY <1>1, AllowanceType
    <3>3. QED
      BY <1>1, <1>9, <1>2, <1>4, <3>1, <3>2
  <2>4. QED
    BY <2>1, <2>2, <2>3
<1>6. held >= RATE_LIMIT_TOKENS - RATE_LIMIT_COST * burst[p].admitted
  <2>1. CASE p \in DOMAIN rateLimits
    BY <2>1 DEF Bucket, BurstAccounts
  <2>2. CASE p \notin DOMAIN rateLimits
    BY <2>2, TokenBucketAssumption DEF Bucket, BurstAccounts, NoBurst
  <2>3. QED
    BY <2>1, <2>2
<1>7. Available(p) >= RATE_LIMIT_TOKENS - RATE_LIMIT_COST * burst[p].admitted
  <2> HIDE DEF last, held, start, spent
  <2>1. QED
    BY <1>1, <1>2, <1>4, <1>6
<1>8. QED
  BY <1>1, <1>2, <1>3, <1>4, <1>5, <1>7

-----------------------------------------------------------------------------
\* The clock moving forward leaves every account in order.
LEMMA ClockKeepsRateInv ==
    ASSUME ~CLOCK_MAY_STEP_BACK, LimiterTypeOK, RateInv, ClockMoves
    PROVE  RateInv'
<1>1. now' > now /\ now \in Int /\ now' \in Int
  BY DEF ClockMoves, LimiterTypeOK, Instants
<1>2. UNCHANGED <<rateLimits, window, burst>>
  BY DEF ClockMoves
<1> SUFFICES ASSUME NEW p \in Peers
             PROVE  Accounts(p)' /\ BurstAccounts(p)'
  BY DEF RateInv
<1>3. Accounts(p) /\ BurstAccounts(p)
  BY DEF RateInv
<1>4. window[p].start \in Int /\ (p \in DOMAIN rateLimits => rateLimits[p].lastRefill \in Int)
  BY DEF LimiterTypeOK, Instants
<1>5. Accounts(p)'
  <2>1. /\ window'[p].start <= now'
        /\ p \in DOMAIN rateLimits' =>
             /\ rateLimits'[p].lastRefill <= now'
             /\ rateLimits'[p].tokens \in 0 .. RATE_LIMIT_TOKENS
    BY <1>1, <1>2, <1>3, <1>4 DEF Accounts
  <2>2. RefilledIn(p)' <=> RefilledIn(p)
    BY <1>2 DEF RefilledIn
  <2>3. Granted(p)' = Granted(p) /\ window' = window /\ rateLimits' = rateLimits
    BY <1>2 DEF Granted
  <2>4. ASSUME p \notin DOMAIN rateLimits
        PROVE  RATE_LIMIT_TOKENS + RATE_LIMIT_COST * window[p].admitted
                   <= Allowance(now' - window[p].start) + Granted(p)
    <3> DEFINE start == window[p].start
               spent == RATE_LIMIT_COST * window[p].admitted
               granted == Granted(p)
    <3>1. RATE_LIMIT_TOKENS + spent <= Allowance(now - start) + granted
      BY <1>3, <2>4 DEF Accounts
    <3>2. spent \in Int /\ granted \in Int /\ start \in Int /\ RATE_LIMIT_TOKENS \in Int
      <4>1. granted \in Nat
        BY GrantedType
      <4>2. window[p].admitted \in Nat
        BY DEF LimiterTypeOK
      <4>3. spent \in Int
        BY <4>2, TokenBucketAssumption
      <4> HIDE DEF spent, granted
      <4>4. QED
        BY <1>4, <4>1, <4>3, TokenBucketAssumption
    <3> HIDE DEF start, spent, granted
    <3>3. /\ now - start \in Int /\ now' - now \in Nat
          /\ (now - start) + (now' - now) = now' - start
      <4> DEFINE later == now'
      <4>1. later > now /\ now \in Int /\ later \in Int /\ start \in Int
        BY <1>1, <3>2
      <4> HIDE DEF later
      <4>2. /\ now - start \in Int /\ later - now \in Nat
            /\ (now - start) + (later - now) = later - start
        BY <4>1
      <4>3. QED
        BY <4>2 DEF later
    <3>4. Allowance(now - start) + (now' - now) * RATE_LIMIT_FILL_RATE = Allowance(now' - start)
      <4>1. now' - now \in Int
        BY <3>3
      <4>2. QED
        BY <3>3, <4>1, AllowanceAdds
    <3>5. (now' - now) * RATE_LIMIT_FILL_RATE \in Nat
      BY <3>3, TokenBucketAssumption
    <3>6. Allowance(now - start) \in Int
      BY <3>3, AllowanceType
    <3>7. QED
      <4>1. RATE_LIMIT_TOKENS + spent <= Allowance(now' - start) + granted
        BY <3>1, <3>2, <3>4, <3>5, <3>6
      <4>2. QED
        BY <4>1 DEF start, spent, granted
  <2>5. QED
    BY <1>3, <2>1, <2>2, <2>3, <2>4 DEF Accounts, Allowance
<1>6. BurstAccounts(p)'
  BY <1>2, <1>3 DEF BurstAccounts
<1>7. QED
  BY <1>5, <1>6

\* A check keeps the accounts of the peer it is about, and touches no other.
LEMMA CheckKeepsRateInv ==
    ASSUME LimiterTypeOK, RateInv, NEW p \in Peers, CheckRateLimit(p)
    PROVE  RateInv'
<1> DEFINE left == Charged(Available(p))
           bucket == [tokens |-> left, lastRefill |-> now]
           admitted == Admits(Available(p))
<1>1. /\ rateLimits' = Put(rateLimits, p, bucket)
      /\ now' = now
      /\ window' = [window EXCEPT ![p].admitted =
                        IF admitted THEN window[p].admitted + 1 ELSE window[p].admitted]
      /\ burst' = [burst EXCEPT ![p] =
                       [admitted |-> IF admitted THEN burst[p].admitted + 1
                                                 ELSE burst[p].admitted,
                        refused |-> ~admitted]]
  BY DEF CheckRateLimit
<1>2. Accounts(p) /\ BurstAccounts(p)
  BY DEF RateInv
<1>3. /\ Available(p) \in Int
      /\ Available(p) \in 0 .. RATE_LIMIT_TOKENS
      /\ Available(p) + RATE_LIMIT_COST * window[p].admitted
            <= Allowance(now - window[p].start) + Granted(p)
      /\ Available(p) >= RATE_LIMIT_TOKENS - RATE_LIMIT_COST * burst[p].admitted
  BY <1>2, AvailableBounds
<1>4. /\ left \in 0 .. RATE_LIMIT_TOKENS
      /\ admitted => left = Available(p) - RATE_LIMIT_COST
      /\ ~admitted => left = Available(p) /\ Available(p) < RATE_LIMIT_COST
  BY <1>3, ChargedBounds, TokenBucketAssumption DEF Admits
<1>5. /\ now \in Int /\ window[p].start \in Int
      /\ window[p].admitted \in Nat /\ burst[p].admitted \in Nat
      /\ RATE_LIMIT_COST \in Nat /\ RATE_LIMIT_TOKENS \in Nat
      /\ Allowance(now - window[p].start) \in Int /\ Granted(p) \in Int
  <2>1. /\ now \in Int /\ window[p].start \in Int
        /\ window[p].admitted \in Nat /\ burst[p].admitted \in Nat
    BY DEF LimiterTypeOK, Instants
  <2>2. now - window[p].start \in Int
    BY <2>1
  <2>3. QED
    BY <2>1, <2>2, AllowanceType, GrantedType, TokenBucketAssumption
<1>6. /\ p \in DOMAIN rateLimits'
      /\ rateLimits'[p] = bucket
      /\ window'[p].start = window[p].start
      /\ window'[p].forgotten = window[p].forgotten
      /\ window'[p].admitted = IF admitted THEN window[p].admitted + 1 ELSE window[p].admitted
      /\ burst'[p].admitted = IF admitted THEN burst[p].admitted + 1 ELSE burst[p].admitted
      /\ burst'[p].refused = ~admitted
  BY <1>1 DEF Put, LimiterTypeOK
<1>7. /\ RATE_LIMIT_COST * (window[p].admitted + 1) = RATE_LIMIT_COST * window[p].admitted + RATE_LIMIT_COST
      /\ RATE_LIMIT_COST * (burst[p].admitted + 1) = RATE_LIMIT_COST * burst[p].admitted + RATE_LIMIT_COST
      /\ RATE_LIMIT_COST * window[p].admitted \in Int
      /\ RATE_LIMIT_COST * burst[p].admitted \in Int
  BY <1>5
<1> HIDE DEF left, admitted
<1>8. Accounts(p)'
  <2>1. window'[p].start <= now' /\ rateLimits'[p].lastRefill <= now'
    BY <1>1, <1>2, <1>5, <1>6 DEF Accounts
  <2>2. rateLimits'[p].tokens \in 0 .. RATE_LIMIT_TOKENS
    BY <1>4, <1>6
  <2>3. rateLimits'[p].tokens + RATE_LIMIT_COST * window'[p].admitted
          <= Allowance(rateLimits'[p].lastRefill - window'[p].start) + Granted(p)
    BY <1>3, <1>4, <1>5, <1>6, <1>7
  <2>4. RefilledIn(p)'
    BY <1>1, <1>2, <1>5, <1>6 DEF RefilledIn, Accounts
  <2>5. QED
    BY <1>6, <2>1, <2>2, <2>3, <2>4 DEF Accounts, Allowance, Granted
<1>9. BurstAccounts(p)'
  <2>1. rateLimits'[p].tokens >= RATE_LIMIT_TOKENS - RATE_LIMIT_COST * burst'[p].admitted
    BY <1>3, <1>4, <1>5, <1>6, <1>7
  <2>2. ASSUME burst'[p].refused
        PROVE  RATE_LIMIT_COST * (burst'[p].admitted + 1) > RATE_LIMIT_TOKENS
    <3>1. ~admitted
      BY <1>6, <2>2, Zenon
    <3>2. burst'[p].admitted = burst[p].admitted
      BY <1>6, <3>1, Zenon
    <3>3. Available(p) < RATE_LIMIT_COST
      BY <1>4, <3>1
    <3>4. RATE_LIMIT_COST * (burst[p].admitted + 1) > RATE_LIMIT_TOKENS
      BY <1>3, <1>5, <1>7, <3>3
    <3>5. QED
      BY <3>2, <3>4
  <2>3. QED
    BY <1>6, <2>1, <2>2 DEF BurstAccounts
<1>10. ASSUME NEW q \in Peers, q # p
       PROVE  Accounts(q)' /\ BurstAccounts(q)'
  <2>1. /\ (q \in DOMAIN rateLimits') <=> (q \in DOMAIN rateLimits)
        /\ q \in DOMAIN rateLimits => rateLimits'[q] = rateLimits[q]
        /\ window'[q] = window[q] /\ burst'[q] = burst[q]
    BY <1>1, <1>10 DEF Put, LimiterTypeOK
  <2>2. Accounts(q) /\ BurstAccounts(q)
    BY DEF RateInv
  <2>3. Accounts(q)'
    BY <1>1, <2>1, <2>2 DEF Accounts, RefilledIn, Granted, Allowance
  <2>4. BurstAccounts(q)'
    BY <2>1, <2>2 DEF BurstAccounts
  <2>5. QED
    BY <2>3, <2>4
<1>11. QED
  BY <1>8, <1>9, <1>10 DEF RateInv

\* Forgetting a peer leaves it as good as with a full bucket, and its window
\* one bucket more.
LEMMA ForgetKeepsRateInv ==
    ASSUME LimiterTypeOK, RateInv, NEW p \in Peers, ForgetPeer(p)
    PROVE  RateInv'
<1> DEFINE held == p \in DOMAIN rateLimits
<1>1. /\ rateLimits' = Drop(rateLimits, p)
      /\ now' = now
      /\ window' = [window EXCEPT ![p].forgotten =
                        IF held THEN window[p].forgotten + 1 ELSE window[p].forgotten]
      /\ burst' = [burst EXCEPT ![p] = NoBurst]
  BY DEF ForgetPeer
<1> SUFFICES ASSUME NEW q \in Peers
             PROVE  Accounts(q)' /\ BurstAccounts(q)'
  BY DEF RateInv
<1>2. Accounts(q) /\ BurstAccounts(q) /\ now \in Int
  BY DEF RateInv, LimiterTypeOK, Instants
<1>3. CASE q = p
  <2>1. /\ p \notin DOMAIN rateLimits' /\ burst'[p] = NoBurst
        /\ window'[p].start = window[p].start /\ window'[p].admitted = window[p].admitted
        /\ window'[p].forgotten = IF held THEN window[p].forgotten + 1 ELSE window[p].forgotten
    BY <1>1 DEF Drop, LimiterTypeOK
  <2>2. Available(p) \in 0 .. RATE_LIMIT_TOKENS
        /\ Available(p) + RATE_LIMIT_COST * window[p].admitted
             <= Allowance(now - window[p].start) + Granted(p)
    BY <1>2, <1>3, AvailableBounds
  <2>3. RATE_LIMIT_TOKENS + RATE_LIMIT_COST * window'[p].admitted
            <= Allowance(now' - window'[p].start) + RATE_LIMIT_TOKENS * window'[p].forgotten
    <3>1. CASE ~held
      BY <1>1, <1>2, <1>3, <2>1, <3>1 DEF Accounts, Granted
    <3>2. CASE held
      <4> DEFINE spent == RATE_LIMIT_COST * window[p].admitted
                 allowance == Allowance(now - window[p].start)
                 granted == Granted(p)
                 avail == Available(p)
      <4>1. avail \in Int /\ avail >= 0 /\ avail + spent <= allowance + granted
        BY <2>2, TokenBucketAssumption
      <4>2. spent \in Int /\ granted \in Int /\ RATE_LIMIT_TOKENS \in Int
        BY GrantedType, TokenBucketAssumption DEF LimiterTypeOK
      <4>3. allowance \in Int
        <5>1. now - window[p].start \in Int
          BY DEF LimiterTypeOK, Instants
        <5>2. QED
          BY <5>1, AllowanceType
      <4>4. RATE_LIMIT_TOKENS * window'[p].forgotten = granted + RATE_LIMIT_TOKENS
        <5>1. window[p].forgotten \in Nat /\ window'[p].forgotten = window[p].forgotten + 1
          BY <2>1, <3>2 DEF LimiterTypeOK
        <5>2. RATE_LIMIT_TOKENS * (window[p].forgotten + 1)
                = RATE_LIMIT_TOKENS * window[p].forgotten + RATE_LIMIT_TOKENS
          BY <4>2, <5>1
        <5>3. QED
          BY <5>1, <5>2 DEF Granted
      <4> HIDE DEF spent, allowance, granted, avail
      <4>5. RATE_LIMIT_TOKENS + spent <= allowance + (granted + RATE_LIMIT_TOKENS)
        BY <4>1, <4>2, <4>3
      <4>6. QED
        BY <1>1, <2>1, <4>4, <4>5 DEF spent, allowance
    <3>3. QED
      BY <3>1, <3>2
  <2>4. window'[p].start <= now'
    BY <1>1, <1>2, <1>3, <2>1 DEF Accounts
  <2>5. Accounts(p)'
    BY <2>1, <2>3, <2>4 DEF Accounts, RefilledIn, Granted, Allowance
  <2>6. BurstAccounts(p)'
    BY <2>1 DEF BurstAccounts, NoBurst
  <2>7. QED
    BY <1>3, <2>5, <2>6
<1>4. CASE q # p
  <2>1. /\ (q \in DOMAIN rateLimits') <=> (q \in DOMAIN rateLimits)
        /\ q \in DOMAIN rateLimits => rateLimits'[q] = rateLimits[q]
        /\ window'[q] = window[q] /\ burst'[q] = burst[q]
    BY <1>1, <1>4 DEF Drop, LimiterTypeOK
  <2>2. QED
    BY <1>1, <1>2, <2>1 DEF Accounts, BurstAccounts, RefilledIn, Granted, Allowance
<1>5. QED
  BY <1>3, <1>4

\* A new window begins with nothing admitted and at most a full bucket.
LEMMA OpenWindowKeepsRateInv ==
    ASSUME LimiterTypeOK, RateInv, NEW p \in Peers, OpenWindow(p)
    PROVE  RateInv'
<1>1. /\ UNCHANGED <<now, rateLimits, burst>>
      /\ window' = [window EXCEPT ![p] = NewWindow(now)]
  BY DEF OpenWindow
<1> SUFFICES ASSUME NEW q \in Peers
             PROVE  Accounts(q)' /\ BurstAccounts(q)'
  BY DEF RateInv
<1>2. Accounts(q) /\ BurstAccounts(q)
  BY DEF RateInv
<1>3. BurstAccounts(q)'
  BY <1>1, <1>2 DEF BurstAccounts
<1>4. CASE q # p
  <2>1. window'[q] = window[q]
    BY <1>1, <1>4 DEF LimiterTypeOK
  <2>2. QED
    BY <1>1, <1>2, <1>3, <2>1 DEF Accounts, RefilledIn, Granted, Allowance
<1>5. CASE q = p
  <2>1. window'[q].start = now /\ window'[q].admitted = 0 /\ window'[q].forgotten = 0
    BY <1>1, <1>5 DEF NewWindow, LimiterTypeOK
  <2>2. now \in Int /\ (q \in DOMAIN rateLimits => rateLimits[q].lastRefill \in Int /\ rateLimits[q].tokens \in Int)
    BY DEF LimiterTypeOK, Instants
  <2>3. RATE_LIMIT_COST * 0 = 0
    BY TokenBucketAssumption
  <2>4. 0 \in Int /\ Allowance(0) >= RATE_LIMIT_TOKENS /\ Allowance(0) \in Int
    BY AllowanceType
  <2>5. ASSUME RefilledIn(q)'
        PROVE  rateLimits[q].lastRefill - now = 0 /\ q \in DOMAIN rateLimits
    BY <1>1, <1>2, <2>1, <2>2, <2>5 DEF RefilledIn, Accounts
  <2>6. ASSUME RefilledIn(q)'
        PROVE  rateLimits'[q].tokens + RATE_LIMIT_COST * window'[q].admitted
                 <= Allowance(rateLimits'[q].lastRefill - window'[q].start) + Granted(q)'
    <3>1. rateLimits[q].tokens <= RATE_LIMIT_TOKENS
      BY <1>2, <2>5, <2>6, TokenBucketAssumption DEF Accounts
    <3>2. rateLimits[q].tokens + 0 <= Allowance(0)
      <4> DEFINE held == rateLimits[q].tokens
      <4>1. held \in Int /\ held <= RATE_LIMIT_TOKENS
        BY <2>2, <2>5, <2>6, <3>1
      <4> HIDE DEF held
      <4>2. held + 0 <= Allowance(0)
        BY <4>1, <2>4, TokenBucketAssumption
      <4>3. QED
        BY <4>2 DEF held
    <3>3. Granted(q)' = 0
      BY <2>1, TokenBucketAssumption DEF Granted
    <3>4. Allowance(0) + 0 = Allowance(0)
      BY <2>4
    <3>5. QED
      BY <1>1, <2>1, <2>3, <2>5, <2>6, <3>2, <3>3, <3>4
  <2>7. /\ window'[q].start <= now'
        /\ q \in DOMAIN rateLimits' =>
             /\ rateLimits'[q].lastRefill <= now'
             /\ rateLimits'[q].tokens \in 0 .. RATE_LIMIT_TOKENS
    BY <1>1, <1>2, <2>1, <2>2 DEF Accounts
  <2>8. ASSUME q \notin DOMAIN rateLimits'
        PROVE  RATE_LIMIT_TOKENS + RATE_LIMIT_COST * window'[q].admitted
                   <= Allowance(now' - window'[q].start) + Granted(q)'
    <3>1. Granted(q)' = 0 /\ now' - window'[q].start = 0
      BY <1>1, <2>1, <2>2, TokenBucketAssumption DEF Granted
    <3>2. RATE_LIMIT_TOKENS + 0 <= Allowance(0) + 0
      BY <2>4, TokenBucketAssumption
    <3>3. QED
      BY <2>1, <2>3, <3>1, <3>2
  <2>9. Accounts(q)'
    BY <2>1, <2>6, <2>7, <2>8 DEF Accounts, Allowance, Granted
  <2>10. QED
    BY <1>3, <2>9
<1>6. QED
  BY <1>4, <1>5

\* The accounts are in order in every reachable state of a forward clock.
THEOREM AccountsInOrder ==
    ASSUME ~CLOCK_MAY_STEP_BACK
    PROVE  LimiterSpec => []RateInv
<1>1. InitLimiter => RateInv
  BY TokenBucketAssumption DEF InitLimiter, EmptyMap, RateInv, Accounts, BurstAccounts, RefilledIn, Granted, Allowance, NewWindow, NoBurst
<1>2. LimiterTypeOK /\ RateInv /\ [LimiterStep]_limiterVars => RateInv'
  <2> SUFFICES ASSUME LimiterTypeOK, RateInv, [LimiterStep]_limiterVars
               PROVE  RateInv'
    OBVIOUS
  <2>1. CASE ClockMoves
    BY <2>1, ClockKeepsRateInv
  <2>2. ASSUME NEW p \in Peers, CheckRateLimit(p)
        PROVE  RateInv'
    BY <2>2, CheckKeepsRateInv
  <2>3. ASSUME NEW p \in Peers, ForgetPeer(p)
        PROVE  RateInv'
    BY <2>3, ForgetKeepsRateInv
  <2>4. ASSUME NEW p \in Peers, OpenWindow(p)
        PROVE  RateInv'
    BY <2>4, OpenWindowKeepsRateInv
  <2>5. CASE UNCHANGED limiterVars
    BY <2>5 DEF limiterVars, RateInv, Accounts, BurstAccounts, RefilledIn, Granted, Allowance
  <2>6. QED
    BY <2>1, <2>2, <2>3, <2>4, <2>5 DEF LimiterStep
<1>3. QED
  BY <1>1, <1>2, TypeCorrect, PTL DEF LimiterSpec

\* checkRateLimit is a token bucket: in every window of time it admits at
\* most a full bucket, what the window refills, and another full bucket for
\* each time handleDisconnect deleted the peer's bucket in it.
THEOREM RateIsBounded ==
    ASSUME ~CLOCK_MAY_STEP_BACK
    PROVE  LimiterSpec => []RateBound
<1>1. LimiterTypeOK /\ RateInv => RateBound
  <2> SUFFICES ASSUME LimiterTypeOK, RateInv, NEW p \in Peers
               PROVE  RATE_LIMIT_COST * window[p].admitted
                          <= Allowance(now - window[p].start)
                             + RATE_LIMIT_TOKENS * window[p].forgotten
    BY DEF RateBound
  <2> DEFINE spent == RATE_LIMIT_COST * window[p].admitted
             allowance == Allowance(now - window[p].start)
             granted == Granted(p)
             avail == Available(p)
  <2>1. Accounts(p) /\ BurstAccounts(p)
    BY DEF RateInv
  <2>2. avail \in Int /\ avail >= 0 /\ avail + spent <= allowance + granted
    BY <2>1, AvailableBounds, TokenBucketAssumption
  <2>3. spent \in Int /\ granted \in Int /\ allowance \in Int
    <3>1. now - window[p].start \in Int /\ window[p].admitted \in Nat
      BY DEF LimiterTypeOK, Instants
    <3>2. QED
      BY <3>1, AllowanceType, GrantedType, TokenBucketAssumption
  <2> HIDE DEF spent, allowance, granted, avail
  <2>4. spent <= allowance + granted
    BY <2>2, <2>3
  <2>5. QED
    BY <2>4 DEF spent, allowance, granted, Granted
<1>2. QED
  BY <1>1, TypeCorrect, AccountsInOrder, PTL

\* A message is refused only by a bucket that has admitted its whole burst
\* since it was made.
THEOREM RefusalIsEarned ==
    ASSUME ~CLOCK_MAY_STEP_BACK
    PROVE  LimiterSpec => []RefusedOnlyWhenExceeded
<1>1. RateInv => RefusedOnlyWhenExceeded
  BY DEF RateInv, BurstAccounts, RefusedOnlyWhenExceeded
<1>2. QED
  BY <1>1, AccountsInOrder, PTL

-----------------------------------------------------------------------------
\* A step of the gateway's connections is a step of the limiter, or none, and
\* one of the heartbeat, or none.
LEMMA ConnectionStep ==
    [Next]_connectionVars => [LimiterStep]_limiterVars /\ [HeartbeatStep]_heartbeatVars
<1> SUFFICES ASSUME [Next]_connectionVars
             PROVE  [LimiterStep]_limiterVars /\ [HeartbeatStep]_heartbeatVars
  OBVIOUS
<1>1. CASE TimePasses
  BY <1>1 DEF TimePasses, LimiterStep
<1>2. CASE Tick /\ UNCHANGED limiterVars
  BY <1>2 DEF HeartbeatStep
<1>3. ASSUME NEW s \in ServerSockets,
             (Connect(s) \/ Pong(s) \/ FallSilent(s)) /\ UNCHANGED limiterVars
      PROVE  [LimiterStep]_limiterVars /\ [HeartbeatStep]_heartbeatVars
  BY <1>3 DEF HeartbeatStep
<1>4. ASSUME NEW s \in ServerSockets, Disconnects(s)
      PROVE  [LimiterStep]_limiterVars /\ [HeartbeatStep]_heartbeatVars
  BY <1>4 DEF Disconnects, LimiterStep, HeartbeatStep
<1>5. ASSUME NEW s \in ServerSockets, NEW p \in Peers, MessageArrives(s, p)
      PROVE  [LimiterStep]_limiterVars /\ [HeartbeatStep]_heartbeatVars
  BY <1>5 DEF MessageArrives, LimiterStep
<1>6. CASE UNCHANGED connectionVars
  BY <1>6 DEF connectionVars
<1>7. QED
  BY <1>1, <1>2, <1>3, <1>4, <1>5, <1>6 DEF Next

\* The connections implement the limiter, and the heartbeat with its fairness:
\* what is proved of either holds of them.
THEOREM ConnectionsImplement == Spec => LimiterSpec /\ HeartbeatSpec
<1>1. Init => InitLimiter /\ InitHeartbeat
  BY DEF Init
<1>2. QED
  BY <1>1, ConnectionStep, PTL DEF Spec, LimiterSpec, HeartbeatSpec

\* The two bounds of the limiter, of the gateway's connections.
THEOREM ConnectionsAreLimited ==
    ASSUME ~CLOCK_MAY_STEP_BACK
    PROVE  Spec => [](RateBound /\ RefusedOnlyWhenExceeded)
BY ConnectionsImplement, RateIsBounded, RefusalIsEarned, PTL
=============================================================================
