------------------------------ MODULE TokenBucket ------------------------------
(***************************************************************************)
(* The arithmetic of one token bucket of the WebSocket gateway             *)
(* (checkRateLimit).  Amounts are counted in an arbitrary unit of tokens   *)
(* and times in an arbitrary tick, so that FILL_RATE, the refill of one    *)
(* tick, is a whole number: with a tick of 1 ms and a unit of a hundredth  *)
(* of a token the defaults of the code are 10000, 1 and 100.               *)
(***************************************************************************)
EXTENDS Integers

CONSTANTS RATE_LIMIT_TOKENS,     \* capacity of a bucket
          RATE_LIMIT_FILL_RATE,  \* units refilled in one tick
          RATE_LIMIT_COST        \* units one message costs

ASSUME TokenBucketAssumption ==
    /\ RATE_LIMIT_TOKENS \in Nat
    /\ RATE_LIMIT_FILL_RATE \in Nat
    /\ RATE_LIMIT_COST \in Nat \ {0}

\* Mutants of Refilled: no cap, or a refill that forgets what was left.
RefilledUncapped(tokens, elapsed) == tokens + elapsed * RATE_LIMIT_FILL_RATE
RefilledAfresh(tokens, elapsed) ==
    LET full == elapsed * RATE_LIMIT_FILL_RATE
    IN  IF full > RATE_LIMIT_TOKENS THEN RATE_LIMIT_TOKENS ELSE full

\* The content of a bucket after `elapsed` ticks: it fills up to its capacity.
Refilled(tokens, elapsed) ==
    LET full == tokens + elapsed * RATE_LIMIT_FILL_RATE
    IN  IF full > RATE_LIMIT_TOKENS THEN RATE_LIMIT_TOKENS ELSE full

\* A message is admitted when the bucket can pay for it.
Admits(tokens) == tokens >= RATE_LIMIT_COST

\* Mutant of Charged: a refused message is charged too.
ChargedAlways(tokens) == tokens - RATE_LIMIT_COST

\* What is left of a bucket once a message has been admitted or refused.
Charged(tokens) == IF Admits(tokens) THEN tokens - RATE_LIMIT_COST ELSE tokens
=============================================================================
