------------------------------- MODULE BruteForce -------------------------------
(***************************************************************************)
(* The brute-force demonstration of step 1: the panel makes a challenge, a *)
(* product of two primes, and a client with a worker of its own, which     *)
(* factors it by trial division and reports its progress.  The worker may  *)
(* fail to load; the panel may be closed at any time.                      *)
(***************************************************************************)
EXTENDS Naturals, Sequences, FiniteSets

CONSTANTS Bits,           \* the primes have this many bits, 8 in the code
          ProgressEvery,  \* trials between two reports, 1000 in the code
          MaxRuns         \* bound: runs of the panel

ASSUME BruteForceAssumption == ProgressEvery \in Nat \ {0} /\ MaxRuns \in Nat

VARIABLES runs,      \* clients made so far; the last is clientRef.current
          modulus,   \* what the panel shows
          isRunning,
          bar,       \* current and max
          found,     \* foundFactor: {} or one record
          iterations,
          pending,   \* client -> does its Map hold the request?
          channel,   \* client -> messages of its worker, in order
          worker,    \* client -> "none", "asked", "done" or "gone"
          panel      \* is the panel there?

bruteVars == <<runs, modulus, isRunning, bar, found, iterations, pending, channel,
               worker, panel>>

Clients == 1 .. MaxRuns

InitBrute ==
    /\ runs = 0 /\ modulus = 0
    /\ isRunning = FALSE
    /\ bar = [current |-> 0, max |-> 0]
    /\ found = {}
    /\ iterations = 0
    /\ pending = [c \in Clients |-> FALSE]
    /\ channel = [c \in Clients |-> <<>>]
    /\ worker = [c \in Clients |-> "none"]
    /\ panel = TRUE

-----------------------------------------------------------------------------
(* The challenge and the worker. *)

IsPrime(n) == n >= 2 /\ \A i \in 2 .. n - 1 : i * i <= n => n % i # 0

\* randomPrime: Math.random() < 1, so the last number of the range is left out.
Primes == {n \in 2 ^ (Bits - 1) .. 2 ^ Bits - 2 : IsPrime(n)}

Challenges == {pq[1] * pq[2] : pq \in {two \in Primes \X Primes : two[1] # two[2]}}

\* Math.floor(Math.sqrt(n))
Root(n) == CHOOSE r \in 0 .. n : r * r <= n /\ n < (r + 1) * (r + 1)

\* Mutant of Trials: the root itself is not tried.
TrialsBelow(n) == 2 .. Root(n) - 1

\* The numbers tried, in order.
Trials(n) == 2 .. Root(n)

Divisors(n) == {i \in Trials(n) : n % i = 0}

\* What factorize reports before it comes to the divisor p, or to the end.
Reports(n, last) ==
    LET at(k) == k * ProgressEvery + 1 IN
    [k \in 1 .. Cardinality({i \in Trials(n) : i < last /\ (i - 1) % ProgressEvery = 0}) |->
        [type |-> "progress", current |-> at(k), max |-> Root(n), found |-> FALSE,
         p |-> 0, q |-> 0]]

Complete(p, q, trials) ==
    [type |-> "complete", p |-> p, q |-> q, iterations |-> trials]

\* All the messages of the worker: a number without a divisor in range ends
\* with zeros instead of an error.
Answers(n) ==
    IF Divisors(n) = {} THEN Reports(n, Root(n) + 1) \o <<Complete(0, 0, 0)>>
    ELSE LET p == CHOOSE i \in Divisors(n) : \A j \in Divisors(n) : i <= j IN
         Reports(n, p) \o
         << [type |-> "progress", current |-> p, max |-> Root(n), found |-> TRUE,
             p |-> p, q |-> n \div p],
            Complete(p, n \div p, p - 1) >>

-----------------------------------------------------------------------------
(* The panel and its clients. *)

\* The button, which is there until factors are found.
StartBruteForce ==
    /\ panel /\ ~isRunning /\ found = {}
    /\ runs < MaxRuns
    /\ modulus' \in Challenges
    /\ runs' = runs + 1
    /\ isRunning' = TRUE
    /\ bar' = [bar EXCEPT !.current = 0]
    /\ iterations' = 0
    /\ found' = {}
    /\ pending' = [pending EXCEPT ![runs'] = TRUE]
    /\ worker' = [worker EXCEPT ![runs'] = "asked"]
    /\ UNCHANGED <<channel, panel>>

\* The worker computes and posts; the thread of the page does not wait for it.
Factorize(c) ==
    /\ worker[c] = "asked"
    /\ worker' = [worker EXCEPT ![c] = "done"]
    /\ channel' = [channel EXCEPT ![c] = Answers(modulus)]
    /\ UNCHANGED <<runs, modulus, isRunning, bar, found, iterations, pending, panel>>

\* onmessage: progress goes to the panel, and completion ends the request.
OnMessage(c) ==
    LET m == Head(channel[c]) IN
    /\ channel[c] # <<>>
    /\ channel' = [channel EXCEPT ![c] = Tail(@)]
    /\ IF ~pending[c]
       THEN UNCHANGED <<bar, found, iterations, isRunning, pending>>
       ELSE IF m.type = "progress"
       THEN /\ bar' = [current |-> m.current, max |-> m.max]
            /\ found' = IF m.found THEN {[p |-> m.p, q |-> m.q]} ELSE found
            /\ UNCHANGED <<iterations, isRunning, pending>>
       ELSE /\ iterations' = m.iterations
            /\ isRunning' = FALSE
            /\ pending' = [pending EXCEPT ![c] = FALSE]
            /\ UNCHANGED <<bar, found>>
    /\ UNCHANGED <<runs, modulus, worker, panel>>

\* onerror: the script of the worker does not load, and every request of the
\* client is rejected.
OnError(c) ==
    /\ worker[c] = "asked"
    /\ worker' = [worker EXCEPT ![c] = "gone"]
    /\ pending' = [pending EXCEPT ![c] = FALSE]
    /\ isRunning' = IF pending[c] THEN FALSE ELSE isRunning
    /\ UNCHANGED <<runs, modulus, bar, found, iterations, channel, panel>>

\* The panel is closed: the last client's worker is terminated, with what it
\* has posted, and its requests are forgotten.
ClosePanel ==
    /\ panel
    /\ panel' = FALSE
    /\ IF runs = 0 THEN UNCHANGED <<pending, worker, channel>>
       ELSE /\ pending' = [pending EXCEPT ![runs] = FALSE]
            /\ worker' = [worker EXCEPT ![runs] = "gone"]
            /\ channel' = [channel EXCEPT ![runs] = <<>>]
    /\ UNCHANGED <<runs, modulus, isRunning, bar, found, iterations>>

BruteStep ==
    \/ StartBruteForce \/ ClosePanel
    \/ \E c \in Clients : Factorize(c) \/ OnMessage(c) \/ OnError(c)

-----------------------------------------------------------------------------

\* A run that its worker has answered has cracked its challenge: the factors
\* shown are two primes whose product is the modulus shown, after as many
\* trials as shown, and the bar stands at the smaller one.
CrackedIsTrue ==
    /\ \A f \in found : f.p \in Primes /\ f.q \in Primes /\ f.p * f.q = modulus
                        /\ bar.current = f.p /\ f.p <= bar.max
    /\ panel /\ ~isRunning /\ runs > 0 /\ worker[runs] = "done" =>
         \E f \in found : iterations = f.p - 1
=============================================================================
