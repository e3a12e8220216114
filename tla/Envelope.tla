-------------------------------- MODULE Envelope --------------------------------
(***************************************************************************)
(* The pages of the crypto steps: the user generates the RSA and the AES   *)
(* key (steps 1 and 2), types a message, encrypts it (step 3), step 4      *)
(* wraps the AES key by itself and encrypts once more, step 6 decrypts.    *)
(* Every computation runs in the crypto worker: it works on what its page  *)
(* held when it was started, computations end in any order (Rpc.tla), and  *)
(* each one goes on, and still sends its result to the machine, when the   *)
(* user has left its page.  A page that is opened again is a new one.      *)
(*                                                                         *)
(* A key is the number of its generation, 0 is none; what the keys make is *)
(* described by CryptoEngine.  Step 5 takes no part in this.               *)
(***************************************************************************)
EXTENDS CryptoEngine, MapOps, Integers, FiniteSets

CONSTANTS Texts,         \* messages
          DefaultText,   \* the message of a new machine
          Nothing,       \* step 6 has decrypted nothing
          Failed,        \* step 6 shows "[decryption failed]"
          MAX_KEYS,      \* bound: generations of each kind of key
          MAX_JOBS,      \* bound: computations in flight when the user starts one
          MAX_FAILURES   \* bound: computations that fail

ASSUME EnvelopeAssumption ==
    /\ DefaultText \in Texts
    /\ {Nothing, Failed} \cap Texts = {}
    /\ Nothing # Failed
    /\ MAX_KEYS \in [rsa : Nat, aes : Nat]
    /\ MAX_JOBS \in Nat
    /\ MAX_FAILURES \in Nat

VARIABLES ctx,       \* the context of the machine
          page,      \* the step whose page is shown
          furthest,  \* the first step not yet completed
          view,      \* the state of the page: busy flag, tampered, decryptedText
          jobs,      \* Map: the computations in flight, as their closures hold them
          made,      \* keys of each kind that have been asked for
          failures,  \* computations that have failed
          spoilt     \* observer: has something happened that step 4 cannot repair?

vars == <<ctx, page, furthest, view, jobs, made, failures, spoilt>>

NoKey == 0
NoWrap == RSAEncrypt(NoKey, NoKey)

\* The iv of an encryption is random; two are told apart by what they belong to.
CipherOf(key, text) == AESEncrypt(key, text, <<key, text>>)
NoCipher == CipherOf(NoKey, DefaultText)

\* The context of a new machine.
InitialContext ==
    [rsa |-> NoKey, aes |-> NoKey, text |-> DefaultText,
     wrapped |-> NoWrap, cipher |-> NoCipher]

\* The state of a page that has just been opened.
NewPage == [busy |-> FALSE, tampered |-> FALSE, shown |-> Nothing]

Init ==
    /\ ctx = InitialContext
    /\ page = 1
    /\ furthest = 1
    /\ view = NewPage
    /\ jobs = EmptyMap
    /\ made = [rsa |-> 0, aes |-> 0]
    /\ failures = 0
    /\ spoilt = FALSE

-----------------------------------------------------------------------------

\* One more computation.
Start(js, job) ==
    LET free == CHOOSE i \in 1 .. Cardinality(DOMAIN js) + 1 : i \notin DOMAIN js
    IN  Put(js, free, job)

\* Mutant of WrapDue: the key pair has to be there when the page is opened first.
WrapDueFirst(c, p, v) ==
    p = 4 /\ ~v.busy /\ c.aes # NoKey /\ c.rsa # NoKey /\ c.wrapped = NoWrap /\ ctx = c

\* The condition of the effect of step 4.
WrapDue(c, p, v) ==
    p = 4 /\ ~v.busy /\ c.aes # NoKey /\ c.rsa # NoKey /\ c.wrapped = NoWrap

\* The condition of the effect of step 6, which runs when its dependencies change.
DecryptDue(c, p, changed) ==
    p = 6 /\ changed /\ c.rsa # NoKey /\ c.wrapped # NoWrap /\ c.cipher # NoCipher

\* The context becomes c, page p shows v and js are in flight: React renders and
\* runs the effect of the page.
Render(c, p, v, js, changed) ==
    /\ ctx' = c
    /\ page' = p
    /\ view' = [v EXCEPT !.busy = @ \/ WrapDue(c, p, v) \/ DecryptDue(c, p, changed)]
    /\ jobs' =
         IF WrapDue(c, p, v)
         THEN Start(js, [kind |-> "wrap", mine |-> TRUE,
                         rsa |-> c.rsa, aes |-> c.aes, text |-> c.text])
         ELSE IF DecryptDue(c, p, changed)
         THEN Start(js, [kind |-> "decrypt", mine |-> TRUE, tampered |-> v.tampered,
                         rsa |-> c.rsa, wrapped |-> c.wrapped, cipher |-> c.cipher])
         ELSE js

\* The user is about to start a computation.
MayStart == Cardinality(DOMAIN jobs) < MAX_JOBS

\* What is left of the computations when their page is left: they go on and send
\* what they send, but show nothing any more, which leaves nothing of an animation.
Detached(js) ==
    [i \in {k \in DOMAIN js : js[k].kind # "animation"} |-> [js[i] EXCEPT !.mine = FALSE]]

\* The user moves: NEXT, BACK, or GO_TO a step that is accessible.
Navigate(p) ==
    /\ p # page
    /\ p = page + 1 \/ p <= furthest
    /\ MayStart
    /\ furthest' = IF p > furthest THEN p ELSE furthest
    /\ Render(ctx, p, NewPage, Detached(jobs), TRUE)
    /\ UNCHANGED <<made, failures, spoilt>>

\* A button that starts a computation and is disabled until it ends.
Button(p, job) ==
    /\ page = p
    /\ ~view.busy
    /\ MayStart
    /\ Render(ctx, p, [view EXCEPT !.busy = TRUE], Start(jobs, job), FALSE)
    /\ UNCHANGED <<furthest, failures, spoilt>>

\* handleGenerateKeys in step 1, handleGenerateKey in step 2
GenerateKey(kind, p) ==
    /\ made[kind] < MAX_KEYS[kind]
    /\ Button(p, [kind |-> kind, mine |-> TRUE, key |-> made[kind] + 1])
    /\ made' = [made EXCEPT ![kind] = @ + 1]

\* The input field of step 2
SetPlaintext(t) ==
    /\ page = 2
    /\ t # ctx.text
    /\ Render([ctx EXCEPT !.text = t], page, view, jobs, FALSE)
    /\ UNCHANGED <<furthest, made, failures, spoilt>>

\* runAESAnimation in step 3
RunAESAnimation ==
    /\ ctx.aes # NoKey
    /\ Button(3, [kind |-> "encrypt", mine |-> TRUE, aes |-> ctx.aes, text |-> ctx.text])
    /\ UNCHANGED made

\* runKeyExpansionAnimation in step 3: it computes nothing, but keeps the page busy.
RunKeyExpansionAnimation ==
    /\ ctx.aes # NoKey
    /\ Button(3, [kind |-> "animation", mine |-> TRUE])
    /\ UNCHANGED made

\* Retry Decryption and Simulate Tampered Packet in step 6: the effect runs only
\* if they change `tampered'.
DecryptButton(tampered) ==
    /\ page = 6
    /\ MayStart
    /\ Render(ctx, page, [view EXCEPT !.tampered = tampered, !.shown = Nothing],
              jobs, tampered # view.tampered)
    /\ UNCHANGED <<furthest, made, failures, spoilt>>

\* Start Over: the page is loaded again, and with it a new worker.
StartOver ==
    /\ page = 6
    /\ view.shown \notin {Nothing, EmptyText}
    /\ Render(InitialContext, 1, NewPage, EmptyMap, TRUE)
    /\ furthest' = 1
    /\ spoilt' = FALSE
    /\ UNCHANGED <<made, failures>>

-----------------------------------------------------------------------------

\* Mutant of Finally: the flag is cleared only when the computation succeeded.
FinallyIfDone(j, done) == [view EXCEPT !.busy = @ /\ (~jobs[j].mine \/ ~done)]

\* The page after the finally block of computation j, which may have succeeded
\* or failed.
Finally(j, done) == [view EXCEPT !.busy = @ /\ ~jobs[j].mine]

\* Computation j succeeds, or fails.
Outcome(j, kind, done) ==
    /\ j \in DOMAIN jobs
    /\ jobs[j].kind = kind
    /\ done \/ failures < MAX_FAILURES
    /\ failures' = IF done THEN failures ELSE failures + 1
    /\ UNCHANGED <<furthest, made>>

\* Does this AES key open this ciphertext?
OpensCipher(aes, cipher) ==
    AESDecrypt(aes, cipher.ciphertext, cipher.iv, cipher.authTag).success

\* A computation that fails sends nothing: step 4 leaves the ciphertext there is.
Fails(j) ==
    /\ Render(ctx, page, Finally(j, FALSE), Drop(jobs, j), FALSE)
    /\ spoilt' = (spoilt \/ (jobs[j].kind = "seal" /\ ~OpensCipher(jobs[j].aes, ctx.cipher)))

\* Is this key in the wrapped key or in a computation under way?  (A ciphertext
\* made with an earlier AES key is replaced when step 4 encrypts again.)
Used(kind) ==
    /\ ctx[kind] # NoKey
    /\ \/ ctx.wrapped # NoWrap
       \/ \E i \in DOMAIN jobs :
            \/ jobs[i].kind \in {"wrap", "seal"}
            \/ jobs[i].kind = "encrypt" /\ kind = "aes"

\* Steps 1 and 2: SET_RSA_KEYPAIR, SET_AES_KEY.  Only the key pair is among what
\* the effect of step 6 depends on.
KeyGenerated(j, kind) ==
    \E done \in BOOLEAN :
        /\ Outcome(j, kind, done)
        /\ IF done
           THEN /\ Render([ctx EXCEPT ![kind] = jobs[j].key], page,
                          Finally(j, TRUE), Drop(jobs, j), kind = "rsa")
                /\ spoilt' = (spoilt \/ Used(kind))
           ELSE Fails(j)

\* Step 3: SET_CIPHERTEXT, and the animation begins.
Encrypted(j) ==
    \E done \in BOOLEAN :
        /\ Outcome(j, "encrypt", done)
        /\ IF done
           THEN /\ Render([ctx EXCEPT !.cipher = CipherOf(jobs[j].aes, jobs[j].text)], page, view,
                          IF jobs[j].mine
                          THEN Put(jobs, j, [kind |-> "animation", mine |-> TRUE])
                          ELSE Drop(jobs, j), TRUE)
                /\ UNCHANGED spoilt
           ELSE Fails(j)

AnimationEnds(j) ==
    /\ Outcome(j, "animation", TRUE)
    /\ Render(ctx, page, Finally(j, TRUE), Drop(jobs, j), FALSE)
    /\ UNCHANGED spoilt

\* Mutant of Wrapped: the message is not encrypted again.
WrappedOnly(j) ==
    \E done \in BOOLEAN :
        /\ Outcome(j, "wrap", done)
        /\ IF done
           THEN /\ Render([ctx EXCEPT !.wrapped = RSAEncrypt(jobs[j].rsa, jobs[j].aes)],
                          page, Finally(j, TRUE), Drop(jobs, j), TRUE)
                /\ UNCHANGED spoilt
           ELSE Fails(j)

\* Step 4: SET_WRAPPED_KEY, and the message is encrypted with the key just wrapped.
Wrapped(j) ==
    \E done \in BOOLEAN :
        /\ Outcome(j, "wrap", done)
        /\ IF done
           THEN /\ Render([ctx EXCEPT !.wrapped = RSAEncrypt(jobs[j].rsa, jobs[j].aes)],
                          page, view,
                          Put(jobs, j, [kind |-> "seal", mine |-> jobs[j].mine,
                                        aes |-> jobs[j].aes, text |-> jobs[j].text]),
                          TRUE)
                /\ UNCHANGED spoilt
           ELSE Fails(j)

\* Step 4: SET_CIPHERTEXT
Sealed(j) ==
    \E done \in BOOLEAN :
        /\ Outcome(j, "seal", done)
        /\ IF done
           THEN /\ Render([ctx EXCEPT !.cipher = CipherOf(jobs[j].aes, jobs[j].text)], page,
                          Finally(j, TRUE), Drop(jobs, j), TRUE)
                /\ UNCHANGED spoilt
           ELSE Fails(j)

\* Do this private key and this wrapped key open this ciphertext?
Opens(rsa, wrapped, cipher) ==
    LET unwrapped == RSADecrypt(rsa, wrapped)
    IN  unwrapped.success /\ OpensCipher(unwrapped.data, cipher)

\* The text step 6 gets: tampering flips a bit of the first byte, if there is one.
DecryptedText(job) ==
    LET unwrapped == RSADecrypt(job.rsa, job.wrapped)
        data == IF job.tampered THEN Flipped(job.cipher.ciphertext) ELSE job.cipher.ciphertext
        decrypted == AESDecrypt(unwrapped.data, data, job.cipher.iv, job.cipher.authTag)
    IN  IF unwrapped.success /\ decrypted.success THEN decrypted.data ELSE Failed

\* Step 6: the text or the failure is shown, by the page that asked for it.
Decrypted(j) ==
    \E done \in BOOLEAN :
        /\ Outcome(j, "decrypt", done)
        /\ LET text == IF done THEN DecryptedText(jobs[j]) ELSE Failed
               v == Finally(j, done)
           IN  Render(ctx, page, IF jobs[j].mine THEN [v EXCEPT !.shown = text] ELSE v,
                      Drop(jobs, j), FALSE)
        /\ UNCHANGED spoilt

JobEnds(j) ==
    \/ KeyGenerated(j, "rsa")
    \/ KeyGenerated(j, "aes")
    \/ Encrypted(j)
    \/ AnimationEnds(j)
    \/ Wrapped(j)
    \/ Sealed(j)
    \/ Decrypted(j)

\* A wrapped key that arrives at step 6 starts one computation more.
JobIds == 1 .. 2 * MAX_JOBS

Next ==
    \/ \E p \in 1 .. 6 : Navigate(p)
    \/ GenerateKey("rsa", 1)
    \/ GenerateKey("aes", 2)
    \/ \E t \in Texts : SetPlaintext(t)
    \/ RunAESAnimation
    \/ RunKeyExpansionAnimation
    \/ \E tampered \in BOOLEAN : DecryptButton(tampered)
    \/ StartOver
    \/ \E j \in JobIds : JobEnds(j)

\* The worker answers every request (Rpc.tla) and animations end.
Spec == Init /\ [][Next]_vars /\ \A j \in JobIds : WF_vars(JobEnds(j))

-----------------------------------------------------------------------------

Keys == 0 .. MAX_KEYS.rsa + MAX_KEYS.aes
Wraps == {RSAEncrypt(k, d) : k \in Keys, d \in Keys}
Ciphers == {CipherOf(k, t) : k \in Keys, t \in Texts}
Jobs ==
    [kind : {"rsa", "aes"}, mine : BOOLEAN, key : Keys]
    \cup [kind : {"encrypt", "seal"}, mine : BOOLEAN, aes : Keys, text : Texts]
    \cup [kind : {"animation"}, mine : {TRUE}]
    \cup [kind : {"wrap"}, mine : BOOLEAN, rsa : Keys, aes : Keys, text : Texts]
    \cup [kind : {"decrypt"}, mine : BOOLEAN, tampered : BOOLEAN,
          rsa : Keys, wrapped : Wraps, cipher : Ciphers]

\* Type invariant: at most one computation of the open page clears its flag, but
\* for step 6, where decryptions overlap.
TypeOK ==
    /\ ctx \in [rsa : Keys, aes : Keys, text : Texts, wrapped : Wraps, cipher : Ciphers]
    /\ page \in 1 .. 6
    /\ furthest \in page .. 6
    /\ view \in [busy : BOOLEAN, tampered : BOOLEAN, shown : Texts \cup {Nothing, Failed}]
    /\ DOMAIN jobs \subseteq JobIds
    /\ \A j \in DOMAIN jobs : jobs[j] \in Jobs
    /\ made.rsa \in 0 .. MAX_KEYS.rsa
    /\ made.aes \in 0 .. MAX_KEYS.aes
    /\ failures \in 0 .. MAX_FAILURES
    /\ spoilt \in BOOLEAN
    /\ page # 6 =>
         \A i, j \in DOMAIN jobs : jobs[i].mine /\ jobs[j].mine => i = j

\* The private key opens the wrapped key, and the key in it the ciphertext, once
\* step 4 has encrypted: whatever keys were generated again before, whatever
\* pages were left while they computed, and in whatever order late results came.
\* Only a key replaced while it is wrapped or in use, or an encryption of step 4
\* that fails, spoils that.
EnvelopeOpens ==
    LET sealing == \E j \in DOMAIN jobs : jobs[j].kind = "seal"
        complete == ctx.wrapped # NoWrap /\ ctx.cipher # NoCipher
    IN  complete /\ ~sealing /\ ~spoilt => Opens(ctx.rsa, ctx.wrapped, ctx.cipher)

\* With both keys, step 4 wraps, even if computations fail a number of times.
StepFourWraps ==
    (page = 4 /\ ctx.rsa # NoKey /\ ctx.aes # NoKey) ~> (ctx.wrapped # NoWrap \/ page # 4)

\* No page stays busy for ever: neither its button disabled nor its spinner on.
BusyEnds == view.busy ~> ~view.busy

\* What step 6 says of the message.
Verdict ==
    CASE view.busy -> "decrypting"
      [] ~view.busy /\ view.tampered -> "tampered"
      [] ~view.busy /\ ~view.tampered -> "verified"

\* "Integrity Verified: Message Authentic -- real decrypted plaintext": step 6
\* does not say so above the text of a decryption that failed.
FailureIsNotVerified ==
    page = 6 /\ Verdict = "verified" => view.shown # Failed
=============================================================================
