----------------------------- MODULE EnvelopeProofs -----------------------------
(***************************************************************************)
(* Proofs about the pages of the crypto steps, for any number of keys,     *)
(* messages, computations in flight and failures: what the machine holds   *)
(* in the end opens, and a page is out of step with the machine only after *)
(* a late result.  What is needed is which keys the computations under way *)
(* hold, and to which page they belong.                                    *)
(***************************************************************************)
EXTENDS StepPages, FiniteSetTheorems, TLAPS

-----------------------------------------------------------------------------
(* What the engines make of keys.                                          *)

\* The key a ciphertext was made with opens it, also one without a byte, which
\* is all tag.
LEMMA EncryptionOpens ==
    ASSUME NEW key, NEW text
    PROVE  OpensCipher(key, CipherOf(key, text))
<1> DEFINE iv == <<key, text>>
           tag == [key |-> key, iv |-> iv, text |-> text]
           body == [key |-> key, iv |-> iv, text |-> text, flipped |-> FALSE]
<1>1. PICK bytes : bytes = SubtleEncrypt(key, iv, text)
  OBVIOUS
<1>2. bytes = <<tag>> \/ bytes = <<body, tag>>
  BY <1>1 DEF SubtleEncrypt
<1>3. /\ CipherOf(key, text).iv = iv
      /\ CipherOf(key, text).ciphertext = SubSeq(bytes, 1, Len(bytes) - 1)
      /\ CipherOf(key, text).authTag = SubSeq(bytes, Len(bytes), Len(bytes))
  BY <1>1 DEF CipherOf, AESEncrypt
<1> HIDE DEF tag, body
<1>4. /\ bytes # <<>> /\ bytes[Len(bytes)] = tag
      /\ SubSeq(bytes, 1, Len(bytes) - 1) \o SubSeq(bytes, Len(bytes), Len(bytes)) = bytes
  BY <1>2
<1>5. IsTag(tag) /\ tag.text = text
  BY DEF IsTag, tag
<1>6. SubtleDecrypt(key, iv, bytes) = Ok(text)
  BY <1>1, <1>4, <1>5 DEF SubtleDecrypt
<1>7. OpensCipher(key, CipherOf(key, text)) = SubtleDecrypt(key, iv, bytes).success
  <2>1. PICK cipher : cipher = CipherOf(key, text)
    OBVIOUS
  <2>2. OpensCipher(key, cipher) = SubtleDecrypt(key, cipher.iv, cipher.ciphertext \o cipher.authTag).success
    BY Zenon DEF OpensCipher, AESDecrypt
  <2>3. cipher.iv = iv /\ cipher.ciphertext \o cipher.authTag = bytes
    BY <1>3, <1>4, <2>1, Zenon
  <2>4. QED
    BY <2>1, <2>2, <2>3, Zenon
<1>8. Ok(text).success
  BY DEF Ok
<1>9. QED
  BY <1>6, <1>7, <1>8, Zenon

\* A wrapped key and a ciphertext made with the same keys open each other.
LEMMA EnvelopesOpen ==
    ASSUME NEW rsa, NEW aes, NEW cipher, OpensCipher(aes, cipher)
    PROVE  Opens(rsa, RSAEncrypt(rsa, aes), cipher)
BY DEF Opens, RSAEncrypt, RSADecrypt, Ok

-----------------------------------------------------------------------------
(* The computations in flight.                                             *)

\* A computation has what its handler captured, and belongs to the page that
\* started it as long as that page is open.
JobOK(job, p) ==
    /\ \/ /\ job.kind \in {"rsa", "aes"} /\ DOMAIN job = {"kind", "mine", "key"}
          /\ job.key \in Nat \ {NoKey}
       \/ job.kind \in {"encrypt", "seal"} /\ DOMAIN job = {"kind", "mine", "aes", "text"}
       \/ job.kind = "animation" /\ DOMAIN job = {"kind", "mine"}
       \/ job.kind = "wrap" /\ DOMAIN job = {"kind", "mine", "rsa", "aes", "text"}
       \/ /\ job.kind = "decrypt"
          /\ DOMAIN job = {"kind", "mine", "tampered", "rsa", "wrapped", "cipher"}
    /\ job.mine /\ job.kind = "rsa" => p = 1
    /\ job.mine /\ job.kind = "aes" => p = 2
    /\ job.mine /\ job.kind = "encrypt" => p = 3
    /\ job.mine /\ job.kind \in {"wrap", "seal"} => p = 4

JobsOK(js, p) == IsFiniteSet(DOMAIN js) /\ \A i \in DOMAIN js : JobOK(js[i], p)

\* The keys that a computation has captured are still those of the machine.
HasBoth(c) == c.rsa # NoKey /\ c.aes # NoKey
HoldsKeys(job, c) ==
    /\ job.kind = "wrap" => job.rsa = c.rsa /\ job.aes = c.aes /\ HasBoth(c)
    /\ job.kind = "seal" => job.aes = c.aes /\ HasBoth(c)
    /\ job.kind = "encrypt" => job.aes = c.aes /\ c.aes # NoKey

SealGoesOn(js) == \E i \in DOMAIN js : js[i].kind = "seal"

\* What is wrapped or being made is made with the keys of the machine, and once
\* the encryptions of step 4 are over the ciphertext is as well.
Sound(c, js) ==
    /\ \A i \in DOMAIN js : HoldsKeys(js[i], c)
    /\ c.wrapped # NoWrap => c.wrapped = RSAEncrypt(c.rsa, c.aes) /\ HasBoth(c)
    /\ c.wrapped # NoWrap /\ c.cipher # NoCipher /\ ~SealGoesOn(js) => OpensCipher(c.aes, c.cipher)

\* One computation more takes an id that is free.
LEMMA StartsAnother ==
    ASSUME NEW js, IsFiniteSet(DOMAIN js), NEW job
    PROVE  \E free : free \notin DOMAIN js /\ Start(js, job) = Put(js, free, job)
<1> DEFINE n == Cardinality(DOMAIN js)
           free == CHOOSE i \in 1 .. n + 1 : i \notin DOMAIN js
<1>1. n \in Nat
  BY FS_CardinalityType
<1>2. \E i \in 1 .. n + 1 : i \notin DOMAIN js
  <2>1. SUFFICES ASSUME 1 .. n + 1 \subseteq DOMAIN js
                 PROVE  FALSE
    OBVIOUS
  <2>2. Cardinality(1 .. n + 1) <= n
    BY <2>1, FS_Subset
  <2>3. Cardinality(1 .. n + 1) = n + 1
    BY <1>1, FS_Interval
  <2>4. QED
    BY <1>1, <2>2, <2>3
<1>3. free \notin DOMAIN js
  BY <1>2
<1>4. Start(js, job) = Put(js, free, job)
  BY DEF Start
<1>5. QED
  BY <1>3, <1>4

LEMMA Started ==
    ASSUME NEW js, NEW p, JobsOK(js, p), NEW job, JobOK(job, p)
    PROVE  /\ JobsOK(Start(js, job), p)
           /\ job.kind # "seal" => (SealGoesOn(Start(js, job)) <=> SealGoesOn(js))
           /\ \A c : /\ HoldsKeys(job, c)
                     /\ \A i \in DOMAIN js : HoldsKeys(js[i], c)
                     => \A i \in DOMAIN Start(js, job) : HoldsKeys(Start(js, job)[i], c)
<1>1. PICK free : free \notin DOMAIN js /\ Start(js, job) = Put(js, free, job)
  BY StartsAnother DEF JobsOK
<1>2. DOMAIN Put(js, free, job) = DOMAIN js \cup {free}
  BY DEF Put
<1>3. /\ Put(js, free, job)[free] = job
      /\ \A i \in DOMAIN js : Put(js, free, job)[i] = js[i]
  BY <1>1 DEF Put
<1>4. IsFiniteSet(DOMAIN js \cup {free})
  BY FS_AddElement DEF JobsOK
<1>5. QED
  BY <1>1, <1>2, <1>3, <1>4 DEF JobsOK, SealGoesOn

\* A computation takes another one's place, or goes.
LEMMA Replaced ==
    ASSUME NEW js, NEW p, JobsOK(js, p), NEW j \in DOMAIN js
    PROVE  /\ JobsOK(Drop(js, j), p)
           /\ js[j].kind # "seal" => (SealGoesOn(Drop(js, j)) <=> SealGoesOn(js))
           /\ \A c : (\A i \in DOMAIN js : HoldsKeys(js[i], c)) =>
                        \A i \in DOMAIN Drop(js, j) : HoldsKeys(Drop(js, j)[i], c)
           /\ \A job : JobOK(job, p) =>
                /\ JobsOK(Put(js, j, job), p)
                /\ job.kind = "seal" => SealGoesOn(Put(js, j, job))
                /\ {job.kind, js[j].kind} \cap {"seal"} = {} => (SealGoesOn(Put(js, j, job)) <=> SealGoesOn(js))
                /\ \A c : /\ HoldsKeys(job, c)
                          /\ \A i \in DOMAIN js : HoldsKeys(js[i], c)
                          => \A i \in DOMAIN Put(js, j, job) : HoldsKeys(Put(js, j, job)[i], c)
<1>1. /\ DOMAIN Drop(js, j) = DOMAIN js \ {j}
      /\ \A i \in DOMAIN js \ {j} : Drop(js, j)[i] = js[i]
  BY DEF Drop
<1>2. IsFiniteSet(DOMAIN js \ {j})
  BY FS_RemoveElement DEF JobsOK
<1>3. ASSUME NEW job
      PROVE  /\ DOMAIN Put(js, j, job) = DOMAIN js
             /\ Put(js, j, job)[j] = job
             /\ \A i \in DOMAIN js \ {j} : Put(js, j, job)[i] = js[i]
  BY DEF Put
<1>4. /\ JobsOK(Drop(js, j), p)
      /\ js[j].kind # "seal" => (SealGoesOn(Drop(js, j)) <=> SealGoesOn(js))
      /\ \A c : (\A i \in DOMAIN js : HoldsKeys(js[i], c)) =>
                   \A i \in DOMAIN Drop(js, j) : HoldsKeys(Drop(js, j)[i], c)
  BY <1>1, <1>2 DEF JobsOK, SealGoesOn
<1>5. ASSUME NEW job, JobOK(job, p)
      PROVE  /\ JobsOK(Put(js, j, job), p)
             /\ job.kind = "seal" => SealGoesOn(Put(js, j, job))
             /\ {job.kind, js[j].kind} \cap {"seal"} = {} => (SealGoesOn(Put(js, j, job)) <=> SealGoesOn(js))
             /\ \A c : /\ HoldsKeys(job, c)
                       /\ \A i \in DOMAIN js : HoldsKeys(js[i], c)
                       => \A i \in DOMAIN Put(js, j, job) : HoldsKeys(Put(js, j, job)[i], c)
  BY <1>3, <1>5 DEF JobsOK, SealGoesOn
<1>6. QED
  BY <1>4, <1>5

\* When the page is left, its computations keep what they hold.
LEMMA DetachedJobs ==
    ASSUME NEW js, NEW p, JobsOK(js, p), NEW q
    PROVE  /\ JobsOK(Detached(js), q)
           /\ SealGoesOn(Detached(js)) <=> SealGoesOn(js)
           /\ \A c : (\A i \in DOMAIN js : HoldsKeys(js[i], c)) =>
                        \A i \in DOMAIN Detached(js) : HoldsKeys(Detached(js)[i], c)
<1>1. /\ DOMAIN Detached(js) = {k \in DOMAIN js : js[k].kind # "animation"}
      /\ \A i \in DOMAIN Detached(js) : Detached(js)[i] = [js[i] EXCEPT !.mine = FALSE]
  BY DEF Detached
<1>2. ASSUME NEW i \in DOMAIN js, NEW job, job = [js[i] EXCEPT !.mine = FALSE]
      PROVE  /\ JobOK(job, q)
             /\ job.kind = js[i].kind
             /\ \A c : HoldsKeys(js[i], c) => HoldsKeys(job, c)
  <2>1. JobOK(js[i], p)
    BY DEF JobsOK
  <2>2. DOMAIN job = DOMAIN js[i] /\ job.mine = FALSE /\ job.kind = js[i].kind
    BY <1>2, <2>1 DEF JobOK
  <2>3. /\ js[i].kind \in {"rsa", "aes"} => job.key = js[i].key
        /\ js[i].kind \in {"encrypt", "seal", "wrap"} => job.aes = js[i].aes
        /\ js[i].kind = "wrap" => job.rsa = js[i].rsa
    BY <1>2, <2>1 DEF JobOK
  <2>4. JobOK(job, q)
    BY <2>1, <2>2, <2>3 DEF JobOK
  <2>5. QED
    BY <2>2, <2>3, <2>4 DEF HoldsKeys
<1>3. IsFiniteSet(DOMAIN Detached(js))
  BY <1>1, FS_Subset DEF JobsOK
<1>4. QED
  BY <1>1, <1>2, <1>3 DEF JobsOK, SealGoesOn

\* Rendering starts at most a computation that step 4 or step 6 owes.
LEMMA Rendered ==
    ASSUME NEW c, NEW p, NEW v, NEW js, NEW changed, Render(c, p, v, js, changed), JobsOK(js, p)
    PROVE  /\ ctx' = c /\ page' = p
           /\ JobsOK(jobs', p)
           /\ Sound(c, js) => Sound(c, jobs')
           /\ p \notin {4, 6} => jobs' = js
<1>1. CASE WrapDue(c, p, v)
  <2>1. PICK job : job = [kind |-> "wrap", mine |-> TRUE, rsa |-> c.rsa, aes |-> c.aes, text |-> c.text]
    OBVIOUS
  <2>2. jobs' = Start(js, job) /\ ctx' = c /\ page' = p /\ p = 4
    BY <1>1, <2>1 DEF Render, WrapDue
  <2>3. JobOK(job, p) /\ HoldsKeys(job, c) /\ job.kind # "seal"
    BY <1>1, <2>1 DEF JobOK, HoldsKeys, HasBoth, WrapDue
  <2>4. QED
    BY <2>2, <2>3, Started DEF Sound
<1>2. CASE ~WrapDue(c, p, v) /\ DecryptDue(c, p, changed)
  <2>1. PICK job : job = [kind |-> "decrypt", mine |-> TRUE, tampered |-> v.tampered,
                          rsa |-> c.rsa, wrapped |-> c.wrapped, cipher |-> c.cipher]
    OBVIOUS
  <2>2. jobs' = Start(js, job) /\ ctx' = c /\ page' = p /\ p = 6
    BY <1>2, <2>1 DEF Render, DecryptDue
  <2>3. JobOK(job, p) /\ HoldsKeys(job, c) /\ job.kind # "seal"
    BY <2>1 DEF JobOK, HoldsKeys
  <2>4. QED
    BY <2>2, <2>3, Started DEF Sound
<1>3. CASE ~WrapDue(c, p, v) /\ ~DecryptDue(c, p, changed)
  BY <1>3 DEF Render
<1>4. QED
  BY <1>1, <1>2, <1>3

-----------------------------------------------------------------------------
(* The invariant.                                                          *)

\* The machine and its counters are what they are taken for.
MachineOK ==
    /\ page \in 1 .. 6
    /\ DOMAIN ctx = {"rsa", "aes", "text", "wrapped", "cipher"}
    /\ failures \in Nat
    /\ DOMAIN made = {"rsa", "aes"} /\ made.rsa \in Nat /\ made.aes \in Nat

EnvelopeInv == MachineOK /\ JobsOK(jobs, page) /\ (~spoilt => Sound(ctx, jobs))

LEMMA NoJobs ==
    /\ DOMAIN EmptyMap = {}
    /\ \A p : JobsOK(EmptyMap, p)
    /\ Sound(InitialContext, EmptyMap)
<1>1. DOMAIN EmptyMap = {}
  BY DEF EmptyMap
<1>2. QED
  BY <1>1, FS_EmptySet DEF JobsOK, Sound, InitialContext, NoKey

LEMMA InitEnvelopeInv == Init => EnvelopeInv
  BY NoJobs DEF Init, EnvelopeInv, MachineOK, InitialContext

\* A step that renders: what is rendered has to be sound, and belong to the page.
LEMMA RenderKeepsInv ==
    ASSUME EnvelopeInv, NEW c, NEW p \in 1 .. 6, NEW v, NEW js, NEW changed, Render(c, p, v, js, changed),
           DOMAIN c = {"rsa", "aes", "text", "wrapped", "cipher"},
           JobsOK(js, p), ~spoilt' => Sound(c, js),
           failures' \in Nat, UNCHANGED made
    PROVE  EnvelopeInv'
BY Rendered DEF EnvelopeInv, MachineOK

LEMMA NavigateStep ==
    ASSUME EnvelopeInv, NEW p \in 1 .. 6, Navigate(p)
    PROVE  EnvelopeInv'
<1>1. Render(ctx, p, NewPage, Detached(jobs), TRUE) /\ UNCHANGED <<made, failures, spoilt>>
  BY DEF Navigate
<1>2. JobsOK(Detached(jobs), p) /\ (~spoilt => Sound(ctx, Detached(jobs)))
  BY DetachedJobs DEF EnvelopeInv, Sound
<1>3. QED
  BY <1>1, <1>2, RenderKeepsInv DEF EnvelopeInv, MachineOK

LEMMA ButtonStep ==
    ASSUME EnvelopeInv, NEW job, JobOK(job, page), job.kind # "seal", ~spoilt => HoldsKeys(job, ctx),
           Button(page, job)
    PROVE  /\ JobsOK(jobs', page') /\ (~spoilt' => Sound(ctx', jobs'))
           /\ UNCHANGED <<ctx, page, failures, spoilt>>
<1>1. /\ Render(ctx, page, [view EXCEPT !.busy = TRUE], Start(jobs, job), FALSE)
      /\ UNCHANGED <<failures, spoilt>>
  BY DEF Button
<1>2. JobsOK(Start(jobs, job), page) /\ (~spoilt => Sound(ctx, Start(jobs, job)))
  BY Started DEF EnvelopeInv, Sound
<1>3. QED
  BY <1>1, <1>2, Rendered

LEMMA GenerateStep ==
    ASSUME EnvelopeInv, GenerateKey("rsa", 1) \/ GenerateKey("aes", 2)
    PROVE  EnvelopeInv' /\ UNCHANGED <<ctx, page>>
<1>1. PICK kind \in {"rsa", "aes"}, p \in {1, 2} :
        GenerateKey(kind, p) /\ (kind = "rsa" => p = 1) /\ (kind = "aes" => p = 2)
  OBVIOUS
<1>2. PICK job : job = [kind |-> kind, mine |-> TRUE, key |-> made[kind] + 1]
  OBVIOUS
<1>3. Button(p, job) /\ made' = [made EXCEPT ![kind] = @ + 1] /\ p = page
  BY <1>1, <1>2 DEF GenerateKey, Button
<1>4. JobOK(job, page) /\ HoldsKeys(job, ctx) /\ job.kind # "seal"
  BY <1>1, <1>2, <1>3 DEF JobOK, HoldsKeys, EnvelopeInv, MachineOK, NoKey
<1>5. /\ JobsOK(jobs', page') /\ (~spoilt' => Sound(ctx', jobs'))
      /\ UNCHANGED <<ctx, page, failures, spoilt>>
  BY <1>3, <1>4, ButtonStep
<1>6. QED
  BY <1>3, <1>5 DEF EnvelopeInv, MachineOK

LEMMA AnimationStep ==
    ASSUME EnvelopeInv, RunAESAnimation \/ RunKeyExpansionAnimation
    PROVE  EnvelopeInv' /\ UNCHANGED <<ctx, page>>
<1>1. PICK job : /\ Button(page, job) /\ page = 3 /\ ctx.aes # NoKey /\ UNCHANGED made
                 /\ \/ job = [kind |-> "encrypt", mine |-> TRUE, aes |-> ctx.aes, text |-> ctx.text]
                    \/ job = [kind |-> "animation", mine |-> TRUE]
  BY DEF RunAESAnimation, RunKeyExpansionAnimation, Button
<1>2. JobOK(job, page) /\ HoldsKeys(job, ctx) /\ job.kind # "seal"
  BY <1>1 DEF JobOK, HoldsKeys
<1>3. /\ JobsOK(jobs', page') /\ (~spoilt' => Sound(ctx', jobs'))
      /\ UNCHANGED <<ctx, page, failures, spoilt>>
  BY <1>1, <1>2, ButtonStep
<1>4. QED
  BY <1>1, <1>3 DEF EnvelopeInv, MachineOK

\* The user types, retries, tampers or starts over.
LEMMA UserStep ==
    ASSUME EnvelopeInv,
           \/ \E t \in Texts : SetPlaintext(t)
           \/ \E tampered \in BOOLEAN : DecryptButton(tampered)
           \/ StartOver
    PROVE  EnvelopeInv'
<1>1. ASSUME NEW t \in Texts, SetPlaintext(t)
      PROVE  EnvelopeInv'
  <2>1. PICK c : c = [ctx EXCEPT !.text = t]
    OBVIOUS
  <2>2. Render(c, page, view, jobs, FALSE) /\ UNCHANGED <<made, failures, spoilt>>
    BY <1>1, <2>1 DEF SetPlaintext
  <2>3. /\ DOMAIN c = {"rsa", "aes", "text", "wrapped", "cipher"}
        /\ c.rsa = ctx.rsa /\ c.aes = ctx.aes /\ c.wrapped = ctx.wrapped /\ c.cipher = ctx.cipher
    BY <2>1 DEF EnvelopeInv, MachineOK
  <2>4. ~spoilt => Sound(c, jobs)
    BY <2>3 DEF EnvelopeInv, Sound, HoldsKeys, HasBoth
  <2>5. QED
    BY <2>2, <2>3, <2>4, RenderKeepsInv DEF EnvelopeInv, MachineOK
<1>2. ASSUME NEW tampered \in BOOLEAN, DecryptButton(tampered)
      PROVE  EnvelopeInv'
  <2>1. PICK v, changed : Render(ctx, page, v, jobs, changed) /\ UNCHANGED <<made, failures, spoilt>>
    BY <1>2, Zenon DEF DecryptButton
  <2>2. QED
    BY <2>1, RenderKeepsInv DEF EnvelopeInv, MachineOK
<1>3. CASE StartOver
  <2>1. PICK c, p, v, js, changed :
          c = InitialContext /\ p = 1 /\ v = NewPage /\ js = EmptyMap /\ changed = TRUE
    OBVIOUS
  <2>2. Render(c, p, v, js, changed) /\ UNCHANGED <<made, failures>>
    BY <1>3, <2>1 DEF StartOver
  <2>3. DOMAIN c = {"rsa", "aes", "text", "wrapped", "cipher"}
    BY <2>1 DEF InitialContext
  <2>4. p \in 1 .. 6
    BY <2>1
  <2>5. JobsOK(js, p) /\ Sound(c, js)
    BY <2>1, NoJobs, Zenon
  <2>6. failures' \in Nat /\ UNCHANGED made
    BY <2>2 DEF EnvelopeInv, MachineOK
  <2>7. QED
    BY <2>2, <2>3, <2>4, <2>5, <2>6, RenderKeepsInv
<1>4. QED
  BY <1>1, <1>2, <1>3

\* A computation that was not to seal ends without a result.
LEMMA EndsWithNothing ==
    ASSUME EnvelopeInv, NEW j \in DOMAIN jobs, NEW v,
           Render(ctx, page, v, Drop(jobs, j), FALSE), failures' \in Nat, UNCHANGED made,
           ~spoilt' => ~spoilt,
           jobs[j].kind = "seal" /\ ~spoilt' => OpensCipher(jobs[j].aes, ctx.cipher)
    PROVE  EnvelopeInv'
<1>1. JobsOK(Drop(jobs, j), page)
  BY Replaced DEF EnvelopeInv
<1>2. ~spoilt' => Sound(ctx, Drop(jobs, j))
  <2>1. SUFFICES ASSUME ~spoilt'
                 PROVE  Sound(ctx, Drop(jobs, j))
    OBVIOUS
  <2>2. JobsOK(jobs, page) /\ Sound(ctx, jobs)
    BY <2>1 DEF EnvelopeInv
  <2>3. \A i \in DOMAIN Drop(jobs, j) : HoldsKeys(Drop(jobs, j)[i], ctx)
    BY <2>2, Replaced DEF Sound
  <2>4. CASE jobs[j].kind = "seal"
    BY <2>1, <2>2, <2>3, <2>4 DEF Sound, HoldsKeys
  <2>5. CASE jobs[j].kind # "seal"
    BY <2>2, <2>3, <2>5, Replaced DEF Sound
  <2>6. QED
    BY <2>4, <2>5
<1>3. PICK changed : changed = FALSE /\ Render(ctx, page, v, Drop(jobs, j), changed)
  OBVIOUS
<1>4. page \in 1 .. 6 /\ DOMAIN ctx = {"rsa", "aes", "text", "wrapped", "cipher"}
  BY DEF EnvelopeInv, MachineOK
<1>5. QED
  BY <1>1, <1>2, <1>3, <1>4, RenderKeepsInv

LEMMA FailsStep ==
    ASSUME EnvelopeInv, NEW j \in DOMAIN jobs, Fails(j), failures' \in Nat, UNCHANGED made
    PROVE  EnvelopeInv'
<1>1. PICK v : Render(ctx, page, v, Drop(jobs, j), FALSE)
  BY DEF Fails
<1>2. spoilt' = (spoilt \/ (jobs[j].kind = "seal" /\ ~OpensCipher(jobs[j].aes, ctx.cipher)))
  BY DEF Fails
<1>3. QED
  BY <1>1, <1>2, EndsWithNothing

\* What every computation that ends leaves alone.
LEMMA OutcomeCounts ==
    ASSUME EnvelopeInv, NEW j, NEW kind, NEW done, Outcome(j, kind, done)
    PROVE  /\ j \in DOMAIN jobs /\ jobs[j].kind = kind
           /\ failures' \in Nat /\ UNCHANGED <<furthest, made>>
           /\ done \/ failures' = failures + 1
           /\ done => failures' = failures
BY DEF Outcome, EnvelopeInv, MachineOK

\* A key that replaces one that is used spoils the envelope; another one does not.
LEMMA NewKeyIsSound ==
    ASSUME EnvelopeInv, ~spoilt, NEW kind \in {"rsa", "aes"}, ~Used(kind),
           NEW j \in DOMAIN jobs, jobs[j].kind = kind
    PROVE  Sound([ctx EXCEPT ![kind] = jobs[j].key], Drop(jobs, j))
<1>1. PICK c : c = [ctx EXCEPT ![kind] = jobs[j].key]
  OBVIOUS
<1>2. /\ c.wrapped = ctx.wrapped /\ c.cipher = ctx.cipher
      /\ kind = "rsa" => c.aes = ctx.aes
  BY <1>1 DEF EnvelopeInv, MachineOK
<1>3. Sound(ctx, jobs)
  BY DEF EnvelopeInv
<1>4. ctx.wrapped = NoWrap
  BY <1>3 DEF Sound, HasBoth, Used
<1>5. ASSUME NEW i \in DOMAIN jobs
      PROVE  HoldsKeys(jobs[i], c)
  <2>1. HoldsKeys(jobs[i], ctx)
    BY <1>3 DEF Sound
  <2>2. jobs[i].kind \notin {"wrap", "seal"}
    BY <2>1 DEF HoldsKeys, HasBoth, Used
  <2>3. jobs[i].kind = "encrypt" => kind = "rsa"
    BY <2>1 DEF HoldsKeys, Used
  <2>4. QED
    BY <1>2, <2>1, <2>2, <2>3 DEF HoldsKeys
<1>6. \A i \in DOMAIN Drop(jobs, j) : HoldsKeys(Drop(jobs, j)[i], c)
  BY <1>5, Replaced DEF EnvelopeInv
<1>7. QED
  BY <1>1, <1>2, <1>4, <1>6 DEF Sound

LEMMA KeyGeneratedStep ==
    ASSUME EnvelopeInv, NEW j, NEW kind \in {"rsa", "aes"}, KeyGenerated(j, kind)
    PROVE  EnvelopeInv'
<1>1. PICK done \in BOOLEAN :
        /\ Outcome(j, kind, done)
        /\ IF done
           THEN /\ Render([ctx EXCEPT ![kind] = jobs[j].key], page,
                          Finally(j, TRUE), Drop(jobs, j), kind = "rsa")
                /\ spoilt' = (spoilt \/ Used(kind))
           ELSE Fails(j)
  BY DEF KeyGenerated
<1>2. j \in DOMAIN jobs /\ jobs[j].kind = kind /\ failures' \in Nat /\ UNCHANGED made
  BY <1>1, OutcomeCounts
<1>3. CASE ~done
  BY <1>1, <1>2, <1>3, FailsStep
<1>4. CASE done
  <2>1. PICK c, v, js, changed :
          /\ c = [ctx EXCEPT ![kind] = jobs[j].key] /\ js = Drop(jobs, j)
          /\ Render(c, page, v, js, changed)
    BY <1>1, <1>4
  <2>2. DOMAIN c = {"rsa", "aes", "text", "wrapped", "cipher"} /\ page \in 1 .. 6
    BY <2>1 DEF EnvelopeInv, MachineOK
  <2>3. JobsOK(js, page)
    BY <1>2, <2>1, Replaced DEF EnvelopeInv
  <2>4. ~spoilt' => Sound(c, js)
    BY <1>1, <1>2, <1>4, <2>1, NewKeyIsSound
  <2>5. QED
    BY <1>2, <2>1, <2>2, <2>3, <2>4, RenderKeepsInv
<1>5. QED
  BY <1>3, <1>4

\* A new ciphertext is made with the key of the machine.
LEMMA NewCipherIsSound ==
    ASSUME EnvelopeInv, ~spoilt, NEW j \in DOMAIN jobs, jobs[j].kind \in {"encrypt", "seal"},
           NEW js, \A i \in DOMAIN js : HoldsKeys(js[i], ctx)
    PROVE  Sound([ctx EXCEPT !.cipher = CipherOf(jobs[j].aes, jobs[j].text)], js)
<1>1. PICK c : c = [ctx EXCEPT !.cipher = CipherOf(jobs[j].aes, jobs[j].text)]
  OBVIOUS
<1>2. /\ c.cipher = CipherOf(jobs[j].aes, jobs[j].text)
      /\ c.wrapped = ctx.wrapped /\ c.rsa = ctx.rsa /\ c.aes = ctx.aes
  BY <1>1 DEF EnvelopeInv, MachineOK
<1>3. Sound(ctx, jobs) /\ HoldsKeys(jobs[j], ctx)
  BY DEF EnvelopeInv, Sound
<1>4. jobs[j].aes = ctx.aes
  BY <1>3 DEF HoldsKeys
<1>5. OpensCipher(c.aes, c.cipher)
  BY <1>2, <1>4, EncryptionOpens
<1>6. QED
  BY <1>1, <1>2, <1>3, <1>5 DEF Sound, HoldsKeys, HasBoth

LEMMA EncryptedStep ==
    ASSUME EnvelopeInv, NEW j, Encrypted(j)
    PROVE  EnvelopeInv'
<1>1. PICK done \in BOOLEAN :
        /\ Outcome(j, "encrypt", done)
        /\ IF done
           THEN /\ Render([ctx EXCEPT !.cipher = CipherOf(jobs[j].aes, jobs[j].text)], page, view,
                          IF jobs[j].mine
                          THEN Put(jobs, j, [kind |-> "animation", mine |-> TRUE])
                          ELSE Drop(jobs, j), TRUE)
                /\ UNCHANGED spoilt
           ELSE Fails(j)
  BY DEF Encrypted
<1>2. j \in DOMAIN jobs /\ jobs[j].kind = "encrypt" /\ failures' \in Nat /\ UNCHANGED made
  BY <1>1, OutcomeCounts
<1>3. CASE ~done
  BY <1>1, <1>2, <1>3, FailsStep
<1>4. CASE done
  <2>1. PICK c, v, js, changed :
          /\ c = [ctx EXCEPT !.cipher = CipherOf(jobs[j].aes, jobs[j].text)]
          /\ Render(c, page, v, js, changed)
          /\ js = IF jobs[j].mine THEN Put(jobs, j, [kind |-> "animation", mine |-> TRUE])
                  ELSE Drop(jobs, j)
    BY <1>1, <1>4
  <2>2. PICK animation : animation = [kind |-> "animation", mine |-> TRUE]
    OBVIOUS
  <2>3. JobOK(animation, page) /\ \A d : HoldsKeys(animation, d)
    BY <2>2 DEF JobOK, HoldsKeys
  <2>4. js = Put(jobs, j, animation) \/ js = Drop(jobs, j)
    BY <2>1, <2>2
  <2>5. JobsOK(jobs, page) /\ (~spoilt => Sound(ctx, jobs))
    BY DEF EnvelopeInv
  <2>6. JobsOK(js, page)
    BY <1>2, <2>3, <2>4, <2>5, Replaced
  <2>7. ~spoilt => \A i \in DOMAIN js : HoldsKeys(js[i], ctx)
    BY <1>2, <2>3, <2>4, <2>5, Replaced DEF Sound
  <2>8. ~spoilt' => Sound(c, js)
    BY <1>1, <1>2, <1>4, <2>1, <2>7, NewCipherIsSound
  <2>9. DOMAIN c = {"rsa", "aes", "text", "wrapped", "cipher"} /\ page \in 1 .. 6
    BY <2>1 DEF EnvelopeInv, MachineOK
  <2>10. QED
    BY <1>2, <2>1, <2>6, <2>8, <2>9, RenderKeepsInv
<1>5. QED
  BY <1>3, <1>4

LEMMA WrappedStep ==
    ASSUME EnvelopeInv, NEW j, Wrapped(j)
    PROVE  EnvelopeInv'
<1>1. PICK done \in BOOLEAN :
        /\ Outcome(j, "wrap", done)
        /\ IF done
           THEN /\ Render([ctx EXCEPT !.wrapped = RSAEncrypt(jobs[j].rsa, jobs[j].aes)],
                          page, view,
                          Put(jobs, j, [kind |-> "seal", mine |-> jobs[j].mine,
                                        aes |-> jobs[j].aes, text |-> jobs[j].text]),
                          TRUE)
                /\ UNCHANGED spoilt
           ELSE Fails(j)
  BY DEF Wrapped
<1>2. j \in DOMAIN jobs /\ jobs[j].kind = "wrap" /\ failures' \in Nat /\ UNCHANGED made
  BY <1>1, OutcomeCounts
<1>3. CASE ~done
  BY <1>1, <1>2, <1>3, FailsStep
<1>4. CASE done
  <2>1. PICK c, v, js, job, changed :
          /\ c = [ctx EXCEPT !.wrapped = RSAEncrypt(jobs[j].rsa, jobs[j].aes)]
          /\ job = [kind |-> "seal", mine |-> jobs[j].mine, aes |-> jobs[j].aes, text |-> jobs[j].text]
          /\ js = Put(jobs, j, job)
          /\ Render(c, page, v, js, changed)
    BY <1>1, <1>4
  <2>2. /\ c.wrapped = RSAEncrypt(jobs[j].rsa, jobs[j].aes)
        /\ c.rsa = ctx.rsa /\ c.aes = ctx.aes /\ c.cipher = ctx.cipher
        /\ DOMAIN c = {"rsa", "aes", "text", "wrapped", "cipher"} /\ page \in 1 .. 6
    BY <2>1 DEF EnvelopeInv, MachineOK
  <2>3. JobOK(job, page) /\ job.kind = "seal" /\ job.aes = jobs[j].aes
    <3>1. JobOK(jobs[j], page)
      BY <1>2 DEF EnvelopeInv, JobsOK
    <3>2. QED
      BY <1>2, <2>1, <3>1 DEF JobOK
  <2>4. JobsOK(jobs, page) /\ (~spoilt => Sound(ctx, jobs))
    BY DEF EnvelopeInv
  <2>5. JobsOK(js, page) /\ SealGoesOn(js)
    BY <1>2, <2>1, <2>3, <2>4, Replaced
  <2>6. ASSUME ~spoilt
        PROVE  Sound(c, js)
    <3>1. \A i \in DOMAIN jobs : HoldsKeys(jobs[i], c)
      BY <2>2, <2>4, <2>6 DEF Sound, HoldsKeys, HasBoth
    <3>2. jobs[j].rsa = c.rsa /\ jobs[j].aes = c.aes /\ HasBoth(c)
      BY <1>2, <3>1 DEF HoldsKeys
    <3>3. HoldsKeys(job, c)
      BY <2>3, <3>2 DEF HoldsKeys
    <3>4. \A i \in DOMAIN js : HoldsKeys(js[i], c)
      BY <1>2, <2>1, <2>3, <2>4, <3>1, <3>3, Replaced
    <3>5. QED
      BY <2>2, <2>5, <3>2, <3>4 DEF Sound
  <2>7. QED
    BY <1>1, <1>2, <1>4, <2>1, <2>2, <2>5, <2>6, RenderKeepsInv
<1>5. QED
  BY <1>3, <1>4

LEMMA SealedStep ==
    ASSUME EnvelopeInv, NEW j, Sealed(j)
    PROVE  EnvelopeInv'
<1>1. PICK done \in BOOLEAN :
        /\ Outcome(j, "seal", done)
        /\ IF done
           THEN /\ Render([ctx EXCEPT !.cipher = CipherOf(jobs[j].aes, jobs[j].text)], page,
                          Finally(j, TRUE), Drop(jobs, j), TRUE)
                /\ UNCHANGED spoilt
           ELSE Fails(j)
  BY DEF Sealed
<1>2. j \in DOMAIN jobs /\ jobs[j].kind = "seal" /\ failures' \in Nat /\ UNCHANGED made
  BY <1>1, OutcomeCounts
<1>3. CASE ~done
  BY <1>1, <1>2, <1>3, FailsStep
<1>4. CASE done
  <2>1. PICK c, v, js, changed :
          /\ c = [ctx EXCEPT !.cipher = CipherOf(jobs[j].aes, jobs[j].text)]
          /\ Render(c, page, v, js, changed)
          /\ js = Drop(jobs, j)
    BY <1>1, <1>4
  <2>2. JobsOK(jobs, page) /\ (~spoilt => Sound(ctx, jobs))
    BY DEF EnvelopeInv
  <2>3. JobsOK(js, page) /\ (~spoilt => \A i \in DOMAIN js : HoldsKeys(js[i], ctx))
    BY <1>2, <2>1, <2>2, Replaced DEF Sound
  <2>4. ~spoilt' => Sound(c, js)
    BY <1>1, <1>2, <1>4, <2>1, <2>3, NewCipherIsSound
  <2>5. DOMAIN c = {"rsa", "aes", "text", "wrapped", "cipher"} /\ page \in 1 .. 6
    BY <2>1 DEF EnvelopeInv, MachineOK
  <2>6. QED
    BY <1>2, <2>1, <2>3, <2>4, <2>5, RenderKeepsInv
<1>5. QED
  BY <1>3, <1>4

\* An animation or a decryption ends, which changes nothing but the page.
LEMMA ShowingEnds ==
    ASSUME EnvelopeInv, NEW j, AnimationEnds(j) \/ Decrypted(j)
    PROVE  EnvelopeInv' /\ UNCHANGED <<ctx, page>>
<1>1. PICK kind \in {"animation", "decrypt"}, done \in BOOLEAN : Outcome(j, kind, done)
  BY DEF AnimationEnds, Decrypted
<1>2. PICK v : Render(ctx, page, v, Drop(jobs, j), FALSE) /\ UNCHANGED spoilt
  BY Zenon DEF AnimationEnds, Decrypted
<1>3. /\ j \in DOMAIN jobs /\ jobs[j].kind \in {"animation", "decrypt"}
      /\ failures' \in Nat /\ UNCHANGED made
  BY <1>1, OutcomeCounts
<1>4. UNCHANGED <<ctx, page>>
  BY <1>2 DEF Render
<1>5. QED
  BY <1>2, <1>3, <1>4, EndsWithNothing

LEMMA StepKeepsEnvelopeInv ==
    ASSUME EnvelopeInv, [Next]_vars
    PROVE  EnvelopeInv'
<1>1. ASSUME NEW j, JobEnds(j)
      PROVE  EnvelopeInv'
  <2>1. CASE KeyGenerated(j, "rsa") \/ KeyGenerated(j, "aes")
    <3>1. PICK kind \in {"rsa", "aes"} : KeyGenerated(j, kind)
      BY <2>1
    <3>2. QED
      BY <3>1, KeyGeneratedStep
  <2>2. QED
    BY <1>1, <2>1, EncryptedStep, WrappedStep, SealedStep, ShowingEnds DEF JobEnds
<1>2. CASE UNCHANGED vars
  BY <1>2 DEF vars, EnvelopeInv, MachineOK, JobsOK, JobOK, Sound, SealGoesOn, HoldsKeys, HasBoth
<1>3. QED
  BY <1>1, <1>2, NavigateStep, GenerateStep, AnimationStep, UserStep DEF Next

\* What the pages do beside the machine is nothing to the machine.
LEMMA PagesStepMachine == [NextPages]_pageVars => [Next]_vars
BY DEF NextPages, PageGenerates, PlayAnimation, Continue, PageStep, PageJobEnds, WidgetStep,
       SelectKeySize, SelectAnswer, DismissReveal, TestPrime, ResetTag, HandleSeal, Sealing,
       Unlocking, CelebrationEnds, GenerateShortKey, Widget, Next, vars, pageVars

\* In every state the computations under way hold the keys of the machine and
\* belong to the open page or are detached, unless a key was replaced while it
\* was used.
LEMMA EnvelopeInvHolds == SpecPages => []EnvelopeInv
<1>1. InitPages => EnvelopeInv
  BY InitEnvelopeInv DEF InitPages
<1>2. EnvelopeInv /\ [NextPages]_pageVars => EnvelopeInv'
  BY PagesStepMachine, StepKeepsEnvelopeInv
<1>3. QED
  BY <1>1, <1>2, PTL DEF SpecPages

\* The private key opens the wrapped key and the key in it the ciphertext, as
\* soon as step 4 has encrypted: for any number of keys, messages, failures and
\* computations that end in any order after their pages were left, unless a
\* key was replaced while it was wrapped or in use, or step 4 failed to encrypt.
THEOREM EnvelopeIsSound == SpecPages => []EnvelopeOpens
<1>1. EnvelopeInv => EnvelopeOpens
  <2>1. SUFFICES ASSUME EnvelopeInv, ctx.wrapped # NoWrap, ctx.cipher # NoCipher, ~spoilt,
                        \A j \in DOMAIN jobs : jobs[j].kind # "seal"
                 PROVE  Opens(ctx.rsa, ctx.wrapped, ctx.cipher)
    BY DEF EnvelopeOpens
  <2>2. ctx.wrapped = RSAEncrypt(ctx.rsa, ctx.aes) /\ OpensCipher(ctx.aes, ctx.cipher)
    BY <2>1 DEF EnvelopeInv, Sound, SealGoesOn
  <2>3. QED
    BY <2>2, EnvelopesOpen
<1>2. QED
  BY <1>1, EnvelopeInvHolds, PTL

-----------------------------------------------------------------------------
(* What the pages show.                                                    *)

\* The page knows of a key and of a tag.
WidgetsOK == {"keyData", "authTag"} \subseteq DOMAIN ui

\* The machine has the same keys and the same ciphertext.
SameKeys == ctx'.rsa = ctx.rsa /\ ctx'.aes = ctx.aes /\ ctx'.cipher = ctx.cipher

LEMMA StillAgrees ==
    ASSUME EnvelopeInv, UNCHANGED page, SameKeys,
           ui'.keyData = ui.keyData, ui'.authTag \in {ui.authTag, NoCipher}
    PROVE  Agrees => Agrees'
BY DEF Agrees, KindOf, SameKeys, EnvelopeInv, MachineOK

\* Whatever the widgets do when the page shows something else, key and tag stay.
LEMMA FollowersKeep ==
    ASSUME NEW w, {"keyData", "authTag"} \subseteq DOMAIN w, WidgetsFollow(w)
    PROVE  /\ WidgetsOK'
           /\ page' = page => ui'.keyData = w.keyData /\ ui'.authTag = w.authTag
           /\ page' # page => ui' = NewWidgets(ctx', page')
<1>1. CASE page' = page
  <2>1. ui' = Following(w, view')
    BY <1>1 DEF WidgetsFollow
  <2>2. /\ DOMAIN Following(w, view') = DOMAIN w
        /\ Following(w, view').keyData = w.keyData /\ Following(w, view').authTag = w.authTag
    BY DEF Following
  <2>3. QED
    BY <1>1, <2>1, <2>2 DEF WidgetsOK
<1>2. CASE page' # page
  <2>1. ui' = NewWidgets(ctx', page')
    BY <1>2 DEF WidgetsFollow
  <2>2. {"keyData", "authTag"} \subseteq DOMAIN NewWidgets(ctx', page')
    BY DEF NewWidgets
  <2>3. QED
    BY <1>2, <2>1, <2>2 DEF WidgetsOK
<1>3. QED
  BY <1>1, <1>2

\* A page that has just been opened shows what the machine has.
LEMMA NewPageAgrees ==
    ASSUME ui' = NewWidgets(ctx', page')
    PROVE  Agrees'
BY DEF NewWidgets, HeldAtFirst, Agrees

\* The user's steps: a page that agreed agrees, and a new one does.
LEMMA UsersStepsAgree ==
    ASSUME EnvelopeInv, WidgetsOK, PageGenerates \/ PlayAnimation \/ Continue \/ PageStep
    PROVE  WidgetsOK' /\ (Agrees' \/ (page' = page /\ ~Agrees))
<1>1. ASSUME NEW w, {"keyData", "authTag"} \subseteq DOMAIN w, WidgetsFollow(w),
             w.keyData = ui.keyData, w.authTag \in {ui.authTag, NoCipher},
             page' = page => SameKeys
      PROVE  WidgetsOK' /\ (Agrees' \/ (page' = page /\ ~Agrees))
  BY <1>1, FollowersKeep, StillAgrees, NewPageAgrees
<1>2. CASE PageGenerates
  <2>1. PICK w : w = [ui EXCEPT !.error = FALSE]
    OBVIOUS
  <2>2. WidgetsFollow(w) /\ UNCHANGED <<ctx, page>>
    BY <1>2, <2>1, GenerateStep DEF PageGenerates
  <2>3. {"keyData", "authTag"} \subseteq DOMAIN w /\ w.keyData = ui.keyData /\ w.authTag = ui.authTag
    BY <2>1 DEF WidgetsOK
  <2>4. QED
    BY <1>1, <2>2, <2>3 DEF SameKeys
<1>3. CASE PlayAnimation
  <2>1. PICK w : w = [ui EXCEPT !.authTag = NoCipher]
    OBVIOUS
  <2>2. WidgetsFollow(w) /\ UNCHANGED <<ctx, page>>
    BY <1>3, <2>1, AnimationStep DEF PlayAnimation
  <2>3. {"keyData", "authTag"} \subseteq DOMAIN w /\ w.keyData = ui.keyData /\ w.authTag = NoCipher
    BY <2>1 DEF WidgetsOK
  <2>4. QED
    BY <1>1, <2>2, <2>3 DEF SameKeys
<1>4. CASE Continue \/ PageStep
  <2>1. WidgetsFollow(ui)
    BY <1>4 DEF Continue, PageStep
  <2>2. page' = page => SameKeys
    <3>1. CASE Continue \/ \E p \in 1 .. 6 : Navigate(p)
      BY <3>1 DEF Continue, Navigate, Render
    <3>2. CASE \E t \in Texts : SetPlaintext(t)
      <4>1. PICK t \in Texts : ctx' = [ctx EXCEPT !.text = t]
        BY <3>2 DEF SetPlaintext, Render
      <4>2. QED
        BY <4>1 DEF SameKeys, EnvelopeInv, MachineOK
    <3>3. CASE RunKeyExpansionAnimation
      BY <3>3, AnimationStep DEF SameKeys
    <3>4. CASE \E tampered \in BOOLEAN : DecryptButton(tampered)
      BY <3>4 DEF DecryptButton, Render, SameKeys
    <3>5. CASE StartOver
      BY <3>5 DEF StartOver, Render
    <3>6. QED
      BY <1>4, <3>1, <3>2, <3>3, <3>4, <3>5 DEF PageStep
  <2>3. QED
    BY <1>1, <2>1, <2>2 DEF WidgetsOK
<1>5. QED
  BY <1>2, <1>3, <1>4

\* The widgets by themselves.
LEMMA WidgetsAgree ==
    ASSUME EnvelopeInv, WidgetsOK, WidgetStep
    PROVE  WidgetsOK' /\ (Agrees' \/ (page' = page /\ ~Agrees))
<1> DEFINE Keeps == /\ UNCHANGED vars /\ DOMAIN ui' = DOMAIN ui
                    /\ ui'.keyData = ui.keyData /\ ui'.authTag \in {ui.authTag, NoCipher}
<1> USE DEF WidgetsOK, Widget
<1>1. ASSUME NEW keySize, SelectKeySize(keySize)
      PROVE  Keeps
  BY <1>1 DEF SelectKeySize
<1>2. ASSUME NEW answer, SelectAnswer(answer)
      PROVE  Keeps
  BY <1>2 DEF SelectAnswer
<1>3. DismissReveal => Keeps
  BY DEF DismissReveal
<1>4. TestPrime => Keeps
  BY DEF TestPrime
<1>5. ResetTag => Keeps
  BY DEF ResetTag
<1>6. HandleSeal \/ Sealing => Keeps
  BY DEF HandleSeal, Sealing
<1>7. Unlocking \/ CelebrationEnds => Keeps
  BY DEF Unlocking, CelebrationEnds
<1>8. GenerateShortKey => Keeps
  BY DEF GenerateShortKey, vars
<1>9. Keeps
  BY <1>1, <1>2, <1>3, <1>4, <1>5, <1>6, <1>7, <1>8 DEF WidgetStep
<1>10. QED
  BY <1>9, StillAgrees DEF vars, SameKeys

\* The computation of a page that is gone has ended.
LateResult == \E i \in DOMAIN jobs : ~jobs[i].mine /\ jobs' = Drop(jobs, i)

LEMMA LateOrElsewhere ==
    ASSUME NEW j \in DOMAIN jobs, ~jobs[j].mine, UNCHANGED page,
           page \notin {4, 6} => jobs' = Drop(jobs, j)
    PROVE  Agrees' \/ LateResult
BY DEF Agrees, LateResult

\* What a page takes from the end of computation j, if it asked for it.
Taken(j) == IF jobs[j].mine THEN AtEnd(j) ELSE ui

LEMMA TakenKeeps ==
    ASSUME WidgetsOK, NEW j
    PROVE  /\ {"keyData", "authTag"} \subseteq DOMAIN Taken(j)
           /\ failures' # failures \/ jobs[j].kind \notin {"rsa", "aes", "encrypt"} =>
                Taken(j).keyData = ui.keyData /\ Taken(j).authTag = ui.authTag
           /\ jobs[j].mine /\ failures' = failures /\ jobs[j].kind \in {"rsa", "aes"} =>
                Taken(j).keyData = jobs[j].key
           /\ jobs[j].mine /\ failures' = failures /\ jobs[j].kind = "encrypt" =>
                Taken(j).authTag = ctx'.cipher
<1>1. CASE ~jobs[j].mine
  BY <1>1 DEF Taken, WidgetsOK
<1>2. CASE jobs[j].mine
  <2>1. Taken(j) = AtEnd(j)
    BY <1>2 DEF Taken
  <2>2. CASE jobs[j].kind \in {"rsa", "aes"} /\ failures' = failures
    <3>1. AtEnd(j) = [ui EXCEPT !.keyData = jobs[j].key]
      BY <2>2 DEF AtEnd
    <3>2. QED
      BY <2>1, <2>2, <3>1 DEF WidgetsOK
  <2>3. CASE jobs[j].kind \in {"rsa", "aes"} /\ failures' # failures
    <3>1. AtEnd(j) = [ui EXCEPT !.error = TRUE]
      BY <2>3 DEF AtEnd
    <3>2. QED
      BY <2>1, <2>3, <3>1 DEF WidgetsOK
  <2>4. CASE jobs[j].kind = "encrypt" /\ failures' = failures
    <3>1. AtEnd(j) = [ui EXCEPT !.authTag = ctx'.cipher]
      BY <2>4 DEF AtEnd
    <3>2. QED
      BY <2>1, <2>4, <3>1 DEF WidgetsOK
  <2>5. CASE /\ jobs[j].kind \notin {"rsa", "aes"}
             /\ ~(jobs[j].kind = "encrypt" /\ failures' = failures)
    <3>1. AtEnd(j) = ui
      BY <2>5 DEF AtEnd
    <3>2. QED
      BY <2>1, <2>5, <3>1 DEF WidgetsOK
  <2>6. QED
    BY <2>2, <2>3, <2>4, <2>5
<1>3. QED
  BY <1>1, <1>2

\* The end of a computation: the page shows its result, or it was not asked for
\* by this page, or it changes nothing the page shows.
LEMMA JobsEndAgree ==
    ASSUME EnvelopeInv, WidgetsOK, NEW j, PageJobEnds(j)
    PROVE  WidgetsOK' /\ (Agrees' \/ (page' = page /\ ~Agrees) \/ LateResult)
<1>1. WidgetsFollow(Taken(j))
  BY DEF PageJobEnds, Taken
<1>2. WidgetsOK' /\ (page' = page => ui'.keyData = Taken(j).keyData /\ ui'.authTag = Taken(j).authTag)
  BY <1>1, TakenKeeps, FollowersKeep
<1>3. ASSUME UNCHANGED page, SameKeys, failures' # failures \/ jobs[j].kind \notin {"rsa", "aes", "encrypt"}
      PROVE  WidgetsOK' /\ (Agrees' \/ (page' = page /\ ~Agrees) \/ LateResult)
  BY <1>2, <1>3, TakenKeeps, StillAgrees
<1>4. ASSUME Fails(j), failures' # failures
      PROVE  WidgetsOK' /\ (Agrees' \/ (page' = page /\ ~Agrees) \/ LateResult)
  <2>1. UNCHANGED <<ctx, page>>
    BY <1>4 DEF Fails, Render
  <2>2. QED
    BY <1>3, <1>4, <2>1 DEF SameKeys
<1>5. ASSUME NEW kind, Outcome(j, kind, TRUE),
             NEW c, NEW v, NEW changed, Render(c, page, v, Drop(jobs, j), changed), ~jobs[j].mine
      PROVE  WidgetsOK' /\ (Agrees' \/ (page' = page /\ ~Agrees) \/ LateResult)
  <2>1. j \in DOMAIN jobs /\ JobsOK(Drop(jobs, j), page)
    BY <1>5, Replaced DEF Outcome, EnvelopeInv
  <2>2. UNCHANGED page /\ (page \notin {4, 6} => jobs' = Drop(jobs, j))
    BY <1>5, <2>1, Rendered
  <2>3. QED
    BY <1>2, <1>5, <2>1, <2>2, LateOrElsewhere
<1>6. \A kind : Outcome(j, kind, TRUE) => /\ j \in DOMAIN jobs /\ jobs[j].kind = kind
                                          /\ JobOK(jobs[j], page) /\ failures' = failures
  BY DEF Outcome, EnvelopeInv, JobsOK
<1>7. ASSUME NEW kind \in {"rsa", "aes"}, KeyGenerated(j, kind)
      PROVE  WidgetsOK' /\ (Agrees' \/ (page' = page /\ ~Agrees) \/ LateResult)
  <2>1. CASE Outcome(j, kind, FALSE) /\ Fails(j)
    BY <1>4, <2>1 DEF Outcome, EnvelopeInv, MachineOK
  <2>2. CASE /\ Outcome(j, kind, TRUE)
             /\ Render([ctx EXCEPT ![kind] = jobs[j].key], page,
                       Finally(j, TRUE), Drop(jobs, j), kind = "rsa")
    <3>1. jobs[j].kind = kind /\ JobOK(jobs[j], page) /\ failures' = failures
      BY <1>6, <2>2
    <3>2. ctx' = [ctx EXCEPT ![kind] = jobs[j].key] /\ page' = page
      BY <2>2 DEF Render
    <3>3. CASE jobs[j].mine
      <4>1. page = (IF kind = "rsa" THEN 1 ELSE 2) /\ KindOf(page) = kind
        BY <3>1, <3>3 DEF JobOK, KindOf
      <4>2. ui'.keyData = jobs[j].key
        BY <1>2, <3>1, <3>2, <3>3, TakenKeeps
      <4>3. ctx'[kind] = jobs[j].key
        BY <3>2 DEF EnvelopeInv, MachineOK
      <4>4. QED
        BY <1>2, <3>2, <4>1, <4>2, <4>3 DEF Agrees
    <3>4. CASE ~jobs[j].mine
      <4>1. PICK c, v, changed : Render(c, page, v, Drop(jobs, j), changed)
        BY <2>2
      <4>2. QED
        BY <1>5, <2>2, <3>4, <4>1
    <3>5. QED
      BY <3>3, <3>4
  <2>3. QED
    BY <1>7, <2>1, <2>2 DEF KeyGenerated
<1>8. CASE Encrypted(j)
  <2>1. CASE Outcome(j, "encrypt", FALSE) /\ Fails(j)
    BY <1>4, <2>1 DEF Outcome, EnvelopeInv, MachineOK
  <2>2. CASE /\ Outcome(j, "encrypt", TRUE)
             /\ Render([ctx EXCEPT !.cipher = CipherOf(jobs[j].aes, jobs[j].text)], page, view,
                       IF jobs[j].mine THEN Put(jobs, j, [kind |-> "animation", mine |-> TRUE])
                       ELSE Drop(jobs, j), TRUE)
    <3>1. jobs[j].kind = "encrypt" /\ JobOK(jobs[j], page) /\ failures' = failures /\ page' = page
      BY <1>6, <2>2 DEF Render
    <3>2. CASE jobs[j].mine
      <4>1. page = 3
        BY <3>1, <3>2 DEF JobOK
      <4>2. ui'.authTag = ctx'.cipher
        BY <1>2, <3>1, <3>2, TakenKeeps
      <4>3. QED
        BY <1>2, <3>1, <4>1, <4>2 DEF Agrees
    <3>3. CASE ~jobs[j].mine
      <4>1. PICK c, v, changed : Render(c, page, v, Drop(jobs, j), changed)
        BY <2>2, <3>3
      <4>2. QED
        BY <1>5, <2>2, <3>3, <4>1
    <3>4. QED
      BY <3>2, <3>3
  <2>3. QED
    BY <1>8, <2>1, <2>2 DEF Encrypted
<1>9. CASE Wrapped(j)
  <2>1. CASE Outcome(j, "wrap", FALSE) /\ Fails(j)
    BY <1>4, <2>1 DEF Outcome, EnvelopeInv, MachineOK
  <2>2. CASE /\ Outcome(j, "wrap", TRUE) /\ page' = page
             /\ ctx' = [ctx EXCEPT !.wrapped = RSAEncrypt(jobs[j].rsa, jobs[j].aes)]
    <3>1. SameKeys
      BY <2>2 DEF SameKeys, EnvelopeInv, MachineOK
    <3>2. QED
      BY <1>3, <2>2, <3>1 DEF Outcome
  <2>3. QED
    BY <1>9, <2>1, <2>2 DEF Wrapped, Render
<1>10. CASE Sealed(j)
  <2>1. CASE Outcome(j, "seal", FALSE) /\ Fails(j)
    BY <1>4, <2>1 DEF Outcome, EnvelopeInv, MachineOK
  <2>2. CASE /\ Outcome(j, "seal", TRUE)
             /\ Render([ctx EXCEPT !.cipher = CipherOf(jobs[j].aes, jobs[j].text)], page,
                       Finally(j, TRUE), Drop(jobs, j), TRUE)
    <3>1. jobs[j].kind = "seal" /\ JobOK(jobs[j], page) /\ page' = page
      BY <1>6, <2>2 DEF Render
    <3>2. CASE jobs[j].mine
      BY <1>2, <3>1, <3>2 DEF JobOK, Agrees
    <3>3. CASE ~jobs[j].mine
      <4>1. PICK c, v, changed : Render(c, page, v, Drop(jobs, j), changed)
        BY <2>2
      <4>2. QED
        BY <1>5, <2>2, <3>3, <4>1
    <3>4. QED
      BY <3>2, <3>3
  <2>3. QED
    BY <1>10, <2>1, <2>2 DEF Sealed
<1>11. CASE AnimationEnds(j) \/ Decrypted(j)
  <2>1. UNCHANGED <<ctx, page>>
    BY <1>11, ShowingEnds
  <2>2. jobs[j].kind \notin {"rsa", "aes", "encrypt"}
    BY <1>11 DEF AnimationEnds, Decrypted, Outcome
  <2>3. QED
    BY <1>3, <2>1, <2>2 DEF SameKeys
<1>12. CASE KeyGenerated(j, "rsa") \/ KeyGenerated(j, "aes")
  <2>1. PICK kind \in {"rsa", "aes"} : KeyGenerated(j, kind)
    BY <1>12
  <2>2. QED
    BY <1>7, <2>1
<1>13. QED
  BY <1>8, <1>9, <1>10, <1>11, <1>12 DEF PageJobEnds, JobEnds

LEMMA PagesAgree ==
    ASSUME EnvelopeInv, WidgetsOK, [NextPages]_pageVars
    PROVE  WidgetsOK' /\ (Agrees' \/ (page' = page /\ ~Agrees) \/ LateResult)
<1>1. CASE UNCHANGED pageVars
  <2>1. Agrees' <=> Agrees
    BY <1>1 DEF pageVars, Agrees
  <2>2. QED
    BY <1>1, <2>1 DEF pageVars, WidgetsOK
<1>2. QED
  BY <1>1, UsersStepsAgree, JobsEndAgree, WidgetsAgree DEF NextPages

\* A page goes out of step with the machine, showing a key or a tag other than
\* the machine's, only in the step in which the result of a page that is gone
\* comes in; opening a page again always puts it right.
THEOREM OnlyLateResults == SpecPages => OnlyLateResultsMislead
<1>1. InitPages => WidgetsOK
  BY DEF InitPages, NewWidgets, WidgetsOK
<1>2. SpecPages => []WidgetsOK
  <2>1. EnvelopeInv /\ WidgetsOK /\ [NextPages]_pageVars => WidgetsOK'
    BY PagesAgree
  <2>2. QED
    BY <1>1, <2>1, EnvelopeInvHolds, PTL DEF SpecPages
<1>3. EnvelopeInv /\ WidgetsOK /\ [NextPages]_pageVars =>
        [Agrees' \/ (page' = page /\ ~Agrees)
         \/ \E j \in DOMAIN jobs : ~jobs[j].mine /\ jobs' = Drop(jobs, j)]_pageVars
  BY PagesAgree DEF LateResult
<1>4. QED
  BY <1>2, <1>3, EnvelopeInvHolds, PTL DEF SpecPages, OnlyLateResultsMislead
=============================================================================
