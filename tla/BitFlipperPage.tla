------------------------------ MODULE BitFlipperPage ------------------------------
(***************************************************************************)
(* The route /sandbox/bit-flipper and its BitFlipperScene: a canvas of     *)
(* cells, one for each bit of a ciphertext.  The scene keeps the bytes and *)
(* the cells side by side; the page counts what is flipped only when one   *)
(* of its own buttons has flipped something, not after clicks on cells.    *)
(***************************************************************************)
EXTENDS Integers, Sequences, FiniteSetsExt

CONSTANTS Width,        \* bits of a byte
          Ciphertexts,  \* what the encryption may return: sequences of bytes
          AtRandom,     \* bits the random button flips
          MaxMounts     \* bound: visits to the page

PowerOf2[k \in Nat] == IF k = 0 THEN 1 ELSE 2 * PowerOf2[k - 1]

ASSUME BitFlipperAssumption ==
    /\ Width \in Nat \ {0} /\ AtRandom \in Nat /\ MaxMounts \in Nat
    /\ Ciphertexts \subseteq Seq(0 .. PowerOf2[Width] - 1)

VARIABLES mounts,       \* pages mounted so far
          mounted,      \* is the last one in place?
          boot,         \* page -> how far its initPixi is
          pixi,         \* page -> its application
          flipper,      \* bitFlipperRef of the page in place, or Unbuilt
          flippedCount, \* what the page says is flipped
          asked,        \* the ciphertexts handleDecrypt has yet to decrypt
          result,       \* originalDecryption and modifiedDecryption
          clicked       \* observer: cells clicked since the page counted

flipperVars == <<mounts, mounted, boot, pixi, flipper, flippedCount, asked, result, clicked>>

Mounts == 1 .. MaxMounts
Unbuilt == <<>>
NoResult == [original |-> "none", modified |-> "none"]
Clean == /\ flipper' = Unbuilt
         /\ flippedCount' = 0
         /\ asked' = <<>> /\ result' = NoResult
         /\ clicked' = FALSE

InitFlipper ==
    /\ mounts = 0 /\ mounted = FALSE
    /\ boot = [n \in Mounts |-> "none"]
    /\ pixi = [n \in Mounts |-> "none"]
    /\ flipper = Unbuilt
    /\ flippedCount = 0
    /\ asked = <<>> /\ result = NoResult
    /\ clicked = FALSE

-----------------------------------------------------------------------------
\* BitFlipperScene

\* Bit i of a text, counted from 0, the highest bit of the first byte.
ByteOf(i) == i \div Width + 1
Weight(i) == PowerOf2[Width - 1 - (i % Width)]
BitOf(bytes, i) == (bytes[ByteOf(i)] \div Weight(i)) % 2
Indices(bytes) == 0 .. Width * Len(bytes) - 1

BitCell(value) == [originalValue |-> value, currentValue |-> value, isFlipped |-> FALSE]

\* The scene keeps a copy of the text it was given.
SceneOf(bytes) ==
    [ciphertext |-> bytes, original |-> bytes,
     bits |-> [i \in Indices(bytes) |-> BitCell(BitOf(bytes, i))]]

FlippedCell(bit) ==
    [bit EXCEPT !.isFlipped = ~@,
                !.currentValue = IF bit.isFlipped THEN bit.originalValue ELSE 1 - bit.originalValue]

\* ciphertext[byteIndex] ^= 1 << (7 - bitPosition)
FlippedByte(bytes, i) ==
    [bytes EXCEPT ![ByteOf(i)] = IF BitOf(bytes, i) = 1 THEN @ - Weight(i) ELSE @ + Weight(i)]

FlipBit(s, i) ==
    [s EXCEPT !.ciphertext = FlippedByte(@, i), !.bits[i] = FlippedCell(@)]

\* flipBit for one index after the other.
FlipBits(s, chosen) == FoldSet(LAMBDA i, flipped : FlipBit(flipped, i), s, chosen)

Flipped(s) == {i \in DOMAIN s.bits : s.bits[i].isFlipped}

\* Mutant of ResetBits: the cells are reset and the bytes are not.
ResetBitsOfCells(s) ==
    [s EXCEPT !.bits = [i \in DOMAIN @ |-> BitCell(@[i].originalValue)]]

ResetBits(s) == FlipBits(s, Flipped(s))

-----------------------------------------------------------------------------
\* The page

\* isInitializing: also for ever, when app.init() rejects.
Initializing == boot[mounts] \notin {"ready", "failed"}

HasScene == mounted /\ flipper # Unbuilt

\* The page is mounted; without a worker its effect waits for one.
MountFlipper ==
    /\ ~mounted /\ mounts < MaxMounts
    /\ mounted' = TRUE
    /\ mounts' = mounts + 1
    /\ \E start \in {"worker", "pixi"} : boot' = [boot EXCEPT ![mounts + 1] = start]
    /\ UNCHANGED <<pixi, flipper, flippedCount, asked, result, clicked>>

WorkerComes ==
    /\ mounted /\ boot[mounts] = "worker"
    /\ boot' = [boot EXCEPT ![mounts] = "pixi"]
    /\ UNCHANGED <<mounts, mounted, pixi, flipper, flippedCount, asked, result, clicked>>

\* app.init() resolves, also when the page is gone, or rejects.
PixiResolves(n) ==
    /\ boot[n] = "pixi"
    /\ \/ /\ boot' = [boot EXCEPT ![n] = "key"]
          /\ pixi' = [pixi EXCEPT ![n] = "live"]
       \/ /\ boot' = [boot EXCEPT ![n] = "rejected"]
          /\ UNCHANGED pixi
    /\ UNCHANGED <<mounts, mounted, flipper, flippedCount, asked, result, clicked>>

\* The worker answers with a key and its iv, then with the ciphertext; or not.
KeyArrives(n) ==
    /\ boot[n] = "key"
    /\ \E next \in {"ciphertext", "failed"} : boot' = [boot EXCEPT ![n] = next]
    /\ UNCHANGED <<mounts, mounted, pixi, flipper, flippedCount, asked, result, clicked>>

CiphertextArrives(n) ==
    /\ boot[n] = "ciphertext"
    /\ \/ /\ boot' = [boot EXCEPT ![n] = "ready"]
          /\ IF mounted /\ n = mounts
             THEN \E bytes \in Ciphertexts : flipper' = SceneOf(bytes)
             ELSE UNCHANGED flipper
       \/ /\ boot' = [boot EXCEPT ![n] = "failed"]
          /\ UNCHANGED flipper
    /\ UNCHANGED <<mounts, mounted, pixi, flippedCount, asked, result, clicked>>

\* The cleanup of the effect: what there is goes.
UnmountFlipper ==
    /\ mounted
    /\ mounted' = FALSE
    /\ pixi' = [pixi EXCEPT ![mounts] = IF @ = "live" THEN "destroyed" ELSE @]
    /\ boot' = [boot EXCEPT ![mounts] = IF @ = "worker" THEN "none" ELSE @]
    /\ Clean
    /\ UNCHANGED mounts

\* A click on a cell: pointerdown goes to the scene and not to the page.
ClickCell ==
    /\ HasScene
    /\ \E i \in DOMAIN flipper.bits : flipper' = FlipBit(flipper, i)
    /\ clicked' = TRUE
    /\ UNCHANGED <<mounts, mounted, boot, pixi, flippedCount, asked, result>>

\* updateStats and setModifiedDecryption(null), after a button.
Counted ==
    /\ flippedCount' = Cardinality(Flipped(flipper'))
    /\ clicked' = FALSE
    /\ result' = [result EXCEPT !.modified = "none"]

HandleFlipRandom ==
    /\ HasScene
    /\ \E chosen \in SUBSET DOMAIN flipper.bits :
          /\ Cardinality(chosen) = AtRandom
          /\ flipper' = FlipBits(flipper, chosen)
    /\ Counted
    /\ UNCHANGED <<mounts, mounted, boot, pixi, asked>>

HandleReset ==
    /\ HasScene
    /\ flipper' = ResetBits(flipper)
    /\ Counted
    /\ UNCHANGED <<mounts, mounted, boot, pixi, asked>>

\* Decrypt & Compare is disabled while it decrypts and when the page has
\* counted nothing.  Both texts are copied.
Decrypt ==
    /\ HasScene /\ ~Initializing
    /\ asked = <<>> /\ flippedCount # 0
    /\ asked' = <<flipper.original, flipper.ciphertext>>
    /\ result' = NoResult
    /\ UNCHANGED <<mounts, mounted, boot, pixi, flipper, flippedCount, clicked>>

\* The worker rejects: what it is given has no tag, and an iv of another
\* encryption.
DecryptionFails ==
    /\ asked # <<>>
    /\ asked' = Tail(asked)
    /\ result' = IF Len(asked) = 2 THEN [result EXCEPT !.original = "failed"]
                 ELSE [result EXCEPT !.modified = "failed"]
    /\ UNCHANGED <<mounts, mounted, boot, pixi, flipper, flippedCount, clicked>>

FlipperStep ==
    \/ MountFlipper \/ UnmountFlipper \/ WorkerComes
    \/ \E n \in Mounts : PixiResolves(n) \/ KeyArrives(n) \/ CiphertextArrives(n)
    \/ ClickCell \/ HandleFlipRandom \/ HandleReset
    \/ Decrypt \/ DecryptionFails

-----------------------------------------------------------------------------
\* The bytes that are decrypted and the cells that are seen, which the scene
\* keeps side by side, agree after any clicks, random flips and resets: a cell
\* shows its bit, and is marked exactly if that bit differs from the original
\* (flipBit, resetBits).  The page's count agrees with them unless cells were
\* clicked since (updateStats).
CellsAreBits ==
    HasScene =>
        /\ \A i \in DOMAIN flipper.bits :
              /\ flipper.bits[i].currentValue = BitOf(flipper.ciphertext, i)
              /\ flipper.bits[i].isFlipped <=> BitOf(flipper.ciphertext, i) # BitOf(flipper.original, i)
        /\ ~clicked => flippedCount = Cardinality(Flipped(flipper))
=============================================================================
