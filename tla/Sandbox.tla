-------------------------------- MODULE Sandbox --------------------------------
(***************************************************************************)
(* The Bit Flipper of the sandbox: a ciphertext the user flips bits of,    *)
(* kept in sessionStorage; a matrix that shows it; and an analysis that    *)
(* walks over the matrix, and a decryption, while the user goes on.  Every *)
(* visit mounts a new Bit Flipper with an application of its own, whose    *)
(* initialisation is suspended three times and goes on when the Bit        *)
(* Flipper is gone.  The animation is driven by the clock VizEngine        *)
(* describes.                                                              *)
(***************************************************************************)
EXTENDS VizEngine, Sequences

CONSTANTS MaxStays,   \* bound: visits to the sandbox
          Cells       \* the bytes of the ciphertext: 1 .. the last

ASSUME SandboxAssumption == MaxStays \in Nat /\ Cells \subseteq Nat

VARIABLES stay,         \* Bit Flippers mounted so far, the last one is in place
          setup,        \* stay -> how far its initialisation is
          canvasApp,    \* stay -> its PixiJS application
          ciphertext,   \* what the user sees and flips
          original,     \* originalCiphertext
          matrix,       \* what the drawing shows, Blank before there is one
          storage,      \* sessionStorage: a pair, or Nothing
          analysis,     \* the animation under way: what it captured and its place
          isProcessing, \* is the button "Analyzing..."?
          keyRef,       \* has the Bit Flipper in place made a key?
          decrypting,   \* what handleDecrypt has yet to decrypt
          decrypts,     \* originalDecrypt and modifiedDecrypt
          kept,         \* observer: the bytes drawn since last, and not to be redrawn
                        \* by an analysis that captured another text
          disturbed     \* observer: did a Bit Flipper that is gone store last?

sandboxVars == <<stay, setup, canvasApp, ciphertext, original, matrix, storage,
                 analysis, isProcessing, keyRef, decrypting, decrypts, kept, disturbed>>
decryptVars == <<keyRef, decrypting, decrypts>>

Stays == 1 .. MaxStays

\* A byte is the ciphertext it comes from (0: the zeros at first) and its
\* lowest bit, the one a click flips.
Fresh(n) == [c \in Cells |-> [from |-> n, bit |-> 0]]
Zeros == Fresh(0)
Flip(text, c) == [text EXCEPT ![c].bit = 1 - @]

Engine == INSTANCE CryptoEngine WITH EmptyText <- ""

Blank == <<>>
Nothing == <<>>
NoAnalysis == <<>>
NotDecrypting == <<>>
NoDecrypts == [original |-> "none", modified |-> "none"]

InitSandbox ==
    /\ stay = 0
    /\ setup = [n \in Stays |-> "none"]
    /\ canvasApp = [n \in Stays |-> "none"]
    /\ ciphertext = Zeros /\ original = Zeros
    /\ matrix = Blank
    /\ analysis = NoAnalysis
    /\ isProcessing = FALSE
    /\ keyRef = FALSE /\ decrypting = NotDecrypting /\ decrypts = NoDecrypts
    /\ kept = {}
    /\ storage = Nothing
    /\ disturbed = FALSE

InPlace(n) == place = "sandbox" /\ n = stay

\* visualizerRef.current of the Bit Flipper in place.
HasVisualizer == place = "sandbox" /\ setup[stay] \notin {"none", "pending"}

\* The Bit Flipper is mounted; with the worker there its effect begins.
OpenSandbox ==
    /\ place = "elsewhere"
    /\ stay < MaxStays
    /\ place' = "sandbox"
    /\ stay' = stay + 1
    /\ setup' = [setup EXCEPT ![stay + 1] = "pending"]
    /\ UNCHANGED <<visit, engine, drivers, reduced, canvasApp, ciphertext, original, matrix,
                   storage, analysis, isProcessing, decryptVars, kept, disturbed>>

\* The matrix is redrawn.  It shows nothing in a Bit Flipper that is gone.  An
\* analysis under way has yet to come to the bytes behind its place.
Draw(n, text) ==
    /\ matrix' = IF InPlace(n) THEN text ELSE matrix
    /\ kept' = IF ~InPlace(n) THEN kept
               ELSE IF analysis = NoAnalysis THEN Cells
               ELSE {c \in Cells : c <= analysis[3]}

\* setCiphertext and setOriginalCiphertext; React drops them for a component
\* that is unmounted.
Show(n, text, orig) ==
    /\ ciphertext' = IF InPlace(n) THEN text ELSE ciphertext
    /\ original' = IF InPlace(n) THEN orig ELSE original
    /\ Draw(n, text)

\* app.init() resolves: the visualizer is there, and the Bit Flipper restores
\* what is stored or asks the worker for a key and a ciphertext.
ApplicationReady(n) ==
    /\ setup[n] = "pending"
    /\ canvasApp' = [canvasApp EXCEPT ![n] = "live"]
    /\ IF storage # Nothing
       THEN /\ setup' = [setup EXCEPT ![n] = "ready"]
            /\ Show(n, storage[1], storage[2])
       ELSE /\ setup' = [setup EXCEPT ![n] = "generating"]
            /\ UNCHANGED <<ciphertext, original, matrix, kept>>
    /\ disturbed' = (disturbed /\ ~InPlace(n))
    /\ UNCHANGED <<engineVars, decryptVars, stay, storage, analysis, isProcessing>>

\* The worker has made the key and its iv.
KeyGenerated(n) ==
    /\ setup[n] = "generating"
    /\ setup' = [setup EXCEPT ![n] = "encrypting"]
    /\ keyRef' = (keyRef \/ InPlace(n))
    /\ UNCHANGED <<engineVars, stay, canvasApp, ciphertext, original, matrix, storage,
                   analysis, isProcessing, decrypting, decrypts, kept, disturbed>>

\* The worker has made the ciphertext, which is shown and stored.
Generated(n) ==
    /\ setup[n] = "encrypting"
    /\ setup' = [setup EXCEPT ![n] = "ready"]
    /\ Show(n, Fresh(n), Fresh(n))
    /\ storage' = <<Fresh(n), Fresh(n)>>
    /\ disturbed' = ~InPlace(n)
    /\ UNCHANGED <<engineVars, decryptVars, stay, canvasApp, analysis, isProcessing>>

\* The worker rejects either request, or the drawing a Bit Flipper that is gone
\* has destroyed throws: the initialisation ends there.
GenerationFails(n) ==
    /\ setup[n] \in {"generating", "encrypting"}
    /\ setup' = [setup EXCEPT ![n] = "failed"]
    /\ UNCHANGED <<engineVars, decryptVars, stay, canvasApp, ciphertext, original, matrix,
                   storage, analysis, isProcessing, kept, disturbed>>

\* The cleanup: an application that is there is destroyed, one that is still
\* being initialised is not.  The state of the component goes with it.
CloseSandbox ==
    /\ place = "sandbox"
    /\ place' = "elsewhere"
    /\ canvasApp' = [canvasApp EXCEPT ![stay] = IF @ = "live" THEN "destroyed" ELSE @]
    /\ ciphertext' = Zeros /\ original' = Zeros
    /\ matrix' = Blank
    /\ analysis' = NoAnalysis
    /\ isProcessing' = FALSE
    /\ keyRef' = FALSE /\ decrypting' = NotDecrypting /\ decrypts' = NoDecrypts
    /\ kept' = {}
    /\ UNCHANGED <<visit, engine, drivers, reduced, stay, setup, storage, disturbed>>

\* Mutant of ToggleBit: what is stored is the ciphertext before the click.
ToggleBitStoresBefore(c) ==
    /\ place = "sandbox"
    /\ ciphertext' = Flip(ciphertext, c)
    /\ storage' = <<ciphertext, original>>
    /\ IF HasVisualizer THEN Draw(stay, ciphertext') ELSE UNCHANGED <<matrix, kept>>
    /\ decrypts' = [decrypts EXCEPT !.modified = "none"]
    /\ disturbed' = FALSE
    /\ UNCHANGED <<engineVars, stay, setup, canvasApp, original, analysis, isProcessing,
                   keyRef, decrypting>>

\* A click on a byte, at any time.
ToggleBit(c) ==
    /\ place = "sandbox"
    /\ ciphertext' = Flip(ciphertext, c)
    /\ storage' = <<ciphertext', original>>
    /\ IF HasVisualizer THEN Draw(stay, ciphertext') ELSE UNCHANGED <<matrix, kept>>
    /\ decrypts' = [decrypts EXCEPT !.modified = "none"]
    /\ disturbed' = FALSE
    /\ UNCHANGED <<engineVars, stay, setup, canvasApp, original, analysis, isProcessing,
                   keyRef, decrypting>>

\* Reset to original, at any time.
Reset ==
    /\ place = "sandbox"
    /\ ciphertext' = original
    /\ storage' = <<original, original>>
    /\ IF HasVisualizer THEN Draw(stay, original) ELSE UNCHANGED <<matrix, kept>>
    /\ decrypts' = [decrypts EXCEPT !.modified = "none"]
    /\ disturbed' = FALSE
    /\ UNCHANGED <<engineVars, stay, setup, canvasApp, original, analysis, isProcessing,
                   keyRef, decrypting>>

\* Mutant of Walk: the byte is redrawn from the first of the two texts.
WalkDrawsOriginal(captured, at) ==
    IF at \in Cells /\ captured[1][at] # captured[2][at] /\ matrix # Blank
    THEN [matrix EXCEPT ![at] = captured[1][at]]
    ELSE matrix

\* The loop of animateAvalancheEffect up to its next delay: it redraws the byte
\* it has come to if that differs from the original.
Walk(captured, at) ==
    IF at \in Cells /\ captured[1][at] # captured[2][at] /\ matrix # Blank
    THEN [matrix EXCEPT ![at] = captured[2][at]]
    ELSE matrix

\* Analyze Diffusion: the button is disabled before anything is looked at.
AnalyzeDiff ==
    /\ place = "sandbox" /\ ~isProcessing
    /\ isProcessing' = TRUE
    /\ IF HasVisualizer
       THEN /\ analysis' = <<original, ciphertext, 1>>
            /\ matrix' = Walk(<<original, ciphertext>>, 1)
       ELSE UNCHANGED <<analysis, matrix>>
    /\ UNCHANGED <<engineVars, decryptVars, stay, setup, canvasApp, ciphertext, original,
                   storage, kept, disturbed>>

\* A delay of the animation is over: the next byte, or, after the last delay,
\* the end.
AnalysisGoesOn ==
    /\ analysis # NoAnalysis /\ drivers # {}
    /\ IF analysis[3] \in Cells
       THEN /\ analysis' = [analysis EXCEPT ![3] = @ + 1]
            /\ matrix' = Walk(analysis, analysis[3] + 1)
            /\ UNCHANGED isProcessing
       ELSE /\ analysis' = NoAnalysis
            /\ isProcessing' = FALSE
            /\ UNCHANGED matrix
    /\ UNCHANGED <<engineVars, decryptVars, stay, setup, canvasApp, ciphertext, original,
                   storage, kept, disturbed>>

\* Decrypt & Compare: nothing without a key of this visit.
HandleDecrypt ==
    /\ place = "sandbox" /\ decrypting = NotDecrypting
    /\ keyRef
    /\ decrypting' = <<original, ciphertext>>
    /\ decrypts' = NoDecrypts
    /\ UNCHANGED <<engineVars, stay, setup, canvasApp, ciphertext, original, matrix,
                   storage, analysis, isProcessing, keyRef, kept, disturbed>>

\* The answer of the worker, from the key of this visit and the iv that was made
\* with it, and without a tag.
Verdict(text) ==
    LET key == stay
    IN  IF Engine!AESDecrypt(key, text, <<"iv", key>>, Engine!NoTag).success
        THEN "text" ELSE "failed"

\* The worker answers: the original comes first.
DecryptGoesOn ==
    /\ decrypting # NotDecrypting
    /\ decrypting' = Tail(decrypting)
    /\ decrypts' = IF Len(decrypting) = 2
                   THEN [decrypts EXCEPT !.original = Verdict(Head(decrypting))]
                   ELSE [decrypts EXCEPT !.modified = Verdict(Head(decrypting))]
    /\ UNCHANGED <<engineVars, stay, setup, canvasApp, ciphertext, original, matrix,
                   storage, analysis, isProcessing, keyRef, kept, disturbed>>

SandboxStep ==
    \/ OpenSandbox \/ CloseSandbox
    \/ \E n \in Stays :
         ApplicationReady(n) \/ KeyGenerated(n) \/ Generated(n) \/ GenerationFails(n)
    \/ \E c \in Cells : ToggleBit(c)
    \/ Reset \/ AnalyzeDiff \/ AnalysisGoesOn \/ HandleDecrypt \/ DecryptGoesOn

\* GSAP calls back while it is driven.
SandboxFairness == WF_<<engineVars, sandboxVars>>(AnalysisGoesOn)

-----------------------------------------------------------------------------

\* What is stored for the next visit is what the user sees, from the end of the
\* initialisation on; or else it is the text of a Bit Flipper that was left while
\* it initialised and has stored since the last click: its own fresh ciphertext,
\* whole, which replaces what the user has done until the next click.
StoredIsShown ==
    place = "sandbox" /\ setup[stay] = "ready" =>
        IF disturbed THEN \E n \in 1 .. stay - 1 : storage = <<Fresh(n), Fresh(n)>>
        ELSE storage = <<ciphertext, original>>

\* The matrix shows the ciphertext, byte by byte, also behind an analysis that
\* redraws it and before the initialisation has ended.  If the ciphertext is
\* drawn while an analysis of an older one runs, this is so for the bytes that
\* analysis has passed, until the next drawing.
MatrixIsCiphertext == place = "sandbox" => \A c \in kept : matrix[c] = ciphertext[c]

\* An analysis of a matrix that is there, begun or met while GSAP is driven, ends
\* and gives its button back, whatever the user does meanwhile.  It is not so of
\* a click before the visualizer is there (the button stays disabled, and there
\* is no analysis), nor of an analysis while no engine drives GSAP.
AnalysisEnds ==
    (analysis # NoAnalysis /\ drivers # {}) ~> (place # "sandbox" \/ ~isProcessing)
=============================================================================
