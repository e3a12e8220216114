-------------------------------- MODULE StepPages --------------------------------
(***************************************************************************)
(* What the pages of the crypto steps show beside the computations of      *)
(* Envelope: the key or the tag a page has made, which it holds in a state *)
(* of its own beside the machine's, the size of the key and the panel that *)
(* breaks a short one, errors, and the widgets with their questions and    *)
(* timers.  All of it is gone when the page is left.                       *)
(***************************************************************************)
EXTENDS Envelope

CONSTANT PrimeCount   \* length of MOCK_PRIMES

ASSUME StepPagesAssumption == PrimeCount \in Nat \ {0}

VARIABLE ui   \* what the open page shows

pageVars == <<ctx, page, furthest, view, jobs, made, failures, spoilt, ui>>

-----------------------------------------------------------------------------

\* The kind of key that a page makes, if it does.
KindOf(p) == CASE p = 1 -> "rsa" [] p = 2 -> "aes" [] OTHER -> "none"

\* Mutant of HeldAtFirst: a page that is opened again knows of no key.
HeldAtFirstNone(c, p) == NoKey

\* keyData of a page that is opened: the key the machine has by then.
HeldAtFirst(c, p) == IF p \in {1, 2} THEN c[KindOf(p)] ELSE NoKey

\* The steps there is a question for.
PREDICT_PROMPTS == {1, 2, 3, 6}

\* Page p as it is opened while the machine has context c.
NewWidgets(c, p) ==
    [keyData |-> HeldAtFirst(c, p),   \* steps 1 and 2
     authTag |-> NoCipher,            \* step 3: the encryption whose tag is shown
     keySize |-> 2048,                \* step 1, with the panel for 16
     error |-> FALSE,
     prompt |-> IF p \in PREDICT_PROMPTS THEN "asked" ELSE "dismissed",
     prime |-> 0,                     \* step 1: PrimeSearchTicker
     seal |-> "idle",                 \* step 4: KEMEnvelopeAnimation
     unlock |-> "hidden",             \* step 6: TwoStepUnlock
     celebration |-> "hidden"]        \* step 6: Celebration

InitPages ==
    /\ Init
    /\ ui = NewWidgets(ctx, 1)

-----------------------------------------------------------------------------
(* The widgets follow the computations. *)

\* The component is mounted with this first state, unmounted, or stays.
Mounting(was, shown, first) ==
    IF ~shown THEN "hidden" ELSE IF was = "hidden" THEN first ELSE was

\* Is there a decryptedText?
HasText(v) == v.shown \notin {Nothing, EmptyText}

\* The widgets w on the page that stays, once it shows v.
Following(w, v) ==
    [w EXCEPT !.prime = IF v.busy THEN @ ELSE 0,
              !.unlock = Mounting(@, HasText(v), "envelope"),
              !.celebration = Mounting(@, HasText(v) /\ ~v.tampered, "active")]

\* The page stays, and its widgets w follow; or another one is opened.
WidgetsFollow(w) ==
    ui' = IF page' = page THEN Following(w, view') ELSE NewWidgets(ctx', page')

\* The end of computation j, in the page that asked for it.
AtEnd(j) ==
    LET done == failures' = failures IN
    CASE jobs[j].kind \in {"rsa", "aes"} /\ done -> [ui EXCEPT !.keyData = jobs[j].key]
      [] jobs[j].kind \in {"rsa", "aes"} /\ ~done -> [ui EXCEPT !.error = TRUE]
      [] jobs[j].kind = "encrypt" /\ done -> [ui EXCEPT !.authTag = ctx'.cipher]
      [] OTHER -> ui

PageJobEnds(j) ==
    /\ JobEnds(j)
    /\ WidgetsFollow(IF jobs[j].mine THEN AtEnd(j) ELSE ui)

\* Generate Keys, Generate Session Key
PageGenerates ==
    /\ \/ ui.keySize # 16 /\ GenerateKey("rsa", 1)
       \/ GenerateKey("aes", 2)
    /\ WidgetsFollow([ui EXCEPT !.error = FALSE])

\* With 16 bits there is nothing to generate.
GenerateShortKey ==
    /\ page = 1 /\ ~view.busy
    /\ ui.keySize = 16
    /\ ui' = [ui EXCEPT !.error = FALSE]
    /\ UNCHANGED vars

\* Play Animation
PlayAnimation == RunAESAnimation /\ WidgetsFollow([ui EXCEPT !.authTag = NoCipher])

\* Continue, which steps 1 and 2 offer with the key.
Continue == page \in {1, 2} /\ ui.keyData # NoKey /\ Navigate(page + 1) /\ WidgetsFollow(ui)

\* The other things the user does that reach the machine or the worker.
PageStep ==
    /\ \/ \E p \in 1 .. 6 : Navigate(p)
       \/ \E t \in Texts : SetPlaintext(t)
       \/ RunKeyExpansionAnimation
       \/ \E tampered \in BOOLEAN : DecryptButton(tampered)
       \/ StartOver
    /\ WidgetsFollow(ui)

-----------------------------------------------------------------------------
(* The widgets by themselves. *)

Widget(w) == ui' = w /\ UNCHANGED vars

\* The size may be chosen until there is a key; with 16 bits BruteForcePanel takes
\* the place of the panel and its question, which comes back as a new one.
SelectKeySize(keySize) ==
    /\ page = 1 /\ ~view.busy /\ ui.keyData = NoKey
    /\ keySize # ui.keySize
    /\ Widget([ui EXCEPT !.keySize = keySize,
                         !.prompt = IF @ = "dismissed" THEN @ ELSE "asked"])

PromptShown == page \in PREDICT_PROMPTS /\ ui.prompt # "dismissed" /\ ui.keySize # 16

\* selectAnswer and skip of usePredictReveal
SelectAnswer(answer) ==
    /\ PromptShown /\ ui.prompt = "asked"
    /\ Widget([ui EXCEPT !.prompt = answer])

\* Dismiss, which the answer offers; the question does not come back.
DismissReveal ==
    /\ PromptShown /\ ui.prompt # "asked"
    /\ Widget([ui EXCEPT !.prompt = "dismissed"])

\* The interval of PrimeSearchTicker.
TestPrime ==
    /\ page = 1 /\ view.busy
    /\ Widget([ui EXCEPT !.prime = (@ + 1) % PrimeCount])

\* Reset in step 3: with the drawing (StepScenes) the tag is taken away.
ResetTag ==
    /\ page = 3
    /\ ui.authTag # NoCipher
    /\ Widget([ui EXCEPT !.authTag = NoCipher])

\* handleSeal and its timeout: the animation is offered once the key is wrapped.
HandleSeal ==
    /\ page = 4 /\ {ctx.aes, ctx.rsa} \cap {NoKey} = {} /\ ctx.wrapped # NoWrap
    /\ ui.seal = "idle"
    /\ Widget([ui EXCEPT !.seal = "sealing"])
Sealing ==
    /\ ui.seal = "sealing"
    /\ Widget([ui EXCEPT !.seal = "sealed"])

\* The timeouts of TwoStepUnlock.
Unlocking ==
    \/ ui.unlock = "envelope" /\ Widget([ui EXCEPT !.unlock = "decrypt"])
    \/ ui.unlock = "decrypt" /\ Widget([ui EXCEPT !.unlock = "done"])

\* The timeout of Celebration.
CelebrationEnds ==
    /\ ui.celebration = "active"
    /\ Widget([ui EXCEPT !.celebration = "over"])

WidgetStep ==
    \/ \E keySize \in {16, 2048} : SelectKeySize(keySize)
    \/ \E answer \in {"right", "wrong", "skipped"} : SelectAnswer(answer)
    \/ DismissReveal
    \/ TestPrime
    \/ ResetTag
    \/ HandleSeal \/ Sealing
    \/ Unlocking
    \/ CelebrationEnds
    \/ GenerateShortKey

-----------------------------------------------------------------------------

\* Bound: the widgets are used on their own, by a user for whom nothing fails and
\* who makes each key once.  The other behaviours leave them as they come.
AboutWidgets == failures = 0 /\ \A kind \in DOMAIN made : made[kind] <= 1
WidgetsUntouched ==
    /\ ui.keySize = 2048
    /\ ui.prompt \in {"asked", "dismissed"}
    /\ ui.prompt = "asked" <=> page \in PREDICT_PROMPTS
    /\ ui.prime = 0
    /\ ui.seal = "idle"
    /\ ui.unlock \in {"hidden", "envelope"}
    /\ ui.celebration \in {"hidden", "active"}

NextPages ==
    \/ /\ PageGenerates \/ PlayAnimation \/ Continue \/ PageStep
          \/ \E j \in JobIds : PageJobEnds(j)
       /\ AboutWidgets' \/ WidgetsUntouched'
    \/ AboutWidgets /\ WidgetStep

\* As in Envelope: the worker answers and animations end.
SpecPages ==
    /\ InitPages
    /\ [][NextPages]_pageVars
    /\ \A j \in JobIds : WF_pageVars(PageJobEnds(j))

-----------------------------------------------------------------------------

\* Does the page show what the machine has?
Agrees ==
    /\ page \in {1, 2} => ui.keyData = ctx[KindOf(page)]
    /\ page = 3 /\ ui.authTag # NoCipher => ui.authTag = ctx.cipher

\* Steps 1 to 3 keep what they have made beside what the machine has.  A page
\* shows something else than the steps after it work on only from a moment when
\* the result of a page that is gone came in late; opening it again puts it right.
OnlyLateResultsMislead ==
    [][Agrees' \/ (page' = page /\ ~Agrees)
       \/ \E j \in DOMAIN jobs : ~jobs[j].mine /\ jobs' = Drop(jobs, j)]_pageVars
=============================================================================
