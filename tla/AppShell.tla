-------------------------------- MODULE AppShell --------------------------------
(***************************************************************************)
(* What is around the wizard: the layout of the handshake pages with its   *)
(* controls, and the document all pages are in, with the theme, the        *)
(* tutorial, the notice of the service worker and the error boundary.      *)
(* What the user chooses is kept in localStorage, which outlives reloads;  *)
(* an error in a page takes the wizard down with it and leaves the theme.  *)
(*                                                                         *)
(* Every step is one of the Wizard, with what comes with it, or leaves the *)
(* Wizard alone.  A speed is counted in tenths.                            *)
(***************************************************************************)
EXTENDS Wizard

CONSTANTS Speeds,          \* what the slider is moved to
          StoredSpeeds,    \* what cv_animation_speed may hold at first
          StoredThemes,    \* what cv_theme may hold at first: also no theme at all
          Unset,           \* an item of localStorage that is not there, or is empty
          TutorialLength,  \* number of hints of the tutorial
          NoHint           \* the tutorial is not shown

ASSUME AppShellAssumption ==
    /\ Speeds \subseteq 5 .. 30
    /\ TutorialLength \in Nat \ {0}
    /\ NoHint \notin 0 .. TutorialLength - 1
    /\ Unset \notin 5 .. 30
    /\ Unset \notin {"deep-space", "entropy"}

VARIABLES layout,    \* the layout of the handshake pages, while it is mounted
          document,  \* the state of the providers around all pages
          store,     \* localStorage
          chosen     \* observer: what the user has last chosen

shellVars == <<layout, document, store, chosen>>

-----------------------------------------------------------------------------
(* What is read from localStorage. *)

\* Mutant of SpeedOf: what is stored is taken as it is.
SpeedOfUnchecked(stored) == IF stored = Unset THEN 10 ELSE stored

\* The speed an AnimationSpeedProvider starts with: what is stored, if it is a
\* number in the range of the slider.
SpeedOf(stored) == IF stored \in 5 .. 30 THEN stored ELSE 10

\* setSpeed
Clamped(newSpeed) == IF newSpeed < 5 THEN 5 ELSE IF newSpeed > 30 THEN 30 ELSE newSpeed

Themes == {"deep-space", "entropy"}
OtherTheme(theme) == IF theme = "deep-space" THEN "entropy" ELSE "deep-space"

\* Does the StepGuide of the page open by itself?  Only that of step 1 may, until
\* a guide has been closed once.
AutoOpens(step, dismissed) == step = 1 /\ ~dismissed

\* Children of the error boundary that have just been mounted, and the state of
\* PWAUpdatePrompt beside it.
FirstHint(completed) == IF completed THEN NoHint ELSE 0
NoNotice == [updateSW |-> FALSE, offlineReady |-> FALSE, needRefresh |-> FALSE]

\* A document that has been loaded, after the effects of its providers: the theme
\* is that of localStorage, and the only one among the classes.
Loaded(stored) ==
    LET theme == IF stored.theme = Unset THEN "deep-space" ELSE stored.theme
    IN  [theme |-> theme, classes |-> {theme}, tutorial |-> FirstHint(stored.tutorial),
         notice |-> NoNotice, hasError |-> FALSE]

NoLayout == [speed |-> Unset, guide |-> FALSE, showFps |-> FALSE]

\* localStorage holds what an earlier visit left, or anything else; only "true" is
\* a guide that was closed, and anything a tutorial that was completed.
ShellInit ==
    /\ Init
    /\ layout = NoLayout
    /\ store \in [speed : StoredSpeeds, theme : StoredThemes,
                  guide : BOOLEAN, tutorial : BOOLEAN]
    /\ document = Loaded(store)
    /\ chosen = [speed |-> IF store.speed \in 5 .. 30 THEN store.speed ELSE Unset,
                 theme |-> document.theme, closed |-> store.guide]

-----------------------------------------------------------------------------
(* The wizard inside its layout.  Another page brings another StepGuide. *)

\* The layout stays, whatever page is shown next.
SamePage ==
    /\ layout' = [layout EXCEPT !.guide =
                     IF route' = route THEN @ ELSE AutoOpens(route', store.guide)]
    /\ UNCHANGED <<document, store, chosen>>

\* The conditions of the controls, as the provider gives them.
isFirstStep == ctx.currentStep = 1
isLastStep == ctx.currentStep = StepCount
isStepAccessible(step) == step - 1 <= Len(ctx.completedSteps)

\* Back and Next of StepNavigation, the arrow keys (wherever the focus is), and
\* Continue on a page.
NavigationNext == ~isLastStep /\ GoNext /\ SamePage
NavigationBack == ~isFirstStep /\ GoBack /\ SamePage

\* A button of the StepSidebar
SidebarGoTo(step) == isStepAccessible(step) /\ GoTo(step) /\ SamePage

\* The results of the pages, and the history of the browser.
PageStep ==
    /\ \/ \E m \in Materials : SetMaterial(m)
       \/ \E t \in Texts : SetPlaintext(t)
       \/ \E step \in STEPS : BrowserHistory(step)
    /\ SamePage

\* The providers of the layout with the wizard in them are mounted: the speed is
\* read and written back.
LayoutMounts(step) ==
    /\ Mount(step)
    /\ layout' = [speed |-> SpeedOf(store.speed), showFps |-> FALSE,
                  guide |-> AutoOpens(route', store.guide)]
    /\ store' = [store EXCEPT !.speed = layout'.speed]

\* The user opens the wizard.
OpenWizard(step) ==
    /\ ~document.hasError
    /\ LayoutMounts(step)
    /\ UNCHANGED <<document, chosen>>

\* The user leaves it by the link to the landing page, say.
LeaveWizard ==
    /\ Leave
    /\ layout' = NoLayout
    /\ UNCHANGED <<document, store, chosen>>

\* The page is loaded again, in the wizard or elsewhere.  In place of the
\* children of the error boundary nothing listens to beforeunload.
Reload ==
    /\ \/ Unload
       \/ ~mounted /\ UNCHANGED vars
    /\ layout' = NoLayout
    /\ document' = Loaded(store)
    /\ UNCHANGED <<store, chosen>>

-----------------------------------------------------------------------------
(* The choices. *)

\* The slider of the layout; reduced motion, which disables it, belongs to the
\* engine (VizEngine).
SetSpeed(newSpeed) ==
    /\ mounted
    /\ layout' = [layout EXCEPT !.speed = Clamped(newSpeed)]
    /\ store' = [store EXCEPT !.speed = Clamped(newSpeed)]
    /\ chosen' = [chosen EXCEPT !.speed = newSpeed]
    /\ UNCHANGED <<vars, document>>

\* Ctrl+Shift+F
ToggleFps ==
    /\ mounted
    /\ layout' = [layout EXCEPT !.showFps = ~@]
    /\ UNCHANGED <<vars, document, store, chosen>>

\* The button of a StepGuide.
OpenGuide ==
    /\ mounted
    /\ ~layout.guide
    /\ layout' = [layout EXCEPT !.guide = TRUE]
    /\ UNCHANGED <<vars, document, store, chosen>>

\* handleClose of a StepGuide: of any page, and the one of step 1 will stay shut.
CloseGuide ==
    /\ mounted
    /\ layout.guide
    /\ layout' = [layout EXCEPT !.guide = FALSE]
    /\ store' = [store EXCEPT !.guide = TRUE]
    /\ chosen' = [chosen EXCEPT !.closed = TRUE]
    /\ UNCHANGED <<vars, document>>

\* ThemeToggle
ToggleTheme ==
    LET next == OtherTheme(document.theme) IN
    /\ document' = [document EXCEPT !.theme = next, !.classes = (@ \ Themes) \cup {next}]
    /\ store' = [store EXCEPT !.theme = next]
    /\ chosen' = [chosen EXCEPT !.theme = next]
    /\ UNCHANGED <<vars, layout>>

\* TutorialTooltip: back and forward.
NextHint ==
    /\ ~document.hasError
    /\ document.tutorial \in 0 .. TutorialLength - 2
    /\ document' = [document EXCEPT !.tutorial = @ + 1]
    /\ UNCHANGED <<vars, layout, store, chosen>>

PrevHint ==
    /\ ~document.hasError
    /\ document.tutorial \in 1 .. TutorialLength - 1
    /\ document' = [document EXCEPT !.tutorial = @ - 1]
    /\ UNCHANGED <<vars, layout, store, chosen>>

\* closeTutorial, by the cross or by Finish.
CloseTutorial ==
    /\ ~document.hasError
    /\ document.tutorial # NoHint
    /\ document' = [document EXCEPT !.tutorial = NoHint]
    /\ store' = [store EXCEPT !.tutorial = TRUE]
    /\ UNCHANGED <<vars, layout, chosen>>

-----------------------------------------------------------------------------
(* The service worker and the error boundary. *)

\* The code that registers it has arrived; then it reports.
Notice(notice) ==
    /\ document' = [document EXCEPT !.notice = notice]
    /\ UNCHANGED <<vars, layout, store, chosen>>

RegisterSW == Notice([document.notice EXCEPT !.updateSW = TRUE])
OnOfflineReady ==
    document.notice.updateSW /\ Notice([document.notice EXCEPT !.offlineReady = TRUE])
OnNeedRefresh ==
    document.notice.updateSW /\ Notice([document.notice EXCEPT !.needRefresh = TRUE])

\* Dismiss, and Got it, which takes back the notice of new content as well.
CancelNotice ==
    /\ document.notice.offlineReady \/ document.notice.needRefresh
    /\ Notice([document.notice EXCEPT !.offlineReady = FALSE, !.needRefresh = FALSE])

\* Reload in the notice: the new service worker loads the page again, unless
\* there was none to wait for.
UpdateServiceWorker ==
    /\ document.notice.needRefresh
    /\ Reload \/ Notice([document.notice EXCEPT !.needRefresh = FALSE])

\* A page throws while it renders: the boundary unmounts the pages, and with them
\* the tutorial and the wizard, and shows that something went wrong.
PageThrows ==
    /\ ~document.hasError
    /\ Leave \/ (~mounted /\ UNCHANGED vars)
    /\ layout' = NoLayout
    /\ document' = [document EXCEPT !.hasError = TRUE, !.tutorial = NoHint]
    /\ UNCHANGED <<store, chosen>>

\* Try Again: the children are mounted once more, at the page the address names:
\* one of the wizard, or another.  (Go Home loads the landing page: Reload.)
HandleRetry ==
    /\ document.hasError
    /\ document' = [document EXCEPT !.hasError = FALSE, !.tutorial = FirstHint(store.tutorial)]
    /\ \/ LayoutMounts(route)
       \/ UNCHANGED <<vars, layout, store>>
    /\ UNCHANGED chosen

-----------------------------------------------------------------------------

\* What the user does in the wizard, and what comes and goes with it.
WizardStep ==
    \/ NavigationNext \/ NavigationBack
    \/ PageStep \/ LeaveWizard
    \/ \E step \in STEPS : SidebarGoTo(step) \/ OpenWizard(step)

\* What happens around it.
AroundStep ==
    \/ \E speed \in Speeds : SetSpeed(speed)
    \/ ToggleFps \/ OpenGuide \/ CloseGuide
    \/ ToggleTheme \/ NextHint \/ PrevHint \/ CloseTutorial
    \/ RegisterSW \/ OnOfflineReady \/ OnNeedRefresh \/ CancelNotice
    \/ UpdateServiceWorker
    \/ PageThrows \/ HandleRetry \/ Reload

ShellNext == WizardStep \/ AroundStep

ShellSpec == ShellInit /\ [][ShellNext]_<<vars, shellVars>>

-----------------------------------------------------------------------------

\* What the user chose is there again after every reload, every return to the
\* wizard and every error of a page, and what localStorage held at first counts as
\* chosen: the speed, if it is one the delays can be divided by (another is never
\* used); the theme, alone among the themes in the classes of the document (it is
\* set at three places, and a word that is no theme stays in the classes until
\* the next load); and a guide of step 1 that was closed does not open by itself.
ChoicesSurvive ==
    /\ mounted =>
         /\ layout.speed \in 5 .. 30
         /\ chosen.speed # Unset => layout.speed = chosen.speed
         /\ store.speed = layout.speed
    /\ document.theme = chosen.theme
    /\ document.classes \cap Themes = {document.theme} \cap Themes
    /\ chosen.closed => ~AutoOpens(1, store.guide)
=============================================================================
