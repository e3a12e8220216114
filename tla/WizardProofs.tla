------------------------------ MODULE WizardProofs ------------------------------
(***************************************************************************)
(* Proofs about the wizard, for any number of steps and any results:       *)
(* type correctness, that no step is ever skipped, that progress is never  *)
(* taken back while the wizard is open, and that returning restores it.    *)
(*                                                                         *)
(* NothingSkipped is not inductive: the context is replaced by what        *)
(* sessionStorage holds, so the invariant also says what that is.          *)
(***************************************************************************)
EXTENDS AppShell, TLAPS

\* sessionStorage holds nothing, or the context the user last saw.
SavedIsContext ==
    /\ mounted => saved = ctx
    /\ saved # NoState => saved = ctx

\* The inductive invariant.
WizardInv ==
    /\ ctx \in Contexts
    /\ NothingSkipped
    /\ SavedIsContext

\* The context of a new machine is in order.
LEMMA InitialInOrder ==
    InitialContext \in Contexts /\ InOrder(InitialContext)
<1>1. InitialContext \in Contexts
  BY WizardAssumption DEF InitialContext, Contexts, STEPS
<1>2. InOrder(InitialContext)
  BY WizardAssumption DEF InitialContext, InOrder
<1>3. QED
  BY <1>1, <1>2

\* A restored context has the progress of the saved one.
LEMMA RestoredInOrder ==
    ASSUME NEW c \in Contexts, InOrder(c)
    PROVE  /\ Restored(c) \in Contexts
           /\ InOrder(Restored(c))
           /\ Progress(Restored(c)) = Progress(c)
<1>1. Restored(c) = [currentStep |-> c.currentStep, completedSteps |-> c.completedSteps,
                     plaintext |-> DefaultText, material |-> c.material]
  BY DEF Restored, InitialContext
<1>2. Restored(c) \in Contexts
  BY <1>1, WizardAssumption DEF Contexts
<1>3. InOrder(Restored(c))
  BY <1>1 DEF InOrder
<1>4. Progress(Restored(c)) = Progress(c)
  BY <1>1 DEF Progress
<1>5. QED
  BY <1>2, <1>3, <1>4

\* Marking a step that can be the current one keeps the completed steps in
\* order and leaves the next step accessible.
LEMMA MarkKeepsOrder ==
    ASSUME NEW completed \in Seq(STEPS),
           \A i \in DOMAIN completed : completed[i] = i,
           Len(completed) < StepCount,
           NEW step \in STEPS, step <= Len(completed) + 1, step < StepCount
    PROVE  LET marked == MarkStepComplete(completed, step) IN
           /\ marked \in Seq(STEPS)
           /\ \A i \in DOMAIN marked : marked[i] = i
           /\ Len(marked) < StepCount
           /\ step + 1 <= Len(marked) + 1
           /\ \A i \in DOMAIN completed : i \in DOMAIN marked /\ marked[i] = completed[i]
<1>1. CASE \E i \in DOMAIN completed : completed[i] = step
  <2>1. PICK i \in DOMAIN completed : completed[i] = step
    BY <1>1
  <2>2. step <= Len(completed)
    BY <2>1
  <2>3. QED
    BY <1>1, <2>2 DEF MarkStepComplete, STEPS
<1>2. CASE ~\E i \in DOMAIN completed : completed[i] = step
  <2>1. step = Len(completed) + 1
    BY <1>2 DEF STEPS
  <2>2. MarkStepComplete(completed, step) = Append(completed, step)
    BY <1>2 DEF MarkStepComplete
  <2>3. QED
    BY <2>1, <2>2, WizardAssumption DEF STEPS
<1>3. QED
  BY <1>1, <1>2

\* What every event has to establish of the context it leads to.
LEMMA TransitionKeepsInv ==
    ASSUME NEW c \in Contexts, InOrder(c), mounted, Transition(c)
    PROVE  WizardInv'
  BY DEF Transition, WizardInv, NothingSkipped, SavedIsContext, InOrder

\* NEXT: the only event that completes a step.
LEMMA GoNextKeepsInv ==
    ASSUME WizardInv, GoNext
    PROVE  /\ WizardInv'
           /\ \A i \in DOMAIN ctx.completedSteps :
                /\ i \in DOMAIN ctx'.completedSteps
                /\ ctx'.completedSteps[i] = ctx.completedSteps[i]
<1> DEFINE marked == MarkStepComplete(ctx.completedSteps, ctx.currentStep)
           c == [currentStep |-> ctx.currentStep + 1, completedSteps |-> marked,
                 plaintext |-> ctx.plaintext, material |-> ctx.material]
<1>1. /\ ctx.completedSteps \in Seq(STEPS)
      /\ \A i \in DOMAIN ctx.completedSteps : ctx.completedSteps[i] = i
      /\ Len(ctx.completedSteps) < StepCount
      /\ ctx.currentStep \in STEPS
      /\ ctx.currentStep <= Len(ctx.completedSteps) + 1
      /\ ctx.currentStep < StepCount
  BY DEF WizardInv, NothingSkipped, InOrder, Contexts, GoNext
<1>2. /\ marked \in Seq(STEPS)
      /\ \A i \in DOMAIN marked : marked[i] = i
      /\ Len(marked) < StepCount
      /\ ctx.currentStep + 1 <= Len(marked) + 1
      /\ \A i \in DOMAIN ctx.completedSteps :
           i \in DOMAIN marked /\ marked[i] = ctx.completedSteps[i]
  BY <1>1, MarkKeepsOrder
<1>3. mounted /\ Transition(c)
  BY Zenon DEF GoNext, AtStep
<1> HIDE DEF marked
<1>4. c \in Contexts
  BY <1>1, <1>2, WizardAssumption DEF WizardInv, Contexts, STEPS
<1>5. InOrder(c)
  BY <1>2 DEF InOrder
<1>6. ctx' = c
  BY <1>3 DEF Transition
<1> HIDE DEF c
<1>7. WizardInv'
  BY <1>3, <1>4, <1>5, TransitionKeepsInv
<1>8. QED
  BY <1>2, <1>6, <1>7 DEF c

\* Every step keeps the inductive invariant, and a step of an open wizard
\* keeps the completed steps.
LEMMA StepKeepsInv ==
    ASSUME WizardInv, [Next]_vars
    PROVE  /\ WizardInv'
           /\ (mounted /\ mounted') =>
                \A i \in DOMAIN ctx.completedSteps :
                   /\ i \in DOMAIN ctx'.completedSteps
                   /\ ctx'.completedSteps[i] = ctx.completedSteps[i]
<1>1. CASE GoNext
  BY <1>1, GoNextKeepsInv
<1>2. CASE GoBack
  <2> DEFINE c == AtStep(ctx.currentStep - 1, ctx.completedSteps)
  <2>1. mounted /\ Transition(c)
    BY <1>2, Zenon DEF GoBack
  <2>2. /\ ctx.currentStep - 1 \in STEPS
        /\ ctx.currentStep - 1 <= Len(ctx.completedSteps) + 1
    <3>1. /\ ctx.currentStep \in STEPS
          /\ ctx.completedSteps \in Seq(STEPS)
          /\ ctx.currentStep <= Len(ctx.completedSteps) + 1
      BY DEF WizardInv, NothingSkipped, InOrder, Contexts
    <3>2. ctx.currentStep > 1
      BY <1>2 DEF GoBack
    <3>3. Len(ctx.completedSteps) \in Nat
      BY <3>1
    <3>4. QED
      BY <3>1, <3>2, <3>3, WizardAssumption DEF STEPS
  <2>3. c \in Contexts
    BY <2>2 DEF AtStep, WizardInv, Contexts
  <2>4. InOrder(c) /\ c.completedSteps = ctx.completedSteps
    BY <2>2 DEF AtStep, WizardInv, NothingSkipped, InOrder
  <2>5. QED
    BY <2>1, <2>3, <2>4, TransitionKeepsInv DEF Transition
<1>3. ASSUME NEW step \in STEPS, GoTo(step)
      PROVE  WizardInv' /\ ctx'.completedSteps = ctx.completedSteps
  <2> DEFINE c == [currentStep |-> step, completedSteps |-> ctx.completedSteps,
                   plaintext |-> ctx.plaintext, material |-> ctx.material]
  <2>1. mounted /\ Transition(c)
    BY <1>3 DEF GoTo, AtStep
  <2>2. c \in Contexts /\ InOrder(c)
    BY <1>3 DEF GoTo, CanGoTo, WizardInv, NothingSkipped, InOrder, Contexts
  <2>3. QED
    BY <2>1, <2>2, TransitionKeepsInv DEF Transition
<1>4. ASSUME NEW m \in Materials, SetMaterial(m)
      PROVE  WizardInv' /\ ctx'.completedSteps = ctx.completedSteps
  <2> DEFINE c == [currentStep |-> ctx.currentStep, completedSteps |-> ctx.completedSteps,
                   plaintext |-> ctx.plaintext, material |-> m]
  <2>1. mounted /\ Transition(c)
    BY <1>4 DEF SetMaterial, WizardInv, Contexts
  <2>2. c \in Contexts /\ InOrder(c)
    BY DEF WizardInv, NothingSkipped, InOrder, Contexts
  <2>3. QED
    BY <2>1, <2>2, TransitionKeepsInv DEF Transition
<1>5. ASSUME NEW t \in Texts, SetPlaintext(t)
      PROVE  WizardInv' /\ ctx'.completedSteps = ctx.completedSteps
  <2> DEFINE c == [currentStep |-> ctx.currentStep, completedSteps |-> ctx.completedSteps,
                   plaintext |-> t, material |-> ctx.material]
  <2>1. mounted /\ Transition(c)
    BY <1>5 DEF SetPlaintext, WizardInv, Contexts
  <2>2. c \in Contexts /\ InOrder(c)
    BY DEF WizardInv, NothingSkipped, InOrder, Contexts
  <2>3. QED
    BY <2>1, <2>2, TransitionKeepsInv DEF Transition
<1>6. ASSUME NEW step \in STEPS, Mount(step)
      PROVE  WizardInv' /\ ~mounted
  <2>1. CASE saved = NoState
    BY <1>6, <2>1, InitialInOrder
       DEF Mount, WizardInv, NothingSkipped, SavedIsContext, InOrder
  <2>2. CASE saved # NoState
    <3>1. saved = ctx
      BY <2>2 DEF WizardInv, SavedIsContext
    <3>2. ctx' = Restored(ctx) /\ saved' = Restored(ctx) /\ ~mounted
      BY <1>6, <2>2, <3>1 DEF Mount
    <3>3. Restored(ctx) \in Contexts /\ InOrder(Restored(ctx))
      BY RestoredInOrder DEF WizardInv, NothingSkipped
    <3>4. QED
      BY <3>2, <3>3 DEF WizardInv, NothingSkipped, SavedIsContext, InOrder
  <2>3. QED
    BY <2>1, <2>2
<1>7. CASE Leave \/ Unload \/ UNCHANGED vars \/ \E step \in STEPS : BrowserHistory(step)
  BY <1>7 DEF Leave, Unload, BrowserHistory, vars, WizardInv, NothingSkipped,
              SavedIsContext, InOrder
<1>8. QED
  BY <1>1, <1>2, <1>3, <1>4, <1>5, <1>6, <1>7 DEF Next

\* The inductive invariant holds in every reachable state.
THEOREM InvHolds == Spec => []WizardInv
<1>1. Init => WizardInv
  BY InitialInOrder DEF Init, WizardInv, NothingSkipped, SavedIsContext, InOrder
<1>2. WizardInv /\ [Next]_vars => WizardInv'
  BY StepKeepsInv
<1>3. QED
  BY <1>1, <1>2, PTL DEF Spec

\* However many steps there are, the completed ones are always the first ones
\* and the current step is at most one further.
THEOREM StepsInOrder == Spec => []NothingSkipped
<1>1. WizardInv => NothingSkipped
  BY DEF WizardInv
<1>2. QED
  BY <1>1, InvHolds, PTL

\* No event of an open wizard takes a completed step back.
THEOREM ProgressIsKept == Spec => ProgressKept
<1>1. WizardInv /\ [Next]_vars =>
        [(mounted /\ mounted') =>
           \A i \in DOMAIN ctx.completedSteps :
             /\ i \in DOMAIN ctx'.completedSteps
             /\ ctx'.completedSteps[i] = ctx.completedSteps[i]]_vars
  BY StepKeepsInv
<1>2. QED
  BY <1>1, InvHolds, PTL DEF Spec, ProgressKept

\* Leaving the wizard and returning restores the step, the completed steps and
\* the results of the crypto steps.
THEOREM ReturnIsFaithful == Spec => ReturnRestores
<1>1. WizardInv /\ [Next]_vars =>
        [(~mounted /\ mounted' /\ saved # NoState) => Progress(ctx') = Progress(ctx)]_vars
  <2> SUFFICES ASSUME WizardInv, [Next]_vars, ~mounted, mounted', saved # NoState
               PROVE  Progress(ctx') = Progress(ctx)
    OBVIOUS
  <2>1. PICK step \in STEPS : Mount(step)
    BY DEF Next, GoNext, GoBack, GoTo, Leave, Unload, BrowserHistory, SetMaterial,
           SetPlaintext, Transition, vars
  <2>2. ctx' = Restored(ctx)
    BY <2>1 DEF Mount, WizardInv, SavedIsContext
  <2>3. QED
    BY <2>2, RestoredInOrder DEF WizardInv, NothingSkipped
<1>2. QED
  BY <1>1, InvHolds, PTL DEF Spec, ReturnRestores

\* A machine that has not been used is of its type.
LEMMA InitialType == Init => TypeOK
<1> SUFFICES ASSUME Init
             PROVE  TypeOK
  OBVIOUS
<1>1. ctx \in Contexts /\ saved \in Contexts \cup {NoState}
  BY InitialInOrder DEF Init
<1>2. 1 \in STEPS
  BY WizardAssumption DEF STEPS
<1>3. mounted \in BOOLEAN /\ route \in STEPS /\ visited \subseteq STEPS
  BY <1>2, Zenon DEF Init
<1>4. QED
  BY <1>1, <1>3 DEF TypeOK

\* Every step of a machine in order keeps the types.
LEMMA StepKeepsType ==
    ASSUME WizardInv, WizardInv', TypeOK, [Next]_vars
    PROVE  TypeOK'
<1> DEFINE Pages == mounted \in BOOLEAN /\ route \in STEPS /\ visited \subseteq STEPS
<1>1. ctx' \in Contexts /\ ctx'.currentStep \in STEPS
  BY DEF WizardInv, Contexts
<1>2. saved' \in Contexts \cup {NoState}
  BY <1>1 DEF WizardInv, SavedIsContext
<1> SUFFICES Pages'
  BY <1>1, <1>2 DEF TypeOK
<1>3. CASE GoNext \/ GoBack
  <2>1. /\ mounted' = mounted
        /\ \/ route' = ctx'.currentStep /\ visited' = visited \cup {ctx'.currentStep}
           \/ UNCHANGED <<route, visited>>
    BY <1>3, Zenon DEF GoNext, GoBack, Transition
  <2>2. mounted' \in BOOLEAN
    BY <2>1, Zenon DEF TypeOK
  <2>3. route' \in STEPS /\ visited' \subseteq STEPS
    BY <1>1, <2>1 DEF TypeOK
  <2>4. QED
    BY <2>2, <2>3
<1>4. CASE \/ \E step \in STEPS : GoTo(step)
           \/ \E m \in Materials : SetMaterial(m)
           \/ \E t \in Texts : SetPlaintext(t)
  BY <1>1, <1>4 DEF GoTo, SetMaterial, SetPlaintext, Transition, TypeOK
<1>5. CASE \E step \in STEPS : Mount(step)
  BY <1>1, <1>5 DEF Mount, TypeOK
<1>6. CASE Leave \/ Unload \/ UNCHANGED vars \/ \E step \in STEPS : BrowserHistory(step)
  BY <1>6 DEF Leave, Unload, BrowserHistory, TypeOK, vars
<1>7. QED
  BY <1>3, <1>4, <1>5, <1>6, Zenon DEF Next

\* Type correctness, for the routes as well.
THEOREM TypeCorrect == Spec => []TypeOK
<1>1. WizardInv /\ WizardInv' /\ TypeOK /\ [Next]_vars => TypeOK'
  BY StepKeepsType
<1>2. QED
  BY <1>1, InitialType, InvHolds, PTL DEF Spec

-----------------------------------------------------------------------------
(***************************************************************************)
(* Proofs about the shell of the wizard: it implements the Wizard, so that *)
(* all that is proved of the wizard holds inside its shell, and what the   *)
(* user has chosen survives, for every speed and every number of hints.    *)
(*                                                                         *)
(* ChoicesSurvive is not inductive: what is chosen disappears from the     *)
(* pages while the wizard is unmounted, so the invariant says what         *)
(* localStorage holds of it meanwhile.                                     *)
(***************************************************************************)


SliderSpeeds == 5 .. 30

\* What names a theme: one of the two, or any other word that was stored.
ThemeNames == Themes \cup (StoredThemes \ {Unset})

\* The state of the shell is of its type.
ShellType ==
    /\ layout \in [speed : SliderSpeeds \cup {Unset}, guide : BOOLEAN, showFps : BOOLEAN]
    /\ document \in [theme : ThemeNames, classes : SUBSET ThemeNames,
                     tutorial : 0 .. TutorialLength - 1 \cup {NoHint},
                     notice : [updateSW : BOOLEAN, offlineReady : BOOLEAN, needRefresh : BOOLEAN],
                     hasError : BOOLEAN]
    /\ store \in [speed : StoredSpeeds \cup SliderSpeeds, theme : ThemeNames \cup {Unset},
                  guide : BOOLEAN, tutorial : BOOLEAN]
    /\ chosen \in [speed : SliderSpeeds \cup {Unset}, theme : ThemeNames, closed : BOOLEAN]

\* localStorage holds what has been chosen, and the pages show it.
SpeedKept ==
    /\ chosen.speed # Unset => store.speed = chosen.speed
    /\ mounted => layout.speed \in SliderSpeeds /\ store.speed = layout.speed
ThemeKept ==
    /\ store.theme = Unset => document.theme = "deep-space"
    /\ store.theme # Unset => document.theme = store.theme
    /\ document.theme = chosen.theme
    /\ document.classes \cap Themes = {document.theme} \cap Themes
GuideKept == chosen.closed => store.guide

\* The inductive invariant of the shell.
ShellInv == ShellType /\ SpeedKept /\ ThemeKept /\ GuideKept

-----------------------------------------------------------------------------

\* Whatever goes on in the shell, the wizard in it makes a step of its own or none.
LEMMA ShellStepIsWizardStep ==
    ASSUME TypeOK, [ShellNext]_<<vars, shellVars>>
    PROVE  [Next]_vars
<1>1. CASE NavigationNext \/ NavigationBack \/ LeaveWizard
  BY <1>1, Zenon DEF NavigationNext, NavigationBack, LeaveWizard, Next
<1>2. CASE PageStep
  BY <1>2, Zenon DEF PageStep, Next
<1>3. ASSUME NEW step \in STEPS, SidebarGoTo(step) \/ OpenWizard(step)
      PROVE  Next
  BY <1>3, Zenon DEF SidebarGoTo, OpenWizard, LayoutMounts, Next
<1>4. CASE Reload \/ PageThrows
  <2>1. Leave \/ Unload \/ UNCHANGED vars
    BY <1>4, Zenon DEF Reload, PageThrows
  <2>2. QED
    BY <2>1, Zenon DEF Next
<1>5. CASE HandleRetry
  <2>1. route \in STEPS
    BY DEF TypeOK
  <2>2. CASE LayoutMounts(route)
    BY <2>1, <2>2, Zenon DEF LayoutMounts, Next
  <2>3. CASE UNCHANGED <<vars, layout, store>>
    BY <2>3
  <2>4. QED
    BY <1>5, <2>2, <2>3, Zenon DEF HandleRetry
<1>6. ASSUME NEW notice, Notice(notice)
      PROVE  UNCHANGED vars
  BY <1>6 DEF Notice
<1>7. CASE \/ RegisterSW \/ OnOfflineReady \/ OnNeedRefresh \/ CancelNotice
           \/ UpdateServiceWorker
  BY <1>4, <1>6, <1>7, Zenon
     DEF RegisterSW, OnOfflineReady, OnNeedRefresh, CancelNotice, UpdateServiceWorker
<1>8. CASE \/ \E speed \in Speeds : SetSpeed(speed)
           \/ ToggleFps \/ OpenGuide \/ CloseGuide
           \/ ToggleTheme \/ NextHint \/ PrevHint \/ CloseTutorial
  <2>1. UNCHANGED vars
    BY <1>8 DEF SetSpeed, ToggleFps, OpenGuide, CloseGuide, ToggleTheme, NextHint, PrevHint,
                CloseTutorial
  <2>2. QED
    BY <2>1
<1>9. CASE UNCHANGED <<vars, shellVars>>
  BY <1>9
<1>10. QED
  BY <1>1, <1>2, <1>3, <1>4, <1>5, <1>7, <1>8, <1>9, Zenon DEF ShellNext, WizardStep, AroundStep

\* The wizard in its shell is the Wizard: nothing around it, neither an error nor a
\* new service worker, makes it take a step that it could not take by itself.
THEOREM ShellImplementsWizard == ShellSpec => Spec
<1> DEFINE Inv == WizardInv /\ TypeOK
<1>1. ShellInit => Init /\ Inv
  BY InitialInOrder, InitialType
     DEF ShellInit, Init, WizardInv, NothingSkipped, SavedIsContext, InOrder
<1>2. Inv /\ [ShellNext]_<<vars, shellVars>> => Inv' /\ [Next]_vars
  BY ShellStepIsWizardStep, StepKeepsInv, StepKeepsType
<1>3. QED
  BY <1>1, <1>2, PTL DEF ShellSpec, Spec

\* No step is skipped in the shell either, ...
COROLLARY ShellStepsInOrder == ShellSpec => []NothingSkipped
BY ShellImplementsWizard, StepsInOrder, PTL

\* ... and who leaves the wizard, also by an error, finds it as it was.
COROLLARY ShellReturnIsFaithful == ShellSpec => ReturnRestores
BY ShellImplementsWizard, ReturnIsFaithful, PTL

-----------------------------------------------------------------------------

\* A document that is loaded has the theme that localStorage holds.
LEMMA LoadedType ==
    ASSUME ShellType
    PROVE  /\ Loaded(store) \in [theme : ThemeNames, classes : SUBSET ThemeNames,
                                 tutorial : 0 .. TutorialLength - 1 \cup {NoHint},
                                 notice : [updateSW : BOOLEAN, offlineReady : BOOLEAN,
                                           needRefresh : BOOLEAN],
                                 hasError : BOOLEAN]
           /\ Loaded(store).theme = IF store.theme = Unset THEN "deep-space" ELSE store.theme
           /\ Loaded(store).classes = {Loaded(store).theme}
<1>1. store.theme \in ThemeNames \cup {Unset}
  BY DEF ShellType
<1>2. (IF store.theme = Unset THEN "deep-space" ELSE store.theme) \in ThemeNames
  BY <1>1 DEF ThemeNames, Themes
<1>3. FirstHint(store.tutorial) \in 0 .. TutorialLength - 1 \cup {NoHint}
  BY AppShellAssumption DEF FirstHint
<1>4. QED
  BY <1>2, <1>3 DEF Loaded, NoNotice

\* The shell as it is at first.
LEMMA ShellInitHolds == ShellInit => ShellInv
<1> SUFFICES ASSUME ShellInit
             PROVE  ShellInv
  OBVIOUS
<1>1. store \in [speed : StoredSpeeds, theme : StoredThemes,
                 guide : BOOLEAN, tutorial : BOOLEAN]
  BY DEF ShellInit
<1>2. /\ document = [theme |-> IF store.theme = Unset THEN "deep-space" ELSE store.theme,
                     classes |-> {IF store.theme = Unset THEN "deep-space" ELSE store.theme},
                     tutorial |-> FirstHint(store.tutorial),
                     notice |-> NoNotice, hasError |-> FALSE]
      /\ FirstHint(store.tutorial) \in 0 .. TutorialLength - 1 \cup {NoHint}
  BY AppShellAssumption DEF ShellInit, Loaded, FirstHint
<1>3. /\ layout = NoLayout
      /\ chosen = [speed |-> IF store.speed \in SliderSpeeds THEN store.speed ELSE Unset,
                   theme |-> document.theme, closed |-> store.guide]
  BY DEF ShellInit, SliderSpeeds
<1>4. ShellType
  <2>1. document.theme \in ThemeNames /\ store.theme \in ThemeNames \cup {Unset}
    BY <1>1, <1>2 DEF ThemeNames, Themes
  <2> HIDE DEF SliderSpeeds
  <2>2. QED
    BY <1>1, <1>2, <1>3, <2>1 DEF ShellType, NoNotice, NoLayout
<1>5. ~mounted
  BY Zenon DEF ShellInit, Init
<1>6. SpeedKept /\ GuideKept
  BY <1>3, <1>5 DEF SpeedKept, GuideKept
<1>7. ThemeKept
  BY <1>2, <1>3 DEF ThemeKept
<1>8. QED
  BY <1>4, <1>6, <1>7 DEF ShellInv

\* Mounting the layout reads the speed that was chosen.
LEMMA LayoutMountsKeepsInv ==
    ASSUME ShellInv, NEW step, LayoutMounts(step), UNCHANGED chosen,
           UNCHANGED document \/ document' = [document EXCEPT !.hasError = FALSE,
                                                !.tutorial = FirstHint(store.tutorial)]
    PROVE  ShellInv'
<1>1. /\ SpeedOf(store.speed) \in SliderSpeeds
      /\ chosen.speed # Unset => SpeedOf(store.speed) = store.speed
  BY DEF SpeedOf, SliderSpeeds, ShellInv, ShellType, SpeedKept
<1>2. /\ layout' = [speed |-> SpeedOf(store.speed), showFps |-> FALSE,
                    guide |-> AutoOpens(route', store.guide)]
      /\ store' = [store EXCEPT !.speed = SpeedOf(store.speed)]
      /\ UNCHANGED chosen
  BY DEF LayoutMounts
<1>3. AutoOpens(route', store.guide) \in BOOLEAN
  BY DEF AutoOpens
<1>4. FirstHint(store.tutorial) \in 0 .. TutorialLength - 1 \cup {NoHint}
  BY AppShellAssumption DEF FirstHint
<1> HIDE DEF SliderSpeeds
<1>5. ShellType'
  BY <1>1, <1>2, <1>3, <1>4 DEF ShellInv, ShellType
<1>6. SpeedKept'
  BY <1>1, <1>2 DEF ShellInv, ShellType, SpeedKept
<1>7. ThemeKept' /\ GuideKept'
  BY <1>2 DEF ShellInv, ShellType, ThemeKept, GuideKept
<1>8. QED
  BY <1>5, <1>6, <1>7 DEF ShellInv
\* Every step keeps the invariant of the shell.
LEMMA ShellStepKeepsInv ==
    ASSUME ShellInv, [ShellNext]_<<vars, shellVars>>
    PROVE  ShellInv'
<1> USE DEF ShellInv, ShellType, SpeedKept, ThemeKept, GuideKept
<1>1. ASSUME SamePage, mounted' = mounted
      PROVE  ShellInv'
  <2>1. layout'.speed = layout.speed
    BY <1>1 DEF SamePage
  <2>2. AutoOpens(route', store.guide) \in BOOLEAN
    BY DEF AutoOpens
  <2>3. layout' \in [speed : SliderSpeeds \cup {Unset}, guide : BOOLEAN, showFps : BOOLEAN]
    BY <1>1, <2>2 DEF SamePage
  <2>4. QED
    BY <1>1, <2>1, <2>3 DEF SamePage
<1>2. CASE NavigationNext \/ NavigationBack \/ PageStep
  <2>1. SamePage /\ mounted' = mounted
    BY <1>2 DEF NavigationNext, NavigationBack, PageStep, GoNext, GoBack, SetMaterial,
                SetPlaintext, BrowserHistory, Transition
  <2>2. QED
    BY <1>1, <2>1
<1>3. ASSUME NEW step \in STEPS, SidebarGoTo(step)
      PROVE  ShellInv'
  BY <1>1, <1>3 DEF SidebarGoTo, GoTo, Transition
<1>4. ASSUME NEW step \in STEPS, OpenWizard(step)
      PROVE  ShellInv'
  BY <1>4, LayoutMountsKeepsInv DEF OpenWizard
<1>5. ASSUME layout' = NoLayout, mounted' = FALSE, UNCHANGED <<store, chosen>>,
             \/ UNCHANGED document
             \/ document' = Loaded(store)
             \/ document' = [document EXCEPT !.hasError = TRUE, !.tutorial = NoHint]
      PROVE  ShellInv'
  BY <1>5, LoadedType DEF NoLayout
<1>6. CASE LeaveWizard \/ Reload \/ PageThrows
  <2>1. mounted' = FALSE
    BY <1>6 DEF LeaveWizard, Reload, PageThrows, Leave, Unload, vars
  <2>2. QED
    BY <1>5, <1>6, <2>1 DEF LeaveWizard, Reload, PageThrows
<1>7. CASE HandleRetry
  <2>1. /\ document' = [document EXCEPT !.hasError = FALSE,
                                        !.tutorial = FirstHint(store.tutorial)]
        /\ UNCHANGED chosen
        /\ LayoutMounts(route) \/ UNCHANGED <<vars, layout, store>>
    BY <1>7, Zenon DEF HandleRetry
  <2>2. CASE LayoutMounts(route)
    BY <2>1, <2>2, LayoutMountsKeepsInv
  <2>3. CASE UNCHANGED <<vars, layout, store>>
    <3>1. FirstHint(store.tutorial) \in 0 .. TutorialLength - 1 \cup {NoHint}
      BY AppShellAssumption DEF FirstHint
    <3>2. QED
      BY <2>1, <2>3, <3>1 DEF vars
  <2>4. QED
    BY <2>1, <2>2, <2>3
<1>8. CASE \E speed \in Speeds : SetSpeed(speed)
  BY <1>8, AppShellAssumption DEF SetSpeed, Clamped, SliderSpeeds, vars
<1>9. CASE ToggleFps \/ OpenGuide \/ CloseGuide
  BY <1>9 DEF ToggleFps, OpenGuide, CloseGuide, vars
<1>10. CASE ToggleTheme
  <2> DEFINE next == OtherTheme(document.theme)
  <2>1. next \in Themes /\ next \in ThemeNames /\ next # Unset
    BY AppShellAssumption DEF OtherTheme, Themes, ThemeNames
  <2> HIDE DEF next
  <2>2. /\ document' = [document EXCEPT !.theme = next,
                                        !.classes = (@ \ Themes) \cup {next}]
        /\ store' = [store EXCEPT !.theme = next]
        /\ chosen' = [chosen EXCEPT !.theme = next]
        /\ UNCHANGED <<mounted, layout>>
    BY <1>10 DEF ToggleTheme, next, vars
  <2>3. QED
    BY <2>1, <2>2
<1>11. CASE NextHint \/ PrevHint \/ CloseTutorial
  <2>1. ASSUME NEW hint \in 0 .. TutorialLength - 1 \cup {NoHint},
               document' = [document EXCEPT !.tutorial = hint],
               UNCHANGED store \/ store' = [store EXCEPT !.tutorial = TRUE],
               UNCHANGED <<mounted, layout, chosen>>
        PROVE  ShellInv'
    BY <2>1
  <2>2. CASE NextHint
    BY <2>1, <2>2, AppShellAssumption DEF NextHint, vars
  <2>3. CASE PrevHint
    BY <2>1, <2>3, AppShellAssumption DEF PrevHint, vars
  <2>4. CASE CloseTutorial
    BY <2>1, <2>4 DEF CloseTutorial, vars
  <2>5. QED
    BY <1>11, <2>2, <2>3, <2>4
<1>12. ASSUME NEW notice \in [updateSW : BOOLEAN, offlineReady : BOOLEAN, needRefresh : BOOLEAN],
              Notice(notice)
       PROVE  ShellInv'
  BY <1>12 DEF Notice, vars
<1>13. CASE \/ RegisterSW \/ OnOfflineReady \/ OnNeedRefresh \/ CancelNotice
            \/ UpdateServiceWorker
  BY <1>6, <1>12, <1>13
     DEF RegisterSW, OnOfflineReady, OnNeedRefresh, CancelNotice, UpdateServiceWorker
<1>14. CASE UNCHANGED <<vars, shellVars>>
  BY <1>14 DEF vars, shellVars
<1>15. QED
  BY <1>2, <1>3, <1>4, <1>6, <1>7, <1>8, <1>9, <1>10, <1>11, <1>13, <1>14, Zenon
     DEF ShellNext, WizardStep, AroundStep

\* What the user chose is there again after every reload, every return and every
\* error, whatever the speeds are and whatever localStorage held at first: any
\* speed and any word as the theme, a guide closed and a tutorial completed or not.
THEOREM ChoicesSurviveAlways == ShellSpec => []ChoicesSurvive
<1>1. ShellInv => ChoicesSurvive
  BY DEF ShellInv, SpeedKept, ThemeKept, GuideKept, ChoicesSurvive, SliderSpeeds, AutoOpens
<1>2. ShellInv /\ [ShellNext]_<<vars, shellVars>> => ShellInv'
  BY ShellStepKeepsInv
<1>3. QED
  BY <1>1, <1>2, ShellInitHolds, PTL DEF ShellSpec
=============================================================================
