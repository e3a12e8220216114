-------------------------------- MODULE Wizard --------------------------------
(***************************************************************************)
(* The handshake wizard: the state machine of handshake.machine.ts inside  *)
(* the WizardProvider, with the copy of its context in sessionStorage and  *)
(* the route of the page.  The provider unmounts when the user moves to    *)
(* another part of the application, and the page may be reloaded.          *)
(*                                                                         *)
(* A step is its position in STEPS, from 1.  The four results of the       *)
(* crypto steps are set, saved and restored alike: `material' stands for   *)
(* all of them.  An effect of React runs with the event that causes it.    *)
(***************************************************************************)
EXTENDS Integers, Sequences

CONSTANTS StepCount,    \* length of STEPS
          Materials,    \* values of the crypto results
          NoMaterial,   \* the results before any step has run
          Texts,        \* plaintexts
          DefaultText,  \* the plaintext of a new machine
          NoState       \* sessionStorage holds no cv_wizard_state

ASSUME WizardAssumption ==
    /\ StepCount \in Nat \ {0}
    /\ NoMaterial \in Materials
    /\ DefaultText \in Texts

STEPS == 1 .. StepCount

VARIABLES ctx,      \* the context of the machine (of the last one, while unmounted)
          mounted,  \* is a WizardProvider mounted?
          route,    \* the step whose page is shown
          visited,  \* the steps whose routes the browser can go back or forward to
          saved     \* cv_wizard_state in sessionStorage

vars == <<ctx, mounted, route, visited, saved>>

\* The context of a new machine.
InitialContext ==
    [currentStep |-> 1, completedSteps |-> <<>>,
     plaintext |-> DefaultText, material |-> NoMaterial]

\* The application is opened on another page than the wizard.
Init ==
    /\ ctx = InitialContext
    /\ mounted = FALSE
    /\ route = 1
    /\ visited = {}
    /\ saved = NoState

-----------------------------------------------------------------------------

\* An event changes the context to c: the provider saves it, and navigates
\* when the current step has changed.
Transition(c) ==
    /\ ctx' = c
    /\ saved' = c
    /\ IF c.currentStep # ctx.currentStep
       THEN /\ route' = c.currentStep
            /\ visited' = visited \cup {c.currentStep}
       ELSE UNCHANGED <<route, visited>>
    /\ UNCHANGED mounted

\* Mutant of MarkStepComplete: a step may be complete twice.
MarkStepAgain(completed, step) == Append(completed, step)

\* markStepComplete
MarkStepComplete(completed, step) ==
    IF \E i \in DOMAIN completed : completed[i] = step
    THEN completed
    ELSE Append(completed, step)

\* The context with another current step and these completed steps.
AtStep(step, completed) ==
    [currentStep |-> step, completedSteps |-> completed,
     plaintext |-> ctx.plaintext, material |-> ctx.material]

\* NEXT, guarded by canGoNext
GoNext ==
    /\ mounted
    /\ ctx.currentStep < StepCount
    /\ Transition(AtStep(ctx.currentStep + 1,
                         MarkStepComplete(ctx.completedSteps, ctx.currentStep)))

\* Mutant of GoBack: the step that is left is no longer complete.
GoBackUndoes ==
    /\ mounted
    /\ ctx.currentStep > 1
    /\ Transition(AtStep(ctx.currentStep - 1,
                         SelectSeq(ctx.completedSteps,
                                   LAMBDA step : step < ctx.currentStep)))

\* BACK, guarded by canGoBack
GoBack ==
    /\ mounted
    /\ ctx.currentStep > 1
    /\ Transition(AtStep(ctx.currentStep - 1, ctx.completedSteps))

\* canGoTo: an earlier step, or the first one not yet completed.
CanGoTo(step) == step <= Len(ctx.completedSteps) + 1

\* GO_TO
GoTo(step) ==
    /\ mounted
    /\ CanGoTo(step)
    /\ Transition(AtStep(step, ctx.completedSteps))

\* SET_RSA_KEYPAIR, SET_AES_KEY, SET_CIPHERTEXT, SET_WRAPPED_KEY
SetMaterial(m) ==
    /\ mounted
    /\ Transition([ctx EXCEPT !.material = m])

\* SET_PLAINTEXT
SetPlaintext(t) ==
    /\ mounted
    /\ Transition([ctx EXCEPT !.plaintext = t])

\* restoreState: what a new machine holds after RESTORE.
Restored(state) ==
    [currentStep |-> state.currentStep, completedSteps |-> state.completedSteps,
     plaintext |-> InitialContext.plaintext, material |-> state.material]

\* Mutant of Mount: the first save comes before doRestore has read.
MountSavesFirst(step) ==
    /\ ~mounted
    /\ mounted' = TRUE
    /\ ctx' = InitialContext
    /\ saved' = InitialContext
    /\ route' = InitialContext.currentStep
    /\ visited' = visited \cup {step, InitialContext.currentStep}

\* The user opens the page of a step and the provider mounts.  Its effects
\* run in their order: doRestore reads sessionStorage before the first save,
\* and the navigation follows the restored step.
Mount(step) ==
    LET c == IF saved = NoState THEN InitialContext ELSE Restored(saved) IN
    /\ ~mounted
    /\ mounted' = TRUE
    /\ ctx' = c
    /\ saved' = c
    /\ route' = c.currentStep
    /\ visited' = visited \cup {step, c.currentStep}

\* The user follows a link out of the wizard: the provider unmounts.
Leave ==
    /\ mounted
    /\ mounted' = FALSE
    /\ UNCHANGED <<ctx, route, visited, saved>>

\* The page is reloaded or left with the browser: beforeunload removes what
\* was saved.
Unload ==
    /\ mounted
    /\ mounted' = FALSE
    /\ saved' = NoState
    /\ UNCHANGED <<ctx, route, visited>>

\* Back or forward in the browser: another page of the wizard is shown and no
\* event reaches the machine.
BrowserHistory(step) ==
    /\ mounted
    /\ step \in visited
    /\ route' = step
    /\ UNCHANGED <<ctx, mounted, visited, saved>>

Next ==
    \/ GoNext
    \/ GoBack
    \/ Leave
    \/ Unload
    \/ \E step \in STEPS : GoTo(step) \/ Mount(step) \/ BrowserHistory(step)
    \/ \E m \in Materials : SetMaterial(m)
    \/ \E t \in Texts : SetPlaintext(t)

Spec == Init /\ [][Next]_vars

-----------------------------------------------------------------------------

Contexts == [currentStep : STEPS, completedSteps : Seq(STEPS),
             plaintext : Texts, material : Materials]

\* Type invariant: every context, the saved one included, is one of the machine.
TypeOK ==
    /\ ctx \in Contexts
    /\ mounted \in BOOLEAN
    /\ route \in STEPS
    /\ visited \subseteq STEPS
    /\ saved \in Contexts \cup {NoState}

\* A context in which the steps were completed in order and none was skipped.
InOrder(c) ==
    /\ \A i \in DOMAIN c.completedSteps : c.completedSteps[i] = i
    /\ Len(c.completedSteps) < StepCount
    /\ c.currentStep <= Len(c.completedSteps) + 1

\* However the user moves, jumps, leaves, reloads and returns, the completed
\* steps are the first ones, and the current step is at most one further.
\* (canGoTo compares a position in STEPS with the number of completed steps:
\* it is right only because of this.)
NothingSkipped == InOrder(ctx)

\* While the wizard is open no event takes a completed step back.
ProgressKept ==
    [][(mounted /\ mounted') =>
         \A i \in DOMAIN ctx.completedSteps :
             /\ i \in DOMAIN ctx'.completedSteps
             /\ ctx'.completedSteps[i] = ctx.completedSteps[i]]_vars

\* What a context holds of the user's progress.
Progress(c) == <<c.currentStep, c.completedSteps, c.material>>

\* Who moves to another part of the application and returns finds the step,
\* the completed steps and the results of the crypto steps as they were.
ReturnRestores ==
    [][(~mounted /\ mounted' /\ saved # NoState) => Progress(ctx') = Progress(ctx)]_vars
=============================================================================
