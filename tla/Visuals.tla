--------------------------------- MODULE Visuals ---------------------------------
(***************************************************************************)
(* The pictures of the frontend side by side: the pages of the wizard and  *)
(* the sandbox, which share the user's place, the engine and the clock of  *)
(* GSAP, and the brute-force panel, the page of the route of the bit       *)
(* flipper and the block cipher, which share nothing with them.            *)
(***************************************************************************)
EXTENDS StepScenes, Sandbox, BruteForce, BitFlipperPage, AESVisual

visualsVars == <<engineVars, sceneVars, sandboxVars, bruteVars, flipperVars, aesVars>>

Init ==
    /\ InitEngine /\ InitScenes /\ InitSandbox /\ InitBrute /\ InitFlipper
    /\ InitAES

(***************************************************************************)
(* Bound: a behaviour is about one of the five.  The sandbox comes with    *)
(* visits to the wizard, but without the steps and pages of the wizard:    *)
(* all that reaches the engine and the clock is in EngineStep, and the     *)
(* sandbox does not ask for reduced motion.                                *)
(***************************************************************************)
NoBruteForce == runs = 0 /\ panel
NoFlipper == mounts = 0
NoAES == round = -1
AboutWizard == (visit = 0 \/ step # 0) /\ stay = 0 /\ NoBruteForce /\ NoFlipper /\ NoAES
AboutSandbox == step = 0 /\ ~reduced /\ NoBruteForce /\ NoFlipper /\ NoAES
AboutBruteForce == visit = 0 /\ stay = 0 /\ NoFlipper /\ NoAES
AboutFlipper == visit = 0 /\ stay = 0 /\ NoBruteForce /\ NoAES
AboutAES == visit = 0 /\ stay = 0 /\ NoBruteForce /\ NoFlipper

\* Bound: decryptions, which share nothing with the matrix and the clock, come
\* neither with an analysis nor with visits to the wizard.
DecryptsAlone ==
    decrypting # NotDecrypting \/ decrypts # NoDecrypts => visit = 0 /\ ~isProcessing

Next ==
    \/ AboutWizard /\ SceneStep /\ UNCHANGED <<sandboxVars, bruteVars, flipperVars, aesVars>>
    \/ AboutSandbox /\ ((EngineStep /\ UNCHANGED sandboxVars) \/ SandboxStep) /\ DecryptsAlone'
       /\ UNCHANGED <<sceneVars, bruteVars, flipperVars, aesVars>>
    \/ AboutBruteForce /\ BruteStep
       /\ UNCHANGED <<engineVars, sceneVars, sandboxVars, flipperVars, aesVars>>
    \/ AboutFlipper /\ FlipperStep
       /\ UNCHANGED <<engineVars, sceneVars, sandboxVars, bruteVars, aesVars>>
    \/ AboutAES /\ AESStep
       /\ UNCHANGED <<engineVars, sceneVars, sandboxVars, bruteVars, flipperVars>>

Spec == Init /\ [][Next]_visualsVars /\ SceneFairness /\ SandboxFairness

-----------------------------------------------------------------------------

\* An animation of step 3 whose page stays, and an analysis that walks over the
\* matrix of the sandbox while GSAP is driven, come to their end and give back
\* the buttons they have disabled.  An analysis that finds no matrix, or is never
\* driven, is not among them.
AnimationsEnd == AnimationEnds /\ AnalysisEnds
=============================================================================
