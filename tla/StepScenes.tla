------------------------------- MODULE StepScenes -------------------------------
(***************************************************************************)
(* What the pages of the wizard put on the stage of the engine.  The layout *)
(* clears the stage when the step changes and when the engine becomes      *)
(* ready; each page attaches its own scene when it is mounted.  A change of *)
(* step is three commits: the machine's step changes and the old page's    *)
(* frame starts to leave; the router follows and mounts the new page in the *)
(* frame that is leaving; the frame is gone and the page is mounted again  *)
(* in a new one.  Keys, ciphertexts and animation steps arrive in between, *)
(* also for pages that are gone.                                           *)
(*                                                                         *)
(* A page is numbered by its mount; with it go one scene and, in step 3,   *)
(* one run of an animation at a time (isAnimating).                        *)
(***************************************************************************)
EXTENDS VizEngine, Sequences

CONSTANTS Steps,      \* the steps the user moves between, of 1 .. 6
          MaxPages,   \* bound: mounts of a page
          Delays,     \* bound: delays in each part of an animation
          MaxJobs     \* bound: keys and animations under way

ASSUME StepScenesAssumption == MaxPages \in Nat /\ Steps \subseteq 1 .. 6

VARIABLES step,        \* currentStep of the machine
          shown,       \* the step the frame in place was made for (its key)
          route,       \* the step whose page the router renders
          page,        \* the page that is mounted, 0 while its code loads
          pages,       \* mounts so far
          scene,       \* page -> its scene
          run,         \* page -> what its animation of step 3 waits for
          generating,  \* pairs of a page that waits for a key and its step
          rsaKeyPair   \* are there RSA keys?

sceneVars == <<step, shown, route, page, pages, scene, run, generating, rsaKeyPair>>

Pages == 1 .. MaxPages

WithScene == {1, 2, 3, 5}
Keygen == 1
SessionKey == 2
AESCipher == 3
Wire == 5

\* `filled': the root holds its children; `onStage': the stage holds the root;
\* `grid': the cells of step 3 are made; `play': "cleared" when the engine has
\* taken the animation off its timeline.
NoScene == [step |-> 0, filled |-> FALSE, onStage |-> FALSE, grid |-> FALSE,
            cancelled |-> FALSE, play |-> "not"]

\* The scenes after their constructor and init(): spheres and labels; a lock
\* and its swirl; a container whose cells are made later; the wire, its ends
\* and the flash.
OnStage(s) == [NoScene EXCEPT !.step = s, !.filled = TRUE, !.onStage = TRUE]
KeygenScene == OnStage(Keygen)
BitStream == OnStage(SessionKey)
StateMatrix == OnStage(AESCipher)
WireScene == OnStage(Wire)

NewScene(s) ==
    CASE s = Keygen -> KeygenScene
      [] s = SessionKey -> BitStream
      [] s = AESCipher -> StateMatrix
      [] s = Wire -> WireScene
      [] OTHER -> NoScene

OffStage(sc) == [sc EXCEPT !.filled = FALSE, !.onStage = FALSE]

\* destroy() of each: only that of step 3 is remembered, by `cancelled', and
\* bits may fall again.
KeygenDestroyed(sc) == [OffStage(sc) EXCEPT !.play = "not"]
BitStreamDestroyed(sc) == [OffStage(sc) EXCEPT !.play = "not"]
StateMatrixDestroyed(sc) == [OffStage(sc) EXCEPT !.cancelled = TRUE, !.grid = FALSE]
WireDestroyed(sc) == OffStage(sc)

\* Mutant of SceneDestroyed: the root keeps its children.
SceneDestroyedKeepsChildren(sc) ==
    [sc EXCEPT !.onStage = FALSE, !.grid = FALSE, !.cancelled = TRUE, !.play = "not"]

SceneDestroyed(sc) ==
    CASE sc.step = Keygen -> KeygenDestroyed(sc)
      [] sc.step = SessionKey -> BitStreamDestroyed(sc)
      [] sc.step = AESCipher -> StateMatrixDestroyed(sc)
      [] sc.step = Wire -> WireDestroyed(sc)
      [] OTHER -> sc

\* updateMatrix of step 3: ensureAttached, and a grid where there is none; the
\* grid shows only while the root still holds its container.
MatrixUpdated(sc) == [sc EXCEPT !.onStage = TRUE, !.grid = TRUE]

\* play(): that of step 1 starts over, the bits of step 2 fall once.
KeysFlyApart(sc) == [sc EXCEPT !.play = "on"]
BitsFall(sc) == IF sc.play = "not" THEN [sc EXCEPT !.play = "on"] ELSE sc

\* engine.clearScenes(): the stage and the timeline are emptied.  (The overlay
\* it fades out is put on the stage first and so removed with the rest.)
Cleared(scenes) ==
    [i \in Pages |-> [scenes[i] EXCEPT !.onStage = FALSE,
                                       !.play = IF @ = "on" THEN "cleared" ELSE @]]

\* What a delay takes at speed 1, and one that is divided by 0.
Time == 1
Never == 0

Idle == [phase |-> "idle", left |-> 0, delay |-> Never]

\* A run that is over leaves the name of its last operation on the page.
Over == [Idle EXCEPT !.phase = "over"]

InitScenes ==
    /\ step = 0 /\ shown = 0 /\ route = 0
    /\ page = 0 /\ pages = 0
    /\ scene = [i \in Pages |-> NoScene]
    /\ run = [i \in Pages |-> Idle]
    /\ generating = {}
    /\ rsaKeyPair = FALSE

-----------------------------------------------------------------------------
(* Mounting and unmounting. *)

\* The scenes once the page in place is unmounted.
Unmounted(scenes) ==
    IF page = 0 THEN scenes ELSE [scenes EXCEPT ![page] = SceneDestroyed(@)]

\* The effects of the pages: with an engine each sets up its scene, and step 1
\* plays it if there are keys.
KeygenEffect == IF rsaKeyPair THEN KeysFlyApart(KeygenScene) ELSE KeygenScene
Effect(s) ==
    IF ~HasEngine THEN NoScene
    ELSE IF s = Keygen THEN KeygenEffect ELSE NewScene(s)

\* The page of step s is mounted in place of the one there is.
MountPage(s) ==
    /\ pages < MaxPages
    /\ pages' = pages + 1
    /\ page' = pages'
    /\ scene' = [Unmounted(scene) EXCEPT ![pages'] = Effect(s)]

\* The user opens the wizard, at the step it restores.
OpenWizard ==
    /\ MountProvider
    /\ step' \in Steps
    /\ shown' = step' /\ route' = step'
    /\ page' = 0
    /\ UNCHANGED <<pages, scene, run, generating, rsaKeyPair>>

\* The code of the page arrives, before or after the engine is ready.
PageLoads ==
    /\ place = "wizard" /\ page = 0
    /\ MountPage(route)
    /\ UNCHANGED <<engineVars, step, shown, route, run, generating, rsaKeyPair>>

\* setEngine: one commit runs the effects of the page, then those of the
\* layout, which clear the stage; what a page does after its scene's init()
\* (step 1 plays it) comes last.
EngineReady(v) ==
    /\ InitResolves(v)
    /\ LET fresh == [scene EXCEPT ![page] = NewScene(route)]
           off == Cleared(IF page = 0 THEN scene ELSE fresh)
       IN  scene' = IF engine'[v].init # "done" THEN scene
                    ELSE IF page # 0 /\ route = Keygen /\ rsaKeyPair
                    THEN [off EXCEPT ![page] = KeysFlyApart(@)]
                    ELSE off
    /\ UNCHANGED <<step, shown, route, page, pages, run, generating, rsaKeyPair>>

EngineFails(v) == InitRejects(v) /\ UNCHANGED sceneVars

\* The user leaves the wizard: engine and page are unmounted, runs and
\* requests under way are not.
LeaveWizard ==
    /\ UnmountProvider
    /\ scene' = Unmounted(scene)
    /\ page' = 0
    /\ UNCHANGED <<step, shown, route, pages, run, generating, rsaKeyPair>>

\* An event of the machine changes the step: the frame of the old step leaves
\* (or stays after all), and the layout clears the stage.
ChangeStep ==
    /\ place = "wizard"
    /\ step' \in Steps \ {step}
    /\ scene' = IF HasEngine THEN Cleared(scene) ELSE scene
    /\ UNCHANGED <<engineVars, shown, route, page, pages, run, generating, rsaKeyPair>>

\* The router follows the machine: the Outlet, also that of a frame that is
\* leaving, renders the new page.
RouteFollows ==
    /\ place = "wizard" /\ route # step
    /\ route' = step
    /\ IF page = 0 THEN UNCHANGED <<page, pages, scene>> ELSE MountPage(step)
    /\ UNCHANGED <<engineVars, step, shown, run, generating, rsaKeyPair>>

\* The frame has left: a new one mounts the page of the route once more.
FrameReplaced ==
    /\ place = "wizard" /\ shown # step
    /\ shown' = step
    /\ IF page = 0 THEN UNCHANGED <<page, pages, scene>> ELSE MountPage(route)
    /\ UNCHANGED <<engineVars, step, route, run, generating, rsaKeyPair>>

-----------------------------------------------------------------------------
(* Keys and animations. *)

Animating(i) == run[i] \notin {Idle, Over}

\* Few enough keys and animations are under way to begin another.
MayBegin == Cardinality(generating) + Cardinality({i \in Pages : Animating(i)}) < MaxJobs

\* Generate in step 1 or 2.
GenerateKey ==
    /\ MayBegin
    /\ page # 0 /\ route \in {Keygen, SessionKey}
    /\ <<page, route>> \notin generating
    /\ generating' = generating \cup {<<page, route>>}
    /\ UNCHANGED <<engineVars, step, shown, route, page, pages, scene, run, rsaKeyPair>>

\* The worker answers a step 1.  New keys run the effect of the step 1 that is
\* mounted, whichever page asked for them.
KeyPairGenerated(i) ==
    /\ <<i, Keygen>> \in generating
    /\ generating' = generating \ {<<i, Keygen>>}
    /\ rsaKeyPair' = TRUE
    /\ scene' = IF HasEngine /\ page # 0 /\ route = Keygen
                THEN [scene EXCEPT ![page] = KeysFlyApart(KeygenScene)]
                ELSE scene
    /\ UNCHANGED <<engineVars, step, shown, route, page, pages, run>>

\* The worker answers a step 2: the bits fall if it is still there.
SessionKeyGenerated(i) ==
    /\ <<i, SessionKey>> \in generating
    /\ generating' = generating \ {<<i, SessionKey>>}
    /\ scene' = IF HasEngine /\ page = i THEN [scene EXCEPT ![i] = BitsFall(@)] ELSE scene
    /\ UNCHANGED <<engineVars, step, shown, route, page, pages, run, rsaKeyPair>>

KeyGenerationFails(request) ==
    /\ generating' = generating \ {request}
    /\ UNCHANGED <<engineVars, step, shown, route, page, pages, scene, run, rsaKeyPair>>

\* Mutant of DelayOf: the time is divided by the speed, which may be 0.
DelayOfDivided == IF TimeScale = 0 THEN Never ELSE Time \div TimeScale

\* gsapDelay: with the timeline stopped the time is taken as it is.
DelayOf == IF TimeScale = 0 THEN Time ELSE Time \div TimeScale

Awaits(phase, left) == [phase |-> phase, left |-> left, delay |-> DelayOf]

\* The parts of runAESAnimation that stop between two delays once the scene is
\* destroyed; the page then begins the next part all the same.
Parts == <<"SubBytes", "ShiftRows", "MixColumns", "AddRoundKey">>

CanAnimate == page # 0 /\ route = AESCipher /\ scene[page].step = AESCipher
              /\ run[page] \in {Idle, Over} /\ MayBegin

\* Play Animation: the page asks the worker to encrypt.
RunAESAnimation ==
    /\ CanAnimate
    /\ run' = [run EXCEPT ![page] = [phase |-> "encrypting", left |-> 0, delay |-> Never]]
    /\ UNCHANGED <<engineVars, step, shown, route, page, pages, scene, generating, rsaKeyPair>>

\* The worker answers: the matrix is filled and SubBytes begins, whether or not
\* the scene is still there; or it fails, and the run is over.
Encrypted(i) ==
    /\ run[i].phase = "encrypting"
    /\ \/ /\ scene' = [scene EXCEPT ![i] = MatrixUpdated(@)]
          /\ run' = [run EXCEPT ![i] = Awaits(Parts[1], Delays)]
       \/ /\ run' = [run EXCEPT ![i] = Over]
          /\ UNCHANGED scene
    /\ UNCHANGED <<engineVars, step, shown, route, page, pages, generating, rsaKeyPair>>

\* A delay of one of the four parts is over.
PartGoesOn(i) ==
    \E k \in DOMAIN Parts :
        /\ run[i].phase = Parts[k]
        /\ run' = [run EXCEPT ![i] =
              IF @.left > 1 /\ ~scene[i].cancelled THEN Awaits(Parts[k], @.left - 1)
              ELSE IF k < Len(Parts) THEN Awaits(Parts[k + 1], Delays)
              ELSE [phase |-> "rounds", left |-> 0, delay |-> Never]]
        /\ UNCHANGED scene

\* The worker answers with the outputs of the round, or fails, which the page
\* takes for the states it has.
RoundOutputs(i) ==
    /\ run[i].phase = "rounds"
    /\ run' = [run EXCEPT ![i] = Awaits("avalanche", Delays)]
    /\ UNCHANGED <<engineVars, step, shown, route, page, pages, scene, generating, rsaKeyPair>>

\* A delay of the avalanche effect, which never stops early, is over.
AvalancheGoesOn(i) ==
    /\ run[i].phase = "avalanche"
    /\ run' = [run EXCEPT ![i] =
                  IF @.left > 1 THEN Awaits("avalanche", @.left - 1) ELSE Over]
    /\ UNCHANGED scene

\* Key Schedule: one matrix for each round key, whatever becomes of the scene.
RunKeyExpansionAnimation ==
    /\ CanAnimate
    /\ scene' = [scene EXCEPT ![page] = MatrixUpdated(@)]
    /\ run' = [run EXCEPT ![page] = [phase |-> "expanding", left |-> Delays, delay |-> Time]]
    /\ UNCHANGED <<engineVars, step, shown, route, page, pages, generating, rsaKeyPair>>

ExpansionGoesOn(i) ==
    /\ run[i].phase = "expanding"
    /\ IF run[i].left > 1
       THEN /\ run' = [run EXCEPT ![i].left = @ - 1]
            /\ scene' = [scene EXCEPT ![i] = MatrixUpdated(@)]
       ELSE /\ run' = [run EXCEPT ![i] = Over]
            /\ UNCHANGED scene

\* GSAP calls back, if anything drives it.
DelayOver(i) ==
    /\ drivers # {} /\ run[i].delay > Never
    /\ PartGoesOn(i) \/ AvalancheGoesOn(i) \/ ExpansionGoesOn(i)
    /\ UNCHANGED <<engineVars, step, shown, route, page, pages, generating, rsaKeyPair>>

\* A run goes on with whatever its phase waits for.
RunGoesOn(i) == Encrypted(i) \/ RoundOutputs(i) \/ DelayOver(i)

\* Reset in step 3, shown once something has run: the drawing is destroyed and
\* the page goes on using it.
ResetMatrix ==
    /\ page # 0 /\ scene[page].step = AESCipher /\ run[page] # Idle
    /\ scene' = [scene EXCEPT ![page] = SceneDestroyed(@)]
    /\ run' = [run EXCEPT ![page] = IF @ = Over THEN Idle ELSE @]
    /\ UNCHANGED <<engineVars, step, shown, route, page, pages, generating, rsaKeyPair>>

\* Reset in step 5: destroy() and init().
ResetWire ==
    /\ page # 0 /\ scene[page].step = Wire
    /\ scene' = [scene EXCEPT ![page] = NewScene(Wire)]
    /\ UNCHANGED <<engineVars, step, shown, route, page, pages, run, generating, rsaKeyPair>>

-----------------------------------------------------------------------------

SceneStep ==
    \/ OpenWizard \/ PageLoads \/ ChangeStep \/ RouteFollows \/ FrameReplaced \/ LeaveWizard
    \/ \E v \in Visits : EngineReady(v) \/ EngineFails(v)
    \/ ReducedMotion /\ UNCHANGED sceneVars
    \/ GenerateKey \/ RunAESAnimation \/ RunKeyExpansionAnimation
    \/ ResetMatrix \/ ResetWire
    \/ \E request \in generating : KeyGenerationFails(request)
    \/ \E i \in Pages : KeyPairGenerated(i) \/ SessionKeyGenerated(i)
    \/ \E i \in Pages : RunGoesOn(i)

\* The worker answers (as CryptoWorker shows) and a clock that is driven ticks.
SceneFairness ==
    \A i \in Pages : WF_<<engineVars, sceneVars>>(RunGoesOn(i))

-----------------------------------------------------------------------------

\* What the user sees of the scene of page i.
Visible(i) ==
    /\ HasEngine /\ scene[i].onStage /\ scene[i].filled
    /\ scene[i].step = AESCipher => scene[i].grid

\* Nothing of a page that is gone is ever seen again: neither a scene that was
\* not destroyed, nor one that a late result or an animation that goes on puts
\* back on the stage (updateMatrix attaches the root again, but destroy() has
\* emptied it for good).
NoStrangerOnStage == \A i \in Pages : Visible(i) => i = page

\* While its page is open an animation of step 3 comes to an end and gives the
\* buttons back, at every speed, with motion reduced before or during it, and
\* through Reset.
AnimationEnds ==
    \A i \in Pages : (page = i /\ Animating(i)) ~> (page # i \/ ~Animating(i))

=============================================================================
