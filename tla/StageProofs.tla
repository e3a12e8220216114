------------------------------ MODULE StageProofs ------------------------------
(***************************************************************************)
(* Proofs about the stage: the engine, the clock and the scenes of the     *)
(* wizard, with the sandbox beside it, for any number of visits and pages; *)
(* about the brute-force panel, for primes of any size; about the bit      *)
(* flipper, for texts of any length; about the block cipher, for any key   *)
(* and block; and about all of them side by side.                          *)
(***************************************************************************)
EXTENDS Visuals, SequenceTheorems, FiniteSetTheorems, WellFoundedInduction, TLAPS

stageVars == <<engineVars, sceneVars, sandboxVars>>

StageInit == InitEngine /\ InitScenes /\ InitSandbox

\* The pages of the wizard and those of the sandbox in one behaviour: they
\* share the engine's variables and nothing else.  A visit to the wizard may end
\* before any of its pages is there.
StageNext ==
    \/ SceneStep /\ UNCHANGED sandboxVars
    \/ SandboxStep /\ UNCHANGED sceneVars
    \/ page = 0 /\ EngineStep /\ UNCHANGED <<sceneVars, sandboxVars>>

StageSpec == StageInit /\ [][StageNext]_stageVars

-----------------------------------------------------------------------------
(* The engine. *)

Engines == [init : {"none", "pending", "done", "dropped", "failed"},
            destroyed : BOOLEAN,
            app : {"none", "live", "destroyed"}]

EngineType ==
    /\ place \in {"elsewhere", "wizard", "sandbox"}
    /\ visit \in 0 .. MaxVisits
    /\ engine \in [Visits -> Engines]
    /\ place = "wizard" => visit \in Visits

\* The engine of a provider that is mounted is not destroyed; that of an
\* earlier one is, and one to come has not begun.
Lifetimes ==
    \A v \in Visits :
        /\ v > visit => engine[v] = NoEngine
        /\ v <= visit => (engine[v].destroyed <=> ~(place = "wizard" /\ v = visit))
        /\ engine[v].app = "live" => engine[v].init = "done" /\ ~engine[v].destroyed
        /\ engine[v].init = "done" /\ ~engine[v].destroyed => engine[v].app = "live"

\* GSAP is driven by the engine of the wizard if there is one, and otherwise by
\* its own ticker or by nothing.
Driven ==
    \/ HasEngine /\ drivers = {visit}
    \/ ~HasEngine /\ drivers \subseteq {GSAPTicker}

EngineInv == EngineType /\ Lifetimes /\ Driven

LEMMA EngineInitially == InitEngine => EngineInv
<1> SUFFICES ASSUME InitEngine
             PROVE  EngineInv
  OBVIOUS
<1>1. EngineType
  BY VizEngineAssumption DEF InitEngine, EngineType, NoEngine, Engines
<1>2. Lifetimes
  BY DEF InitEngine, Lifetimes, NoEngine, Visits
<1>3. Driven
  BY DEF InitEngine, Driven, HasEngine
<1>4. QED
  BY <1>1, <1>2, <1>3 DEF EngineInv

\* A new provider finds no engine at work.
LEMMA MountStep ==
    ASSUME EngineInv, MountProvider
    PROVE  EngineInv'
<1>1. /\ visit + 1 \in Visits /\ visit' = visit + 1 /\ place = "elsewhere" /\ place' = "wizard"
      /\ engine' = [engine EXCEPT ![visit + 1].init = "pending"] /\ UNCHANGED drivers
      /\ visit \in Nat /\ visit + 1 <= MaxVisits
  BY VizEngineAssumption DEF MountProvider, EngineInv, EngineType, Visits
<1>2. engine[visit + 1] = NoEngine /\ engine \in [Visits -> Engines]
  BY <1>1 DEF EngineInv, EngineType, Lifetimes
<1>3. engine'[visit'] = [NoEngine EXCEPT !.init = "pending"]
  BY <1>1, <1>2
<1>4. \A v \in Visits : v # visit' => engine'[v] = engine[v]
  BY <1>1, <1>2
<1>5. EngineType'
  BY <1>1, <1>2, VizEngineAssumption DEF EngineType, Engines
<1>6. Lifetimes'
  <2> SUFFICES ASSUME NEW v \in Visits
               PROVE  /\ v > visit' => engine'[v] = NoEngine
                      /\ v <= visit' => (engine'[v].destroyed <=> ~(place' = "wizard" /\ v = visit'))
                      /\ engine'[v].app = "live" => engine'[v].init = "done" /\ ~engine'[v].destroyed
                      /\ engine'[v].init = "done" /\ ~engine'[v].destroyed => engine'[v].app = "live"
    BY DEF Lifetimes
  <2>1. CASE v = visit'
    BY <1>1, <1>3, <2>1 DEF NoEngine
  <2>2. CASE v # visit'
    <3>1. v \in Nat
      BY DEF Visits
    <3>2. (v > visit' => v > visit) /\ (v <= visit' => v <= visit)
      BY <1>1, <2>2, <3>1
    <3>3. engine'[v] = engine[v]
      BY <1>4, <2>2
    <3>4. v <= visit => engine[v].destroyed
      BY <1>1 DEF EngineInv, Lifetimes
    <3>5. QED
      BY <1>1, <2>2, <3>2, <3>3, <3>4 DEF EngineInv, Lifetimes
  <2>3. QED
    BY <2>1, <2>2
<1>7. Driven'
  <2>1. ~HasEngine /\ ~HasEngine'
    BY <1>1, <1>3 DEF HasEngine, NoEngine
  <2>2. QED
    BY <1>1, <2>1 DEF EngineInv, Driven
<1>8. QED
  BY <1>5, <1>6, <1>7 DEF EngineInv

\* The cleanup destroys what there is and takes GSAP's clock with it.
LEMMA UnmountStep ==
    ASSUME EngineInv, UnmountProvider
    PROVE  EngineInv'
<1>1. /\ visit \in Visits /\ UNCHANGED visit /\ place = "wizard" /\ place' = "elsewhere"
      /\ engine' = [engine EXCEPT ![visit] = Destroyed(@)] /\ drivers' = drivers \ {visit}
      /\ engine \in [Visits -> Engines]
  BY DEF UnmountProvider, EngineInv, EngineType
<1>2. engine[visit] \in Engines /\ engine'[visit] = Destroyed(engine[visit])
  BY <1>1
<1>3. /\ engine'[visit] \in Engines /\ engine'[visit].destroyed = TRUE
      /\ engine'[visit].app # "live"
      /\ engine'[visit].init = engine[visit].init
  BY <1>2 DEF Destroyed, Engines
<1>4. \A v \in Visits : v # visit => engine'[v] = engine[v]
  BY <1>1
<1>5. EngineType'
  BY <1>1, <1>3 DEF EngineInv, EngineType
<1>6. Lifetimes'
  <2> SUFFICES ASSUME NEW v \in Visits
               PROVE  /\ v > visit' => engine'[v] = NoEngine
                      /\ v <= visit' => (engine'[v].destroyed <=> ~(place' = "wizard" /\ v = visit'))
                      /\ engine'[v].app = "live" => engine'[v].init = "done" /\ ~engine'[v].destroyed
                      /\ engine'[v].init = "done" /\ ~engine'[v].destroyed => engine'[v].app = "live"
    BY DEF Lifetimes
  <2>1. CASE v = visit
    <3>1. ~(v > visit)
      BY <2>1 DEF Visits
    <3>2. QED
      BY <1>1, <1>3, <2>1, <3>1
  <2>2. CASE v # visit
    BY <1>1, <1>4, <2>2 DEF EngineInv, Lifetimes
  <2>3. QED
    BY <2>1, <2>2
<1>7. Driven'
  BY <1>1 DEF EngineInv, Driven, HasEngine
<1>8. QED
  BY <1>5, <1>6, <1>7 DEF EngineInv

\* init() goes on: it is the engine of the wizard, or it is destroyed at once.
LEMMA ResolveStep ==
    ASSUME EngineInv, NEW w \in Visits, InitResolves(w) \/ InitRejects(w)
    PROVE  EngineInv'
<1>1. /\ engine[w].init = "pending" /\ UNCHANGED <<place, visit>>
      /\ engine \in [Visits -> Engines] /\ engine[w] \in Engines
      /\ visit \in Nat /\ w \in Nat
  BY DEF InitResolves, InitRejects, EngineInv, EngineType, Visits
<1>2. w <= visit /\ (~engine[w].destroyed <=> place = "wizard" /\ w = visit)
  <2>1. engine[w] # NoEngine
    BY <1>1 DEF NoEngine
  <2>2. w <= visit
    BY <1>1, <2>1 DEF EngineInv, Lifetimes
  <2>3. QED
    BY <2>2 DEF EngineInv, Lifetimes
<1>3. engine[w].app # "live"
  BY <1>1 DEF EngineInv, Lifetimes
<1>4. PICK e \in Engines :
        /\ engine' = [engine EXCEPT ![w] = e]
        /\ e.destroyed = engine[w].destroyed
        /\ (e.app = "live") <=> (e.init = "done")
        /\ \/ e.init = "done" /\ ~e.destroyed /\ drivers' = (drivers \ {GSAPTicker}) \cup {w}
           \/ e.init # "done" /\ UNCHANGED drivers
  <2>1. CASE InitResolves(w) /\ engine[w].destroyed
    <3> DEFINE e == [engine[w] EXCEPT !.init = "dropped", !.app = "destroyed"]
    <3>1. engine' = [engine EXCEPT ![w] = e] /\ UNCHANGED drivers
      BY <1>1, <2>1 DEF InitResolves
    <3>2. /\ e \in Engines /\ e.destroyed = engine[w].destroyed
          /\ e.init = "dropped" /\ e.app = "destroyed"
      BY <1>1 DEF Engines
    <3>3. QED
      BY <3>1, <3>2
  <2>2. CASE InitResolves(w) /\ ~engine[w].destroyed
    <3> DEFINE e == [engine[w] EXCEPT !.init = "done", !.app = "live"]
    <3>1. engine' = [engine EXCEPT ![w] = e] /\ drivers' = (drivers \ {GSAPTicker}) \cup {w}
      BY <1>1, <2>2 DEF InitResolves
    <3>2. /\ e \in Engines /\ e.destroyed = engine[w].destroyed
          /\ e.init = "done" /\ e.app = "live"
      BY <1>1 DEF Engines
    <3>3. QED
      BY <2>2, <3>1, <3>2
  <2>3. CASE InitRejects(w)
    <3> DEFINE e == [engine[w] EXCEPT !.init = "failed"]
    <3>1. engine' = [engine EXCEPT ![w] = e] /\ UNCHANGED drivers
      BY <1>1, <2>3 DEF InitRejects
    <3>2. /\ e \in Engines /\ e.destroyed = engine[w].destroyed
          /\ e.init = "failed" /\ e.app # "live"
      BY <1>1, <1>3 DEF Engines
    <3>3. QED
      BY <3>1, <3>2
  <2>4. QED
    BY <2>1, <2>2, <2>3
<1>5. /\ engine' \in [Visits -> Engines] /\ engine'[w] = e
      /\ \A v \in Visits : v # w => engine'[v] = engine[v]
  BY <1>1, <1>4
<1>6. EngineType'
  BY <1>1, <1>5 DEF EngineInv, EngineType
<1>7. Lifetimes'
  <2> SUFFICES ASSUME NEW v \in Visits
               PROVE  /\ v > visit' => engine'[v] = NoEngine
                      /\ v <= visit' => (engine'[v].destroyed <=> ~(place' = "wizard" /\ v = visit'))
                      /\ engine'[v].app = "live" => engine'[v].init = "done" /\ ~engine'[v].destroyed
                      /\ engine'[v].init = "done" /\ ~engine'[v].destroyed => engine'[v].app = "live"
    BY DEF Lifetimes
  <2>1. CASE v = w
    BY <1>1, <1>2, <1>4, <1>5, <2>1
  <2>2. CASE v # w
    BY <1>1, <1>5, <2>2 DEF EngineInv, Lifetimes
  <2>3. QED
    BY <2>1, <2>2
<1>8. Driven'
  <2>1. CASE w = visit /\ place = "wizard"
    <3>1. ~HasEngine /\ drivers \subseteq {GSAPTicker}
      BY <1>1, <2>1 DEF EngineInv, Driven, HasEngine
    <3>2. CASE e.init = "done"
      <4>1. drivers' = (drivers \ {GSAPTicker}) \cup {w}
        BY <1>4, <3>2
      <4>2. drivers' = {visit'}
        BY <1>1, <2>1, <3>1, <4>1
      <4>3. HasEngine'
        BY <1>1, <1>5, <2>1, <3>2 DEF HasEngine
      <4>4. QED
        BY <4>2, <4>3 DEF Driven
    <3>3. CASE e.init # "done"
      <4>1. UNCHANGED drivers
        BY <1>4, <3>3
      <4>2. ~HasEngine'
        BY <1>1, <1>5, <2>1, <3>3 DEF HasEngine
      <4>3. QED
        BY <3>1, <4>1, <4>2 DEF Driven
    <3>4. QED
      BY <3>2, <3>3
  <2>2. CASE ~(w = visit /\ place = "wizard")
    <3>1. UNCHANGED drivers
      BY <1>2, <1>4, <2>2
    <3>2. HasEngine' <=> HasEngine
      <4>1. CASE place = "wizard"
        <5>1. visit \in Visits /\ visit # w
          BY <2>2, <4>1 DEF EngineInv, EngineType
        <5>2. QED
          BY <1>1, <1>5, <5>1 DEF HasEngine
      <4>2. CASE place # "wizard"
        BY <1>1, <4>2 DEF HasEngine
      <4>3. QED
        BY <4>1, <4>2
    <3>3. QED
      BY <1>1, <3>1, <3>2 DEF EngineInv, Driven
  <2>3. QED
    BY <2>1, <2>2
<1>9. QED
  BY <1>6, <1>7, <1>8 DEF EngineInv

\* The user comes to the sandbox or leaves it, or nothing of this changes.
LEMMA SandboxMove ==
    ASSUME EngineInv, UNCHANGED <<visit, engine, drivers>>,
           place = place' \/ {place, place'} \subseteq {"elsewhere", "sandbox"}
    PROVE  EngineInv'
<1>1. (place = "wizard") <=> (place' = "wizard")
  OBVIOUS
<1>2. EngineType'
  BY <1>1 DEF EngineInv, EngineType
<1>3. Lifetimes' /\ Driven'
  BY <1>1 DEF EngineInv, Lifetimes, Driven, HasEngine
<1>4. QED
  BY <1>2, <1>3 DEF EngineInv

\* The other actions of the wizard's pages and of the sandbox's.
ScenesOnly ==
    \/ PageLoads \/ ChangeStep \/ RouteFollows \/ FrameReplaced
    \/ GenerateKey \/ RunAESAnimation \/ RunKeyExpansionAnimation \/ ResetMatrix \/ ResetWire
    \/ \E request \in generating : KeyGenerationFails(request)
    \/ \E i \in Pages : KeyPairGenerated(i) \/ SessionKeyGenerated(i)
    \/ \E i \in Pages : Encrypted(i) \/ RoundOutputs(i) \/ DelayOver(i)
SandboxOnly ==
    \/ \E n \in Stays :
         ApplicationReady(n) \/ KeyGenerated(n) \/ Generated(n) \/ GenerationFails(n)
    \/ \E c \in Cells : ToggleBit(c)
    \/ Reset \/ AnalyzeDiff \/ AnalysisGoesOn \/ HandleDecrypt \/ DecryptGoesOn

LEMMA EngineLeftAlone == ScenesOnly \/ SandboxOnly => UNCHANGED engineVars
<1>1. ScenesOnly => UNCHANGED engineVars
  BY DEF ScenesOnly, PageLoads, ChangeStep, RouteFollows, FrameReplaced, GenerateKey,
         RunAESAnimation, RunKeyExpansionAnimation, ResetMatrix, ResetWire, KeyGenerationFails,
         KeyPairGenerated, SessionKeyGenerated, Encrypted, RoundOutputs, DelayOver
<1>2. SandboxOnly => UNCHANGED engineVars
  BY DEF SandboxOnly, ApplicationReady, KeyGenerated, Generated, GenerationFails, ToggleBit,
         Reset, AnalyzeDiff, AnalysisGoesOn, HandleDecrypt, DecryptGoesOn
<1>3. QED
  BY <1>1, <1>2

LEMMA StageSteps ==
    StageNext =>
        \/ OpenWizard \/ LeaveWizard
        \/ \E v \in Visits : EngineReady(v) \/ EngineFails(v)
        \/ ReducedMotion /\ UNCHANGED sceneVars
        \/ ScenesOnly
        \/ SandboxOnly /\ UNCHANGED sceneVars
        \/ (OpenSandbox \/ CloseSandbox) /\ UNCHANGED sceneVars
        \/ page = 0 /\ EngineStep /\ UNCHANGED sceneVars
<1>1. SceneStep =>
        \/ OpenWizard \/ LeaveWizard
        \/ \E v \in Visits : EngineReady(v) \/ EngineFails(v)
        \/ ReducedMotion /\ UNCHANGED sceneVars
        \/ ScenesOnly
  BY DEF SceneStep, ScenesOnly, RunGoesOn
<1>2. SandboxStep => SandboxOnly \/ OpenSandbox \/ CloseSandbox
  BY DEF SandboxStep, SandboxOnly
<1>3. QED
  BY <1>1, <1>2 DEF StageNext

LEMMA EngineStepHolds == EngineInv /\ [StageNext]_stageVars => EngineInv'
<1> SUFFICES ASSUME EngineInv, [StageNext]_stageVars
             PROVE  EngineInv'
  OBVIOUS
<1>1. CASE OpenWizard
  BY <1>1, MountStep DEF OpenWizard
<1>2. CASE LeaveWizard
  BY <1>2, UnmountStep DEF LeaveWizard
<1>3. CASE \E v \in Visits : EngineReady(v) \/ EngineFails(v)
  BY <1>3, ResolveStep DEF EngineReady, EngineFails
<1>4. CASE ReducedMotion
  BY <1>4, SandboxMove DEF ReducedMotion
<1>5. CASE OpenSandbox \/ CloseSandbox
  BY <1>5, SandboxMove DEF OpenSandbox, CloseSandbox
<1>6. CASE UNCHANGED engineVars
  BY <1>6, SandboxMove DEF engineVars
<1>7. CASE ScenesOnly \/ SandboxOnly
  BY <1>6, <1>7, EngineLeftAlone
<1>8. CASE UNCHANGED stageVars
  BY <1>6, <1>8 DEF stageVars
<1>9. CASE EngineStep
  BY <1>9, MountStep, UnmountStep, ResolveStep DEF EngineStep
<1>10. QED
  BY <1>1, <1>2, <1>3, <1>4, <1>5, <1>7, <1>8, <1>9, StageSteps

LEMMA EngineHolds == StageSpec => []EngineInv
<1>1. StageInit => EngineInv
  BY EngineInitially DEF StageInit
<1>2. QED
  BY <1>1, EngineStepHolds, PTL DEF StageSpec

\* No application outlives the provider that made it, for any number of visits.
THEOREM NoApplicationLeft == StageSpec => []EngineReleased
<1>1. EngineInv => EngineReleased
  <2> SUFFICES ASSUME EngineInv, NEW v \in Visits, engine[v].app = "live"
               PROVE  place = "wizard" /\ visit = v
    BY DEF EngineReleased
  <2>1. ~engine[v].destroyed /\ engine[v] # NoEngine
    BY DEF EngineInv, Lifetimes, NoEngine
  <2>2. visit \in Nat /\ v \in Nat
    BY DEF EngineInv, EngineType, Visits
  <2>3. v <= visit
    BY <2>1, <2>2 DEF EngineInv, Lifetimes
  <2>4. QED
    BY <2>1, <2>3 DEF EngineInv, Lifetimes
<1>2. QED
  BY <1>1, EngineHolds, PTL

\* GSAP never has two drivers, and the engine of the wizard is one as soon as
\* there is one, for any number of visits.
THEOREM OneDriver == StageSpec => []OneClock
<1>1. EngineInv => OneClock
  <2> SUFFICES ASSUME EngineInv
               PROVE  OneClock
    OBVIOUS
  <2>1. HasEngine => drivers = {visit}
    BY DEF EngineInv, Driven
  <2>2. drivers = {} \/ \E d : drivers = {d}
    BY DEF EngineInv, Driven
  <2>3. Cardinality(drivers) \in {0, 1}
    BY <2>2, FS_EmptySet, FS_Singleton
  <2>4. Cardinality(drivers) <= 1
    BY <2>3
  <2>5. QED
    BY <2>1, <2>4 DEF OneClock
<1>2. QED
  BY <1>1, EngineHolds, PTL

-----------------------------------------------------------------------------
(* The scenes. *)

Fields == [step : WithScene \cup {0}, filled : BOOLEAN, onStage : BOOLEAN, grid : BOOLEAN,
           cancelled : BOOLEAN, play : {"not", "on", "cleared"}]
Scenes == {sc \in Fields : sc.filled => sc.step # 0}

SceneType ==
    /\ scene \in [Pages -> Scenes]
    /\ page \in 0 .. pages
    /\ pages \in 0 .. MaxPages
    /\ page # 0 => place = "wizard"

\* Only the scene of the page in place holds its drawing.
OnlyPageDraws == \A i \in Pages : scene[i].filled => i = page

SceneInv == SceneType /\ OnlyPageDraws

\* What the operations on a scene do to its root.
LEMMA NewScenes ==
    /\ NoScene \in Scenes /\ ~NoScene.filled
    /\ \A s : NewScene(s) \in Scenes
    /\ KeygenScene \in Scenes
    /\ \A s : Effect(s) \in Scenes
<1>1. NoScene \in Scenes /\ ~NoScene.filled
  BY DEF NoScene, Scenes, Fields, WithScene
<1>2. \A s \in WithScene : OnStage(s) \in Scenes
  <2> SUFFICES ASSUME NEW s \in WithScene
               PROVE  OnStage(s) \in Scenes
    OBVIOUS
  <2>1. NoScene \in Fields
    BY DEF NoScene, Fields
  <2>2. OnStage(s) \in Fields /\ OnStage(s).step = s
    BY <2>1 DEF OnStage, Fields
  <2>3. s # 0
    BY DEF WithScene
  <2>4. QED
    BY <2>2, <2>3 DEF Scenes
<1>3. KeygenScene \in Scenes /\ BitStream \in Scenes /\ StateMatrix \in Scenes /\ WireScene \in Scenes
  BY <1>2 DEF KeygenScene, BitStream, StateMatrix, WireScene, WithScene, Keygen, SessionKey,
              AESCipher, Wire
<1>4. \A s : NewScene(s) \in Scenes
  BY <1>1, <1>3 DEF NewScene
<1>5. KeysFlyApart(KeygenScene) \in Scenes
  BY <1>3 DEF KeysFlyApart, Scenes, Fields
<1>6. KeygenEffect \in Scenes
  BY <1>3, <1>5 DEF KeygenEffect
<1>7. \A s : Effect(s) \in Scenes
  BY <1>1, <1>4, <1>6 DEF Effect
<1>8. QED
  BY <1>1, <1>3, <1>4, <1>7

\* Every operation but one that makes a scene keeps an empty root empty, and
\* destroy() empties it.
LEMMA Changes ==
    ASSUME NEW sc \in Scenes
    PROVE  /\ SceneDestroyed(sc) \in Scenes
           /\ ~SceneDestroyed(sc).filled
           /\ MatrixUpdated(sc) \in Scenes /\ MatrixUpdated(sc).filled = sc.filled
           /\ KeysFlyApart(sc) \in Scenes /\ KeysFlyApart(sc).filled = sc.filled
           /\ BitsFall(sc) \in Scenes /\ BitsFall(sc).filled = sc.filled
<1>1. OffStage(sc) \in Scenes /\ ~OffStage(sc).filled
  BY DEF OffStage, Scenes, Fields
<1>2. /\ KeygenDestroyed(sc) \in Scenes /\ ~KeygenDestroyed(sc).filled
      /\ BitStreamDestroyed(sc) \in Scenes /\ ~BitStreamDestroyed(sc).filled
      /\ StateMatrixDestroyed(sc) \in Scenes /\ ~StateMatrixDestroyed(sc).filled
      /\ WireDestroyed(sc) \in Scenes /\ ~WireDestroyed(sc).filled
  BY <1>1 DEF KeygenDestroyed, BitStreamDestroyed, StateMatrixDestroyed, WireDestroyed, Scenes, Fields
<1>3. SceneDestroyed(sc) \in Scenes
  BY <1>2 DEF SceneDestroyed
<1>4. ~SceneDestroyed(sc).filled
  <2>1. sc.step \in {0, 1, 2, 3, 5} /\ (sc.filled => sc.step # 0)
    BY DEF Scenes, Fields, WithScene
  <2>2. QED
    BY <1>2, <2>1 DEF SceneDestroyed, Keygen, SessionKey, AESCipher, Wire
<1>5. /\ MatrixUpdated(sc) \in Scenes /\ MatrixUpdated(sc).filled = sc.filled
      /\ KeysFlyApart(sc) \in Scenes /\ KeysFlyApart(sc).filled = sc.filled
      /\ BitsFall(sc) \in Scenes /\ BitsFall(sc).filled = sc.filled
  BY DEF MatrixUpdated, KeysFlyApart, BitsFall, Scenes, Fields
<1>6. QED
  BY <1>3, <1>4, <1>5

\* clearScenes() takes scenes off the stage and leaves them their drawings.
LEMMA ClearedScenes ==
    ASSUME NEW scenes \in [Pages -> Scenes]
    PROVE  /\ Cleared(scenes) \in [Pages -> Scenes]
           /\ \A i \in Pages : Cleared(scenes)[i].filled = scenes[i].filled
<1> DEFINE C(sc) == [sc EXCEPT !.onStage = FALSE, !.play = IF @ = "on" THEN "cleared" ELSE @]
<1>1. \A sc \in Scenes : C(sc) \in Scenes /\ C(sc).filled = sc.filled
  BY DEF Scenes, Fields
<1>2. Cleared(scenes) = [i \in Pages |-> C(scenes[i])]
  BY DEF Cleared
<1> HIDE DEF C
<1>3. QED
  BY <1>1, <1>2

\* The drawing of the page in place may change, and those of other pages stay
\* empty.
LEMMA Redraw ==
    ASSUME SceneInv, scene' \in [Pages -> Scenes], UNCHANGED <<page, pages>>,
           page # 0 => place' = "wizard",
           \A i \in Pages : i # page /\ scene'[i].filled => scene[i].filled
    PROVE  SceneInv'
  BY DEF SceneInv, SceneType, OnlyPageDraws

LEMMA SetScene ==
    ASSUME SceneInv, UNCHANGED <<place, page, pages>>, NEW i \in Pages, NEW sc \in Scenes,
           i = page \/ (sc.filled => scene[i].filled),
           scene' = [scene EXCEPT ![i] = sc]
    PROVE  SceneInv'
<1>1. scene \in [Pages -> Scenes] /\ (page # 0 => place' = "wizard")
  BY DEF SceneInv, SceneType
<1>2. scene' \in [Pages -> Scenes]
  BY <1>1
<1>3. \A j \in Pages : j # page /\ scene'[j].filled => scene[j].filled
  BY <1>1
<1>4. QED
  BY <1>1, <1>2, <1>3, Redraw

\* A page that is unmounted takes its drawing with it.
LEMMA UnmountedScenes ==
    ASSUME SceneInv
    PROVE  /\ Unmounted(scene) \in [Pages -> Scenes]
           /\ \A i \in Pages : ~Unmounted(scene)[i].filled
<1>1. scene \in [Pages -> Scenes] /\ page \in Nat
  BY DEF SceneInv, SceneType
<1>2. CASE page = 0
  <2>1. 0 \notin Pages
    BY DEF Pages
  <2>2. QED
    BY <1>1, <1>2, <2>1 DEF Unmounted, SceneInv, OnlyPageDraws
<1>3. CASE page # 0
  <2>1. Unmounted(scene) = [scene EXCEPT ![page] = SceneDestroyed(scene[page])]
    BY <1>3 DEF Unmounted
  <2>2. page \in Pages
    BY <1>3, StepScenesAssumption DEF SceneInv, SceneType, Pages
  <2>3. SceneDestroyed(scene[page]) \in Scenes /\ ~SceneDestroyed(scene[page]).filled
    BY <1>1, <2>2, Changes
  <2>4. QED
    BY <1>1, <2>1, <2>2, <2>3 DEF SceneInv, OnlyPageDraws
<1>4. QED
  BY <1>2, <1>3

LEMMA MountPageStep ==
    ASSUME SceneInv, place = "wizard", UNCHANGED place, NEW s, MountPage(s)
    PROVE  SceneInv'
<1>1. /\ pages \in Nat /\ pages < MaxPages /\ pages' = pages + 1 /\ page' = pages'
      /\ scene' = [Unmounted(scene) EXCEPT ![pages'] = Effect(s)]
  BY DEF MountPage, SceneInv, SceneType
<1>2. /\ pages' \in Pages /\ pages' \in 0 .. MaxPages /\ page' \in 0 .. pages'
  BY <1>1, StepScenesAssumption DEF Pages
<1>3. Effect(s) \in Scenes
  BY NewScenes
<1>4. /\ Unmounted(scene) \in [Pages -> Scenes]
      /\ \A i \in Pages : ~Unmounted(scene)[i].filled
  BY UnmountedScenes
<1>5. scene' \in [Pages -> Scenes] /\ \A i \in Pages : scene'[i].filled => i = page'
  BY <1>1, <1>2, <1>3, <1>4
<1>6. QED
  BY <1>2, <1>5 DEF SceneInv, SceneType, OnlyPageDraws

\* The engine is ready: the page in place draws, all others are cleared.
LEMMA ReadyStep ==
    ASSUME SceneInv, NEW v \in Visits, EngineReady(v)
    PROVE  SceneInv'
<1>1. /\ scene \in [Pages -> Scenes] /\ UNCHANGED <<place, page, pages>>
      /\ page # 0 => page \in Pages
      /\ page # 0 => place' = "wizard"
  BY StepScenesAssumption DEF SceneInv, SceneType, EngineReady, InitResolves, Pages
<1> DEFINE fresh == [scene EXCEPT ![page] = NewScene(route)]
           base == IF page = 0 THEN scene ELSE fresh
           off == Cleared(base)
<1>2. \/ scene' = scene
      \/ scene' = off
      \/ page # 0 /\ scene' = [off EXCEPT ![page] = KeysFlyApart(off[page])]
  BY DEF EngineReady
<1>3. base \in [Pages -> Scenes] /\ \A i \in Pages : i # page => base[i] = scene[i]
  BY <1>1, NewScenes
<1> HIDE DEF base
<1>4. off \in [Pages -> Scenes] /\ \A i \in Pages : off[i].filled = base[i].filled
  BY <1>3, ClearedScenes
<1> HIDE DEF off
<1>5. page # 0 => KeysFlyApart(off[page]) \in Scenes
  BY <1>1, <1>4, Changes
<1>6. scene' \in [Pages -> Scenes]
  BY <1>1, <1>2, <1>4, <1>5
<1>7. \A i \in Pages : i # page /\ scene'[i].filled => scene[i].filled
  BY <1>1, <1>2, <1>3, <1>4
<1>8. QED
  BY <1>1, <1>6, <1>7, Redraw

\* Nothing else fills a drawing but that of the page in place.
LEMMA ScenesOnlyStep ==
    ASSUME SceneInv, ScenesOnly
    PROVE  SceneInv'
<1>0. UNCHANGED place
  BY EngineLeftAlone DEF engineVars
<1>1. /\ scene \in [Pages -> Scenes] /\ (page # 0 => page \in Pages)
      /\ page # 0 => place' = "wizard"
  BY <1>0, StepScenesAssumption DEF SceneInv, SceneType, Pages
<1>u. ASSUME UNCHANGED <<scene, page, pages>>
      PROVE  SceneInv'
  BY <1>0, <1>u DEF SceneInv, SceneType, OnlyPageDraws
<1>2. CASE PageLoads
  BY <1>2, MountPageStep DEF PageLoads, engineVars
<1>3. CASE ChangeStep
  <2>1. scene' = scene \/ scene' = Cleared(scene)
    BY <1>3 DEF ChangeStep
  <2>2. UNCHANGED <<page, pages>>
    BY <1>3 DEF ChangeStep
  <2>3. scene' \in [Pages -> Scenes] /\ \A i \in Pages : scene'[i].filled = scene[i].filled
    BY <1>1, <2>1, ClearedScenes
  <2>4. QED
    BY <1>1, <2>2, <2>3, Redraw
<1>4. CASE RouteFollows
  BY <1>4, <1>u, MountPageStep DEF RouteFollows, engineVars
<1>5. CASE FrameReplaced
  BY <1>5, <1>u, MountPageStep DEF FrameReplaced, engineVars
<1>6. CASE GenerateKey \/ RunAESAnimation \/ \E request \in generating : KeyGenerationFails(request)
  BY <1>6, <1>u DEF GenerateKey, RunAESAnimation, KeyGenerationFails
<1>7. CASE RunKeyExpansionAnimation
  <2>1. page \in Pages
    BY <1>1, <1>7 DEF RunKeyExpansionAnimation, CanAnimate
  <2>2. scene' = [scene EXCEPT ![page] = MatrixUpdated(scene[page])] /\ UNCHANGED <<page, pages>>
    BY <1>7 DEF RunKeyExpansionAnimation
  <2>3. MatrixUpdated(scene[page]) \in Scenes
    BY <1>1, <2>1, Changes
  <2>4. QED
    BY <1>0, <2>1, <2>2, <2>3, SetScene
<1>8. CASE ResetMatrix
  <2>1. page \in Pages
    BY <1>1, <1>8 DEF ResetMatrix
  <2>2. scene' = [scene EXCEPT ![page] = SceneDestroyed(scene[page])] /\ UNCHANGED <<page, pages>>
    BY <1>8 DEF ResetMatrix
  <2>3. SceneDestroyed(scene[page]) \in Scenes
    BY <1>1, <2>1, Changes
  <2>4. QED
    BY <1>0, <2>1, <2>2, <2>3, SetScene
<1>9. CASE ResetWire
  <2>1. page \in Pages
    BY <1>1, <1>9 DEF ResetWire
  <2>2. scene' = [scene EXCEPT ![page] = NewScene(Wire)] /\ UNCHANGED <<page, pages>>
    BY <1>9 DEF ResetWire
  <2>3. QED
    BY <1>0, <2>1, <2>2, NewScenes, SetScene
<1>10. ASSUME NEW i \in Pages, KeyPairGenerated(i)
       PROVE  SceneInv'
  <2>1. /\ UNCHANGED <<page, pages>>
        /\ \/ UNCHANGED scene
           \/ page # 0 /\ scene' = [scene EXCEPT ![page] = KeysFlyApart(KeygenScene)]
    BY <1>10 DEF KeyPairGenerated
  <2>2. KeysFlyApart(KeygenScene) \in Scenes
    BY NewScenes, Changes
  <2>3. QED
    BY <1>0, <1>1, <1>u, <2>1, <2>2, SetScene
<1>11. ASSUME NEW i \in Pages, SessionKeyGenerated(i)
       PROVE  SceneInv'
  <2>1. /\ UNCHANGED <<page, pages>>
        /\ UNCHANGED scene \/ scene' = [scene EXCEPT ![i] = BitsFall(scene[i])]
    BY <1>11 DEF SessionKeyGenerated
  <2>2. BitsFall(scene[i]) \in Scenes /\ BitsFall(scene[i]).filled = scene[i].filled
    BY <1>1, Changes
  <2>3. QED
    BY <1>0, <1>u, <2>1, <2>2, SetScene
<1>12. ASSUME NEW i \in Pages, Encrypted(i) \/ RoundOutputs(i) \/ DelayOver(i)
       PROVE  SceneInv'
  <2>1. UNCHANGED <<page, pages>>
    BY <1>12 DEF Encrypted, RoundOutputs, DelayOver
  <2>2. UNCHANGED scene \/ scene' = [scene EXCEPT ![i] = MatrixUpdated(scene[i])]
    BY <1>12 DEF Encrypted, RoundOutputs, DelayOver, PartGoesOn, AvalancheGoesOn, ExpansionGoesOn
  <2>3. MatrixUpdated(scene[i]) \in Scenes /\ MatrixUpdated(scene[i]).filled = scene[i].filled
    BY <1>1, Changes
  <2>4. QED
    BY <1>0, <1>u, <2>1, <2>2, <2>3, SetScene
<1>13. QED
  BY <1>2, <1>3, <1>4, <1>5, <1>6, <1>7, <1>8, <1>9, <1>10, <1>11, <1>12 DEF ScenesOnly

LEMMA SceneStepHolds == SceneInv /\ [StageNext]_stageVars => SceneInv'
<1> SUFFICES ASSUME SceneInv, [StageNext]_stageVars
             PROVE  SceneInv'
  OBVIOUS
<1>1. CASE OpenWizard
  <2>1. page = 0
    BY <1>1 DEF OpenWizard, MountProvider, SceneInv, SceneType
  <2>2. UNCHANGED <<scene, page, pages>>
    BY <1>1, <2>1 DEF OpenWizard
  <2>3. QED
    BY <2>1, <2>2 DEF SceneInv, SceneType, OnlyPageDraws
<1>2. CASE LeaveWizard
  <2>1. scene' = Unmounted(scene) /\ page' = 0 /\ UNCHANGED pages
    BY <1>2 DEF LeaveWizard
  <2>2. pages \in 0 .. MaxPages /\ 0 \in 0 .. pages
    BY DEF SceneInv, SceneType
  <2>3. QED
    BY <2>1, <2>2, UnmountedScenes DEF SceneInv, SceneType, OnlyPageDraws
<1>3. ASSUME UNCHANGED <<scene, page, pages>>, page # 0 => place' = "wizard"
      PROVE  SceneInv'
  BY <1>3 DEF SceneInv, SceneType, OnlyPageDraws
<1>4. ASSUME NEW v \in Visits, EngineReady(v) \/ EngineFails(v)
      PROVE  SceneInv'
  <2>1. CASE EngineReady(v)
    BY <2>1, ReadyStep
  <2>2. CASE EngineFails(v)
    BY <1>3, <2>2 DEF EngineFails, InitRejects, sceneVars, SceneInv, SceneType
  <2>3. QED
    BY <1>4, <2>1, <2>2
<1>5. CASE UNCHANGED sceneVars /\ UNCHANGED place
  BY <1>3, <1>5 DEF sceneVars, SceneInv, SceneType
<1>6. CASE ReducedMotion /\ UNCHANGED sceneVars
  BY <1>5, <1>6 DEF ReducedMotion
<1>7. CASE ScenesOnly
  BY <1>7, ScenesOnlyStep
<1>8. CASE SandboxOnly /\ UNCHANGED sceneVars
  BY <1>5, <1>8, EngineLeftAlone DEF engineVars
<1>9. CASE (OpenSandbox \/ CloseSandbox) /\ UNCHANGED sceneVars
  BY <1>3, <1>9 DEF OpenSandbox, CloseSandbox, sceneVars, SceneInv, SceneType
<1>10. CASE UNCHANGED stageVars
  BY <1>5, <1>10 DEF stageVars, engineVars
<1>11. CASE page = 0 /\ EngineStep /\ UNCHANGED sceneVars
  BY <1>3, <1>11 DEF sceneVars
<1>12. QED
  BY <1>1, <1>2, <1>4, <1>6, <1>7, <1>8, <1>9, <1>10, <1>11, StageSteps

\* The user never sees a scene of a page that is gone, however many pages,
\* keys and animations come and go, for any steps.
THEOREM NoStranger == StageSpec => []NoStrangerOnStage
<1>1. StageInit => SceneInv
  <2> SUFFICES ASSUME StageInit
               PROVE  SceneInv
    OBVIOUS
  <2>1. page = 0 /\ pages = 0 /\ scene = [i \in Pages |-> NoScene]
    BY DEF StageInit, InitScenes
  <2>2. QED
    BY <2>1, NewScenes, StepScenesAssumption DEF SceneInv, SceneType, OnlyPageDraws
<1>2. SceneInv => NoStrangerOnStage
  BY DEF SceneInv, OnlyPageDraws, NoStrangerOnStage, Visible
<1>3. QED
  BY <1>1, <1>2, SceneStepHolds, PTL DEF StageSpec

-----------------------------------------------------------------------------
(* The Bit Flipper of the sandbox.                                         *)

CTexts == [Cells -> [from : Nat, bit : {0, 1}]]

\* The Bit Flipper in place is the last one that was mounted; texts are texts.
SandboxType ==
    /\ stay \in 0 .. MaxStays
    /\ place = "sandbox" => stay \in Stays
    /\ DOMAIN setup = Stays
    /\ \A n \in Stays : n > stay => setup[n] = "none"
    /\ ciphertext \in CTexts /\ original \in CTexts
    /\ storage = Nothing \/ storage \in CTexts \X CTexts
    /\ analysis = NoAnalysis \/ analysis \in CTexts \X CTexts \X Nat
    /\ kept \subseteq Cells
    /\ kept # {} => matrix \in CTexts

\* There is neither an analysis nor a drawing before the visualizer is there and
\* when the Bit Flipper is gone; what an analysis will redraw is the ciphertext,
\* or else is not kept.
AnalysisCaptured ==
    /\ ~HasVisualizer => analysis = NoAnalysis /\ kept = {}
    /\ analysis # NoAnalysis => analysis[2] = ciphertext \/ \A c \in kept : c <= analysis[3]

\* A text of a Bit Flipper that is gone is the one it was made with.
StoredByGone ==
    disturbed => \E n \in 1 .. stay : /\ place = "sandbox" => n < stay
                                      /\ storage = <<Fresh(n), Fresh(n)>>

SandboxInv ==
    SandboxType /\ AnalysisCaptured /\ StoredByGone /\ StoredIsShown /\ MatrixIsCiphertext

\* Fresh texts, and texts with a bit flipped.
LEMMA TextsOfCells ==
    /\ \A n \in Nat : Fresh(n) \in CTexts
    /\ \A text \in CTexts, c \in Cells : Flip(text, c) \in CTexts
BY DEF CTexts, Fresh, Flip

\* The analysis redraws one byte at most, with the one it captured.
LEMMA WalkRedraws ==
    ASSUME NEW captured, captured[2] \in CTexts, NEW at, matrix \in CTexts
    PROVE  /\ Walk(captured, at) \in CTexts
           /\ \A c \in Cells : \/ Walk(captured, at)[c] = matrix[c]
                               \/ c = at /\ Walk(captured, at)[c] = captured[2][c]
<1>1. CASE at \in Cells
  <2>1. PICK before, text, S : matrix = before /\ captured[2] = text /\ S = [from : Nat, bit : {0, 1}]
    OBVIOUS
  <2> DEFINE drawn == [before EXCEPT ![at] = text[at]]
  <2>2. before \in [Cells -> S] /\ text \in [Cells -> S]
    BY <2>1 DEF CTexts
  <2>3. PICK v \in S : v = text[at]
    BY <1>1, <2>2
  <2>4. drawn = [before EXCEPT ![at] = v]
    BY <2>3
  <2> HIDE DEF drawn
  <2>5. drawn \in [Cells -> S]
    BY <2>2, <2>4
  <2>6. \A c \in Cells : drawn[c] = before[c] \/ (c = at /\ drawn[c] = text[c])
    BY <1>1, <2>2, <2>3, <2>4
  <2>7. Walk(captured, at) = drawn \/ Walk(captured, at) = matrix
    BY <2>1 DEF Walk, drawn
  <2>8. CTexts = [Cells -> S]
    BY <2>1 DEF CTexts
  <2>9. QED
    BY <2>1, <2>5, <2>6, <2>7, <2>8
<1>2. CASE at \notin Cells
  BY <1>2 DEF Walk
<1>3. QED
  BY <1>1, <1>2

\* What a redrawing keeps.
LEMMA DrawKeeps ==
    ASSUME SandboxType, HasVisualizer, NEW text \in CTexts, Draw(stay, text)
    PROVE  /\ matrix' = text /\ kept' \subseteq Cells
           /\ analysis # NoAnalysis => \A c \in kept' : c <= analysis[3]
BY DEF Draw, InPlace, HasVisualizer

LEMMA InitSandboxInv == StageInit => SandboxInv
<1> SUFFICES ASSUME StageInit PROVE SandboxInv
  OBVIOUS
<1>1. place = "elsewhere" /\ stay = 0 /\ analysis = NoAnalysis /\ storage = Nothing
      /\ ciphertext = Zeros /\ original = Zeros /\ setup = [n \in Stays |-> "none"]
      /\ kept = {} /\ disturbed = FALSE
  BY DEF StageInit, InitEngine, InitSandbox
<1>2. Zeros \in CTexts
  BY TextsOfCells DEF Zeros
<1>3. SandboxType
  BY <1>1, <1>2, SandboxAssumption DEF SandboxType
<1>4. QED
  BY <1>1, <1>3 DEF SandboxInv, AnalysisCaptured, StoredByGone, StoredIsShown, MatrixIsCiphertext

\* A step that touches nothing of the Bit Flipper, and leaves the sandbox as it
\* finds it.
LEMMA SandboxLeftAlone ==
    ASSUME SandboxInv, UNCHANGED sandboxVars, place' = place \/ "sandbox" \notin {place, place'}
    PROVE  SandboxInv'
<1>1. UNCHANGED <<stay, setup, ciphertext, original, matrix, storage, analysis, kept, disturbed>>
  BY DEF sandboxVars
<1>2. SandboxType'
  BY <1>1 DEF SandboxInv, SandboxType, CTexts
<1>3. AnalysisCaptured' /\ StoredByGone' /\ StoredIsShown' /\ MatrixIsCiphertext'
  BY <1>1 DEF SandboxInv, AnalysisCaptured, StoredByGone, StoredIsShown, MatrixIsCiphertext, HasVisualizer, Fresh
<1>4. QED
  BY <1>2, <1>3 DEF SandboxInv

LEMMA OpenSandboxStep ==
    ASSUME SandboxInv, OpenSandbox
    PROVE  SandboxInv'
<1>1. /\ place # "sandbox" /\ stay' = stay + 1 /\ stay + 1 \in Stays /\ stay + 1 \in 0 .. MaxStays
      /\ setup' = [setup EXCEPT ![stay + 1] = "pending"] /\ DOMAIN setup = Stays
      /\ UNCHANGED <<ciphertext, original, matrix, storage, analysis, kept, disturbed>>
  BY SandboxAssumption DEF OpenSandbox, SandboxInv, SandboxType, Stays
<1>2. analysis = NoAnalysis /\ kept = {} /\ setup'[stay'] = "pending" /\ DOMAIN setup' = Stays
  BY <1>1 DEF SandboxInv, AnalysisCaptured, HasVisualizer
<1>3. \A n \in Stays : n > stay' => n > stay /\ n # stay'
  BY <1>1, SandboxAssumption DEF SandboxInv, SandboxType, Stays
<1>4. SandboxType'
  BY <1>1, <1>2, <1>3 DEF SandboxInv, SandboxType, CTexts
<1>5. StoredByGone'
  <2>1. \A n \in 1 .. stay : n \in 1 .. stay' /\ n < stay'
    BY <1>1, SandboxAssumption DEF SandboxInv, SandboxType
  <2>2. QED
    BY <1>1, <2>1 DEF SandboxInv, StoredByGone, Fresh
<1>6. QED
  BY <1>1, <1>2, <1>4, <1>5 DEF SandboxInv, AnalysisCaptured, StoredIsShown, MatrixIsCiphertext

LEMMA CloseSandboxStep ==
    ASSUME SandboxInv, CloseSandbox
    PROVE  SandboxInv'
<1>1. Zeros \in CTexts
  BY TextsOfCells DEF Zeros
<1>2. /\ place' = "elsewhere" /\ UNCHANGED <<stay, setup, storage, disturbed>>
      /\ ciphertext' = Zeros /\ original' = Zeros /\ analysis' = NoAnalysis /\ kept' = {}
  BY DEF CloseSandbox
<1>3. SandboxType'
  BY <1>1, <1>2 DEF SandboxInv, SandboxType, CTexts
<1>4. StoredByGone'
  BY <1>2 DEF SandboxInv, StoredByGone, Fresh
<1>5. QED
  BY <1>2, <1>3, <1>4 DEF SandboxInv, AnalysisCaptured, StoredIsShown, MatrixIsCiphertext

\* The initialisation goes on, of the Bit Flipper in place or of one that is gone.
LEMMA SetupGoesOn ==
    ASSUME SandboxInv, NEW n \in Stays, NEW next, next \notin {"none", "pending"},
           setup[n] # "none", setup' = [setup EXCEPT ![n] = next],
           UNCHANGED <<place, stay>>
    PROVE  /\ DOMAIN setup' = Stays
           /\ \A m \in Stays : m > stay' => setup'[m] = "none"
           /\ n \in 1 .. stay
           /\ HasVisualizer => HasVisualizer'
           /\ place = "sandbox" /\ ~InPlace(n) => setup'[stay] = setup[stay] /\ n < stay
           /\ InPlace(n) => n = stay /\ setup'[stay] = next /\ HasVisualizer'
<1>1. DOMAIN setup = Stays /\ stay \in 0 .. MaxStays /\ (place = "sandbox" => stay \in Stays)
      /\ \A m \in Stays : m > stay => setup[m] = "none"
  BY DEF SandboxInv, SandboxType
<1>2. n \in 1 .. stay
  BY <1>1, SandboxAssumption DEF Stays
<1>3. \A m \in Stays : m > stay => m # n
  BY <1>1
<1>4. place = "sandbox" /\ ~InPlace(n) => n < stay
  BY <1>1, <1>2, SandboxAssumption DEF InPlace
<1>5. DOMAIN setup' = Stays /\ setup'[n] = next /\ \A m \in Stays : m # n => setup'[m] = setup[m]
  BY <1>1
<1>6. HasVisualizer => HasVisualizer'
  BY <1>1, <1>5 DEF HasVisualizer
<1>7. place = "sandbox" /\ ~InPlace(n) => setup'[stay] = setup[stay]
  BY <1>1, <1>5 DEF InPlace
<1>8. InPlace(n) => n = stay /\ setup'[stay] = next /\ HasVisualizer'
  BY <1>5 DEF InPlace, HasVisualizer
<1>9. \A m \in Stays : m > stay' => setup'[m] = "none"
  BY <1>1, <1>3, <1>5
<1>10. QED
  BY <1>2, <1>4, <1>5, <1>6, <1>7, <1>8, <1>9

LEMMA ApplicationReadyStep ==
    ASSUME SandboxInv, NEW n \in Stays, ApplicationReady(n)
    PROVE  SandboxInv'
<1>1. PICK next \in {"ready", "generating"} :
        /\ setup[n] = "pending" /\ setup' = [setup EXCEPT ![n] = next]
        /\ UNCHANGED <<place, stay, storage, analysis>>
        /\ disturbed' = (disturbed /\ ~InPlace(n))
        /\ IF storage # Nothing
           THEN next = "ready" /\ Show(n, storage[1], storage[2])
           ELSE next = "generating" /\ UNCHANGED <<ciphertext, original, matrix, kept>>
  BY DEF ApplicationReady, engineVars
<1>2. /\ DOMAIN setup' = Stays
      /\ \A m \in Stays : m > stay' => setup'[m] = "none"
      /\ HasVisualizer => HasVisualizer'
      /\ place = "sandbox" /\ ~InPlace(n) => setup'[stay] = setup[stay]
      /\ InPlace(n) => n = stay /\ setup'[stay] = next /\ HasVisualizer'
  BY <1>1, SetupGoesOn
<1>3. InPlace(n) => analysis = NoAnalysis /\ kept = {}
  BY <1>1 DEF InPlace, SandboxInv, AnalysisCaptured, HasVisualizer
<1>4. StoredByGone'
  BY <1>1 DEF SandboxInv, StoredByGone, Fresh
<1>5. CASE storage # Nothing /\ InPlace(n)
  <2>1. storage \in CTexts \X CTexts /\ storage = <<storage[1], storage[2]>>
        /\ storage[1] \in CTexts /\ storage[2] \in CTexts
    BY <1>5 DEF SandboxInv, SandboxType
  <2>2. /\ ciphertext' = storage[1] /\ original' = storage[2] /\ matrix' = storage[1]
        /\ kept' = Cells /\ disturbed' = FALSE /\ analysis' = NoAnalysis
    BY <1>1, <1>3, <1>5 DEF Show, Draw
  <2>3. SandboxType'
    BY <1>1, <1>2, <2>1, <2>2 DEF SandboxInv, SandboxType, CTexts
  <2>4. QED
    BY <1>1, <1>2, <1>4, <1>5, <2>1, <2>2, <2>3
       DEF SandboxInv, AnalysisCaptured, StoredIsShown, MatrixIsCiphertext
<1>6. CASE storage = Nothing \/ ~InPlace(n)
  <2>1. UNCHANGED <<ciphertext, original, matrix, kept>>
    BY <1>1, <1>6 DEF Show, Draw
  <2>2. SandboxType'
    BY <1>1, <1>2, <2>1 DEF SandboxInv, SandboxType, CTexts
  <2>3. AnalysisCaptured' /\ MatrixIsCiphertext'
    BY <1>1, <1>2, <2>1 DEF SandboxInv, AnalysisCaptured, MatrixIsCiphertext
  <2>4. StoredIsShown'
    <3>1. CASE InPlace(n)
      <4>1. setup'[stay'] = "generating"
        BY <1>1, <1>2, <1>6, <3>1
      <4>2. QED
        BY <4>1 DEF StoredIsShown
    <3>2. CASE ~InPlace(n)
      BY <1>1, <1>2, <2>1, <3>2 DEF SandboxInv, StoredIsShown, Fresh
    <3>3. QED
      BY <3>1, <3>2
  <2>5. QED
    BY <1>4, <2>2, <2>3, <2>4 DEF SandboxInv
<1>7. QED
  BY <1>5, <1>6

LEMMA GenerationStep ==
    ASSUME SandboxInv, NEW n \in Stays, KeyGenerated(n) \/ GenerationFails(n)
    PROVE  SandboxInv'
<1>1. PICK next \in {"encrypting", "failed"} :
        /\ setup[n] \in {"generating", "encrypting"}
        /\ setup' = [setup EXCEPT ![n] = next]
        /\ UNCHANGED <<place, stay, ciphertext, original, matrix, storage, analysis, kept, disturbed>>
  BY DEF KeyGenerated, GenerationFails, engineVars
<1>2. /\ DOMAIN setup' = Stays
      /\ \A m \in Stays : m > stay' => setup'[m] = "none"
      /\ HasVisualizer => HasVisualizer'
      /\ place = "sandbox" => setup'[stay] = setup[stay] \/ setup'[stay] = next
  <2>1. next \notin {"none", "pending"} /\ setup[n] # "none"
    BY <1>1
  <2>2. QED
    BY <1>1, <2>1, SetupGoesOn
<1>3. SandboxType'
  BY <1>1, <1>2 DEF SandboxInv, SandboxType, CTexts
<1>4. AnalysisCaptured' /\ StoredByGone' /\ MatrixIsCiphertext'
  BY <1>1, <1>2 DEF SandboxInv, AnalysisCaptured, StoredByGone, MatrixIsCiphertext, Fresh
<1>5. StoredIsShown'
  BY <1>1, <1>2 DEF SandboxInv, StoredIsShown, Fresh
<1>6. QED
  BY <1>3, <1>4, <1>5 DEF SandboxInv

LEMMA GeneratedStep ==
    ASSUME SandboxInv, NEW n \in Stays, Generated(n)
    PROVE  SandboxInv'
<1>1. /\ setup[n] = "encrypting" /\ setup' = [setup EXCEPT ![n] = "ready"]
      /\ Show(n, Fresh(n), Fresh(n)) /\ storage' = <<Fresh(n), Fresh(n)>>
      /\ disturbed' = ~InPlace(n) /\ UNCHANGED <<place, stay, analysis>>
  BY DEF Generated, engineVars
<1>2. Fresh(n) \in CTexts
  BY TextsOfCells DEF Stays
<1>3. /\ DOMAIN setup' = Stays
      /\ \A m \in Stays : m > stay' => setup'[m] = "none"
      /\ n \in 1 .. stay
      /\ HasVisualizer => HasVisualizer'
      /\ place = "sandbox" /\ ~InPlace(n) => setup'[stay] = setup[stay] /\ n < stay
      /\ InPlace(n) => n = stay /\ setup'[stay] = "ready" /\ HasVisualizer'
  BY <1>1, SetupGoesOn
<1>4. CASE InPlace(n)
  <2>1. ciphertext' = Fresh(n) /\ original' = Fresh(n) /\ disturbed' = FALSE
    BY <1>1, <1>4 DEF Show
  <2>2. HasVisualizer /\ n = stay /\ Draw(stay, Fresh(n))
    BY <1>1, <1>3, <1>4 DEF Show, InPlace, HasVisualizer
  <2>3. /\ matrix' = Fresh(n) /\ kept' \subseteq Cells
        /\ analysis # NoAnalysis => \A c \in kept' : c <= analysis[3]
    BY <1>2, <2>2, DrawKeeps DEF SandboxInv
  <2>4. SandboxType'
    BY <1>1, <1>2, <1>3, <2>1, <2>3 DEF SandboxInv, SandboxType, CTexts
  <2>5. AnalysisCaptured' /\ MatrixIsCiphertext'
    BY <1>1, <1>3, <1>4, <2>1, <2>3 DEF AnalysisCaptured, MatrixIsCiphertext
  <2>6. StoredByGone' /\ StoredIsShown'
    BY <1>1, <2>1 DEF StoredByGone, StoredIsShown
  <2>7. QED
    BY <2>4, <2>5, <2>6 DEF SandboxInv
<1>5. CASE ~InPlace(n)
  <2>1. UNCHANGED <<ciphertext, original, matrix, kept>> /\ disturbed'
    BY <1>1, <1>5 DEF Show, Draw
  <2>2. SandboxType'
    BY <1>1, <1>2, <1>3, <2>1 DEF SandboxInv, SandboxType, CTexts
  <2>3. AnalysisCaptured' /\ MatrixIsCiphertext'
    BY <1>1, <1>3, <2>1 DEF SandboxInv, AnalysisCaptured, MatrixIsCiphertext
  <2>4. n \in 1 .. stay' /\ (place' = "sandbox" => n < stay') /\ storage' = <<Fresh(n)', Fresh(n)'>>
    BY <1>1, <1>3, <1>5 DEF Fresh
  <2>5. StoredByGone'
    BY <2>4, Zenon DEF StoredByGone
  <2>6. StoredIsShown'
    <3>1. place' = "sandbox" => n \in 1 .. stay' - 1
      BY <1>1, <1>3, <1>5 DEF SandboxInv, SandboxType
    <3>2. place' = "sandbox" => \E m \in 1 .. stay' - 1 : storage' = <<Fresh(m)', Fresh(m)'>>
      BY <2>4, <3>1, Zenon
    <3>3. QED
      BY <2>1, <3>2, Zenon DEF StoredIsShown
  <2>7. QED
    BY <2>2, <2>3, <2>5, <2>6 DEF SandboxInv
<1>6. QED
  BY <1>4, <1>5

\* The user flips a bit or resets: what is stored and drawn is what is shown.
LEMMA EditStep ==
    ASSUME SandboxInv, Reset \/ \E c \in Cells : ToggleBit(c)
    PROVE  SandboxInv'
<1>1. PICK text \in CTexts :
        /\ ciphertext' = text /\ storage' = <<text, original>>
        /\ IF HasVisualizer THEN Draw(stay, text) ELSE UNCHANGED <<matrix, kept>>
        /\ place = "sandbox" /\ disturbed' = FALSE
        /\ UNCHANGED <<place, stay, setup, original, analysis>>
  <2>1. CASE Reset
    BY <2>1 DEF Reset, engineVars, SandboxInv, SandboxType
  <2>2. ASSUME NEW c \in Cells, ToggleBit(c)
        PROVE  /\ Flip(ciphertext, c) \in CTexts
               /\ ciphertext' = Flip(ciphertext, c) /\ storage' = <<Flip(ciphertext, c), original>>
               /\ IF HasVisualizer THEN Draw(stay, Flip(ciphertext, c)) ELSE UNCHANGED <<matrix, kept>>
               /\ place = "sandbox" /\ disturbed' = FALSE
               /\ UNCHANGED <<place, stay, setup, original, analysis>>
    <3>1. Flip(ciphertext, c) \in CTexts
      BY TextsOfCells DEF SandboxInv, SandboxType
    <3>2. QED
      BY <2>2, <3>1 DEF ToggleBit, engineVars
  <2>3. QED
    BY <2>1, <2>2
<1>2. HasVisualizer' <=> HasVisualizer
  BY <1>1 DEF HasVisualizer
<1>3. StoredByGone' /\ StoredIsShown'
  BY <1>1 DEF StoredByGone, StoredIsShown
<1>4. CASE HasVisualizer
  <2>1. /\ matrix' = text /\ kept' \subseteq Cells
        /\ analysis # NoAnalysis => \A c \in kept' : c <= analysis[3]
    BY <1>1, <1>4, DrawKeeps DEF SandboxInv
  <2>2. SandboxType'
    BY <1>1, <2>1 DEF SandboxInv, SandboxType, CTexts
  <2>3. AnalysisCaptured' /\ MatrixIsCiphertext'
    BY <1>1, <1>2, <1>4, <2>1 DEF AnalysisCaptured, MatrixIsCiphertext
  <2>4. QED
    BY <1>3, <2>2, <2>3 DEF SandboxInv
<1>5. CASE ~HasVisualizer
  <2>1. kept = {} /\ kept' = {} /\ analysis = NoAnalysis
    BY <1>1, <1>5 DEF SandboxInv, AnalysisCaptured
  <2>2. SandboxType'
    BY <1>1, <2>1 DEF SandboxInv, SandboxType, CTexts
  <2>3. AnalysisCaptured' /\ MatrixIsCiphertext'
    BY <1>1, <2>1 DEF AnalysisCaptured, MatrixIsCiphertext
  <2>4. QED
    BY <1>3, <2>2, <2>3 DEF SandboxInv
<1>6. QED
  BY <1>4, <1>5

LEMMA AnalyzeDiffStep ==
    ASSUME SandboxInv, AnalyzeDiff
    PROVE  SandboxInv'
<1>1. UNCHANGED <<place, stay, setup, ciphertext, original, storage, kept, disturbed>>
  BY DEF AnalyzeDiff, engineVars
<1>2. StoredByGone' /\ StoredIsShown'
  BY <1>1 DEF SandboxInv, StoredByGone, StoredIsShown, Fresh
<1>3. HasVisualizer' <=> HasVisualizer
  BY <1>1 DEF HasVisualizer
<1>4. CASE HasVisualizer
  <2> DEFINE captured == <<original, ciphertext>>
  <2>1. analysis' = <<original, ciphertext, 1>> /\ matrix' = Walk(captured, 1)
    BY <1>4 DEF AnalyzeDiff
  <2>2. captured[2] \in CTexts /\ captured[2] = ciphertext
    BY DEF SandboxInv, SandboxType
  <2> HIDE DEF captured
  <2>3. matrix \in CTexts => /\ matrix' \in CTexts
                             /\ \A c \in Cells : matrix'[c] = matrix[c] \/ matrix'[c] = ciphertext[c]
    BY <2>1, <2>2, WalkRedraws
  <2>4. SandboxType'
    BY <1>1, <2>1, <2>3 DEF SandboxInv, SandboxType, CTexts
  <2>5. AnalysisCaptured'
    BY <1>1, <1>3, <1>4, <2>1 DEF AnalysisCaptured
  <2>6. MatrixIsCiphertext'
    BY <1>1, <2>3 DEF SandboxInv, SandboxType, MatrixIsCiphertext
  <2>7. QED
    BY <1>2, <2>4, <2>5, <2>6 DEF SandboxInv
<1>5. CASE ~HasVisualizer
  <2>1. UNCHANGED <<analysis, matrix>>
    BY <1>5 DEF AnalyzeDiff
  <2>2. SandboxType'
    BY <1>1, <2>1 DEF SandboxInv, SandboxType, CTexts
  <2>3. QED
    BY <1>1, <1>2, <1>3, <2>1, <2>2 DEF SandboxInv, AnalysisCaptured, MatrixIsCiphertext
<1>6. QED
  BY <1>4, <1>5

LEMMA AnalysisGoesOnStep ==
    ASSUME SandboxInv, AnalysisGoesOn
    PROVE  SandboxInv'
<1>1. /\ UNCHANGED <<place, stay, setup, ciphertext, original, storage, kept, disturbed>>
      /\ analysis # NoAnalysis
  BY DEF AnalysisGoesOn, engineVars
<1>2. analysis \in CTexts \X CTexts \X Nat /\ HasVisualizer
  BY <1>1 DEF SandboxInv, SandboxType, AnalysisCaptured
<1>3. StoredByGone' /\ StoredIsShown'
  BY <1>1 DEF SandboxInv, StoredByGone, StoredIsShown, Fresh
<1>4. HasVisualizer' <=> HasVisualizer
  BY <1>1 DEF HasVisualizer
<1>5. CASE analysis[3] \in Cells
  <2>1. PICK at \in Nat : at = analysis[3]
    BY <1>2
  <2>2. analysis' = <<analysis[1], analysis[2], at + 1>> /\ matrix' = Walk(analysis, at + 1)
    BY <1>2, <1>5, <2>1 DEF AnalysisGoesOn
  <2>3. matrix \in CTexts =>
          /\ matrix' \in CTexts
          /\ \A c \in Cells : matrix'[c] = matrix[c] \/ (c = at + 1 /\ matrix'[c] = analysis[2][c])
    <3>1. analysis[2] \in CTexts
      BY <1>2
    <3>2. QED
      BY <2>2, <3>1, WalkRedraws
  <2>4. SandboxType'
    <3>1. analysis' \in CTexts \X CTexts \X Nat
      BY <1>2, <2>2
    <3>2. kept' # {} => matrix' \in CTexts
      BY <1>1, <2>3 DEF SandboxInv, SandboxType
    <3> HIDE <2>2
    <3>3. QED
      BY <1>1, <3>1, <3>2 DEF SandboxInv, SandboxType, CTexts
  <2>5. analysis[2] = ciphertext \/ \A c \in kept : c <= at
    BY <1>1, <2>1 DEF SandboxInv, AnalysisCaptured
  <2>6. \A c \in kept : c \in Nat
    BY SandboxAssumption DEF SandboxInv, SandboxType
  <2>7. AnalysisCaptured'
    <3>1. \A c \in kept : c <= at => c <= at + 1
      BY <2>6
    <3>2. QED
      BY <1>1, <1>2, <1>4, <2>2, <2>5, <3>1 DEF AnalysisCaptured
  <2>8. MatrixIsCiphertext'
    <3>1. \A c \in kept : c <= at => c # at + 1
      BY <2>6
    <3>2. ASSUME place = "sandbox", NEW c \in kept
          PROVE  matrix'[c] = ciphertext[c]
      <4>1. c \in Cells /\ matrix \in CTexts /\ matrix[c] = ciphertext[c]
        BY <3>2 DEF SandboxInv, SandboxType, MatrixIsCiphertext
      <4>2. QED
        BY <2>3, <2>5, <3>1, <4>1
    <3>3. QED
      BY <1>1, <3>2 DEF MatrixIsCiphertext
  <2>9. QED
    BY <1>3, <2>4, <2>7, <2>8 DEF SandboxInv
<1>6. CASE analysis[3] \notin Cells
  <2>1. analysis' = NoAnalysis /\ UNCHANGED matrix
    BY <1>6 DEF AnalysisGoesOn
  <2>2. SandboxType'
    BY <1>1, <2>1 DEF SandboxInv, SandboxType, CTexts
  <2>3. QED
    BY <1>1, <1>2, <1>3, <1>4, <2>1, <2>2 DEF SandboxInv, AnalysisCaptured, MatrixIsCiphertext
<1>7. QED
  BY <1>5, <1>6

LEMMA SandboxStepHolds == SandboxInv /\ [StageNext]_stageVars => SandboxInv'
<1> SUFFICES ASSUME SandboxInv, [StageNext]_stageVars
             PROVE  SandboxInv'
  OBVIOUS
<1>1. CASE SandboxStep
  <2>1. CASE HandleDecrypt \/ DecryptGoesOn
    <3>1. UNCHANGED <<place, stay, setup, ciphertext, original, matrix, storage, analysis, kept, disturbed>>
      BY <2>1 DEF HandleDecrypt, DecryptGoesOn, engineVars
    <3>2. SandboxType'
      BY <3>1 DEF SandboxInv, SandboxType, CTexts
    <3>3. QED
      BY <3>1, <3>2 DEF SandboxInv, AnalysisCaptured, StoredByGone, StoredIsShown, MatrixIsCiphertext,
                        HasVisualizer, Fresh
  <2>2. QED
    BY <1>1, <2>1, OpenSandboxStep, CloseSandboxStep, ApplicationReadyStep, GenerationStep,
       GeneratedStep, EditStep, AnalyzeDiffStep, AnalysisGoesOnStep DEF SandboxStep
<1>2. CASE SceneStep /\ UNCHANGED sandboxVars
  <2>1. place' = place \/ "sandbox" \notin {place, place'}
    <3>1. CASE OpenWizard \/ LeaveWizard
      BY <3>1 DEF OpenWizard, LeaveWizard, MountProvider, UnmountProvider
    <3>2. CASE \E v \in Visits : EngineReady(v) \/ EngineFails(v)
      BY <3>2 DEF EngineReady, EngineFails, InitResolves, InitRejects
    <3>3. CASE ReducedMotion
      BY <3>3 DEF ReducedMotion
    <3>4. CASE ScenesOnly
      BY <3>4, EngineLeftAlone DEF engineVars
    <3>5. QED
      BY <1>2, <3>1, <3>2, <3>3, <3>4 DEF SceneStep, ScenesOnly, RunGoesOn
  <2>2. QED
    BY <1>2, <2>1, SandboxLeftAlone
<1>3. CASE UNCHANGED stageVars
  BY <1>3, SandboxLeftAlone DEF stageVars, engineVars
<1>4. CASE EngineStep /\ UNCHANGED sandboxVars
  <2>1. place' = place \/ "sandbox" \notin {place, place'}
    BY <1>4 DEF EngineStep, MountProvider, UnmountProvider, InitResolves, InitRejects
  <2>2. QED
    BY <1>4, <2>1, SandboxLeftAlone
<1>5. QED
  BY <1>1, <1>2, <1>3, <1>4 DEF StageNext

LEMMA SandboxInvHolds == StageSpec => []SandboxInv
BY InitSandboxInv, SandboxStepHolds, PTL DEF StageSpec

\* What the next visit to the sandbox restores from sessionStorage is what the
\* user sees, or the whole text of a Bit Flipper that was left while it
\* initialised and has stored it since, however often Bit Flippers are opened,
\* left and returned to.
THEOREM StorageFollows == StageSpec => []StoredIsShown
BY SandboxInvHolds, PTL DEF SandboxInv

\* Every byte the matrix shows is that of the ciphertext, for any number of bytes
\* and visits, but for those drawn ahead of an analysis of an older ciphertext,
\* which goes on to redraw them.
THEOREM MatrixFollows == StageSpec => []MatrixIsCiphertext
BY SandboxInvHolds, PTL DEF SandboxInv

-----------------------------------------------------------------------------
(* Numbers that divide each other: a product of two primes has no other      *)
(* factors.  The library's induction takes an operator as its parameter, so  *)
(* what follows rests on the least number of a set instead.                  *)

\* Every set of numbers has a least one.
LEMMA LeastNumber ==
    ASSUME NEW T, T \subseteq Nat, T # {}
    PROVE  \E x \in T : \A y \in T : x <= y
<1>1. PICK R : R = OpToRel(<, Nat)
  OBVIOUS
<1>2. IsWellFoundedOn(R, Nat)
  BY <1>1, NatLessThanWellFounded
<1>3. PICK x \in T : \A y \in T : ~(<<y, x>> \in R)
  BY <1>2, WFMin
<1>4. \A z, y \in Nat : y < z => <<y, z>> \in R
  BY <1>1 DEF OpToRel
<1>5. ASSUME NEW y \in T PROVE x <= y
  <2>1. x \in Nat /\ y \in Nat /\ ~(y < x)
    BY <1>3, <1>4
  <2>2. QED
    BY <2>1
<1>6. QED
  BY <1>5

\* n is a multiple of d.
Divides(d, n) == \E k \in Nat : n = d * k

LEMMA DividesMod ==
    ASSUME NEW n \in Nat, NEW d \in Nat \ {0}
    PROVE  Divides(d, n) <=> n % d = 0
<1>1. ASSUME NEW k \in Nat, n = d * k
      PROVE  n % d = 0
  BY <1>1
<1>2. ASSUME n % d = 0
      PROVE  \E k \in Nat : n = d * k
  <2>1. n \div d \in Nat /\ n = d * (n \div d)
    BY <1>2
  <2>2. QED
    BY <2>1
<1>3. QED
  BY <1>1, <1>2 DEF Divides

\* A prime has no divisor but one and itself.
LEMMA DivisorsOfPrime ==
    ASSUME NEW p \in Nat, IsPrime(p), NEW d \in Nat, Divides(d, p)
    PROVE  d = 1 \/ d = p
<1> SUFFICES ASSUME d # 1, d # p
             PROVE  FALSE
  OBVIOUS
<1>1. PICK k \in Nat : p = d * k
  BY DEF Divides
<1>2. p >= 2
  BY DEF IsPrime
<1>3. d >= 2
  <2>1. d # 0
    BY <1>1, <1>2
  <2>2. QED
    BY <2>1
<1>4. k >= 2
  <2>1. k # 0 /\ k # 1
    BY <1>1, <1>2
  <2>2. QED
    BY <2>1
<1>5. ASSUME NEW i \in Nat, NEW j \in Nat, i >= 2, j >= 2, i <= j, p = i * j
      PROVE  FALSE
  <2>1. i * i <= p
    BY <1>5
  <2>2. i * 2 <= p
    <3>1. p = i * 2 + i * (j - 2) /\ j - 2 \in Nat
      BY <1>5
    <3>2. i * (j - 2) >= 0
      BY <3>1
    <3>3. QED
      BY <3>1, <3>2
  <2>3. i \in 2 .. p - 1
    BY <1>5, <2>2
  <2>4. p % i = 0
    <3>1. Divides(i, p)
      BY <1>5 DEF Divides
    <3>2. QED
      BY <1>5, <3>1, DividesMod
  <2>5. QED
    BY <2>1, <2>3, <2>4 DEF IsPrime
<1>6. CASE d <= k
  BY <1>1, <1>3, <1>4, <1>5, <1>6
<1>7. CASE k <= d
  <2>1. p = k * d
    BY <1>1
  <2>2. QED
    BY <2>1, <1>3, <1>4, <1>5, <1>7
<1>8. QED
  BY <1>6, <1>7

\* Euclid: what divides a multiple of q by a prime, and is not itself divided by
\* the prime, divides q.
LEMMA Euclid ==
    ASSUME NEW p \in Nat, IsPrime(p), NEW q \in Nat, NEW i \in Nat \ {0},
           Divides(i, p * q), ~Divides(p, i)
    PROVE  Divides(i, q)
<1> DEFINE T == {k \in Nat \ {0} : Divides(i, k * q)}
<1>1. p \in T /\ i \in T
  <2>1. p \in Nat \ {0}
    BY DEF IsPrime
  <2>2. Divides(i, i * q)
    BY DEF Divides
  <2>3. QED
    BY <2>1, <2>2
<1>2. PICK least \in T : \A k \in T : least <= k
  <2>1. T \subseteq Nat /\ T # {}
    BY <1>1
  <2>2. QED
    BY <2>1, LeastNumber
<1>3. least \in Nat \ {0} /\ Divides(i, least * q)
  OBVIOUS
<1>4. ASSUME NEW k \in T
      PROVE  Divides(least, k)
  <2>1. k \in Nat \ {0} /\ Divides(i, k * q)
    OBVIOUS
  <2>2. PICK x \in Nat : k * q = i * x
    BY <2>1 DEF Divides
  <2>3. PICK y \in Nat : least * q = i * y
    BY <1>3 DEF Divides
  <2>4. PICK a \in Nat, r \in Nat : k = least * a + r /\ r < least
    <3>1. k \div least \in Nat /\ k % least \in Nat /\ k = least * (k \div least) + (k % least)
          /\ k % least < least
      BY <1>3, <2>1
    <3>2. QED
      BY <3>1
  <2>5. r = 0
    <3> SUFFICES ASSUME r # 0
                 PROVE  FALSE
      OBVIOUS
    <3>1. r * q = i * x - i * (a * y)
      <4>1. r * q = k * q - (least * a) * q
        BY <1>3, <2>1, <2>4
      <4>2. (least * a) * q = a * (least * q)
        BY <1>3, <2>4
      <4>3. a * (least * q) = a * (i * y)
        BY <2>3
      <4>4. a * (i * y) = i * (a * y)
        OBVIOUS
      <4>5. QED
        BY <4>1, <4>2, <4>3, <4>4, <2>2
    <3>2. PICK z \in Int : z = x - a * y
      OBVIOUS
    <3>3. r * q = i * z
      <4>1. i * z = i * x - i * (a * y)
        BY <3>2
      <4>2. QED
        BY <3>1, <4>1
    <3>4. z \in Nat
      <4>1. r * q >= 0
        OBVIOUS
      <4>2. z < 0 => i * z < 0
        OBVIOUS
      <4>3. QED
        BY <3>3, <4>1, <4>2
    <3>5. r \in T
      BY <3>3, <3>4 DEF Divides
    <3>6. QED
      BY <1>2, <1>3, <2>4, <3>5
  <2>6. k = least * a
    BY <2>4, <2>5, <1>3
  <2>7. QED
    BY <2>6 DEF Divides
<1>5. least = 1 \/ least = p
  BY <1>1, <1>3, <1>4, DivisorsOfPrime
<1>6. least # p
  BY <1>1, <1>4
<1>7. 1 * q = q
  OBVIOUS
<1>8. QED
  BY <1>3, <1>5, <1>6, <1>7

\* The root that is rounded down exists.
LEMMA RootIs ==
    ASSUME NEW n \in Nat
    PROVE  Root(n) \in Nat /\ Root(n) * Root(n) <= n /\ n < (Root(n) + 1) * (Root(n) + 1)
<1> DEFINE T == {r \in Nat : n < (r + 1) * (r + 1)}
<1>1. n \in T
  <2>1. (n + 1) * (n + 1) = n * n + 2 * n + 1
    OBVIOUS
  <2>2. n * n >= 0
    OBVIOUS
  <2>3. QED
    BY <2>1, <2>2
<1>2. PICK r \in T : \A k \in T : r <= k
  <2>1. T \subseteq Nat /\ T # {}
    BY <1>1
  <2>2. QED
    BY <2>1, LeastNumber
<1>3. r * r <= n
  <2>1. CASE r = 0
    BY <2>1
  <2>2. CASE r # 0
    <3>1. r - 1 \in Nat /\ r - 1 \notin T
      BY <1>2, <2>2
    <3>2. ((r - 1) + 1) * ((r - 1) + 1) = r * r
      BY <3>1
    <3>3. QED
      BY <3>1, <3>2
  <2>3. QED
    BY <2>1, <2>2
<1>4. r \in 0 .. n
  <2>1. r <= n
    BY <1>1, <1>2
  <2>2. QED
    BY <2>1
<1>5. r * r <= n /\ n < (r + 1) * (r + 1)
  BY <1>3
<1>6. \E x \in 0 .. n : x * x <= n /\ n < (x + 1) * (x + 1)
  BY <1>4, <1>5
<1>7. /\ Root(n) \in 0 .. n
      /\ Root(n) * Root(n) <= n /\ n < (Root(n) + 1) * (Root(n) + 1)
  BY <1>6, Zenon DEF Root
<1>8. QED
  BY <1>7

LEMMA PrimesAreNat == Primes \subseteq Nat /\ \A p \in Primes : IsPrime(p) /\ p >= 2
<1> SUFFICES ASSUME NEW p \in Primes
             PROVE  p \in Nat /\ IsPrime(p) /\ p >= 2
  OBVIOUS
<1>1. p \in 2 ^ (Bits - 1) .. 2 ^ Bits - 2 /\ IsPrime(p)
  BY Zenon DEF Primes
<1>2. p \in Int
  BY <1>1
<1>3. p >= 2
  BY <1>1 DEF IsPrime
<1>4. QED
  BY <1>1, <1>2, <1>3

\* The smaller prime is found.
LEMMA Factored ==
    ASSUME NEW p \in Nat, NEW q \in Nat, IsPrime(p), IsPrime(q), p < q
    PROVE  /\ p \in Divisors(p * q) /\ \A i \in Divisors(p * q) : p <= i
           /\ (p * q) \div p = q
<1>1. p >= 2 /\ q >= 2 /\ p * q \in Nat
  BY DEF IsPrime
<1>2. PICK n \in Nat : n = p * q
  BY <1>1
<1>3. PICK r \in Nat : r = Root(n) /\ r * r <= n /\ n < (r + 1) * (r + 1)
  BY RootIs
<1>4. p <= r
  <2> SUFFICES ASSUME r + 1 <= p
               PROVE  FALSE
    BY <1>3
  <2>1. (r + 1) * (r + 1) <= p * p
    <3>1. (r + 1) * (r + 1) <= (r + 1) * p
      OBVIOUS
    <3>2. (r + 1) * p <= p * p
      OBVIOUS
    <3>3. QED
      BY <3>1, <3>2
  <2>2. p * p <= p * q
    OBVIOUS
  <2>3. QED
    BY <1>2, <1>3, <2>1, <2>2
<1>5. n % p = 0 /\ n \div p = q
  <2>1. Divides(p, n)
    BY <1>2 DEF Divides
  <2>2. n % p = 0
    BY <1>1, <2>1, DividesMod
  <2>3. n \div p \in Nat /\ n = p * (n \div p)
    BY <1>1, <2>2
  <2>4. PICK m \in Nat : m = n \div p
    BY <2>3
  <2>5. p * (m - q) = 0
    BY <1>2, <2>3, <2>4
  <2>6. m = q
    BY <1>1, <2>5
  <2>7. QED
    BY <2>2, <2>4, <2>6
<1>6. ASSUME NEW i \in 2 .. r, n % i = 0
      PROVE  p <= i
  <2> SUFFICES ASSUME i < p
               PROVE  FALSE
    BY <1>6
  <2>1. i \in Nat \ {0}
    BY <1>6
  <2>2. Divides(i, n)
    BY <1>6, <2>1, DividesMod
  <2>3. ~Divides(p, i)
    <3> SUFFICES ASSUME NEW k \in Nat, i = p * k
                 PROVE  FALSE
      BY DEF Divides
    <3>1. k # 0
      BY <2>1
    <3>2. p * k >= p
      BY <3>1
    <3>3. QED
      BY <2>1, <3>2
  <2>4. Divides(i, q)
    BY <1>2, <2>1, <2>2, <2>3, Euclid
  <2>5. i = 1 \/ i = q
    BY <2>1, <2>4, DivisorsOfPrime
  <2>6. QED
    BY <1>6, <2>5
<1>7. Divisors(n) = {i \in 2 .. r : n % i = 0}
  BY <1>3, Zenon DEF Divisors, Trials
<1>8. p \in Divisors(n) /\ \A i \in Divisors(n) : p <= i
  BY <1>1, <1>4, <1>5, <1>6, <1>7
<1>9. QED
  BY <1>2, <1>5, <1>8

LEMMA ChallengeFactors ==
    ASSUME NEW n \in Challenges
    PROVE  \E p, q \in Primes : p < q /\ n = p * q
<1>1. PICK pq \in Primes \X Primes : pq[1] # pq[2] /\ n = pq[1] * pq[2]
  BY DEF Challenges
<1>2. PICK p \in Primes, q \in Primes : p # q /\ n = p * q
  BY <1>1
<1>3. p \in Nat /\ q \in Nat
  BY PrimesAreNat
<1>4. CASE p < q
  BY <1>2, <1>4
<1>5. CASE q < p
  <2>1. n = q * p
    BY <1>2, <1>3
  <2>2. QED
    BY <1>5, <2>1
<1>6. QED
  BY <1>2, <1>3, <1>4, <1>5

-----------------------------------------------------------------------------
(* The brute-force panel.                                                  *)

\* The factors of the modulus, and the two messages that tell of them.
Smaller(n) == CHOOSE i \in Divisors(n) : \A j \in Divisors(n) : i <= j
FactorsOf(n) == [p |-> Smaller(n), q |-> n \div Smaller(n)]
FoundIn(n) == [type |-> "progress", current |-> Smaller(n), max |-> Root(n), found |-> TRUE,
               p |-> Smaller(n), q |-> n \div Smaller(n)]
CompleteOf(n) == Complete(Smaller(n), n \div Smaller(n), Smaller(n) - 1)

Progress == [type : {"progress"}, current : Nat, max : Nat, found : BOOLEAN, p : Nat, q : Nat]
Messages == Progress \cup [type : {"complete"}, p : Nat, q : Nat, iterations : Nat]

LEMMA SmallerIs ==
    ASSUME NEW n \in Challenges
    PROVE  /\ n \in Nat /\ Divisors(n) # {}
           /\ Smaller(n) \in Primes /\ n \div Smaller(n) \in Primes
           /\ Smaller(n) * (n \div Smaller(n)) = n
           /\ Smaller(n) <= Root(n)
<1>1. PICK p \in Primes, q \in Primes : p < q /\ n = p * q
  BY ChallengeFactors
<1>2. p \in Nat /\ q \in Nat /\ IsPrime(p) /\ IsPrime(q) /\ n \in Nat
  BY <1>1, PrimesAreNat
<1>3. /\ p \in Divisors(n) /\ \A i \in Divisors(n) : p <= i
      /\ n \div p = q
  BY <1>1, <1>2, Factored
<1>4. Divisors(n) \subseteq Nat /\ \A i \in Divisors(n) : i <= Root(n)
  BY <1>2, RootIs DEF Divisors, Trials
<1>5. Smaller(n) = p
  <2>1. /\ Smaller(n) \in Divisors(n)
        /\ \A j \in Divisors(n) : Smaller(n) <= j
    BY <1>3, Zenon DEF Smaller
  <2>2. QED
    BY <1>2, <1>3, <1>4, <2>1
<1>6. QED
  BY <1>1, <1>2, <1>3, <1>4, <1>5

\* What the worker posts: progress, then what it found, then that it is done.
LEMMA AnswersAre ==
    ASSUME NEW n \in Challenges
    PROVE  LET ch == Answers(n) IN
           /\ ch \in Seq(Messages) /\ Len(ch) >= 2
           /\ ch[Len(ch)] = CompleteOf(n) /\ ch[Len(ch) - 1] = FoundIn(n)
           /\ \A i \in 1 .. Len(ch) - 2 : ch[i].type = "progress" /\ ch[i].found = FALSE
<1>1. PICK p \in Nat, q \in Nat, r \in Nat :
        p = Smaller(n) /\ q = n \div Smaller(n) /\ r = Root(n) /\ p >= 2
  BY SmallerIs, PrimesAreNat, RootIs
<1>2. PICK reports : reports = Reports(n, p)
  OBVIOUS
<1>3. Answers(n) = reports \o <<FoundIn(n), CompleteOf(n)>>
  <2>1. Answers(n) = Reports(n, Smaller(n)) \o <<FoundIn(n), CompleteOf(n)>>
    BY SmallerIs, Zenon DEF Answers, Smaller, FoundIn, CompleteOf
  <2>2. QED
    BY <1>1, <1>2, <2>1
<1>4. PICK length \in Nat :
        reports = [k \in 1 .. length |->
          [type |-> "progress", current |-> k * ProgressEvery + 1, max |-> r, found |-> FALSE,
           p |-> 0, q |-> 0]]
  <2> DEFINE Reported == {i \in Trials(n) : i < p /\ (i - 1) % ProgressEvery = 0}
  <2>1. IsFiniteSet(Reported)
    <3>1. IsFiniteSet(Trials(n))
      BY <1>1, FS_Interval DEF Trials
    <3>2. QED
      BY <3>1, FS_Subset
  <2>2. Cardinality(Reported) \in Nat
    BY <2>1, FS_CardinalityType
  <2>3. QED
    BY <1>1, <1>2, <2>2, Zenon DEF Reports
<1>5. reports \in Seq(Messages) /\ Len(reports) = length
  <2>1. ASSUME NEW k \in 1 .. length
        PROVE  reports[k] \in Progress
    <3>1. k * ProgressEvery + 1 \in Nat
      BY BruteForceAssumption
    <3>2. QED
      BY <1>4, <3>1 DEF Progress
  <2>2. reports \in [1 .. length -> Messages]
    BY <1>4, <2>1 DEF Messages
  <2>3. QED
    BY <2>2
<1>6. FoundIn(n) \in Messages /\ CompleteOf(n) \in Messages
  BY <1>1 DEF FoundIn, CompleteOf, Complete, Messages, Progress
<1>7. PICK ch, tail : tail = <<FoundIn(n), CompleteOf(n)>> /\ ch = reports \o tail
  OBVIOUS
<1>8. /\ ch \in Seq(Messages) /\ Len(ch) = length + 2
      /\ ch[length + 1] = FoundIn(n) /\ ch[length + 2] = CompleteOf(n)
      /\ \A i \in 1 .. length : ch[i] = reports[i]
  <2>1. PICK x \in Messages, y \in Messages : x = FoundIn(n) /\ y = CompleteOf(n)
    BY <1>6
  <2>2. tail \in Seq(Messages) /\ Len(tail) = 2 /\ tail[1] = x /\ tail[2] = y
    BY <1>7, <2>1
  <2>3. /\ ch \in Seq(Messages) /\ Len(ch) = length + 2
        /\ ch[length + 1] = tail[1] /\ ch[length + 2] = tail[2]
        /\ \A i \in 1 .. length : ch[i] = reports[i]
    <3>1. /\ ch \in Seq(Messages) /\ Len(ch) = Len(reports) + Len(tail)
          /\ \A i \in 1 .. Len(reports) + Len(tail) :
               ch[i] = IF i <= Len(reports) THEN reports[i] ELSE tail[i - Len(reports)]
      BY <1>5, <1>7, <2>2, ConcatProperties
    <3>2. length + 1 - length = 1 /\ length + 2 - length = 2
      OBVIOUS
    <3>3. QED
      BY <1>5, <2>2, <3>1, <3>2
  <2>4. QED
    BY <2>1, <2>2, <2>3
<1>9. \A i \in 1 .. length : ch[i].type = "progress" /\ ch[i].found = FALSE
  BY <1>4, <1>8
<1>10. QED
  BY <1>3, <1>7, <1>8, <1>9


-----------------------------------------------------------------------------
\* The panel with its clients, any number of which may be made.
BruteSpec == InitBrute /\ [][BruteStep]_bruteVars

\* What is still to come from the worker of a run that goes on.
ToCome(ch, n, factors) ==
    /\ ch \in Seq(Messages) /\ Len(ch) >= 1
    /\ ch[Len(ch)] = CompleteOf(n)
    /\ Len(ch) = 1 => factors = {FactorsOf(n)}
    /\ Len(ch) >= 2 => factors = {} /\ ch[Len(ch) - 1] = FoundIn(n)
    /\ \A i \in 1 .. Len(ch) - 2 : ch[i].type = "progress" /\ ch[i].found = FALSE

\* Runs are counted, and the last one is about a challenge.
BruteType ==
    /\ runs \in 0 .. MaxRuns
    /\ runs > 0 => modulus \in Challenges
    /\ pending \in [Clients -> BOOLEAN]
    /\ DOMAIN channel = Clients /\ DOMAIN worker = Clients
    /\ DOMAIN bar = {"current", "max"}

\* Only the last run can go on, and only what it was asked is factored.
OneRun ==
    /\ \A c \in Clients : pending[c] => c = runs /\ panel /\ isRunning
    /\ \A c \in Clients : worker[c] = "asked" => pending[c] /\ found = {}
    /\ \A c \in Clients : worker[c] \in {"none", "asked"} => channel[c] = <<>>
    /\ \A c \in Clients : c > runs => worker[c] = "none"
    /\ \A c \in Clients : pending[c] /\ worker[c] # "asked" => worker[c] = "done" /\ ToCome(channel[c], modulus, found)

\* Factors that are shown are those of the modulus, and a run that its worker
\* has answered shows them.
ShownFactors ==
    /\ \A f \in found : /\ runs > 0 /\ f = FactorsOf(modulus)
                        /\ bar.current = f.p /\ f.p <= bar.max
    /\ panel /\ runs > 0 /\ worker[runs] = "done" /\ ~pending[runs] =>
         \E f \in found : iterations = f.p - 1

BruteInv == BruteType /\ OneRun /\ ShownFactors

LEMMA InitBruteInv == InitBrute => BruteInv
  BY BruteForceAssumption
     DEF InitBrute, BruteInv, BruteType, OneRun, ShownFactors, Clients

LEMMA StartStep ==
    ASSUME BruteInv, StartBruteForce
    PROVE  BruteInv'
<1>1. runs' = runs + 1 /\ runs' \in Clients /\ modulus' \in Challenges /\ found' = {}
  BY BruteForceAssumption DEF StartBruteForce, BruteInv, BruteType, Clients
<1>2. BruteType'
  BY <1>1 DEF StartBruteForce, BruteInv, BruteType, Clients
<1>3. \A c \in Clients : ~pending[c]
  BY DEF StartBruteForce, BruteInv, OneRun
<1>4. /\ pending'[runs'] /\ worker'[runs'] = "asked"
      /\ \A c \in Clients \ {runs'} : ~pending'[c] /\ worker'[c] = worker[c]
  BY <1>1, <1>3 DEF StartBruteForce, BruteInv, BruteType
<1>5. OneRun'
  <2>1. UNCHANGED channel /\ worker[runs'] = "none" /\ runs \in Nat
    BY <1>1 DEF StartBruteForce, BruteInv, BruteType, OneRun
  <2>2. panel' /\ isRunning'
    BY DEF StartBruteForce
  <2>3. QED
    BY <1>1, <1>3, <1>4, <2>1, <2>2 DEF BruteInv, OneRun, Clients
<1>6. ShownFactors'
  BY <1>1, <1>4 DEF ShownFactors
<1>7. QED
  BY <1>2, <1>5, <1>6 DEF BruteInv

LEMMA FactorizeStep ==
    ASSUME BruteInv, NEW c \in Clients, Factorize(c)
    PROVE  BruteInv'
<1>1. c = runs /\ pending[c] /\ found = {} /\ modulus \in Challenges
  BY DEF Factorize, BruteInv, OneRun, BruteType, Clients
<1>2. /\ worker'[c] = "done" /\ channel'[c] = Answers(modulus)
      /\ \A d \in Clients \ {c} : worker'[d] = worker[d] /\ channel'[d] = channel[d]
  BY DEF Factorize, BruteInv, BruteType
<1>3. UNCHANGED <<runs, modulus, isRunning, bar, found, iterations, pending, panel>>
  BY DEF Factorize
<1>4. BruteType'
  BY <1>3 DEF Factorize, BruteInv, BruteType
<1>5. ToCome(channel'[c], modulus', found')
  <2>1. PICK ch : ch = Answers(modulus)
    OBVIOUS
  <2>2. channel'[c] = ch
    BY <1>2, <2>1
  <2>3. /\ ch \in Seq(Messages) /\ Len(ch) >= 2
        /\ ch[Len(ch)] = CompleteOf(modulus) /\ ch[Len(ch) - 1] = FoundIn(modulus)
        /\ \A i \in 1 .. Len(ch) - 2 : ch[i].type = "progress" /\ ch[i].found = FALSE
    BY <1>1, <2>1, AnswersAre
  <2>4. QED
    BY <1>1, <1>3, <2>2, <2>3 DEF ToCome
<1>6. OneRun'
  <2>1. \A d \in Clients \ {c} : ~pending[d] /\ worker[d] # "asked"
    BY <1>1 DEF BruteInv, OneRun
  <2>2. QED
    BY <1>1, <1>2, <1>3, <1>5, <2>1 DEF BruteInv, OneRun
<1>7. ShownFactors'
  BY <1>1, <1>3 DEF ShownFactors
<1>8. QED
  BY <1>4, <1>6, <1>7 DEF BruteInv

LEMMA OnMessageStep ==
    ASSUME BruteInv, NEW c \in Clients, OnMessage(c)
    PROVE  BruteInv'
<1> DEFINE m == Head(channel[c])
<1>1. UNCHANGED <<runs, modulus, worker, panel>> /\ channel[c] # <<>>
      /\ channel' = [channel EXCEPT ![c] = Tail(channel[c])]
  BY DEF OnMessage
<1>2. channel'[c] = Tail(channel[c]) /\ \A d \in Clients \ {c} : channel'[d] = channel[d]
  BY <1>1 DEF BruteInv, BruteType
<1>3. CASE ~pending[c]
  <2>1. UNCHANGED <<bar, found, iterations, isRunning, pending>>
    BY <1>3 DEF OnMessage
  <2>2. BruteType' /\ ShownFactors'
    BY <1>1, <2>1 DEF BruteInv, BruteType, ShownFactors
  <2>3. OneRun'
    BY <1>1, <1>2, <1>3, <2>1 DEF BruteInv, OneRun, ToCome
  <2>4. QED
    BY <2>2, <2>3 DEF BruteInv
<1>4. CASE pending[c]
  <2>1. PICK ch : ch = channel[c]
    OBVIOUS
  <2>2. /\ c = runs /\ panel /\ isRunning /\ worker[c] = "done" /\ modulus \in Challenges
        /\ ToCome(ch, modulus, found) /\ ch # <<>> /\ channel'[c] = Tail(ch)
    BY <1>1, <1>2, <1>4, <2>1 DEF BruteInv, OneRun, BruteType, Clients
  <2>3. /\ ch \in Seq(Messages) /\ Len(ch) \in Nat
        /\ Tail(ch) \in Seq(Messages) /\ Len(Tail(ch)) = Len(ch) - 1
        /\ \A i \in 1 .. Len(ch) - 1 : Tail(ch)[i] = ch[i + 1]
    BY <2>2 DEF ToCome
  <2>4. \A d \in Clients \ {c} : ~pending[d] /\ worker[d] # "asked"
    BY <2>2 DEF BruteInv, OneRun
  <2>10. /\ ch[1].type = "progress" =>
              /\ bar' = [current |-> ch[1].current, max |-> ch[1].max]
              /\ found' = IF ch[1].found THEN {[p |-> ch[1].p, q |-> ch[1].q]} ELSE found
              /\ UNCHANGED <<iterations, isRunning, pending>>
         /\ ch[1].type # "progress" =>
              /\ iterations' = ch[1].iterations /\ isRunning' = FALSE
              /\ pending' = [pending EXCEPT ![c] = FALSE] /\ UNCHANGED <<bar, found>>
    <3>1. PICK first : first = ch[1]
      OBVIOUS
    <3>2. Head(channel[c]) = first
      BY <2>1, <2>2, <2>3, <3>1
    <3>3. QED
      BY <1>4, <3>1, <3>2, Zenon DEF OnMessage
  <2>5. CASE Len(ch) = 1
    <3>1. ch[1] = CompleteOf(modulus) /\ found = {FactorsOf(modulus)}
      BY <2>2, <2>5 DEF ToCome
    <3>2. ch[1].type = "complete" /\ ch[1].iterations = Smaller(modulus) - 1
      BY <3>1 DEF CompleteOf, Complete
    <3>3. /\ iterations' = Smaller(modulus) - 1 /\ isRunning' = FALSE
          /\ pending' = [pending EXCEPT ![c] = FALSE] /\ UNCHANGED <<bar, found>>
      BY <2>10, <3>2
    <3>4. \A d \in Clients : ~pending'[d] /\ worker'[d] # "asked"
      BY <1>1, <2>2, <2>4, <3>3 DEF BruteInv, BruteType
    <3>5. BruteType' /\ OneRun'
      BY <1>1, <1>2, <2>2, <3>3, <3>4 DEF BruteInv, BruteType, OneRun
    <3>6. ShownFactors'
      BY <1>1, <2>2, <3>1, <3>3 DEF BruteInv, ShownFactors, FactorsOf
    <3>7. QED
      BY <3>5, <3>6 DEF BruteInv
  <2>6. CASE Len(ch) = 2
    <3>1. ch[1] = FoundIn(modulus) /\ ch[2] = CompleteOf(modulus) /\ found = {}
      BY <2>2, <2>6 DEF ToCome
    <3>2. /\ ch[1].type = "progress" /\ ch[1].found = TRUE /\ ch[1].current = Smaller(modulus)
          /\ ch[1].max = Root(modulus)
          /\ [p |-> ch[1].p, q |-> ch[1].q] = FactorsOf(modulus)
      BY <3>1 DEF FoundIn, FactorsOf
    <3>3. /\ bar' = [current |-> Smaller(modulus), max |-> Root(modulus)]
          /\ found' = {FactorsOf(modulus)}
          /\ UNCHANGED <<iterations, isRunning, pending>>
      BY <2>10, <3>2
    <3>4. ToCome(channel'[c], modulus', found')
      <4>1. PICK rest : rest = Tail(ch)
        OBVIOUS
      <4>2. rest \in Seq(Messages) /\ Len(rest) = 1 /\ rest[1] = CompleteOf(modulus)
        BY <2>3, <2>6, <3>1, <4>1
      <4>3. ToCome(rest, modulus, {FactorsOf(modulus)})
        BY <4>2 DEF ToCome
      <4>4. QED
        BY <1>1, <2>2, <3>3, <4>1, <4>3
    <3>5. BruteType' /\ OneRun'
      BY <1>1, <1>2, <2>2, <2>4, <3>3, <3>4 DEF BruteInv, BruteType, OneRun
    <3>6. ShownFactors'
      BY <1>1, <1>4, <2>2, <3>3, SmallerIs DEF BruteInv, BruteType, Clients, ShownFactors, FactorsOf
    <3>7. QED
      BY <3>5, <3>6 DEF BruteInv
  <2>7. CASE Len(ch) > 2
    <3>1. ch[1].type = "progress" /\ ch[1].found = FALSE /\ found = {}
      BY <2>2, <2>3, <2>7 DEF ToCome
    <3>2. /\ bar' = [current |-> ch[1].current, max |-> ch[1].max]
          /\ UNCHANGED <<found, iterations, isRunning, pending>>
      BY <2>10, <3>1
    <3>3. ToCome(channel'[c], modulus', found')
      <4>1. PICK rest : rest = Tail(ch)
        OBVIOUS
      <4>2. channel'[c] = rest
        BY <2>2, <4>1
      <4>3. /\ rest \in Seq(Messages) /\ Len(rest) = Len(ch) - 1
            /\ \A i \in 1 .. Len(ch) - 1 : rest[i] = ch[i + 1]
        BY <2>3, <4>1
      <4>4. /\ rest[Len(rest)] = CompleteOf(modulus)
            /\ rest[Len(rest) - 1] = FoundIn(modulus)
            /\ \A i \in 1 .. Len(rest) - 2 : rest[i].type = "progress" /\ rest[i].found = FALSE
        BY <2>2, <2>3, <2>7, <4>3 DEF ToCome
      <4>5. QED
        <5>1. Len(rest) \in Nat /\ Len(rest) >= 2
          BY <2>3, <2>7, <4>3
        <5>2. ToCome(rest, modulus, found)
          BY <3>1, <4>3, <4>4, <5>1 DEF ToCome
        <5>3. QED
          BY <1>1, <3>2, <4>2, <5>2
    <3>4. BruteType' /\ OneRun'
      BY <1>1, <1>2, <2>2, <2>4, <3>2, <3>3 DEF BruteInv, BruteType, OneRun
    <3>5. ShownFactors'
      BY <1>1, <1>4, <2>2, <3>1, <3>2 DEF ShownFactors
    <3>6. QED
      BY <3>4, <3>5 DEF BruteInv
  <2>8. Len(ch) >= 1 /\ Len(ch) \in Nat
    BY <2>2, <2>3 DEF ToCome
  <2>9. Len(ch) = 1 \/ Len(ch) = 2 \/ Len(ch) > 2
    <3>1. PICK length \in Nat : length = Len(ch)
      BY <2>8
    <3>2. length >= 1 => length = 1 \/ length = 2 \/ length > 2
      OBVIOUS
    <3>3. QED
      BY <2>8, <3>1, <3>2
  <2>11. QED
    BY <2>5, <2>6, <2>7, <2>9
<1>5. QED
  BY <1>3, <1>4

LEMMA EndsOfRuns ==
    ASSUME BruteInv, ClosePanel \/ \E c \in Clients : OnError(c)
    PROVE  BruteInv'
<1>1. ASSUME NEW c \in Clients, OnError(c)
      PROVE  BruteInv'
  <2>1. c = runs /\ pending[c] /\ found = {}
    BY <1>1 DEF OnError, BruteInv, OneRun
  <2>2. /\ worker'[c] = "gone" /\ ~pending'[c]
        /\ \A d \in Clients \ {c} : worker'[d] = worker[d] /\ pending'[d] = pending[d]
        /\ UNCHANGED <<runs, modulus, bar, found, iterations, channel, panel>>
    BY <1>1 DEF OnError, BruteInv, BruteType
  <2>3. BruteType'
    BY <1>1, <2>2 DEF OnError, BruteInv, BruteType
  <2>4. \A d \in Clients \ {c} : ~pending[d] /\ worker[d] # "asked"
    BY <2>1 DEF BruteInv, OneRun
  <2>5. OneRun'
    BY <2>1, <2>2, <2>4 DEF BruteInv, OneRun
  <2>6. ShownFactors'
    BY <2>1, <2>2 DEF ShownFactors
  <2>7. QED
    BY <2>3, <2>5, <2>6 DEF BruteInv
<1>2. CASE ClosePanel
  <2>1. panel' = FALSE /\ UNCHANGED <<runs, modulus, isRunning, bar, found, iterations>>
    BY <1>2 DEF ClosePanel
  <2>2. CASE runs = 0
    <3>1. UNCHANGED <<pending, worker, channel>>
      BY <1>2, <2>2 DEF ClosePanel
    <3>2. \A c \in Clients : ~pending[c]
      BY <2>2 DEF BruteInv, OneRun, Clients
    <3>3. QED
      BY <2>1, <2>2, <3>1, <3>2 DEF BruteInv, BruteType, OneRun, ShownFactors
  <2>3. CASE runs # 0
    <3>1. runs \in Clients
      BY <2>3 DEF BruteInv, BruteType, Clients
    <3>2. /\ pending' = [pending EXCEPT ![runs] = FALSE]
          /\ worker' = [worker EXCEPT ![runs] = "gone"]
          /\ channel' = [channel EXCEPT ![runs] = <<>>]
      BY <1>2, <2>3 DEF ClosePanel
    <3>3. /\ ~pending'[runs] /\ worker'[runs] = "gone"
          /\ \A c \in Clients \ {runs} :
               /\ ~pending[c] /\ worker[c] # "asked"
               /\ pending'[c] = pending[c] /\ worker'[c] = worker[c] /\ channel'[c] = channel[c]
      BY <3>1, <3>2 DEF BruteInv, BruteType, OneRun
    <3>4. BruteType'
      BY <2>1, <3>2 DEF BruteInv, BruteType
    <3>5. OneRun'
      <4>1. runs \in Nat
        BY <3>1 DEF BruteInv, BruteType
      <4>2. QED
        BY <2>1, <3>3, <4>1 DEF BruteInv, OneRun
    <3>6. ShownFactors'
      BY <2>1 DEF BruteInv, ShownFactors
    <3>7. QED
      BY <3>4, <3>5, <3>6 DEF BruteInv
  <2>4. QED
    BY <2>2, <2>3
<1>3. QED
  BY <1>1, <1>2

\* What the brute-force panel calls cracked is: the factors it shows are two
\* primes whose product is the modulus shown, for primes of any size, however
\* often runs are started, fail or are closed.
THEOREM FactorsAreTrue == BruteSpec => []CrackedIsTrue
<1>1. BruteInv /\ [BruteStep]_bruteVars => BruteInv'
  <2> SUFFICES ASSUME BruteInv, [BruteStep]_bruteVars
               PROVE  BruteInv'
    OBVIOUS
  <2>1. CASE UNCHANGED bruteVars
    BY <2>1 DEF bruteVars, BruteInv, BruteType, OneRun, ShownFactors
  <2>2. QED
    BY <2>1, StartStep, FactorizeStep, OnMessageStep, EndsOfRuns DEF BruteStep
<1>2. BruteInv => CrackedIsTrue
  <2> SUFFICES ASSUME BruteInv
               PROVE  CrackedIsTrue
    OBVIOUS
  <2>1. ASSUME NEW f \in found
        PROVE  /\ f.p \in Primes /\ f.q \in Primes /\ f.p * f.q = modulus
               /\ bar.current = f.p /\ f.p <= bar.max
    <3>1. modulus \in Challenges /\ f = FactorsOf(modulus) /\ bar.current = f.p /\ f.p <= bar.max
      BY DEF BruteInv, BruteType, ShownFactors
    <3>2. f.p = Smaller(modulus) /\ f.q = modulus \div Smaller(modulus)
      BY <3>1 DEF FactorsOf
    <3>3. QED
      BY <3>1, <3>2, SmallerIs
  <2>2. panel /\ ~isRunning /\ runs > 0 /\ worker[runs] = "done" =>
          \E f \in found : iterations = f.p - 1
    BY DEF BruteInv, BruteType, OneRun, ShownFactors, Clients
  <2>3. QED
    BY <2>1, <2>2 DEF CrackedIsTrue
<1>3. QED
  BY <1>1, <1>2, InitBruteInv, PTL DEF BruteSpec

-----------------------------------------------------------------------------
(* Bits of a byte. *)

\* p holds the powers of two with exponents in N.
Powers(N, p) == p = [k \in N |-> IF k = 0 THEN 1 ELSE 2 * p[k - 1]]
PowersTo(n) == CHOOSE p : Powers(0 .. n, p)

LEMMA PowersAgree ==
    ASSUME NEW m \in Nat, NEW n \in Nat, NEW p, NEW q, Powers(0 .. m, p), Powers(0 .. n, q)
    PROVE  \A k \in Nat : k <= m /\ k <= n => p[k] = q[k]
<1>1. PICK Bad : Bad = {k \in Nat : k <= m /\ k <= n /\ p[k] # q[k]}
  OBVIOUS
<1>2. ASSUME Bad # {} PROVE FALSE
  <2>1. PICK k \in Bad : \A l \in Bad : k <= l
    BY <1>1, <1>2, LeastNumber
  <2>2. k \in 0 .. m /\ k \in 0 .. n /\ k \in Nat /\ p[k] # q[k]
    BY <1>1, <2>1
  <2>3. /\ p[k] = IF k = 0 THEN 1 ELSE 2 * p[k - 1]
        /\ q[k] = IF k = 0 THEN 1 ELSE 2 * q[k - 1]
    BY <2>2, Zenon DEF Powers
  <2>4. k # 0
    BY <2>2, <2>3
  <2>5. k - 1 \in Nat /\ k - 1 <= m /\ k - 1 <= n /\ ~(k <= k - 1)
    BY <2>2, <2>4
  <2>6. p[k - 1] = q[k - 1]
    BY <1>1, <2>1, <2>5
  <2>7. QED
    BY <2>2, <2>3, <2>6, Zenon
<1>3. QED
  BY <1>1, <1>2

LEMMA PowersExist == ASSUME NEW n \in Nat PROVE Powers(0 .. n, PowersTo(n))
<1>1. PICK Bad : Bad = {k \in Nat : ~ \E p : Powers(0 .. k, p)}
  OBVIOUS
<1>2. ASSUME Bad # {} PROVE FALSE
  <2>1. PICK k \in Bad : \A l \in Bad : k <= l
    BY <1>1, <1>2, LeastNumber
  <2>2. k \in Nat
    BY <1>1, <2>1
  <2>3. CASE k = 0
    <3>1. PICK p : p = [l \in 0 .. 0 |-> 1]
      OBVIOUS
    <3>2. \A l \in 0 .. 0 : 1 = IF l = 0 THEN 1 ELSE 2 * p[l - 1]
      OBVIOUS
    <3>3. Powers(0 .. k, p)
      BY <2>3, <3>1, <3>2 DEF Powers
    <3>4. QED
      BY <1>1, <2>1, <3>3
  <2>4. CASE k # 0
    <3>1. k - 1 \in Nat /\ ~(k <= k - 1)
      BY <2>2, <2>4
    <3>2. PICK q : Powers(0 .. k - 1, q)
      BY <1>1, <2>1, <3>1
    <3>3. PICK p : p = [l \in 0 .. k |-> IF l = 0 THEN 1 ELSE 2 * q[l - 1]]
      OBVIOUS
    <3>4. \A l \in 0 .. k - 1 : p[l] = q[l]
      <4>1. \A l \in 0 .. k - 1 : q[l] = IF l = 0 THEN 1 ELSE 2 * q[l - 1]
        BY <3>2, Zenon DEF Powers
      <4>2. \A l \in 0 .. k - 1 : l \in 0 .. k
        BY <2>2
      <4>3. QED
        BY <3>3, <4>1, <4>2, Zenon
    <3>5. \A l \in 0 .. k : l # 0 => p[l - 1] = q[l - 1]
      BY <2>2, <3>4
    <3>6. Powers(0 .. k, p)
      <4>1. \A l \in 0 .. k : (IF l = 0 THEN 1 ELSE 2 * q[l - 1]) = (IF l = 0 THEN 1 ELSE 2 * p[l - 1])
        BY <3>5, Zenon
      <4>2. QED
        BY <3>3, <4>1 DEF Powers
    <3>7. QED
      BY <1>1, <2>1, <3>6
  <2>5. QED
    BY <2>3, <2>4
<1>3. \E p : Powers(0 .. n, p)
  BY <1>1, <1>2
<1>4. QED
  BY <1>3, Zenon DEF PowersTo

LEMMA PowerIs ==
    /\ PowerOf2[0] = 1
    /\ \A k \in Nat : PowerOf2[k + 1] = 2 * PowerOf2[k]
<1>1. PICK g : g = [k \in Nat |-> PowersTo(k)[k]]
  OBVIOUS
<1>2. ASSUME NEW k \in Nat
      PROVE  g[k] = IF k = 0 THEN 1 ELSE 2 * g[k - 1]
  <2>1. Powers(0 .. k, PowersTo(k)) /\ k \in 0 .. k
    BY PowersExist
  <2>2. PowersTo(k)[k] = IF k = 0 THEN 1 ELSE 2 * PowersTo(k)[k - 1]
    BY <2>1, Zenon DEF Powers
  <2>3. ASSUME k # 0 PROVE PowersTo(k)[k - 1] = PowersTo(k - 1)[k - 1]
    <3>1. k - 1 \in Nat /\ k - 1 <= k /\ k - 1 <= k - 1
      BY <2>3
    <3>2. Powers(0 .. k - 1, PowersTo(k - 1))
      BY <3>1, PowersExist
    <3>3. QED
      BY <2>1, <3>1, <3>2, PowersAgree
  <2>4. k # 0 => k - 1 \in Nat
    OBVIOUS
  <2>5. QED
    BY <1>1, <2>2, <2>3, <2>4, Zenon
<1>3. g = [k \in Nat |-> IF k = 0 THEN 1 ELSE 2 * g[k - 1]]
  <2>1. g = [k \in Nat |-> g[k]]
    BY <1>1
  <2>2. QED
    BY <1>2, <2>1, Zenon
<1>4. PowerOf2 = [k \in Nat |-> IF k = 0 THEN 1 ELSE 2 * PowerOf2[k - 1]]
  BY <1>3, Zenon DEF PowerOf2
<1>5. \A k \in Nat : PowerOf2[k] = IF k = 0 THEN 1 ELSE 2 * PowerOf2[k - 1]
  BY <1>4, Zenon
<1>6. ASSUME NEW k \in Nat PROVE PowerOf2[k + 1] = 2 * PowerOf2[k]
  <2>1. k + 1 \in Nat /\ k + 1 # 0 /\ (k + 1) - 1 = k
    OBVIOUS
  <2>2. QED
    BY <1>5, <2>1, Zenon
<1>7. PowerOf2[0] = 1
  BY <1>5
<1>8. QED
  BY <1>6, <1>7

\* The lower of two powers of two divides the higher, an even number of times.
LEMMA PowersDivide ==
    /\ \A k \in Nat : PowerOf2[k] \in Nat /\ PowerOf2[k] > 0
    /\ \A k, l \in Nat : k < l => \E m \in Nat : m >= 1 /\ PowerOf2[l] = PowerOf2[k] * (2 * m)
<1>1. ASSUME NEW k \in Nat PROVE PowerOf2[k] \in Nat /\ PowerOf2[k] > 0
  <2>1. PICK Bad : Bad = {l \in Nat : ~(PowerOf2[l] \in Nat /\ PowerOf2[l] > 0)}
    OBVIOUS
  <2>2. ASSUME Bad # {} PROVE FALSE
    <3>1. PICK l \in Bad : \A n \in Bad : l <= n
      BY <2>1, <2>2, LeastNumber
    <3>2. l \in Nat /\ l # 0
      BY <2>1, <3>1, PowerIs
    <3>3. l - 1 \in Nat /\ ~(l <= l - 1) /\ (l - 1) + 1 = l
      BY <3>2
    <3>4. PowerOf2[l - 1] \in Nat /\ PowerOf2[l - 1] > 0
      BY <2>1, <3>1, <3>3
    <3>5. PowerOf2[l] = 2 * PowerOf2[l - 1]
      BY <3>3, PowerIs
    <3>6. PowerOf2[l] \in Nat /\ PowerOf2[l] > 0
      BY <3>4, <3>5
    <3>7. QED
      BY <2>1, <3>1, <3>6
  <2>3. QED
    BY <2>1, <2>2
<1>2. ASSUME NEW k \in Nat, NEW l \in Nat, k < l
      PROVE  \E m \in Nat : m >= 1 /\ PowerOf2[l] = PowerOf2[k] * (2 * m)
  <2>1. PICK Bad : Bad = {n \in Nat : k < n /\ ~ \E m \in Nat : m >= 1 /\ PowerOf2[n] = PowerOf2[k] * (2 * m)}
    OBVIOUS
  <2>2. ASSUME Bad # {} PROVE FALSE
    <3>1. PICK n \in Bad : \A x \in Bad : n <= x
      BY <2>1, <2>2, LeastNumber
    <3>2. n \in Nat /\ k < n
      BY <2>1, <3>1
    <3>3. n - 1 \in Nat /\ ~(n <= n - 1) /\ (n - 1) + 1 = n /\ (k < n - 1 \/ k = n - 1)
      BY <3>2
    <3>4. PICK a \in Nat : a = PowerOf2[k]
      BY <1>1
    <3>5. PICK b \in Nat : b = PowerOf2[n - 1]
      BY <1>1, <3>3
    <3>6. PowerOf2[n] = 2 * b
      BY <3>3, <3>5, PowerIs
    <3>7. CASE k = n - 1
      <4>1. PowerOf2[n] = PowerOf2[k] * (2 * 1)
        BY <3>4, <3>5, <3>6, <3>7
      <4>2. QED
        BY <2>1, <3>1, <4>1
    <3>8. CASE k < n - 1
      <4>1. PICK m \in Nat : m >= 1 /\ b = a * (2 * m)
        BY <2>1, <3>1, <3>3, <3>4, <3>5, <3>8
      <4>2. 2 * (a * (2 * m)) = a * (2 * (2 * m))
        OBVIOUS
      <4>3. PowerOf2[n] = PowerOf2[k] * (2 * (2 * m)) /\ 2 * m \in Nat /\ 2 * m >= 1
        BY <3>4, <3>6, <4>1, <4>2
      <4>4. QED
        BY <2>1, <3>1, <4>3
    <3>9. QED
      BY <3>3, <3>7, <3>8
  <2>3. QED
    BY <1>2, <2>1, <2>2
<1>3. QED
  BY <1>1, <1>2

\* Quotient and remainder.
LEMMA QuotientIs ==
    ASSUME NEW n \in Nat, NEW d \in Nat, d > 0, NEW q \in Nat, NEW r \in Nat, r < d, n = d * q + r
    PROVE  n \div d = q
  OBVIOUS

LEMMA Quotient ==
    ASSUME NEW n \in Nat, NEW d \in Nat, d > 0
    PROVE  \E q, r \in Nat : r < d /\ n = d * q + r /\ n \div d = q
  OBVIOUS

\* Adding a bit that is not set changes this bit and no other.
LEMMA AddedBit ==
    ASSUME NEW b \in Nat, NEW W \in Nat, W > 0, (b \div W) % 2 = 0
    PROVE  /\ ((b + W) \div W) % 2 = 1
           /\ \A m \in Nat, V \in Nat : m >= 1 /\ V > 0 /\ (V = W * (2 * m) \/ W = V * (2 * m)) =>
                ((b + W) \div V) % 2 = (b \div V) % 2
<1>1. PICK q \in Nat, r \in Nat : r < W /\ b = W * q + r /\ b \div W = q
  BY Quotient
<1>2. b + W = W * (q + 1) + r /\ q + 1 \in Nat
  BY <1>1
<1>3. (b + W) \div W = q + 1
  BY <1>1, <1>2, QuotientIs
<1>4. ((b + W) \div W) % 2 = 1
  BY <1>1, <1>3
<1>5. ASSUME NEW m \in Nat, NEW V \in Nat, m >= 1, V > 0, W = V * (2 * m)
      PROVE  ((b + W) \div V) % 2 = (b \div V) % 2
  <2>1. PICK s \in Nat, t \in Nat : t < V /\ b = V * s + t /\ b \div V = s
    BY <1>5, Quotient
  <2>2. b + W = V * (s + 2 * m) + t /\ s + 2 * m \in Nat
    BY <1>5, <2>1
  <2>3. (b + W) \div V = s + 2 * m
    BY <1>5, <2>1, <2>2, QuotientIs
  <2>4. (s + 2 * m) % 2 = s % 2
    OBVIOUS
  <2>5. QED
    BY <2>1, <2>3, <2>4
<1>6. ASSUME NEW m \in Nat, NEW V \in Nat, m >= 1, V > 0, V = W * (2 * m)
      PROVE  ((b + W) \div V) % 2 = (b \div V) % 2
  <2>1. PICK s \in Nat, t \in Nat : t < V /\ b = V * s + t /\ b \div V = s
    BY <1>6, Quotient
  <2>2. PICK u \in Nat, x \in Nat : x < W /\ t = W * u + x /\ t \div W = u
    BY Quotient
  <2>3. u < 2 * m
    <3>1. ASSUME u >= 2 * m PROVE FALSE
      <4>1. W * u >= W * (2 * m)
        BY <3>1
      <4>2. QED
        BY <1>6, <2>1, <2>2, <4>1
    <3>2. QED
      BY <3>1
  <2>4. b = W * ((2 * m) * s + u) + x
    <3>1. V * s = W * ((2 * m) * s)
      BY <1>6
    <3>2. W * ((2 * m) * s + u) = W * ((2 * m) * s) + W * u
      OBVIOUS
    <3>3. QED
      BY <2>1, <2>2, <3>1, <3>2
  <2>5. q = (2 * m) * s + u
    <3>1. PICK y \in Nat : y = (2 * m) * s + u
      OBVIOUS
    <3>2. b = W * y + x
      BY <2>4, <3>1
    <3>3. b \div W = y
      BY <2>2, <3>2, QuotientIs
    <3>4. QED
      BY <1>1, <3>1, <3>3
  <2>6. u % 2 = 0
    <3>1. PICK y \in Nat : y = m * s
      OBVIOUS
    <3>2. (2 * m) * s = 2 * y
      BY <3>1
    <3>3. q = 2 * y + u /\ q % 2 = 0
      BY <1>1, <2>5, <3>2
    <3>4. QED
      BY <3>3
  <2>7. u + 2 <= 2 * m
    BY <2>3, <2>6
  <2>8. t + W < V
    <3>1. t + W = W * (u + 1) + x /\ W * (u + 1) + x < W * (u + 2)
      BY <2>2
    <3>2. W * (u + 2) <= W * (2 * m)
      BY <2>7
    <3>3. QED
      BY <1>6, <2>2, <3>1, <3>2
  <2>9. b + W = V * s + (t + W) /\ t + W \in Nat
    BY <2>1
  <2>10. (b + W) \div V = s
    BY <1>6, <2>8, <2>9, QuotientIs
  <2>11. QED
    BY <2>1, <2>10
<1>7. QED
  BY <1>4, <1>5, <1>6

\* Bits of the same byte have weights that are multiples of one another.
LEMMA IndexIs ==
    ASSUME NEW bytes \in Seq(Nat), NEW i \in Indices(bytes)
    PROVE  /\ ByteOf(i) \in 1 .. Len(bytes)
           /\ Weight(i) \in Nat /\ Weight(i) > 0
           /\ \A j \in Indices(bytes) : j # i /\ ByteOf(j) = ByteOf(i) =>
                \E m \in Nat : m >= 1 /\ (Weight(j) = Weight(i) * (2 * m) \/ Weight(i) = Weight(j) * (2 * m))
<1>1. PICK w \in Nat : w = Width /\ w > 0
  BY BitFlipperAssumption
<1>2. PICK n \in Nat : n = Len(bytes)
  OBVIOUS
<1>3. ASSUME NEW j \in Indices(bytes)
      PROVE  \E q, r \in Nat : /\ q < n /\ r < w /\ j = w * q + r
                               /\ Weight(j) = PowerOf2[w - 1 - r] /\ ByteOf(j) = q + 1
  <2>1. j \in Nat /\ j < w * n
    BY <1>1, <1>2 DEF Indices
  <2>2. PICK q \in Nat, r \in Nat : q = j \div w /\ r = j % w /\ r < w /\ j = w * q + r
    BY <1>1, <2>1
  <2>3. ASSUME q >= n PROVE FALSE
    <3>1. w * q >= w * n
      BY <1>1, <2>3
    <3>2. w * q \in Nat /\ w * n \in Nat
      OBVIOUS
    <3>3. QED
      BY <2>1, <2>2, <3>1, <3>2
  <2>4. Weight(j) = PowerOf2[w - 1 - r] /\ ByteOf(j) = q + 1
    BY <1>1, <2>2 DEF Weight, ByteOf
  <2>5. q < n
    BY <2>3
  <2>6. QED
    BY <2>2, <2>4, <2>5, Zenon
<1>4. PICK q \in Nat, r \in Nat : /\ q < n /\ r < w /\ i = w * q + r
                                  /\ Weight(i) = PowerOf2[w - 1 - r] /\ ByteOf(i) = q + 1
  BY <1>3
<1>5. PICK k \in Nat : k = w - 1 - r
  BY <1>4
<1>6. ASSUME NEW j \in Indices(bytes), j # i, ByteOf(j) = ByteOf(i)
      PROVE  \E m \in Nat : m >= 1 /\ (Weight(j) = Weight(i) * (2 * m) \/ Weight(i) = Weight(j) * (2 * m))
  <2>1. PICK p \in Nat, s \in Nat : /\ p < n /\ s < w /\ j = w * p + s
                                    /\ Weight(j) = PowerOf2[w - 1 - s] /\ ByteOf(j) = p + 1
    BY <1>3
  <2>2. PICK l \in Nat : l = w - 1 - s
    BY <2>1
  <2>3. p = q
    BY <1>4, <1>6, <2>1
  <2>4. r # s
    BY <1>4, <1>6, <2>1, <2>3
  <2>5. k < l \/ l < k
    BY <1>5, <2>2, <2>4
  <2>6. Weight(i) = PowerOf2[k] /\ Weight(j) = PowerOf2[l]
    BY <1>4, <1>5, <2>1, <2>2
  <2>7. QED
    BY <2>5, <2>6, PowersDivide
<1>7. Weight(i) \in Nat /\ Weight(i) > 0
  BY <1>4, <1>5, PowersDivide
<1>8. ByteOf(i) \in 1 .. Len(bytes)
  BY <1>2, <1>4
<1>9. QED
  BY <1>6, <1>7, <1>8

\* Flipping a bit of the text changes that bit and no other.
LEMMA FlippedByteIs ==
    ASSUME NEW bytes \in Seq(Nat), NEW i \in Indices(bytes)
    PROVE  /\ FlippedByte(bytes, i) \in Seq(Nat) /\ Len(FlippedByte(bytes, i)) = Len(bytes)
           /\ BitOf(bytes, i) \in {0, 1} /\ BitOf(FlippedByte(bytes, i), i) = 1 - BitOf(bytes, i)
           /\ \A j \in Indices(bytes) \ {i} : BitOf(FlippedByte(bytes, i), j) = BitOf(bytes, j)
<1>1. PICK n : n = ByteOf(i)
  OBVIOUS
<1>2. n \in 1 .. Len(bytes)
  BY <1>1, IndexIs
<1>3. PICK b \in Nat : b = bytes[n]
  BY <1>2
<1>4. PICK W \in Nat : W = Weight(i) /\ W > 0
  BY IndexIs
<1>5. BitOf(bytes, i) = (b \div W) % 2 /\ BitOf(bytes, i) \in {0, 1}
  BY <1>1, <1>3, <1>4 DEF BitOf
<1>6. PICK c \in Nat : c = IF (b \div W) % 2 = 1 THEN b - W ELSE b + W
  <2>1. ASSUME (b \div W) % 2 = 1 PROVE b - W \in Nat
    <3>1. PICK q \in Nat, r \in Nat : r < W /\ b = W * q + r /\ b \div W = q
      BY <1>4, Quotient
    <3>2. q >= 1
      BY <2>1, <3>1
    <3>3. W * q >= W
      BY <3>2
    <3>4. QED
      BY <3>1, <3>3
  <2>2. b + W \in Nat
    OBVIOUS
  <2>3. QED
    BY <2>1, <2>2
<1>7. PICK flipped : flipped = FlippedByte(bytes, i)
  OBVIOUS
<1>8. flipped = [bytes EXCEPT ![n] = c]
  BY <1>1, <1>3, <1>4, <1>5, <1>6, <1>7 DEF FlippedByte
<1>9. /\ flipped \in Seq(Nat) /\ Len(flipped) = Len(bytes) /\ flipped[n] = c
      /\ \A k \in 1 .. Len(bytes) : k # n => flipped[k] = bytes[k]
  BY <1>2, <1>8
<1>10. /\ (c \div W) % 2 = 1 - ((b \div W) % 2)
       /\ \A m \in Nat, V \in Nat : m >= 1 /\ V > 0 /\ (V = W * (2 * m) \/ W = V * (2 * m)) =>
            (c \div V) % 2 = (b \div V) % 2
  <2>1. CASE (b \div W) % 2 = 0
    <3>1. c = b + W
      BY <1>6, <2>1
    <3>2. /\ ((b + W) \div W) % 2 = 1
          /\ \A m \in Nat, V \in Nat : m >= 1 /\ V > 0 /\ (V = W * (2 * m) \/ W = V * (2 * m)) =>
               ((b + W) \div V) % 2 = (b \div V) % 2
      BY <1>4, <2>1, AddedBit
    <3>3. (c \div W) % 2 = 1 - ((b \div W) % 2)
      BY <2>1, <3>1, <3>2
    <3>4. QED
      BY <3>1, <3>2, <3>3, Zenon
  <2>2. CASE (b \div W) % 2 = 1
    <3>1. b = c + W
      BY <1>6, <2>2
    <3>2. PICK q \in Nat, r \in Nat : r < W /\ c = W * q + r /\ c \div W = q
      BY <1>4, Quotient
    <3>3. b = W * (q + 1) + r /\ q + 1 \in Nat
      BY <3>1, <3>2
    <3>4. b \div W = q + 1
      BY <1>4, <3>2, <3>3, QuotientIs
    <3>5. (c \div W) % 2 = 0
      BY <2>2, <3>2, <3>4
    <3>6. /\ ((c + W) \div W) % 2 = 1
          /\ \A m \in Nat, V \in Nat : m >= 1 /\ V > 0 /\ (V = W * (2 * m) \/ W = V * (2 * m)) =>
               ((c + W) \div V) % 2 = (c \div V) % 2
      BY <1>4, <3>5, AddedBit
    <3>7. \A m \in Nat, V \in Nat : m >= 1 /\ V > 0 /\ (V = W * (2 * m) \/ W = V * (2 * m)) =>
               (b \div V) % 2 = (c \div V) % 2
      BY <3>1, <3>6
    <3>8. (c \div W) % 2 = 1 - ((b \div W) % 2)
      BY <2>2, <3>5
    <3>9. QED
      BY <3>7, <3>8, Zenon
  <2>3. QED
    BY <1>5, <2>1, <2>2
<1>11. BitOf(flipped, i) = 1 - BitOf(bytes, i)
  <2>1. BitOf(flipped, i) = (c \div W) % 2
    BY <1>1, <1>4, <1>9 DEF BitOf
  <2>2. QED
    BY <2>1, <1>5, <1>10
<1>12. ASSUME NEW j \in Indices(bytes) \ {i}
       PROVE  BitOf(flipped, j) = BitOf(bytes, j)
  <2>1. ByteOf(j) \in 1 .. Len(bytes)
    BY IndexIs
  <2>2. CASE ByteOf(j) # n
    BY <1>9, <2>1, <2>2 DEF BitOf
  <2>3. CASE ByteOf(j) = n
    <3>1. PICK V \in Nat : V = Weight(j) /\ V > 0
      BY IndexIs
    <3>2. PICK m \in Nat : m >= 1 /\ (V = W * (2 * m) \/ W = V * (2 * m))
      <4>1. \A k \in Indices(bytes) : k # i /\ ByteOf(k) = ByteOf(i) =>
              \E m \in Nat : m >= 1 /\ (Weight(k) = Weight(i) * (2 * m) \/ Weight(i) = Weight(k) * (2 * m))
        BY IndexIs
      <4>2. QED
        BY <1>1, <1>4, <2>3, <3>1, <4>1
    <3>3. (c \div V) % 2 = (b \div V) % 2
      BY <1>10, <3>1, <3>2
    <3>4. QED
      BY <1>3, <1>9, <2>3, <3>1, <3>3 DEF BitOf
  <2>4. QED
    BY <2>2, <2>3
<1>13. QED
  BY <1>5, <1>7, <1>9, <1>11, <1>12

-----------------------------------------------------------------------------
(* The scene of the bit flipper. *)

BitCells == [originalValue : {0, 1}, currentValue : {0, 1}, isFlipped : BOOLEAN]

\* The bytes and the cells of a scene agree.
SceneOK(s) ==
    /\ s \in [ciphertext : Seq(Nat), original : Seq(Nat), bits : [Indices(s.original) -> BitCells]]
    /\ Len(s.ciphertext) = Len(s.original)
    /\ \A i \in Indices(s.original) :
         /\ s.bits[i].originalValue = BitOf(s.original, i)
         /\ s.bits[i].currentValue = BitOf(s.ciphertext, i)
         /\ s.bits[i].isFlipped <=> s.bits[i].currentValue # s.bits[i].originalValue

LEMMA SceneBegins ==
    ASSUME NEW bytes \in Seq(Nat)
    PROVE  SceneOK(SceneOf(bytes)) /\ Flipped(SceneOf(bytes)) = {}
<1>1. PICK s : s = SceneOf(bytes)
  OBVIOUS
<1>2. \A i \in Indices(bytes) : BitOf(bytes, i) \in {0, 1}
  BY FlippedByteIs
<1>3. s.original = bytes /\ s.ciphertext = bytes /\ s.bits = [i \in Indices(bytes) |-> BitCell(BitOf(bytes, i))]
  BY <1>1 DEF SceneOf
<1>4. \A i \in Indices(bytes) :
        /\ s.bits[i] \in BitCells /\ s.bits[i].isFlipped = FALSE
        /\ s.bits[i].originalValue = BitOf(bytes, i) /\ s.bits[i].currentValue = BitOf(bytes, i)
  BY <1>2, <1>3 DEF BitCell, BitCells
<1>5. s \in [ciphertext : Seq(Nat), original : Seq(Nat), bits : [Indices(bytes) -> BitCells]]
  BY <1>1, <1>3, <1>4 DEF SceneOf
<1>6. QED
  BY <1>1, <1>3, <1>4, <1>5 DEF SceneOK, Flipped

LEMMA FlipBitKeeps ==
    ASSUME NEW s, SceneOK(s), NEW i \in DOMAIN s.bits
    PROVE  SceneOK(FlipBit(s, i)) /\ DOMAIN FlipBit(s, i).bits = DOMAIN s.bits
<1>1. PICK f : f = FlipBit(s, i)
  OBVIOUS
<1>2. PICK bytes \in Seq(Nat) : bytes = s.ciphertext
  BY DEF SceneOK
<1>3. PICK given \in Seq(Nat) : given = s.original
  BY DEF SceneOK
<1>4. /\ Len(bytes) = Len(given) /\ Indices(bytes) = Indices(given)
      /\ s.bits \in [Indices(given) -> BitCells] /\ i \in Indices(bytes)
  BY <1>2, <1>3 DEF SceneOK, Indices
<1>5. PICK cell : cell = s.bits[i]
  OBVIOUS
<1>6. PICK next : next = FlippedCell(cell)
  OBVIOUS
<1>7. f = [ciphertext |-> FlippedByte(bytes, i), original |-> given,
           bits |-> [s.bits EXCEPT ![i] = next]]
  BY <1>1, <1>2, <1>3, <1>5, <1>6 DEF FlipBit, SceneOK
<1>8. /\ cell \in BitCells /\ cell.originalValue = BitOf(given, i) /\ cell.currentValue = BitOf(bytes, i)
      /\ cell.isFlipped <=> cell.currentValue # cell.originalValue
  BY <1>2, <1>3, <1>4, <1>5 DEF SceneOK
<1>9. /\ next \in BitCells /\ next.originalValue = cell.originalValue
      /\ next.currentValue = 1 - cell.currentValue
      /\ next.isFlipped <=> next.currentValue # next.originalValue
  <2>1. /\ cell.originalValue \in {0, 1} /\ cell.currentValue \in {0, 1} /\ cell.isFlipped \in BOOLEAN
        /\ cell = [originalValue |-> cell.originalValue, currentValue |-> cell.currentValue,
                   isFlipped |-> cell.isFlipped]
    BY <1>8 DEF BitCells
  <2>2. next = [originalValue |-> cell.originalValue,
                currentValue |-> IF cell.isFlipped THEN cell.originalValue ELSE 1 - cell.originalValue,
                isFlipped |-> ~cell.isFlipped]
    BY <1>6, <2>1 DEF FlippedCell
  <2>3. CASE cell.isFlipped
    <3>1. cell.currentValue = 1 - cell.originalValue
      BY <1>8, <2>1, <2>3
    <3>2. next = [originalValue |-> cell.originalValue, currentValue |-> cell.originalValue,
                  isFlipped |-> FALSE]
      BY <2>2, <2>3
    <3>3. QED
      BY <1>8, <2>1, <2>3, <3>1, <3>2 DEF BitCells
  <2>4. CASE ~cell.isFlipped
    <3>1. cell.currentValue = cell.originalValue
      BY <1>8, <2>1, <2>4
    <3>2. next = [originalValue |-> cell.originalValue, currentValue |-> 1 - cell.originalValue,
                  isFlipped |-> TRUE]
      BY <2>2, <2>4
    <3>3. QED
      BY <1>8, <2>1, <2>4, <3>1, <3>2 DEF BitCells
  <2>5. QED
    BY <2>3, <2>4
<1>10. /\ f.ciphertext \in Seq(Nat) /\ Len(f.ciphertext) = Len(bytes)
       /\ BitOf(f.ciphertext, i) = 1 - BitOf(bytes, i)
       /\ \A j \in Indices(bytes) \ {i} : BitOf(f.ciphertext, j) = BitOf(bytes, j)
  BY <1>4, <1>7, FlippedByteIs
<1>11. /\ f.original = given /\ f.bits \in [Indices(given) -> BitCells] /\ f.bits[i] = next
       /\ \A j \in Indices(given) \ {i} : f.bits[j] = s.bits[j]
  BY <1>4, <1>7, <1>9
<1>12. ASSUME NEW j \in Indices(given)
       PROVE  /\ f.bits[j].originalValue = BitOf(given, j)
              /\ f.bits[j].currentValue = BitOf(f.ciphertext, j)
              /\ f.bits[j].isFlipped <=> f.bits[j].currentValue # f.bits[j].originalValue
  <2>1. CASE j = i
    BY <1>8, <1>9, <1>10, <1>11, <2>1
  <2>2. CASE j # i
    BY <1>2, <1>3, <1>4, <1>10, <1>11, <2>2 DEF SceneOK
  <2>3. QED
    BY <2>1, <2>2
<1>13. f \in [ciphertext : Seq(Nat), original : Seq(Nat), bits : [Indices(given) -> BitCells]]
  BY <1>7, <1>10, <1>11
<1>14. QED
  BY <1>1, <1>4, <1>10, <1>11, <1>12, <1>13 DEF SceneOK


-----------------------------------------------------------------------------
(* Flipping a set of bits. *)

LEMMA SubsetInduction ==
    ASSUME NEW S, IsFiniteSet(S), NEW Family,
           \A T \in SUBSET S : (\A U \in SUBSET T : U # T => U \in Family) => T \in Family
    PROVE  SUBSET S \subseteq Family
<1>1. PICK R : R = StrictSubsetOrdering(S)
  OBVIOUS
<1>2. IsWellFoundedOn(R, SUBSET S)
  BY <1>1, FS_StrictSubsetOrderingWellFounded, FS_FiniteSubsetsOfFinite
<1>3. \A T, U \in SUBSET S : U \subseteq T /\ U # T => <<U, T>> \in R
  BY <1>1 DEF StrictSubsetOrdering
<1>4. PICK Missing : Missing = {T \in SUBSET S : T \notin Family}
  OBVIOUS
<1>5. ASSUME Missing # {}
      PROVE  FALSE
  <2>1. Missing \subseteq SUBSET S
    BY <1>4
  <2>2. PICK T \in Missing : \A U \in Missing : ~(<<U, T>> \in R)
    BY <1>2, <1>5, <2>1, WFMin
  <2>3. ASSUME NEW U \in SUBSET T, U # T
        PROVE  U \in Family
    <3>1. T \in SUBSET S /\ U \in SUBSET S
      BY <1>4, <2>2
    <3>2. <<U, T>> \in R
      BY <1>3, <2>3, <3>1
    <3>3. QED
      BY <1>4, <2>2, <3>1, <3>2
  <2>4. QED
    BY <1>4, <2>2, <2>3
<1>6. QED
  BY <1>4, <1>5

\* Bit of a set that is flipped last, and the scenes through which the library
\* defines the fold.
LastOf(T) == CHOOSE i \in T : TRUE
Flips(s, S, g) ==
    g = [T \in SUBSET S |-> IF T = {} THEN s ELSE FlipBit(g[T \ {LastOf(T)}], LastOf(T))]
FlipsOf(s, S) == CHOOSE g : Flips(s, S, g)

LEMMA FlipBitsIs == ASSUME NEW s, NEW S PROVE FlipBits(s, S) = FlipsOf(s, S)[S]
  BY Zenon DEF FlipBits, FoldSet, MapThenFoldSet, FlipsOf, Flips, LastOf

LEMMA LastIsIn == ASSUME NEW T, T # {} PROVE LastOf(T) \in T
  BY DEF LastOf

LEMMA FlipsAgree ==
    ASSUME NEW s, NEW S, IsFiniteSet(S), NEW U,
           NEW a, NEW b, Flips(s, S, a), Flips(s, U, b)
    PROVE  \A T \in SUBSET (S \cap U) : a[T] = b[T]
<1>1. PICK Same : Same = {T \in SUBSET S : T \subseteq U => a[T] = b[T]}
  OBVIOUS
<1>2. ASSUME NEW T \in SUBSET S, \A V \in SUBSET T : V # T => V \in Same, T \subseteq U
      PROVE  a[T] = b[T]
  <2>1. /\ a[T] = IF T = {} THEN s ELSE FlipBit(a[T \ {LastOf(T)}], LastOf(T))
        /\ b[T] = IF T = {} THEN s ELSE FlipBit(b[T \ {LastOf(T)}], LastOf(T))
    BY <1>2, Zenon DEF Flips
  <2>2. ASSUME T # {} PROVE a[T \ {LastOf(T)}] = b[T \ {LastOf(T)}]
    <3>1. LastOf(T) \in T
      BY <2>2, LastIsIn
    <3>2. T \ {LastOf(T)} \in SUBSET T /\ T \ {LastOf(T)} # T /\ T \ {LastOf(T)} \subseteq U
      BY <1>2, <3>1
    <3>3. QED
      BY <1>1, <1>2, <3>2
  <2>3. QED
    BY <2>1, <2>2, Zenon
<1>3. SUBSET S \subseteq Same
  <2>1. \A T \in SUBSET S : (\A V \in SUBSET T : V # T => V \in Same) => T \in Same
    BY <1>1, <1>2
  <2>2. QED
    BY <2>1, SubsetInduction
<1>4. QED
  BY <1>1, <1>3

LEMMA FlipsExist ==
    ASSUME NEW s, NEW S, IsFiniteSet(S)
    PROVE  Flips(s, S, FlipsOf(s, S))
<1>1. PICK Known : Known = {T \in SUBSET S : \E g : Flips(s, T, g)}
  OBVIOUS
<1>2. ASSUME NEW T \in SUBSET S, \A V \in SUBSET T : V # T => V \in Known
      PROVE  T \in Known
  <2>1. \A V \in SUBSET T : V # T => Flips(s, V, FlipsOf(s, V))
    <3>1. SUFFICES ASSUME NEW V \in SUBSET T, V # T
                   PROVE  \E g : Flips(s, V, g)
      BY Zenon DEF FlipsOf
    <3>2. QED
      BY <1>1, <1>2, <3>1
  <2>2. PICK g : g = [V \in SUBSET T |-> IF V = {} THEN s
                                         ELSE FlipBit(FlipsOf(s, V \ {LastOf(V)})[V \ {LastOf(V)}], LastOf(V))]
    OBVIOUS
  <2>3. ASSUME NEW V \in SUBSET T, V # {}
        PROVE  g[V \ {LastOf(V)}] = FlipsOf(s, V \ {LastOf(V)})[V \ {LastOf(V)}]
    <3>1. PICK r : r = V \ {LastOf(V)}
      OBVIOUS
    <3>2. LastOf(V) \in V
      BY <2>3, LastIsIn
    <3>3. r \in SUBSET T /\ r # T /\ r \in SUBSET r
      BY <2>3, <3>1, <3>2
    <3>4. Flips(s, r, FlipsOf(s, r))
      BY <2>1, <3>3
    <3>5. FlipsOf(s, r)[r] = IF r = {} THEN s ELSE FlipBit(FlipsOf(s, r)[r \ {LastOf(r)}], LastOf(r))
      BY <3>3, <3>4, Zenon DEF Flips
    <3>6. g[r] = IF r = {} THEN s ELSE FlipBit(FlipsOf(s, r \ {LastOf(r)})[r \ {LastOf(r)}], LastOf(r))
      BY <2>2, <3>3, Zenon
    <3>7. ASSUME r # {} PROVE FlipsOf(s, r)[r \ {LastOf(r)}] = FlipsOf(s, r \ {LastOf(r)})[r \ {LastOf(r)}]
      <4>1. PICK t : t = r \ {LastOf(r)}
        OBVIOUS
      <4>2. LastOf(r) \in r
        BY <3>7, LastIsIn
      <4>3. t \in SUBSET T /\ t # T /\ t \in SUBSET (r \cap t)
        BY <3>3, <4>1, <4>2
      <4>4. IsFiniteSet(r)
        BY <3>3, FS_Subset
      <4>5. Flips(s, t, FlipsOf(s, t))
        BY <2>1, <4>3
      <4>6. \A W \in SUBSET (r \cap t) : FlipsOf(s, r)[W] = FlipsOf(s, t)[W]
        <5>1. \A a, b : Flips(s, r, a) /\ Flips(s, t, b) => \A W \in SUBSET (r \cap t) : a[W] = b[W]
          BY <4>4, FlipsAgree
        <5>2. QED
          BY <3>4, <4>5, <5>1
      <4>7. QED
        BY <4>1, <4>3, <4>6, Zenon
    <3>8. QED
      BY <3>1, <3>5, <3>6, <3>7, Zenon
  <2>4. Flips(s, T, g)
    <3>1. \A V \in SUBSET T :
            (IF V = {} THEN s ELSE FlipBit(FlipsOf(s, V \ {LastOf(V)})[V \ {LastOf(V)}], LastOf(V)))
          = (IF V = {} THEN s ELSE FlipBit(g[V \ {LastOf(V)}], LastOf(V)))
      BY <2>3, Zenon
    <3>2. QED
      BY <2>2, <3>1 DEF Flips
  <2>5. QED
    BY <1>1, <2>4
<1>3. SUBSET S \subseteq Known
  BY <1>2, SubsetInduction
<1>4. \E g : Flips(s, S, g)
  BY <1>1, <1>3
<1>5. QED
  BY <1>4, Zenon DEF FlipsOf

LEMMA FlipBitsKeeps ==
    ASSUME NEW s, SceneOK(s), NEW S \in SUBSET DOMAIN s.bits
    PROVE  SceneOK(FlipBits(s, S)) /\ DOMAIN FlipBits(s, S).bits = DOMAIN s.bits
<1>1. IsFiniteSet(S)
  <2>1. DOMAIN s.bits = Indices(s.original) /\ s.original \in Seq(Nat)
    BY DEF SceneOK
  <2>2. Width * Len(s.original) - 1 \in Int
    BY <2>1, BitFlipperAssumption
  <2>3. IsFiniteSet(Indices(s.original))
    BY <2>2, FS_Interval DEF Indices
  <2>4. QED
    BY <2>1, <2>3, FS_Subset
<1>2. PICK g : g = FlipsOf(s, S)
  OBVIOUS
<1>3. Flips(s, S, g)
  BY <1>1, <1>2, FlipsExist
<1>4. PICK Good : Good = {T \in SUBSET S : SceneOK(g[T]) /\ DOMAIN g[T].bits = DOMAIN s.bits}
  OBVIOUS
<1>5. ASSUME NEW T \in SUBSET S, \A V \in SUBSET T : V # T => V \in Good
      PROVE  T \in Good
  <2>1. g[T] = IF T = {} THEN s ELSE FlipBit(g[T \ {LastOf(T)}], LastOf(T))
    BY <1>3, Zenon DEF Flips
  <2>2. CASE T = {}
    BY <1>4, <2>1, <2>2
  <2>3. CASE T # {}
    <3>1. PICK i : i = LastOf(T)
      OBVIOUS
    <3>2. i \in T /\ i \in DOMAIN s.bits
      BY <2>3, <3>1, LastIsIn
    <3>3. PICK before : before = g[T \ {i}]
      OBVIOUS
    <3>4. T \ {i} \in SUBSET T /\ T \ {i} # T
      BY <3>2
    <3>5. SceneOK(before) /\ DOMAIN before.bits = DOMAIN s.bits
      BY <1>4, <1>5, <3>3, <3>4
    <3>6. SceneOK(FlipBit(before, i)) /\ DOMAIN FlipBit(before, i).bits = DOMAIN s.bits
      BY <3>2, <3>5, FlipBitKeeps
    <3>7. g[T] = FlipBit(before, i)
      BY <2>1, <2>3, <3>1, <3>3
    <3>8. QED
      BY <1>4, <3>6, <3>7
  <2>4. QED
    BY <2>2, <2>3
<1>6. SUBSET S \subseteq Good
  BY <1>1, <1>5, SubsetInduction
<1>7. SceneOK(g[S]) /\ DOMAIN g[S].bits = DOMAIN s.bits
  BY <1>4, <1>6
<1>8. QED
  BY <1>2, <1>7, FlipBitsIs


-----------------------------------------------------------------------------
(* Visits to the page. *)

FlipperSpec == InitFlipper /\ [][FlipperStep]_flipperVars

\* Stages of initPixi.
Stages == {"none", "worker", "pixi", "rejected", "key", "ciphertext", "failed", "ready"}

\* There is a scene only when the page in place is ready; its bytes and cells
\* agree, and what the page has counted is what is flipped.
FlipperInv ==
    /\ mounts \in 0 .. MaxMounts
    /\ mounted => mounts \in Mounts
    /\ boot \in [Mounts -> Stages]
    /\ ~(mounted /\ boot[mounts] = "ready") => flipper = Unbuilt /\ flippedCount = 0
    /\ HasScene => /\ SceneOK(flipper)
                   /\ ~clicked => flippedCount = Cardinality(Flipped(flipper))

LEMMA InitFlipperInv == InitFlipper => FlipperInv
<1> SUFFICES ASSUME InitFlipper PROVE FlipperInv
  OBVIOUS
<1>1. MaxMounts \in Nat
  BY BitFlipperAssumption
<1>2. QED
  BY <1>1 DEF InitFlipper, FlipperInv, HasScene, Stages, Mounts

LEMMA MountFlipperStep ==
    ASSUME FlipperInv, MountFlipper \/ UnmountFlipper
    PROVE  FlipperInv'
<1>1. MaxMounts \in Nat
  BY BitFlipperAssumption
<1>2. CASE MountFlipper
  <2>1. mounts + 1 \in Mounts /\ mounts' = mounts + 1 /\ mounted' /\ flipper' = Unbuilt /\ flippedCount' = 0
    BY <1>1, <1>2 DEF FlipperInv, MountFlipper, Mounts
  <2>2. boot' \in [Mounts -> Stages] /\ boot'[mounts'] # "ready"
    BY <1>2, <2>1 DEF FlipperInv, MountFlipper, Stages
  <2>3. QED
    BY <1>1, <2>1, <2>2 DEF FlipperInv, HasScene, Mounts
<1>3. CASE UnmountFlipper
  <2>1. mounts' = mounts /\ ~mounted' /\ flipper' = Unbuilt /\ flippedCount' = 0
    BY <1>3 DEF UnmountFlipper, Clean
  <2>2. boot' \in [Mounts -> Stages]
    BY <1>3 DEF FlipperInv, UnmountFlipper, Stages
  <2>3. QED
    BY <2>1, <2>2 DEF FlipperInv, HasScene
<1>4. QED
  BY <1>2, <1>3

LEMMA BootSteps ==
    ASSUME FlipperInv, WorkerComes \/ \E n \in Mounts : PixiResolves(n) \/ KeyArrives(n)
    PROVE  FlipperInv'
<1>1. PICK n \in Mounts, stage \in Stages \ {"ready"} :
        /\ boot[n] # "ready" /\ boot' = [boot EXCEPT ![n] = stage]
        /\ UNCHANGED <<mounts, mounted, flipper, flippedCount, clicked>>
  <2>1. CASE WorkerComes
    BY <2>1 DEF FlipperInv, WorkerComes, Stages
  <2>2. ASSUME NEW n \in Mounts, PixiResolves(n) \/ KeyArrives(n)
        PROVE  \E stage \in Stages \ {"ready"} :
                 /\ boot[n] # "ready" /\ boot' = [boot EXCEPT ![n] = stage]
                 /\ UNCHANGED <<mounts, mounted, flipper, flippedCount, clicked>>
    BY <2>2 DEF PixiResolves, KeyArrives, Stages
  <2>3. QED
    BY <2>1, <2>2
<1>2. boot' \in [Mounts -> Stages]
  BY <1>1 DEF FlipperInv
<1>3. mounted => (boot'[mounts] = "ready" <=> boot[mounts] = "ready")
  BY <1>1 DEF FlipperInv
<1>4. HasScene' <=> HasScene
  BY <1>1 DEF HasScene
<1>5. QED
  BY <1>1, <1>2, <1>3, <1>4 DEF FlipperInv

LEMMA CiphertextStep ==
    ASSUME FlipperInv, NEW n \in Mounts, CiphertextArrives(n)
    PROVE  FlipperInv'
<1>1. /\ boot[n] = "ciphertext"
      /\ UNCHANGED <<mounts, mounted, flippedCount, clicked>>
      /\ boot' \in [Mounts -> Stages]
  BY DEF FlipperInv, CiphertextArrives, Stages
<1>2. CASE mounted /\ n = mounts /\ boot' = [boot EXCEPT ![n] = "ready"]
  <2>1. flippedCount' = 0
    BY <1>1, <1>2 DEF FlipperInv
  <2>2. PICK bytes \in Ciphertexts : flipper' = SceneOf(bytes)
    BY <1>2 DEF CiphertextArrives, FlipperInv
  <2>3. bytes \in Seq(Nat)
    <3>1. PICK top \in Nat : top = PowerOf2[Width]
      BY BitFlipperAssumption, PowersDivide
    <3>2. bytes \in Seq(0 .. top - 1) /\ 0 .. top - 1 \subseteq Nat
      BY <3>1, BitFlipperAssumption
    <3>3. QED
      BY <3>2
  <2>4. SceneOK(flipper') /\ Flipped(flipper') = {}
    BY <2>2, <2>3, SceneBegins
  <2>5. Cardinality(Flipped(flipper')) = 0
    BY <2>4, FS_EmptySet
  <2>6. boot'[mounts'] = "ready"
    BY <1>1, <1>2 DEF FlipperInv
  <2>7. QED
    BY <1>1, <1>2, <2>1, <2>4, <2>5, <2>6 DEF FlipperInv
<1>3. CASE ~(mounted /\ n = mounts /\ boot' = [boot EXCEPT ![n] = "ready"])
  <2>1. flipper' = flipper /\ \E stage \in {"ready", "failed"} : boot' = [boot EXCEPT ![n] = stage]
    BY <1>3 DEF CiphertextArrives
  <2>2. mounted => (boot'[mounts] = "ready" <=> boot[mounts] = "ready")
    BY <1>1, <1>3, <2>1 DEF FlipperInv
  <2>3. HasScene' <=> HasScene
    BY <1>1, <2>1 DEF HasScene
  <2>4. QED
    BY <1>1, <2>1, <2>2, <2>3 DEF FlipperInv
<1>4. QED
  BY <1>2, <1>3

LEMMA FlippingSteps ==
    ASSUME FlipperInv, ClickCell \/ HandleFlipRandom \/ HandleReset
    PROVE  FlipperInv'
<1>1. /\ HasScene /\ SceneOK(flipper) /\ boot[mounts] = "ready"
      /\ UNCHANGED <<mounts, mounted, boot>>
  BY DEF FlipperInv, ClickCell, HandleFlipRandom, HandleReset, HasScene
<1>2. CASE ClickCell
  <2>1. PICK i \in DOMAIN flipper.bits : flipper' = FlipBit(flipper, i)
    BY <1>2 DEF ClickCell
  <2>2. SceneOK(flipper') /\ clicked'
    BY <1>1, <1>2, <2>1, FlipBitKeeps DEF ClickCell
  <2>3. QED
    BY <1>1, <2>2 DEF FlipperInv, HasScene
<1>3. CASE HandleFlipRandom \/ HandleReset
  <2>1. Flipped(flipper) \in SUBSET DOMAIN flipper.bits
    BY DEF Flipped
  <2>2. PICK chosen \in SUBSET DOMAIN flipper.bits : flipper' = FlipBits(flipper, chosen)
    BY <1>3, <2>1 DEF HandleFlipRandom, HandleReset, ResetBits
  <2>3. SceneOK(flipper')
    BY <1>1, <2>2, FlipBitsKeeps
  <2>4. flippedCount' = Cardinality(Flipped(flipper'))
    BY <1>3 DEF HandleFlipRandom, HandleReset, Counted
  <2>5. QED
    BY <1>1, <2>3, <2>4 DEF FlipperInv, HasScene
<1>4. QED
  BY <1>2, <1>3

\* However the bits of a ciphertext of any length are flipped and reset, in
\* bytes of any width, by clicks and by buttons, over any number of visits: the
\* cells of the page show the bits of the text that will be decrypted.
THEOREM CellsFollow == FlipperSpec => []CellsAreBits
<1>1. FlipperInv /\ [FlipperStep]_flipperVars => FlipperInv'
  <2> SUFFICES ASSUME FlipperInv, [FlipperStep]_flipperVars
               PROVE  FlipperInv'
    OBVIOUS
  <2>1. CASE UNCHANGED flipperVars \/ Decrypt \/ DecryptionFails
    <3>1. UNCHANGED <<mounts, mounted, boot, flipper, flippedCount, clicked>>
      BY <2>1 DEF flipperVars, Decrypt, DecryptionFails
    <3>2. QED
      BY <3>1 DEF FlipperInv, HasScene
  <2>2. QED
    BY <2>1, MountFlipperStep, BootSteps, CiphertextStep, FlippingSteps DEF FlipperStep
<1>2. FlipperInv => CellsAreBits
  <2> SUFFICES ASSUME FlipperInv, HasScene
               PROVE  CellsAreBits
    BY DEF CellsAreBits
  <2>1. SceneOK(flipper) /\ DOMAIN flipper.bits = Indices(flipper.original)
    BY DEF FlipperInv, SceneOK
  <2>2. ASSUME NEW i \in DOMAIN flipper.bits
        PROVE  /\ flipper.bits[i].currentValue = BitOf(flipper.ciphertext, i)
               /\ flipper.bits[i].isFlipped <=> BitOf(flipper.ciphertext, i) # BitOf(flipper.original, i)
    BY <2>1 DEF SceneOK
  <2>3. QED
    BY <2>2 DEF FlipperInv, CellsAreBits
<1>3. QED
  BY <1>1, <1>2, InitFlipperInv, PTL DEF FlipperSpec

-----------------------------------------------------------------------------
(* The block cipher: bytes and their bits. *)

\* Induction over a set of numbers instead of a predicate.
LEMMA CountedInduction ==
    ASSUME NEW m \in Nat, NEW n \in Nat, NEW Reached, m \in Reached,
           \A k \in m .. n - 1 : k \in Reached => k + 1 \in Reached
    PROVE  m .. n \subseteq Reached
<1>1. PICK R : R = OpToRel(<, Nat)
  OBVIOUS
<1>2. IsWellFoundedOn(R, Nat)
  BY <1>1, NatLessThanWellFounded
<1>3. \A z, y \in Nat : y < z => <<y, z>> \in R
  BY <1>1 DEF OpToRel
<1>4. PICK Missing : Missing = {k \in m .. n : k \notin Reached}
  OBVIOUS
<1>5. ASSUME Missing # {}
      PROVE  FALSE
  <2>1. Missing \subseteq Nat
    BY <1>4
  <2>2. PICK k \in Missing : \A j \in Missing : ~(<<j, k>> \in R)
    BY <1>2, <1>5, <2>1, WFMin
  <2>3. k \in m .. n /\ k \notin Reached /\ k # m
    BY <1>4, <2>2
  <2>4. k - 1 \in m .. n - 1 /\ k - 1 \in m .. n /\ k - 1 \in Nat /\ k \in Nat /\ k - 1 < k /\ (k - 1) + 1 = k
    BY <2>3
  <2>5. k - 1 \notin Missing
    BY <1>3, <2>2, <2>4
  <2>6. QED
    BY <1>4, <2>3, <2>4, <2>5
<1>6. QED
  BY <1>4, <1>5

Coefficients == [0 .. 7 -> {0, 1}]

LEMMA BitsOfNibble ==
    ASSUME NEW c0 \in {0, 1}, NEW c1 \in {0, 1}, NEW c2 \in {0, 1}, NEW c3 \in {0, 1},
           NEW n, n = c0 + 2 * c1 + 4 * c2 + 8 * c3
    PROVE  n \in Nibble /\ Bit(n, 0) = c0 /\ Bit(n, 1) = c1 /\ Bit(n, 2) = c2 /\ Bit(n, 3) = c3
  BY DEF Nibble, Bit, Place

LEMMA NibblesXor ==
    ASSUME NEW c0 \in {0, 1}, NEW c1 \in {0, 1}, NEW c2 \in {0, 1}, NEW c3 \in {0, 1},
           NEW d0 \in {0, 1}, NEW d1 \in {0, 1}, NEW d2 \in {0, 1}, NEW d3 \in {0, 1},
           NEW n, n = c0 + 2 * c1 + 4 * c2 + 8 * c3,
           NEW m, m = d0 + 2 * d1 + 4 * d2 + 8 * d3
    PROVE  NibbleXor[n][m] = ((c0 + d0) % 2) + 2 * ((c1 + d1) % 2) + 4 * ((c2 + d2) % 2) + 8 * ((c3 + d3) % 2)
<1>1. /\ n \in Nibble /\ Bit(n, 0) = c0 /\ Bit(n, 1) = c1 /\ Bit(n, 2) = c2 /\ Bit(n, 3) = c3
      /\ m \in Nibble /\ Bit(m, 0) = d0 /\ Bit(m, 1) = d1 /\ Bit(m, 2) = d2 /\ Bit(m, 3) = d3
  BY BitsOfNibble
<1>2. Place[0 + 1] = 1 /\ Place[1 + 1] = 2 /\ Place[2 + 1] = 4 /\ Place[3 + 1] = 8
  BY DEF Place
<1>3. NibbleXor[n][m] = Place[0 + 1] * ((Bit(n, 0) + Bit(m, 0)) % 2) + Place[1 + 1] * ((Bit(n, 1) + Bit(m, 1)) % 2)
                      + Place[2 + 1] * ((Bit(n, 2) + Bit(m, 2)) % 2) + Place[3 + 1] * ((Bit(n, 3) + Bit(m, 3)) % 2)
  BY <1>1, Zenon DEF NibbleXor
<1>4. NibbleXor[n][m] = 1 * ((c0 + d0) % 2) + 2 * ((c1 + d1) % 2) + 4 * ((c2 + d2) % 2) + 8 * ((c3 + d3) % 2)
  BY <1>1, <1>2, <1>3, Zenon
<1>5. QED
  BY <1>4

LEMMA Halves ==
    ASSUME NEW n \in Nat, NEW m \in Nat, NEW b \in {0, 1}, n = b + 2 * m
    PROVE  /\ n % 2 = b /\ n \div 2 = m /\ n \div 4 = m \div 2 /\ n \div 8 = m \div 4 /\ n \div 16 = m \div 8
           /\ n \div 32 = m \div 16 /\ n \div 64 = m \div 32 /\ n \div 128 = m \div 64
<1>1. n % 2 = b /\ n \div 2 = m
  OBVIOUS
<1>2. n \div 4 = m \div 2 /\ n \div 8 = m \div 4
  OBVIOUS
<1>3. n \div 16 = m \div 8
  OBVIOUS
<1>4. n \div 32 = m \div 16
  OBVIOUS
<1>5. n \div 64 = m \div 32
  OBVIOUS
<1>6. n \div 128 = m \div 64
  OBVIOUS
<1>7. QED
  BY <1>1, <1>2, <1>3, <1>4, <1>5, <1>6

LEMMA BitsAre ==
    ASSUME NEW b0 \in {0, 1}, NEW b1 \in {0, 1}, NEW b2 \in {0, 1}, NEW b3 \in {0, 1},
           NEW b4 \in {0, 1}, NEW b5 \in {0, 1}, NEW b6 \in {0, 1}, NEW b7 \in {0, 1},
           NEW n \in Nat, n = b0 + 2 * b1 + 4 * b2 + 8 * b3 + 16 * b4 + 32 * b5 + 64 * b6 + 128 * b7
    PROVE  /\ n \in Byte
           /\ (n \div 1) % 2 = b0 /\ (n \div 2) % 2 = b1 /\ (n \div 4) % 2 = b2 /\ (n \div 8) % 2 = b3
           /\ (n \div 16) % 2 = b4 /\ (n \div 32) % 2 = b5 /\ (n \div 64) % 2 = b6 /\ (n \div 128) % 2 = b7
<1>1. PICK m6 \in Nat : m6 = b6 + 2 * b7
  OBVIOUS
<1>2. PICK m5 \in Nat : m5 = b5 + 2 * m6
  OBVIOUS
<1>3. PICK m4 \in Nat : m4 = b4 + 2 * m5
  OBVIOUS
<1>4. PICK m3 \in Nat : m3 = b3 + 2 * m4
  OBVIOUS
<1>5. PICK m2 \in Nat : m2 = b2 + 2 * m3
  OBVIOUS
<1>6. PICK m1 \in Nat : m1 = b1 + 2 * m2
  OBVIOUS
<1>7. n = b0 + 2 * m1
  BY <1>1, <1>2, <1>3, <1>4, <1>5, <1>6
<1>8. n % 2 = b0 /\ n \div 2 = m1 /\ n \div 4 = m1 \div 2 /\ n \div 8 = m1 \div 4 /\ n \div 16 = m1 \div 8
      /\ n \div 32 = m1 \div 16 /\ n \div 64 = m1 \div 32 /\ n \div 128 = m1 \div 64
  BY <1>7, Halves
<1>9. m1 % 2 = b1 /\ m1 \div 2 = m2 /\ m1 \div 4 = m2 \div 2 /\ m1 \div 8 = m2 \div 4
       /\ m1 \div 16 = m2 \div 8 /\ m1 \div 32 = m2 \div 16 /\ m1 \div 64 = m2 \div 32
  BY <1>6, Halves
<1>10. m2 % 2 = b2 /\ m2 \div 2 = m3 /\ m2 \div 4 = m3 \div 2 /\ m2 \div 8 = m3 \div 4
       /\ m2 \div 16 = m3 \div 8 /\ m2 \div 32 = m3 \div 16
  BY <1>5, Halves
<1>11. m3 % 2 = b3 /\ m3 \div 2 = m4 /\ m3 \div 4 = m4 \div 2 /\ m3 \div 8 = m4 \div 4
       /\ m3 \div 16 = m4 \div 8
  BY <1>4, Halves
<1>12. m4 % 2 = b4 /\ m4 \div 2 = m5 /\ m4 \div 4 = m5 \div 2 /\ m4 \div 8 = m5 \div 4
  BY <1>3, Halves
<1>13. m5 % 2 = b5 /\ m5 \div 2 = m6 /\ m5 \div 4 = m6 \div 2
  BY <1>2, Halves
<1>14. m6 % 2 = b6 /\ m6 \div 2 = b7 /\ b7 % 2 = b7
  BY <1>1, Halves
<1>15. n \in Byte /\ n \div 1 = n
  BY DEF Byte
<1>16. n \div 4 = m2 /\ n \div 8 = m3 /\ n \div 16 = m4 /\ n \div 32 = m5 /\ n \div 64 = m6 /\ n \div 128 = b7
  <2>1. m1 \div 2 = m2 /\ m1 \div 4 = m3 /\ m1 \div 8 = m4 /\ m1 \div 16 = m5 /\ m1 \div 32 = m6 /\ m1 \div 64 = b7
    <3>1. m2 \div 2 = m3 /\ m2 \div 4 = m4 /\ m2 \div 8 = m5 /\ m2 \div 16 = m6 /\ m2 \div 32 = b7
      <4>1. m3 \div 2 = m4 /\ m3 \div 4 = m5 /\ m3 \div 8 = m6 /\ m3 \div 16 = b7
        BY <1>11, <1>12, <1>13, <1>14
      <4>2. QED
        BY <1>10, <4>1
    <3>2. QED
      BY <1>9, <3>1
  <2>2. QED
    BY <1>8, <2>1
<1>17. QED
  BY <1>8, <1>9, <1>10, <1>11, <1>12, <1>13, <1>14, <1>15, <1>16

LEMMA BitsOfByte ==
    ASSUME NEW c \in Coefficients
    PROVE  Value(c) \in Byte /\ \A k \in 0 .. 7 : Bit(Value(c), k) = c[k]
<1>1. PICK b0 \in {0, 1}, b1 \in {0, 1}, b2 \in {0, 1}, b3 \in {0, 1} :
        b0 = c[0] /\ b1 = c[1] /\ b2 = c[2] /\ b3 = c[3]
  BY DEF Coefficients
<1>2. PICK b4 \in {0, 1}, b5 \in {0, 1}, b6 \in {0, 1}, b7 \in {0, 1} :
        b4 = c[4] /\ b5 = c[5] /\ b6 = c[6] /\ b7 = c[7]
  BY DEF Coefficients
<1>3. PICK n : n = Value(c)
  OBVIOUS
<1>4. n = b0 + 2 * b1 + 4 * b2 + 8 * b3 + 16 * b4 + 32 * b5 + 64 * b6 + 128 * b7
  BY <1>1, <1>2, <1>3, Zenon DEF Value
<1>5. n \in Nat
  BY <1>4
<1>6. /\ n \in Byte
      /\ (n \div 1) % 2 = b0 /\ (n \div 2) % 2 = b1 /\ (n \div 4) % 2 = b2 /\ (n \div 8) % 2 = b3
      /\ (n \div 16) % 2 = b4 /\ (n \div 32) % 2 = b5 /\ (n \div 64) % 2 = b6 /\ (n \div 128) % 2 = b7
  BY <1>4, <1>5, BitsAre
<1>7. ASSUME NEW k \in 0 .. 7 PROVE Bit(n, k) = c[k]
  BY <1>1, <1>2, <1>6 DEF Bit, Place
<1>8. QED
  BY <1>3, <1>6, <1>7

BitsOf(a) == [k \in 0 .. 7 |-> Bit(a, k)]

LEMMA ByteOfBits ==
    ASSUME NEW a \in Byte
    PROVE  BitsOf(a) \in Coefficients /\ Value(BitsOf(a)) = a
<1>1. a \in Nat /\ a < 256
  BY DEF Byte
<1>2. /\ Bit(a, 0) = (a \div 1) % 2 /\ Bit(a, 1) = (a \div 2) % 2 /\ Bit(a, 2) = (a \div 4) % 2
      /\ Bit(a, 3) = (a \div 8) % 2 /\ Bit(a, 4) = (a \div 16) % 2 /\ Bit(a, 5) = (a \div 32) % 2
      /\ Bit(a, 6) = (a \div 64) % 2 /\ Bit(a, 7) = (a \div 128) % 2
  BY DEF Bit, Place
<1>3. \A k \in 0 .. 7 : Bit(a, k) \in {0, 1}
  BY <1>1, <1>2
<1>4. BitsOf(a) \in Coefficients
  BY <1>3 DEF BitsOf, Coefficients
<1>5. Value(BitsOf(a)) = Bit(a, 0) + 2 * Bit(a, 1) + 4 * Bit(a, 2) + 8 * Bit(a, 3)
                         + 16 * Bit(a, 4) + 32 * Bit(a, 5) + 64 * Bit(a, 6) + 128 * Bit(a, 7)
  BY DEF Value, BitsOf
<1>6. a = Bit(a, 0) + 2 * Bit(a, 1) + 4 * Bit(a, 2) + 8 * Bit(a, 3)
          + 16 * Bit(a, 4) + 32 * Bit(a, 5) + 64 * Bit(a, 6) + 128 * Bit(a, 7)
  <2>1. a = 2 * (a \div 2) + Bit(a, 0) /\ a \div 2 = 2 * (a \div 4) + Bit(a, 1)
    BY <1>1, <1>2
  <2>2. a \div 4 = 2 * (a \div 8) + Bit(a, 2) /\ a \div 8 = 2 * (a \div 16) + Bit(a, 3)
    BY <1>1, <1>2
  <2>3. a \div 16 = 2 * (a \div 32) + Bit(a, 4) /\ a \div 32 = 2 * (a \div 64) + Bit(a, 5)
    BY <1>1, <1>2
  <2>4. a \div 64 = 2 * (a \div 128) + Bit(a, 6) /\ a \div 128 = Bit(a, 7)
    BY <1>1, <1>2
  <2>5. QED
    BY <1>3, <2>1, <2>2, <2>3, <2>4
<1>7. QED
  BY <1>4, <1>5, <1>6

\* The exclusive or, bit by bit.
LEMMA XorIs ==
    ASSUME NEW c \in Coefficients, NEW d \in Coefficients, NEW e, e = [k \in 0 .. 7 |-> (c[k] + d[k]) % 2]
    PROVE  e \in Coefficients /\ XorBytes(Value(c), Value(d)) = Value(e)
<1>1. c[0] \in {0, 1} /\ c[1] \in {0, 1} /\ c[2] \in {0, 1} /\ c[3] \in {0, 1}
      /\ c[4] \in {0, 1} /\ c[5] \in {0, 1} /\ c[6] \in {0, 1} /\ c[7] \in {0, 1}
  BY DEF Coefficients
<1>2. d[0] \in {0, 1} /\ d[1] \in {0, 1} /\ d[2] \in {0, 1} /\ d[3] \in {0, 1}
      /\ d[4] \in {0, 1} /\ d[5] \in {0, 1} /\ d[6] \in {0, 1} /\ d[7] \in {0, 1}
  BY DEF Coefficients
<1>3. e \in Coefficients
  BY DEF Coefficients
<1>4. /\ Value(c) \div 16 = c[4] + 2 * c[5] + 4 * c[6] + 8 * c[7]
      /\ Value(c) % 16 = c[0] + 2 * c[1] + 4 * c[2] + 8 * c[3]
  BY <1>1 DEF Value
<1>5. /\ Value(d) \div 16 = d[4] + 2 * d[5] + 4 * d[6] + 8 * d[7]
      /\ Value(d) % 16 = d[0] + 2 * d[1] + 4 * d[2] + 8 * d[3]
  BY <1>2 DEF Value
<1>6. NibbleXor[Value(c) % 16][Value(d) % 16] =
        ((c[0] + d[0]) % 2) + 2 * ((c[1] + d[1]) % 2) + 4 * ((c[2] + d[2]) % 2) + 8 * ((c[3] + d[3]) % 2)
  BY <1>1, <1>2, <1>4, <1>5, NibblesXor
<1>7. NibbleXor[Value(c) \div 16][Value(d) \div 16] =
        ((c[4] + d[4]) % 2) + 2 * ((c[5] + d[5]) % 2) + 4 * ((c[6] + d[6]) % 2) + 8 * ((c[7] + d[7]) % 2)
  BY <1>1, <1>2, <1>4, <1>5, NibblesXor
<1>8. /\ e[0] = (c[0] + d[0]) % 2 /\ e[1] = (c[1] + d[1]) % 2 /\ e[2] = (c[2] + d[2]) % 2
      /\ e[3] = (c[3] + d[3]) % 2 /\ e[4] = (c[4] + d[4]) % 2 /\ e[5] = (c[5] + d[5]) % 2
      /\ e[6] = (c[6] + d[6]) % 2 /\ e[7] = (c[7] + d[7]) % 2
  OBVIOUS
<1>9. /\ NibbleXor[Value(c) % 16][Value(d) % 16] = e[0] + 2 * e[1] + 4 * e[2] + 8 * e[3]
      /\ NibbleXor[Value(c) \div 16][Value(d) \div 16] = e[4] + 2 * e[5] + 4 * e[6] + 8 * e[7]
      /\ \A k \in 0 .. 7 : e[k] \in {0, 1}
  BY <1>3, <1>6, <1>7, <1>8, Zenon DEF Coefficients
<1>10. XorBytes(Value(c), Value(d)) = Value(e)
  BY <1>9 DEF XorBytes, Value
<1>11. QED
  BY <1>3, <1>10

LEMMA XorOfBytes ==
    ASSUME NEW a \in Byte, NEW b \in Byte
    PROVE  XorBytes(a, b) \in Byte /\ XorBytes(0, a) = a
<1>1. BitsOf(a) \in Coefficients /\ Value(BitsOf(a)) = a /\ BitsOf(b) \in Coefficients /\ Value(BitsOf(b)) = b
  BY ByteOfBits
<1>2. PICK e : e = [k \in 0 .. 7 |-> (BitsOf(a)[k] + BitsOf(b)[k]) % 2]
  OBVIOUS
<1>3. e \in Coefficients /\ XorBytes(a, b) = Value(e)
  BY <1>1, <1>2, XorIs
<1>4. PICK z : z = [k \in 0 .. 7 |-> 0]
  OBVIOUS
<1>5. z \in Coefficients /\ Value(z) = 0
  BY <1>4 DEF Coefficients, Value
<1>6. [k \in 0 .. 7 |-> (z[k] + BitsOf(a)[k]) % 2] = BitsOf(a)
  BY <1>1, <1>4 DEF Coefficients
<1>7. XorBytes(0, a) = a
  BY <1>1, <1>5, <1>6, XorIs
<1>8. QED
  BY <1>3, <1>7, BitsOfByte

\* The product with x: a shift, and the reduction by x^8+x^4+x^3+x+1.
Carries == {0, 1, 3, 4}
TimesX(c) == [k \in 0 .. 7 |-> ((IF k = 0 THEN 0 ELSE c[k - 1]) + (IF k \in Carries THEN c[7] ELSE 0)) % 2]

LEMMA TimesXIs ==
    ASSUME NEW c \in Coefficients
    PROVE  /\ TimesX(c) \in Coefficients
           /\ TimesX(c)[0] = c[7] /\ TimesX(c)[1] = (c[0] + c[7]) % 2 /\ TimesX(c)[2] = c[1]
           /\ TimesX(c)[3] = (c[2] + c[7]) % 2 /\ TimesX(c)[4] = (c[3] + c[7]) % 2
           /\ TimesX(c)[5] = c[4] /\ TimesX(c)[6] = c[5] /\ TimesX(c)[7] = c[6]
<1>1. \A k \in 0 .. 7 : c[k] \in {0, 1}
  BY DEF Coefficients
<1>2. \A k \in 0 .. 7 : TimesX(c)[k] = ((IF k = 0 THEN 0 ELSE c[k - 1]) + (IF k \in Carries THEN c[7] ELSE 0)) % 2
  BY DEF TimesX
<1>3. TimesX(c) \in Coefficients
  BY <1>1 DEF TimesX, Coefficients
<1>4. QED
  BY <1>1, <1>2, <1>3 DEF Carries

LEMMA DoubledIs ==
    ASSUME NEW c \in Coefficients
    PROVE  Doubled(Value(c), 27) = Value(TimesX(c))
<1>1. c[0] \in {0, 1} /\ c[1] \in {0, 1} /\ c[2] \in {0, 1} /\ c[3] \in {0, 1}
      /\ c[4] \in {0, 1} /\ c[5] \in {0, 1} /\ c[6] \in {0, 1} /\ c[7] \in {0, 1}
  BY DEF Coefficients
<1>2. PICK s : s = [k \in 0 .. 7 |-> IF k = 0 THEN 0 ELSE c[k - 1]]
  OBVIOUS
<1>3. s \in Coefficients /\ s[0] = 0 /\ s[1] = c[0] /\ s[2] = c[1] /\ s[3] = c[2] /\ s[4] = c[3]
      /\ s[5] = c[4] /\ s[6] = c[5] /\ s[7] = c[6]
  BY <1>2 DEF Coefficients
<1>4. PICK r : r = [k \in 0 .. 7 |-> IF k \in Carries THEN 1 ELSE 0]
  OBVIOUS
<1>5. r \in Coefficients /\ Value(r) = 27
  BY <1>4 DEF Coefficients, Value, Carries
<1>6. CASE c[7] = 1
  <2>1. Value(c) >= 128 /\ (2 * Value(c)) % 256 = Value(s)
    BY <1>1, <1>3, <1>6 DEF Value
  <2>2. [k \in 0 .. 7 |-> (s[k] + r[k]) % 2] = TimesX(c)
    BY <1>2, <1>4, <1>6 DEF TimesX
  <2>3. XorBytes(Value(s), Value(r)) = Value(TimesX(c))
    BY <1>3, <1>5, <2>2, XorIs
  <2>4. QED
    BY <1>5, <2>1, <2>3 DEF Doubled
<1>7. CASE c[7] = 0
  <2>1. ~(Value(c) >= 128) /\ 2 * Value(c) = Value(s)
    BY <1>1, <1>3, <1>7 DEF Value
  <2>2. Value(s) = Value(TimesX(c))
    BY <1>1, <1>3, <1>7, TimesXIs DEF Value
  <2>3. QED
    BY <2>1, <2>2 DEF Doubled
<1>8. QED
  BY <1>1, <1>6, <1>7

\* What gmul multiplies by.
Factors == {1, 2, 3}

LEMMA PassIs ==
    ASSUME NEW s
    PROVE  /\ Pass(s, 27).p = IF s.b % 2 = 1 THEN XorBytes(s.p, s.a) ELSE s.p
           /\ Pass(s, 27).a = Doubled(s.a, 27)
           /\ Pass(s, 27).b = s.b \div 2
  BY DEF Pass

\* A recursive function over 0 .. m can be continued by one more pass.
LEMMA PassesExist ==
    ASSUME NEW s0
    PROVE  \E f : f = [n \in 0 .. 8 |-> IF n = 0 THEN s0 ELSE Pass(f[n - 1], 27)]
<1> DEFINE Passes(f, m) == f = [n \in 0 .. m |-> IF n = 0 THEN s0 ELSE Pass(f[n - 1], 27)]
<1>1. ASSUME NEW m \in 0 .. 7, NEW f, Passes(f, m)
      PROVE  \E g : Passes(g, m + 1)
  <2>1. PICK g : g = [n \in 0 .. m + 1 |-> IF n \in 0 .. m THEN f[n] ELSE Pass(f[m], 27)]
    OBVIOUS
  <2>2. f = [n \in 0 .. m |-> IF n = 0 THEN s0 ELSE Pass(f[n - 1], 27)]
    BY <1>1
  <2>3. \A n \in 0 .. m : f[n] = IF n = 0 THEN s0 ELSE Pass(f[n - 1], 27)
    BY <2>2, Zenon
  <2>4. \A n \in 0 .. m + 1 : n # 0 => n - 1 \in 0 .. m /\ n - 1 \in 0 .. m + 1 /\ (n \notin 0 .. m => n - 1 = m)
    OBVIOUS
  <2>5. \A n \in 0 .. m + 1 : n # 0 => g[n - 1] = f[n - 1]
    BY <2>1, <2>4, Zenon
  <2>6. 0 \in 0 .. m
    OBVIOUS
  <2>7. \A n \in 0 .. m + 1 : g[n] = IF n = 0 THEN s0 ELSE Pass(g[n - 1], 27)
    <3> TAKE n \in 0 .. m + 1
    <3>1. CASE n \in 0 .. m
      BY <2>1, <2>3, <2>5, <3>1, Zenon
    <3>2. CASE n \notin 0 .. m
      BY <2>1, <2>4, <2>5, <2>6, <3>2, Zenon
    <3>3. QED
      BY <3>1, <3>2, Zenon
  <2>8. g = [n \in 0 .. m + 1 |-> g[n]]
    BY <2>1, Zenon
  <2>9. Passes(g, m + 1)
    BY <2>7, <2>8, Zenon
  <2>10. QED
    BY <2>9, Zenon
<1>2. \E f : Passes(f, 0)
  <2>1. PICK f : f = [n \in 0 .. 0 |-> s0]
    OBVIOUS
  <2>2. \A n \in 0 .. 0 : n = 0
    OBVIOUS
  <2>3. Passes(f, 0)
    BY <2>1, <2>2, Zenon
  <2>4. QED
    BY <2>3, Zenon
<1> HIDE DEF Passes
<1>3. PICK Reached : Reached = {m \in 0 .. 8 : \E f : Passes(f, m)}
  OBVIOUS
<1>4. 0 \in Reached
  BY <1>2, <1>3
<1>5. \A m \in 0 .. 8 - 1 : m \in Reached => m + 1 \in Reached
  BY <1>1, <1>3
<1>6. 8 \in Reached
  BY <1>4, <1>5, CountedInduction
<1>7. QED
  BY <1>3, <1>6, Zenon DEF Passes

\* The eight passes, one by one.
LEMMA ShiftedIs ==
    ASSUME NEW a, NEW b,
           NEW s0, s0 = [p |-> 0, a |-> a, b |-> b],
           NEW s1, s1 = Pass(s0, 27), NEW s2, s2 = Pass(s1, 27), NEW s3, s3 = Pass(s2, 27),
           NEW s4, s4 = Pass(s3, 27), NEW s5, s5 = Pass(s4, 27), NEW s6, s6 = Pass(s5, 27),
           NEW s7, s7 = Pass(s6, 27), NEW s8, s8 = Pass(s7, 27)
    PROVE  gmul(a, b) = s8.p
<1> DEFINE Passes(f) == f = [n \in 0 .. 8 |-> IF n = 0 THEN [p |-> 0, a |-> a, b |-> b] ELSE Pass(f[n - 1], 27)]
           after == CHOOSE f : Passes(f)
<1>1. Passes(after)
  BY PassesExist, Zenon
<1>2. gmul(a, b) = after[8].p
  BY Zenon DEF gmul, Shifted
<1> HIDE DEF after
<1>3. \A n \in 0 .. 8 : after[n] = IF n = 0 THEN s0 ELSE Pass(after[n - 1], 27)
  BY <1>1, Zenon
<1>4. after[0] = s0
  BY <1>3
<1>5. /\ after[1] = Pass(after[0], 27) /\ after[2] = Pass(after[1], 27) /\ after[3] = Pass(after[2], 27)
      /\ after[4] = Pass(after[3], 27) /\ after[5] = Pass(after[4], 27) /\ after[6] = Pass(after[5], 27)
      /\ after[7] = Pass(after[6], 27) /\ after[8] = Pass(after[7], 27)
  BY <1>3
<1>6. after[8] = s8
  BY <1>4, <1>5, Zenon
<1>7. QED
  BY <1>2, <1>6, Zenon

LEMMA gmulIs ==
    ASSUME NEW a \in Byte
    PROVE  gmul(a, 1) = a /\ gmul(a, 2) = Doubled(a, 27) /\ gmul(a, 3) = XorBytes(a, Doubled(a, 27))
<1>1. ASSUME NEW b \in Factors
      PROVE  gmul(a, b) = IF b = 1 THEN a ELSE IF b = 2 THEN XorBytes(0, Doubled(a, 27))
                          ELSE XorBytes(XorBytes(0, a), Doubled(a, 27))
  <2>1. PICK s0 : s0 = [p |-> 0, a |-> a, b |-> b]
    OBVIOUS
  <2>2. PICK s1 : s1 = Pass(s0, 27)
    OBVIOUS
  <2>3. PICK s2 : s2 = Pass(s1, 27)
    OBVIOUS
  <2>4. PICK s3 : s3 = Pass(s2, 27)
    OBVIOUS
  <2>5. PICK s4 : s4 = Pass(s3, 27)
    OBVIOUS
  <2>6. PICK s5 : s5 = Pass(s4, 27)
    OBVIOUS
  <2>7. PICK s6 : s6 = Pass(s5, 27)
    OBVIOUS
  <2>8. PICK s7 : s7 = Pass(s6, 27)
    OBVIOUS
  <2>9. gmul(a, b) = Pass(s7, 27).p
    BY <2>1, <2>2, <2>3, <2>4, <2>5, <2>6, <2>7, <2>8, ShiftedIs, Zenon
  <2>10. \A s : /\ Pass(s, 27).p = IF s.b % 2 = 1 THEN XorBytes(s.p, s.a) ELSE s.p
                /\ Pass(s, 27).a = Doubled(s.a, 27)
                /\ Pass(s, 27).b = s.b \div 2
    BY PassIs
  <2>11. /\ s1.a = Doubled(a, 27) /\ s1.b = b \div 2
         /\ s1.p = IF b % 2 = 1 THEN XorBytes(0, a) ELSE 0
    BY <2>1, <2>2, <2>10
  <2>12. s2.b = (b \div 2) \div 2 /\ s2.p = IF (b \div 2) % 2 = 1 THEN XorBytes(s1.p, Doubled(a, 27)) ELSE s1.p
    BY <2>3, <2>10, <2>11
  <2>13. (b \div 2) \div 2 = 0 /\ 0 % 2 # 1 /\ 0 \div 2 = 0
    BY DEF Factors
  <2>14. \A s : s.b = 0 => Pass(s, 27).b = 0 /\ Pass(s, 27).p = s.p
    BY <2>10, <2>13
  <2>15. gmul(a, b) = s2.p
    BY <2>4, <2>5, <2>6, <2>7, <2>8, <2>9, <2>12, <2>13, <2>14
  <2>16. CASE b = 1
    <3>1. 1 % 2 = 1 /\ (1 \div 2) % 2 = 0
      OBVIOUS
    <3>2. b % 2 = 1 /\ (b \div 2) % 2 # 1
      BY <2>16, <3>1
    <3>3. gmul(a, b) = XorBytes(0, a)
      BY <2>11, <2>12, <2>15, <3>2, Zenon
    <3>4. QED
      BY <2>16, <3>3, XorOfBytes
  <2>17. CASE b = 2
    BY <2>11, <2>12, <2>15, <2>17
  <2>18. CASE b = 3
    BY <2>11, <2>12, <2>15, <2>18
  <2>19. QED
    BY <2>16, <2>17, <2>18 DEF Factors
<1>2. Doubled(a, 27) \in Byte
  BY ByteOfBits, DoubledIs, TimesXIs, BitsOfByte
<1>3. XorBytes(0, a) = a /\ XorBytes(0, Doubled(a, 27)) = Doubled(a, 27)
  BY <1>2, XorOfBytes
<1>4. QED
  BY <1>1, <1>3 DEF Factors

\* Division of a product that has no coefficient above that of x^8.
LEMMA RemainderIs ==
    ASSUME NEW c \in [0 .. 14 -> {0, 1}], \A k \in 9 .. 14 : c[k] = 0
    PROVE  Remainder(c) = [k \in 0 .. 7 |-> IF k \in Carries THEN (c[k] + c[8]) % 2 ELSE c[k]]
<1>1. ASSUME NEW k \in 9 .. 14, NEW d \in [0 .. k -> {0, 1}], d[k] = 0
      PROVE  Reduced(d, k) = [i \in 0 .. k - 1 |-> d[i]]
  <2>1. \A i \in 0 .. k - 1 : d[i] \in {0, 1} /\ (d[i] + d[k]) % 2 = d[i]
    BY <1>1
  <2>2. QED
    BY <2>1 DEF Reduced
<1>2. ASSUME NEW k \in 9 .. 14, NEW d, d = [i \in 0 .. k |-> c[i]]
      PROVE  Reduced(d, k) = [i \in 0 .. k - 1 |-> c[i]]
  <2>1. d \in [0 .. k -> {0, 1}] /\ d[k] = 0 /\ \A i \in 0 .. k - 1 : d[i] = c[i]
    BY <1>2
  <2>2. Reduced(d, k) = [i \in 0 .. k - 1 |-> d[i]]
    BY <1>1, <2>1
  <2>3. QED
    BY <2>1, <2>2
<1>3. c = [i \in 0 .. 14 |-> c[i]]
  OBVIOUS
<1>4. Reduced(c, 14) = [i \in 0 .. 13 |-> c[i]]
  BY <1>2, <1>3
<1>5. Reduced(Reduced(c, 14), 13) = [i \in 0 .. 12 |-> c[i]]
  BY <1>2, <1>4
<1>6. Reduced(Reduced(Reduced(c, 14), 13), 12) = [i \in 0 .. 11 |-> c[i]]
  BY <1>2, <1>5
<1>7. Reduced(Reduced(Reduced(Reduced(c, 14), 13), 12), 11) = [i \in 0 .. 10 |-> c[i]]
  BY <1>2, <1>6
<1>8. Reduced(Reduced(Reduced(Reduced(Reduced(c, 14), 13), 12), 11), 10) = [i \in 0 .. 9 |-> c[i]]
  BY <1>2, <1>7
<1>9. Reduced(Reduced(Reduced(Reduced(Reduced(Reduced(c, 14), 13), 12), 11), 10), 9) = [i \in 0 .. 8 |-> c[i]]
  BY <1>2, <1>8
<1>10. PICK d : d = [i \in 0 .. 8 |-> c[i]]
  OBVIOUS
<1>11. Reduced(d, 8) = [i \in 0 .. 7 |-> IF 8 - i \in {4, 5, 7, 8} THEN (d[i] + d[8]) % 2 ELSE d[i]]
  BY DEF Reduced
<1>12. d[8] = c[8] /\ \A i \in 0 .. 7 : d[i] = c[i]
  BY <1>10
<1>13. \A i \in 0 .. 7 : 8 - i \in {4, 5, 7, 8} <=> i \in Carries
  BY DEF Carries
<1>14. \A i \in 0 .. 7 : (IF 8 - i \in {4, 5, 7, 8} THEN (d[i] + d[8]) % 2 ELSE d[i])
                          = IF i \in Carries THEN (c[i] + c[8]) % 2 ELSE c[i]
  BY <1>12, <1>13, Zenon
<1>15. Reduced(d, 8) = [k \in 0 .. 7 |-> IF k \in Carries THEN (c[k] + c[8]) % 2 ELSE c[k]]
  BY <1>11, <1>14, Zenon
<1>16. QED
  BY <1>9, <1>10, <1>15, Zenon DEF Remainder

\* The products by 1, by x and by x + 1.
LEMMA ProductIs ==
    ASSUME NEW a \in Byte, NEW c \in Coefficients, c = BitsOf(a)
    PROVE  /\ Product(1, a) = [k \in 0 .. 14 |-> IF k \in 0 .. 7 THEN c[k] ELSE 0]
           /\ Product(2, a) = [k \in 0 .. 14 |-> IF k \in 1 .. 8 THEN c[k - 1] ELSE 0]
           /\ Product(3, a) = [k \in 0 .. 14 |-> ((IF k \in 0 .. 7 THEN c[k] ELSE 0)
                                                  + (IF k \in 1 .. 8 THEN c[k - 1] ELSE 0)) % 2]
<1>1. \A k \in 0 .. 7 : Bit(a, k) = c[k] /\ c[k] \in {0, 1}
  BY DEF BitsOf, Coefficients
<1>2. \A i \in 0 .. 7 : /\ Bit(1, i) = 1 <=> i = 0
                        /\ Bit(2, i) = 1 <=> i = 1
                        /\ Bit(3, i) = 1 <=> i \in {0, 1}
  BY DEF Bit, Place
<1>3. /\ Cardinality({}) = 0
      /\ \A x : Cardinality({x}) = 1
      /\ Cardinality({0, 1}) = 2
  <2>1. {0, 1} = {0} \cup {1} /\ 1 \notin {0}
    OBVIOUS
  <2>2. IsFiniteSet({0}) /\ Cardinality({0}) = 1
    BY FS_Singleton
  <2>3. Cardinality({0} \cup {1}) = Cardinality({0}) + 1
    BY <2>1, <2>2, FS_AddElement
  <2>4. Cardinality({0, 1}) = 2
    BY <2>1, <2>2, <2>3
  <2>5. \A x : Cardinality({x}) = 1
    BY FS_Singleton
  <2>6. QED
    BY FS_EmptySet, <2>4, <2>5
<1>4. ASSUME NEW k \in 0 .. 14
      PROVE  /\ Product(1, a)[k] = IF k \in 0 .. 7 THEN c[k] ELSE 0
             /\ Product(2, a)[k] = IF k \in 1 .. 8 THEN c[k - 1] ELSE 0
             /\ Product(3, a)[k] = ((IF k \in 0 .. 7 THEN c[k] ELSE 0) + (IF k \in 1 .. 8 THEN c[k - 1] ELSE 0)) % 2
  <2>1. PICK low \in BOOLEAN : low <=> (k \in 0 .. 7 /\ c[k] = 1)
    OBVIOUS
  <2>2. PICK high \in BOOLEAN : high <=> (k \in 1 .. 8 /\ c[k - 1] = 1)
    OBVIOUS
  <2>3. PICK F : F = [b \in {1, 2, 3} |-> {i \in 0 .. 7 : k - i \in 0 .. 7 /\ Bit(b, i) = 1 /\ Bit(a, k - i) = 1}]
    OBVIOUS
  <2>4. \A b \in {1, 2, 3} : Product(b, a)[k] = Cardinality(F[b]) % 2
    BY <2>3, Zenon DEF Product
  <2>5. \A i \in 0 .. 7 : k - i \in 0 .. 7 => (Bit(a, k - i) = 1 <=> c[k - i] = 1)
    BY <1>1
  <2>6. \A b \in {1, 2, 3} : \A i : i \in F[b] <=> i \in 0 .. 7 /\ k - i \in 0 .. 7 /\ Bit(b, i) = 1 /\ c[k - i] = 1
    BY <2>3, <2>5
  <2>7. /\ \A i : i \in F[1] <=> i = 0 /\ k - i \in 0 .. 7 /\ c[k - i] = 1
        /\ \A i : i \in F[2] <=> i = 1 /\ k - i \in 0 .. 7 /\ c[k - i] = 1
        /\ \A i : i \in F[3] <=> i \in {0, 1} /\ k - i \in 0 .. 7 /\ c[k - i] = 1
    BY <1>2, <2>6
  <2>8. /\ low <=> k - 0 \in 0 .. 7 /\ c[k - 0] = 1
        /\ high <=> k - 1 \in 0 .. 7 /\ c[k - 1] = 1
    BY <2>1, <2>2
  <2>9. /\ \A i : i \in F[1] <=> i = 0 /\ low
        /\ \A i : i \in F[2] <=> i = 1 /\ high
        /\ \A i : i \in F[3] <=> (i = 0 /\ low) \/ (i = 1 /\ high)
    BY <2>7, <2>8, Zenon
  <2>10. F[1] = (IF low THEN {0} ELSE {}) /\ F[2] = (IF high THEN {1} ELSE {})
    BY <2>9
  <2>11. F[3] = IF low THEN IF high THEN {0, 1} ELSE {0} ELSE IF high THEN {1} ELSE {}
    BY <2>9
  <2>12. 0 % 2 = 0 /\ 1 % 2 = 1 /\ 2 % 2 = 0
    OBVIOUS
  <2>13. /\ Cardinality(F[1]) % 2 = IF low THEN 1 ELSE 0
         /\ Cardinality(F[2]) % 2 = IF high THEN 1 ELSE 0
         /\ Cardinality(F[3]) % 2 = IF low THEN IF high THEN 0 ELSE 1 ELSE IF high THEN 1 ELSE 0
    <3>1. CASE low /\ high
      <4>1. F[1] = {0} /\ F[2] = {1} /\ F[3] = {0, 1}
        BY <2>10, <2>11, <3>1, Zenon
      <4>2. Cardinality(F[1]) = 1 /\ Cardinality(F[2]) = 1 /\ Cardinality(F[3]) = 2
        BY <1>3, <4>1, Zenon
      <4>3. QED
        BY <2>12, <3>1, <4>2, Zenon
    <3>2. CASE low /\ ~high
      <4>1. F[1] = {0} /\ F[2] = {} /\ F[3] = {0}
        BY <2>10, <2>11, <3>2, Zenon
      <4>2. Cardinality(F[1]) = 1 /\ Cardinality(F[2]) = 0 /\ Cardinality(F[3]) = 1
        BY <1>3, <4>1, Zenon
      <4>3. QED
        BY <2>12, <3>2, <4>2, Zenon
    <3>3. CASE ~low /\ high
      <4>1. F[1] = {} /\ F[2] = {1} /\ F[3] = {1}
        BY <2>10, <2>11, <3>3, Zenon
      <4>2. Cardinality(F[1]) = 0 /\ Cardinality(F[2]) = 1 /\ Cardinality(F[3]) = 1
        BY <1>3, <4>1, Zenon
      <4>3. QED
        BY <2>12, <3>3, <4>2, Zenon
    <3>4. CASE ~low /\ ~high
      <4>1. F[1] = {} /\ F[2] = {} /\ F[3] = {}
        BY <2>10, <2>11, <3>4, Zenon
      <4>2. Cardinality(F[1]) = 0 /\ Cardinality(F[2]) = 0 /\ Cardinality(F[3]) = 0
        BY <1>3, <4>1, Zenon
      <4>3. QED
        BY <2>12, <3>4, <4>2, Zenon
    <3>5. QED
      BY <3>1, <3>2, <3>3, <3>4, Zenon
  <2>14. 1 \in {1, 2, 3} /\ 2 \in {1, 2, 3} /\ 3 \in {1, 2, 3}
    OBVIOUS
  <2>15. /\ Product(1, a)[k] = IF low THEN 1 ELSE 0
         /\ Product(2, a)[k] = IF high THEN 1 ELSE 0
         /\ Product(3, a)[k] = IF low THEN IF high THEN 0 ELSE 1 ELSE IF high THEN 1 ELSE 0
    BY <2>4, <2>13, <2>14, Zenon
  <2>16. (IF k \in 0 .. 7 THEN c[k] ELSE 0) = IF low THEN 1 ELSE 0
    BY <1>1, <2>1
  <2>17. (IF k \in 1 .. 8 THEN c[k - 1] ELSE 0) = IF high THEN 1 ELSE 0
    BY <1>1, <2>2
  <2>18. QED
    BY <2>12, <2>15, <2>16, <2>17
<1>5. \A b : Product(b, a) = [k \in 0 .. 14 |-> Product(b, a)[k]]
  BY DEF Product
<1>6. QED
  BY <1>4, <1>5, Zenon

\* Multiplication in the field by the factors of gmul is what gmul does.
LEMMA TimesIs ==
    ASSUME NEW a \in Byte, NEW b \in Factors
    PROVE  Times(b, a) = gmul(a, b) /\ gmul(a, b) \in Byte
<1>1. PICK c \in Coefficients : c = BitsOf(a) /\ Value(c) = a
  BY ByteOfBits
<1>2. \A k \in 0 .. 7 : c[k] \in {0, 1}
  BY DEF Coefficients
<1>3. Doubled(a, 27) = Value(TimesX(c)) /\ TimesX(c) \in Coefficients
  BY <1>1, DoubledIs, TimesXIs
<1>4. CASE b = 1
  <2>1. PICK d : d = [k \in 0 .. 14 |-> IF k \in 0 .. 7 THEN c[k] ELSE 0]
    OBVIOUS
  <2>2. Product(1, a) = d /\ d \in [0 .. 14 -> {0, 1}] /\ \A k \in 9 .. 14 : d[k] = 0
    BY <1>1, <1>2, <2>1, ProductIs
  <2>3. Remainder(d) = [k \in 0 .. 7 |-> IF k \in Carries THEN (d[k] + d[8]) % 2 ELSE d[k]]
    BY <2>2, RemainderIs
  <2>4. \A k \in 0 .. 7 : (IF k \in Carries THEN (d[k] + d[8]) % 2 ELSE d[k]) = c[k]
    BY <1>2, <2>1
  <2>5. Remainder(d) = c
    BY <2>3, <2>4 DEF Coefficients
  <2>6. QED
    BY <1>1, <1>4, <2>2, <2>5, gmulIs DEF Times
<1>5. CASE b = 2
  <2>1. PICK d : d = [k \in 0 .. 14 |-> IF k \in 1 .. 8 THEN c[k - 1] ELSE 0]
    OBVIOUS
  <2>2. Product(2, a) = d /\ d \in [0 .. 14 -> {0, 1}] /\ \A k \in 9 .. 14 : d[k] = 0
    BY <1>1, <1>2, <2>1, ProductIs
  <2>3. Remainder(d) = [k \in 0 .. 7 |-> IF k \in Carries THEN (d[k] + d[8]) % 2 ELSE d[k]]
    BY <2>2, RemainderIs
  <2>4. \A k \in 0 .. 7 : (IF k \in Carries THEN (d[k] + d[8]) % 2 ELSE d[k])
                          = ((IF k = 0 THEN 0 ELSE c[k - 1]) + (IF k \in Carries THEN c[7] ELSE 0)) % 2
    BY <1>2, <2>1
  <2>5. Remainder(d) = TimesX(c)
    BY <2>3, <2>4 DEF TimesX
  <2>6. QED
    BY <1>1, <1>3, <1>5, <2>2, <2>5, gmulIs, BitsOfByte DEF Times
<1>6. CASE b = 3
  <2>1. PICK d : d = [k \in 0 .. 14 |-> ((IF k \in 0 .. 7 THEN c[k] ELSE 0)
                                         + (IF k \in 1 .. 8 THEN c[k - 1] ELSE 0)) % 2]
    OBVIOUS
  <2>2. Product(3, a) = d /\ d \in [0 .. 14 -> {0, 1}] /\ \A k \in 9 .. 14 : d[k] = 0
    BY <1>1, <1>2, <2>1, ProductIs
  <2>3. Remainder(d) = [k \in 0 .. 7 |-> IF k \in Carries THEN (d[k] + d[8]) % 2 ELSE d[k]]
    BY <2>2, RemainderIs
  <2>4. PICK e : e = [k \in 0 .. 7 |-> (c[k] + TimesX(c)[k]) % 2]
    OBVIOUS
  <2>5. \A k \in 0 .. 7 : (IF k \in Carries THEN (d[k] + d[8]) % 2 ELSE d[k]) = e[k]
    BY <1>2, <2>1, <2>4 DEF TimesX
  <2>6. Remainder(d) = e
    BY <2>3, <2>4, <2>5
  <2>7. e \in Coefficients /\ XorBytes(Value(c), Value(TimesX(c))) = Value(e)
    BY <1>3, <2>4, XorIs
  <2>8. QED
    BY <1>1, <1>3, <1>6, <2>2, <2>6, <2>7, gmulIs, BitsOfByte DEF Times
<1>7. QED
  BY <1>4, <1>5, <1>6 DEF Factors
-----------------------------------------------------------------------------
(* The key schedule. *)

Words == [1 .. 4 -> Byte]

\* The recursive function of Expanded, over 7 .. m.
LEMMA SchedulesExist ==
    ASSUME NEW w
    PROVE  \E f : f = [n \in 7 .. 59 |-> IF n = 7 THEN w ELSE [f[n - 1] EXCEPT ![n] = ScheduledWord(f[n - 1], n)]]
<1> DEFINE Made(words, n) == [words EXCEPT ![n] = ScheduledWord(words, n)]
           Passes(f, m) == f = [n \in 7 .. m |-> IF n = 7 THEN w ELSE Made(f[n - 1], n)]
<1> HIDE DEF Made
<1>1. ASSUME NEW m \in 7 .. 58, NEW f, Passes(f, m)
      PROVE  \E g : Passes(g, m + 1)
  <2>1. PICK g : g = [n \in 7 .. m + 1 |-> IF n \in 7 .. m THEN f[n] ELSE Made(f[m], m + 1)]
    OBVIOUS
  <2>2. f = [n \in 7 .. m |-> IF n = 7 THEN w ELSE Made(f[n - 1], n)]
    BY <1>1
  <2>3. \A n \in 7 .. m : f[n] = IF n = 7 THEN w ELSE Made(f[n - 1], n)
    BY <2>2, Zenon
  <2>4. \A n \in 7 .. m + 1 : /\ n # 7 => n - 1 \in 7 .. m /\ n - 1 \in 7 .. m + 1
                              /\ n \notin 7 .. m => n - 1 = m /\ n = m + 1 /\ n # 7
    OBVIOUS
  <2>5. \A n \in 7 .. m + 1 : n # 7 => g[n - 1] = f[n - 1]
    BY <2>1, <2>4, Zenon
  <2>6. \A n \in 7 .. m + 1 : g[n] = IF n = 7 THEN w ELSE Made(g[n - 1], n)
    <3> TAKE n \in 7 .. m + 1
    <3>1. CASE n \in 7 .. m
      BY <2>1, <2>3, <2>5, <3>1, Zenon
    <3>2. CASE n \notin 7 .. m
      <4>1. g[n] = Made(f[m], m + 1) /\ g[n - 1] = f[m] /\ n = m + 1 /\ n # 7
        BY <2>1, <2>4, <2>5, <3>2, Zenon
      <4>2. QED
        BY <4>1, Zenon
    <3>3. QED
      BY <3>1, <3>2, Zenon
  <2>7. g = [n \in 7 .. m + 1 |-> g[n]]
    BY <2>1, Zenon
  <2>8. Passes(g, m + 1)
    BY <2>6, <2>7, Zenon
  <2>9. QED
    BY <2>8, Zenon
<1>2. \E f : Passes(f, 7)
  <2>1. PICK f : f = [n \in 7 .. 7 |-> w]
    OBVIOUS
  <2>2. \A n \in 7 .. 7 : n = 7
    OBVIOUS
  <2>3. Passes(f, 7)
    BY <2>1, <2>2, Zenon
  <2>4. QED
    BY <2>3, Zenon
<1> HIDE DEF Passes
<1>3. PICK Reached : Reached = {m \in 7 .. 59 : \E f : Passes(f, m)}
  OBVIOUS
<1>4. 7 \in Reached
  BY <1>2, <1>3
<1>5. \A m \in 7 .. 59 - 1 : m \in Reached => m + 1 \in Reached
  BY <1>1, <1>3
<1>6. 59 \in Reached
  BY <1>4, <1>5, CountedInduction
<1>7. QED
  BY <1>3, <1>6, Zenon DEF Passes, Made

LEMMA WordsOfBytes ==
    /\ \A u, v \in Words : XorWords(u, v) \in Words /\ \A k \in 1 .. 4 : XorWords(u, v)[k] = XorBytes(u[k], v[k])
    /\ \A u \in Words : SubWord(u) \in Words /\ \A k \in 1 .. 4 : SubWord(u)[k] = StandardSub[u[k]]
    /\ \A u \in Words : RotWord(u) \in Words /\ \A k \in 0 .. 3 : RotWord(u)[k + 1] = u[((k + 1) % 4) + 1]
    /\ \A i \in 1 .. 7 : /\ <<rcon[i], 0, 0, 0>> \in Words
                         /\ \A k \in 0 .. 3 : <<rcon[i], 0, 0, 0>>[k + 1] = IF k = 0 THEN StandardRcon(i) ELSE 0
<1>1. ASSUME NEW u \in Words, NEW v \in Words
      PROVE  XorWords(u, v) \in Words /\ \A k \in 1 .. 4 : XorWords(u, v)[k] = XorBytes(u[k], v[k])
  <2>1. u[1] \in Byte /\ u[2] \in Byte /\ u[3] \in Byte /\ u[4] \in Byte
        /\ v[1] \in Byte /\ v[2] \in Byte /\ v[3] \in Byte /\ v[4] \in Byte
    BY DEF Words
  <2>2. PICK b1 \in Byte, b2 \in Byte, b3 \in Byte, b4 \in Byte :
          /\ b1 = XorBytes(u[1], v[1]) /\ b2 = XorBytes(u[2], v[2])
          /\ b3 = XorBytes(u[3], v[3]) /\ b4 = XorBytes(u[4], v[4])
    BY <2>1, XorOfBytes
  <2>3. XorWords(u, v) = <<b1, b2, b3, b4>>
    BY <2>2, Zenon DEF XorWords
  <2>4. <<b1, b2, b3, b4>> \in Words
    BY DEF Words
  <2>5. ASSUME NEW k \in 1 .. 4 PROVE <<b1, b2, b3, b4>>[k] = XorBytes(u[k], v[k])
    BY <2>2
  <2>6. QED
    BY <2>3, <2>4, <2>5
<1>2. ASSUME NEW u \in Words
      PROVE  SubWord(u) \in Words /\ \A k \in 1 .. 4 : SubWord(u)[k] = StandardSub[u[k]]
  <2>1. \A k \in 1 .. 4 : u[k] \in Byte
    BY DEF Words
  <2>2. \A k \in 1 .. 4 : SubByte(u[k]) \in Byte /\ SubByte(u[k]) = StandardSub[u[k]]
    BY <2>1, SBOXAssumption
  <2>3. QED
    BY <2>2 DEF SubWord, Words
<1>3. ASSUME NEW u \in Words
      PROVE  RotWord(u) \in Words /\ \A k \in 0 .. 3 : RotWord(u)[k + 1] = u[((k + 1) % 4) + 1]
  <2>1. PICK u1 \in Byte, u2 \in Byte, u3 \in Byte, u4 \in Byte : u1 = u[1] /\ u2 = u[2] /\ u3 = u[3] /\ u4 = u[4]
    BY DEF Words
  <2>2. RotWord(u) = <<u2, u3, u4, u1>>
    BY <2>1, Zenon DEF RotWord
  <2>3. <<u2, u3, u4, u1>> \in Words
    BY DEF Words
  <2>4. ASSUME NEW k \in 0 .. 3
        PROVE  <<u2, u3, u4, u1>>[k + 1] = u[((k + 1) % 4) + 1]
    BY <2>1
  <2>5. QED
    BY <2>2, <2>3, <2>4
<1>4. ASSUME NEW i \in 1 .. 7
      PROVE  /\ <<rcon[i], 0, 0, 0>> \in Words
             /\ \A k \in 0 .. 3 : <<rcon[i], 0, 0, 0>>[k + 1] = IF k = 0 THEN StandardRcon(i) ELSE 0
  <2>1. PICK b \in Byte : b = rcon[i] /\ b = StandardRcon(i)
    BY DEF rcon, StandardRcon, Place, Byte
  <2>2. <<b, 0, 0, 0>> \in Words
    BY DEF Words, Byte
  <2>3. ASSUME NEW k \in 0 .. 3 PROVE <<b, 0, 0, 0>>[k + 1] = IF k = 0 THEN b ELSE 0
    OBVIOUS
  <2>4. QED
    BY <2>1, <2>2, <2>3, Zenon
<1>5. QED
  BY <1>1, <1>2, <1>3, <1>4

\* A word of the schedule is made of bytes and is what the standard says.
LEMMA ScheduledWordIs ==
    ASSUME NEW words \in [0 .. 59 -> Words], NEW i \in 8 .. 59
    PROVE  /\ ScheduledWord(words, i) \in Words
           /\ \A k \in 0 .. 3 :
                ScheduledWord(words, i)[k + 1] =
                  XorBytes(words[i - 8][k + 1],
                           IF i % 8 = 0 THEN XorBytes(StandardSub[words[i - 1][((k + 1) % 4) + 1]],
                                                      IF k = 0 THEN StandardRcon(i \div 8) ELSE 0)
                           ELSE IF i % 8 = 4 THEN StandardSub[words[i - 1][k + 1]] ELSE words[i - 1][k + 1])
<1>1. PICK u \in Words, v \in Words : u = words[i - 8] /\ v = words[i - 1]
  OBVIOUS
<1>2. \A k \in 0 .. 3 : k + 1 \in 1 .. 4
  OBVIOUS
<1>3. CASE i % 8 = 0
  <2>1. PICK n \in 1 .. 7 : n = i \div 8
    BY <1>3
  <2>2. PICK r \in Words : r = <<rcon[n], 0, 0, 0>>
    BY WordsOfBytes
  <2>3. PICK t \in Words : t = RotWord(v) /\ \A k \in 0 .. 3 : t[k + 1] = v[((k + 1) % 4) + 1]
    BY WordsOfBytes, Zenon
  <2>4. PICK s \in Words : s = SubWord(t) /\ \A k \in 1 .. 4 : s[k] = StandardSub[t[k]]
    BY WordsOfBytes, Zenon
  <2>5. \A k \in 0 .. 3 : s[k + 1] = StandardSub[v[((k + 1) % 4) + 1]]
    BY <1>2, <2>3, <2>4, Zenon
  <2>6. \A k \in 0 .. 3 : r[k + 1] = IF k = 0 THEN StandardRcon(n) ELSE 0
    BY <2>2, WordsOfBytes
  <2>7. PICK x \in Words : x = XorWords(s, r)
    BY WordsOfBytes
  <2>8. ScheduledWord(words, i) = XorWords(u, x)
    BY <1>1, <1>3, <2>1, <2>2, <2>3, <2>4, <2>7, Zenon DEF ScheduledWord
  <2>9. \A k \in 0 .. 3 : XorWords(u, x)[k + 1] = XorBytes(u[k + 1], XorBytes(s[k + 1], r[k + 1]))
    BY <1>2, <2>7, WordsOfBytes
  <2>10. XorWords(u, x) \in Words
    BY WordsOfBytes
  <2>11. QED
    BY <1>1, <1>3, <2>1, <2>5, <2>6, <2>8, <2>9, <2>10, Zenon
<1>4. CASE i % 8 # 0 /\ i % 8 = 4
  <2>1. ScheduledWord(words, i) = XorWords(u, SubWord(v))
    BY <1>1, <1>4, Zenon DEF ScheduledWord
  <2>2. SubWord(v) \in Words
    BY WordsOfBytes
  <2>3. XorWords(u, SubWord(v)) \in Words
        /\ \A k \in 0 .. 3 : XorWords(u, SubWord(v))[k + 1] = XorBytes(u[k + 1], StandardSub[v[k + 1]])
    BY <1>2, <2>2, WordsOfBytes
  <2>4. QED
    BY <1>1, <1>4, <2>1, <2>3, Zenon
<1>5. CASE i % 8 # 0 /\ i % 8 # 4
  <2>1. ScheduledWord(words, i) = XorWords(u, v)
    BY <1>1, <1>5, Zenon DEF ScheduledWord
  <2>2. XorWords(u, v) \in Words /\ \A k \in 0 .. 3 : XorWords(u, v)[k + 1] = XorBytes(u[k + 1], v[k + 1])
    BY <1>2, WordsOfBytes
  <2>3. QED
    BY <1>1, <1>5, <2>1, <2>2, Zenon
<1>6. QED
  BY <1>3, <1>4, <1>5, Zenon

\* The words that are there after word n has been made.
Scheduled(words, key, n) ==
    /\ words \in [0 .. 59 -> Words]
    /\ \A i \in 0 .. 7 : words[i] = Word(key, i)
    /\ \A i \in 8 .. n : words[i] = ScheduledWord(words, i)

LEMMA ExpandedIs ==
    ASSUME NEW key \in Keys
    PROVE  Scheduled(Expanded(key), key, 59)
<1>1. PICK first : first = [i \in 0 .. 59 |-> IF i < 8 THEN Word(key, i) ELSE <<0, 0, 0, 0>>]
  OBVIOUS
<1> DEFINE Passes(f) == f = [n \in 7 .. 59 |->
                               IF n = 7 THEN [i \in 0 .. 59 |-> IF i < 8 THEN Word(key, i) ELSE <<0, 0, 0, 0>>]
                               ELSE [f[n - 1] EXCEPT ![n] = ScheduledWord(f[n - 1], n)]]
           upTo == CHOOSE f : Passes(f)
<1>2. Passes(upTo)
  <2>1. \E f : f = [n \in 7 .. 59 |-> IF n = 7 THEN first ELSE [f[n - 1] EXCEPT ![n] = ScheduledWord(f[n - 1], n)]]
    BY SchedulesExist
  <2>2. \E f : Passes(f)
    BY <1>1, <2>1, Zenon
  <2>3. QED
    BY <2>2, Zenon
<1>3. Expanded(key) = upTo[59]
  BY Zenon DEF Expanded
<1> HIDE DEF upTo
<1>4. \A n \in 7 .. 59 : upTo[n] = IF n = 7 THEN first ELSE [upTo[n - 1] EXCEPT ![n] = ScheduledWord(upTo[n - 1], n)]
  BY <1>1, <1>2, Zenon
<1>5. Scheduled(first, key, 7)
  <2>1. \A i \in 0 .. 7 : Word(key, i) \in Words
    BY DEF Keys, Word, Words
  <2>2. <<0, 0, 0, 0>> \in Words
    BY DEF Words, Byte
  <2>3. first \in [0 .. 59 -> Words]
    BY <1>1, <2>1, <2>2
  <2>4. \A i \in 0 .. 7 : first[i] = Word(key, i)
    BY <1>1
  <2>5. 8 .. 7 = {}
    OBVIOUS
  <2>6. QED
    BY <2>3, <2>4, <2>5 DEF Scheduled
<1>6. ASSUME NEW n \in 7 .. 58, NEW words, Scheduled(words, key, n)
      PROVE  Scheduled([words EXCEPT ![n + 1] = ScheduledWord(words, n + 1)], key, n + 1)
  <2>1. PICK w \in Words : w = ScheduledWord(words, n + 1)
    <3>1. n + 1 \in 8 .. 59 /\ words \in [0 .. 59 -> Words]
      BY <1>6 DEF Scheduled
    <3>2. QED
      BY <3>1, ScheduledWordIs
  <2>2. PICK new : new = [words EXCEPT ![n + 1] = w]
    OBVIOUS
  <2>3. /\ words \in [0 .. 59 -> Words] /\ new \in [0 .. 59 -> Words]
        /\ new[n + 1] = w /\ \A i \in 0 .. 59 : i # n + 1 => new[i] = words[i]
    BY <1>6, <2>2 DEF Scheduled
  <2>4. \A i \in 0 .. 7 : new[i] = Word(key, i)
    BY <1>6, <2>3 DEF Scheduled
  <2>5. ASSUME NEW i \in 8 .. n + 1
        PROVE  new[i] = ScheduledWord(words, i)
    BY <1>6, <2>1, <2>3 DEF Scheduled
  <2>6. ASSUME NEW i \in 8 .. n + 1
        PROVE  ScheduledWord(new, i) = ScheduledWord(words, i)
    <3>1. new[i - 1] = words[i - 1] /\ new[i - 8] = words[i - 8]
      BY <2>3
    <3>2. QED
      BY <3>1, Zenon DEF ScheduledWord
  <2>7. Scheduled(new, key, n + 1)
    BY <2>3, <2>4, <2>5, <2>6 DEF Scheduled
  <2>8. QED
    BY <2>1, <2>2, <2>7
<1>7. PICK Reached : Reached = {n \in 7 .. 59 : Scheduled(upTo[n], key, n)}
  OBVIOUS
<1>8. 7 \in Reached
  <2>1. 7 \in 7 .. 59
    OBVIOUS
  <2>2. QED
    BY <1>4, <1>5, <1>7, <2>1, Zenon
<1>9. ASSUME NEW n \in 7 .. 59 - 1, n \in Reached
      PROVE  n + 1 \in Reached
  <2>1. n \in 7 .. 58 /\ n + 1 \in 7 .. 59 /\ (n + 1) - 1 = n /\ n + 1 # 7
    OBVIOUS
  <2>2. PICK words : words = upTo[n] /\ Scheduled(words, key, n)
    BY <1>7, <1>9
  <2>3. upTo[n + 1] = [words EXCEPT ![n + 1] = ScheduledWord(words, n + 1)]
    BY <1>4, <2>1, <2>2, Zenon
  <2>4. Scheduled(upTo[n + 1], key, n + 1)
    BY <1>6, <2>1, <2>2, <2>3
  <2>5. QED
    BY <1>7, <2>1, <2>4
<1>10. 59 \in Reached
  BY <1>8, <1>9, CountedInduction
<1>11. QED
  BY <1>3, <1>7, <1>10

\* The round keys of a key are blocks of bytes, and its schedule by the standard.
LEMMA expandKeyIs ==
    ASSUME NEW key \in Keys
    PROVE  expandKey(key) \in [0 .. 14 -> Blocks] /\ IsSchedule(expandKey(key), key)
<1>1. PICK words : words = Expanded(key)
  OBVIOUS
<1>2. Scheduled(words, key, 59)
  BY <1>1, ExpandedIs
<1>3. PICK keys : keys = [r \in 0 .. 14 |-> [i \in Index |-> words[4 * r + (i \div 4)][(i % 4) + 1]]]
  OBVIOUS
<1>4. expandKey(key) = keys
  BY <1>1, <1>3, Zenon DEF expandKey
<1>5. \A r \in 0 .. 14, i \in Index : 4 * r + (i \div 4) \in 0 .. 59 /\ (i % 4) + 1 \in 1 .. 4
  BY DEF Index
<1>6. \A i \in 0 .. 59, k \in 1 .. 4 : words[i][k] \in Byte
  BY <1>2 DEF Scheduled, Words
<1>7. keys \in [0 .. 14 -> Blocks]
  BY <1>3, <1>5, <1>6 DEF Blocks
<1>8. ASSUME NEW i \in 0 .. 59
      PROVE  /\ WordOf(keys, i) = [k \in 0 .. 3 |-> words[i][k + 1]]
             /\ \A k \in 0 .. 3 : WordOf(keys, i)[k] = words[i][k + 1]
  <2>1. ASSUME NEW k \in 0 .. 3
        PROVE  keys[i \div 4][4 * (i % 4) + k] = words[i][k + 1]
    <3>1. i \div 4 \in 0 .. 14 /\ 4 * (i % 4) + k \in Index
      BY DEF Index
    <3>2. (4 * (i % 4) + k) \div 4 = i % 4 /\ (4 * (i % 4) + k) % 4 = k
      OBVIOUS
    <3>3. 4 * (i \div 4) + (i % 4) = i
      OBVIOUS
    <3>4. keys[i \div 4][4 * (i % 4) + k] = words[4 * (i \div 4) + ((4 * (i % 4) + k) \div 4)][((4 * (i % 4) + k) % 4) + 1]
      BY <1>3, <3>1, Zenon
    <3>5. QED
      BY <3>2, <3>3, <3>4, Zenon
  <2>2. WordOf(keys, i) = [k \in 0 .. 3 |-> words[i][k + 1]]
    BY <2>1, Zenon DEF WordOf
  <2>3. QED
    BY <2>2, Zenon
<1>9. ASSUME NEW i \in 0 .. 7
      PROVE  WordOf(keys, i) = [k \in 0 .. 3 |-> key[4 * i + k]]
  <2>1. words[i] = Word(key, i)
    BY <1>2 DEF Scheduled
  <2>2. \A k \in 0 .. 3 : words[i][k + 1] = key[4 * i + k]
    BY <2>1 DEF Word
  <2>3. i \in 0 .. 59
    OBVIOUS
  <2>4. QED
    BY <1>8, <2>2, <2>3
<1>10. ASSUME NEW i \in 8 .. 59
       PROVE  WordOf(keys, i) = StandardWord(keys, i)
  <2>1. i \in 0 .. 59 /\ i - 1 \in 0 .. 59 /\ i - 8 \in 0 .. 59
    OBVIOUS
  <2>2. words \in [0 .. 59 -> Words] /\ words[i] = ScheduledWord(words, i)
    BY <1>2, Zenon DEF Scheduled
  <2>3. \A k \in 0 .. 3 : (k + 1) % 4 \in 0 .. 3
    OBVIOUS
  <2>4. /\ \A k \in 0 .. 3 : WordOf(keys, i - 1)[k] = words[i - 1][k + 1]
        /\ \A k \in 0 .. 3 : WordOf(keys, i - 8)[k] = words[i - 8][k + 1]
        /\ \A k \in 0 .. 3 : WordOf(keys, i - 1)[(k + 1) % 4] = words[i - 1][((k + 1) % 4) + 1]
    BY <1>8, <2>1, <2>3, Zenon
  <2>5. \A k \in 0 .. 3 :
          words[i][k + 1] =
            XorBytes(WordOf(keys, i - 8)[k],
                     IF i % 8 = 0 THEN XorBytes(StandardSub[WordOf(keys, i - 1)[(k + 1) % 4]],
                                                IF k = 0 THEN StandardRcon(i \div 8) ELSE 0)
                     ELSE IF i % 8 = 4 THEN StandardSub[WordOf(keys, i - 1)[k]] ELSE WordOf(keys, i - 1)[k])
    <3> TAKE k \in 0 .. 3
    <3>1. words[i][k + 1] =
            XorBytes(words[i - 8][k + 1],
                     IF i % 8 = 0 THEN XorBytes(StandardSub[words[i - 1][((k + 1) % 4) + 1]],
                                                IF k = 0 THEN StandardRcon(i \div 8) ELSE 0)
                     ELSE IF i % 8 = 4 THEN StandardSub[words[i - 1][k + 1]] ELSE words[i - 1][k + 1])
      BY <2>2, ScheduledWordIs, Zenon
    <3>2. /\ WordOf(keys, i - 1)[k] = words[i - 1][k + 1]
          /\ WordOf(keys, i - 8)[k] = words[i - 8][k + 1]
          /\ WordOf(keys, i - 1)[(k + 1) % 4] = words[i - 1][((k + 1) % 4) + 1]
      BY <2>4, Zenon
    <3>3. QED
      BY <3>1, <3>2, Zenon
  <2>6. StandardWord(keys, i) = [k \in 0 .. 3 |-> words[i][k + 1]]
    BY <2>5, Zenon DEF StandardWord
  <2>7. QED
    BY <1>8, <2>1, <2>6
<1>11. QED
  BY <1>4, <1>7, <1>9, <1>10 DEF IsSchedule
-----------------------------------------------------------------------------
(* The rounds. *)

LEMMA AddRoundKeyIs ==
    ASSUME NEW state \in Blocks, NEW key \in Blocks
    PROVE  /\ AddRoundKey(state, key) \in Blocks
           /\ \A i \in Index : AddRoundKey(state, key)[i] = XorBytes(state[i], key[i])
<1>1. \A i \in Index : XorBytes(state[i], key[i]) \in Byte
  BY XorOfBytes DEF Blocks
<1>2. QED
  BY <1>1 DEF AddRoundKey, Blocks

LEMMA SubBytesIs ==
    ASSUME NEW state \in Blocks
    PROVE  /\ SubBytes(state) \in Blocks
           /\ SubBytes(state) = [i \in Index |-> StandardSub[state[i]]]
<1>1. \A i \in Index : SubByte(state[i]) \in Byte /\ SubByte(state[i]) = StandardSub[state[i]]
  BY SBOXAssumption DEF Blocks
<1>2. SubBytes(state) = [i \in Index |-> StandardSub[state[i]]]
  BY <1>1, Zenon DEF SubBytes
<1>3. QED
  BY <1>1, <1>2 DEF SubBytes, Blocks

\* Row and column of an index.
LEMMA RowAndColumn ==
    ASSUME NEW i \in Index
    PROVE  /\ i % 4 \in 0 .. 3 /\ i \div 4 \in 0 .. 3 /\ 4 * (i \div 4) + (i % 4) = i
           /\ \A k \in 0 .. 3 : 4 * (i \div 4) + k \in Index
           /\ \A k, n \in 0 .. 3 : /\ 4 * n + k \in Index /\ k + 4 * n = 4 * n + k
                                   /\ (4 * n + k) % 4 = k /\ (4 * n + k) \div 4 = n
           /\ \A k, n \in 0 .. 3 : (k + n) % 4 \in 0 .. 3
           /\ (i + 4 * (i % 4)) % 16 = 4 * (((i \div 4) + (i % 4)) % 4) + (i % 4)
<1>1. i % 4 \in 0 .. 3 /\ i \div 4 \in 0 .. 3 /\ 4 * (i \div 4) + (i % 4) = i
  BY DEF Index
<1>2. PICK r \in 0 .. 3, c \in 0 .. 3 : r = i % 4 /\ c = i \div 4 /\ i = 4 * c + r
  BY <1>1
<1>3. (4 * c + r + 4 * r) % 16 = 4 * ((c + r) % 4) + r
  <2>1. CASE c + r < 4
    BY <2>1
  <2>2. CASE c + r >= 4
    BY <2>2
  <2>3. QED
    BY <2>1, <2>2
<1>4. \A k, n \in 0 .. 3 : /\ 4 * n + k \in Index /\ k + 4 * n = 4 * n + k
                           /\ (4 * n + k) % 4 = k /\ (4 * n + k) \div 4 = n
  BY DEF Index
<1>5. \A k, n \in 0 .. 3 : (k + n) % 4 \in 0 .. 3
  OBVIOUS
<1>6. QED
  BY <1>1, <1>2, <1>3, <1>4, <1>5

LEMMA ShiftRowsIs ==
    ASSUME NEW state \in Blocks
    PROVE  /\ ShiftRows(state) \in Blocks
           /\ ShiftRows(state) = [i \in Index |-> At(state, i % 4, ((i \div 4) + (i % 4)) % 4)]
           /\ animateShiftRows(Transposed(state)) = Transposed(ShiftRows(state))
<1>1. \A i \in Index : (i + 4 * (i % 4)) % 16 \in Index
  BY DEF Index
<1>2. ShiftRows(state) \in Blocks
  BY <1>1 DEF ShiftRows, Blocks
<1>3. ASSUME NEW i \in Index
      PROVE  (i + 4 * (i % 4)) % 16 = (i % 4) + 4 * (((i \div 4) + (i % 4)) % 4)
  BY <1>3, RowAndColumn
<1>4. ShiftRows(state) = [i \in Index |-> At(state, i % 4, ((i \div 4) + (i % 4)) % 4)]
  BY <1>3, Zenon DEF ShiftRows, At
<1>5. ASSUME NEW i \in Index
      PROVE  animateShiftRows(Transposed(state))[i] = Transposed(ShiftRows(state))[i]
  <2>1. PICK c \in 0 .. 3, r \in 0 .. 3 : c = i % 4 /\ r = i \div 4
    BY RowAndColumn
  <2>2. PICK d \in 0 .. 3 : d = (c + r) % 4
    BY RowAndColumn
  <2>3. PICK j \in Index : j = 4 * r + d /\ j % 4 = d /\ j \div 4 = r
    BY RowAndColumn
  <2>4. animateShiftRows(Transposed(state))[i] = Transposed(state)[j]
    BY <2>1, <2>2, <2>3, Zenon DEF animateShiftRows
  <2>5. Transposed(state)[j] = state[4 * d + r]
    BY <2>3, Zenon DEF Transposed
  <2>6. PICK n \in Index : n = 4 * c + r /\ n % 4 = r /\ n \div 4 = c
    BY RowAndColumn
  <2>7. Transposed(ShiftRows(state))[i] = ShiftRows(state)[n]
    BY <2>1, <2>6, Zenon DEF Transposed
  <2>8. ShiftRows(state)[n] = state[(n + 4 * (n % 4)) % 16]
    BY <2>6, Zenon DEF ShiftRows
  <2>9. (n + 4 * (n % 4)) % 16 = 4 * d + r
    BY <2>2, <2>6, RowAndColumn
  <2>10. QED
    BY <2>4, <2>5, <2>7, <2>8, <2>9, Zenon
<1>6. /\ animateShiftRows(Transposed(state)) = [i \in Index |-> animateShiftRows(Transposed(state))[i]]
      /\ Transposed(ShiftRows(state)) = [i \in Index |-> Transposed(ShiftRows(state))[i]]
  <2>1. PICK t, u : t = Transposed(state) /\ u = ShiftRows(state)
    OBVIOUS
  <2>2. /\ animateShiftRows(t) = [i \in Index |-> t[4 * (i \div 4) + (((i % 4) + (i \div 4)) % 4)]]
        /\ Transposed(u) = [i \in Index |-> u[4 * (i % 4) + (i \div 4)]]
    BY Zenon DEF animateShiftRows, Transposed
  <2>3. animateShiftRows(t) = [i \in Index |-> animateShiftRows(t)[i]]
    BY <2>2
  <2>4. Transposed(u) = [i \in Index |-> Transposed(u)[i]]
    BY <2>2
  <2>5. QED
    BY <2>1, <2>3, <2>4, Zenon
<1>7. QED
  BY <1>2, <1>4, <1>5, <1>6, Zenon

\* The entry in row i and column k of the circulant matrix.
Entry(i, k) == <<2, 3, 1, 1>>[((k - i + 4) % 4) + 1]

LEMMA Entries ==
    /\ Entry(0, 0) = 2 /\ Entry(0, 1) = 3 /\ Entry(0, 2) = 1 /\ Entry(0, 3) = 1
    /\ Entry(1, 0) = 1 /\ Entry(1, 1) = 2 /\ Entry(1, 2) = 3 /\ Entry(1, 3) = 1
    /\ Entry(2, 0) = 1 /\ Entry(2, 1) = 1 /\ Entry(2, 2) = 2 /\ Entry(2, 3) = 3
    /\ Entry(3, 0) = 3 /\ Entry(3, 1) = 1 /\ Entry(3, 2) = 1 /\ Entry(3, 3) = 2
  BY DEF Entry

\* A column times row r of the matrix, as MixColumns multiplies.
Mixed(s0, s1, s2, s3, r) ==
    CASE r = 0 -> Xor4(gmul(s0, 2), gmul(s1, 3), s2, s3)
      [] r = 1 -> Xor4(s0, gmul(s1, 2), gmul(s2, 3), s3)
      [] r = 2 -> Xor4(s0, s1, gmul(s2, 2), gmul(s3, 3))
      [] OTHER -> Xor4(gmul(s0, 3), s1, s2, gmul(s3, 2))

LEMMA MixedIs ==
    ASSUME NEW s0 \in Byte, NEW s1 \in Byte, NEW s2 \in Byte, NEW s3 \in Byte, NEW r \in 0 .. 3
    PROVE  /\ Mixed(s0, s1, s2, s3, r) \in Byte
           /\ Mixed(s0, s1, s2, s3, r) = Xor4(gmul(s0, Entry(r, 0)), gmul(s1, Entry(r, 1)),
                                              gmul(s2, Entry(r, 2)), gmul(s3, Entry(r, 3)))
           /\ Mixed(s0, s1, s2, s3, r) = Xor4(Times(Entry(r, 0), s0), Times(Entry(r, 1), s1),
                                              Times(Entry(r, 2), s2), Times(Entry(r, 3), s3))
<1>1. \A a \in Byte : gmul(a, 1) = a
  BY gmulIs
<1>2. \A a \in Byte, b \in Factors : Times(b, a) = gmul(a, b) /\ gmul(a, b) \in Byte
  BY TimesIs
<1>3. \A k \in 0 .. 3 : Entry(r, k) \in Factors
  BY DEF Entry, Factors
<1>4. \A a, b, c, d \in Byte : Xor4(a, b, c, d) \in Byte
  BY XorOfBytes DEF Xor4
<1>5. Mixed(s0, s1, s2, s3, r) = Xor4(gmul(s0, Entry(r, 0)), gmul(s1, Entry(r, 1)),
                                      gmul(s2, Entry(r, 2)), gmul(s3, Entry(r, 3)))
  <2>1. CASE r = 0
    <3>1. Mixed(s0, s1, s2, s3, 0) = Xor4(gmul(s0, 2), gmul(s1, 3), s2, s3)
      BY DEF Mixed
    <3>2. QED
      BY <1>1, <2>1, <3>1, Entries, Zenon
  <2>2. CASE r = 1
    <3>1. Mixed(s0, s1, s2, s3, 1) = Xor4(s0, gmul(s1, 2), gmul(s2, 3), s3)
      BY DEF Mixed
    <3>2. QED
      BY <1>1, <2>2, <3>1, Entries, Zenon
  <2>3. CASE r = 2
    <3>1. Mixed(s0, s1, s2, s3, 2) = Xor4(s0, s1, gmul(s2, 2), gmul(s3, 3))
      BY DEF Mixed
    <3>2. QED
      BY <1>1, <2>3, <3>1, Entries, Zenon
  <2>4. CASE r = 3
    <3>1. Mixed(s0, s1, s2, s3, 3) = Xor4(gmul(s0, 3), s1, s2, gmul(s3, 2))
      BY DEF Mixed
    <3>2. QED
      BY <1>1, <2>4, <3>1, Entries, Zenon
  <2>5. r = 0 \/ r = 1 \/ r = 2 \/ r = 3
    OBVIOUS
  <2>6. QED
    BY <2>1, <2>2, <2>3, <2>4, <2>5, Zenon
<1>6. 0 \in 0 .. 3 /\ 1 \in 0 .. 3 /\ 2 \in 0 .. 3 /\ 3 \in 0 .. 3
  OBVIOUS
<1>7. /\ Times(Entry(r, 0), s0) = gmul(s0, Entry(r, 0)) /\ gmul(s0, Entry(r, 0)) \in Byte
      /\ Times(Entry(r, 1), s1) = gmul(s1, Entry(r, 1)) /\ gmul(s1, Entry(r, 1)) \in Byte
      /\ Times(Entry(r, 2), s2) = gmul(s2, Entry(r, 2)) /\ gmul(s2, Entry(r, 2)) \in Byte
      /\ Times(Entry(r, 3), s3) = gmul(s3, Entry(r, 3)) /\ gmul(s3, Entry(r, 3)) \in Byte
  BY <1>2, <1>3, <1>6, Zenon
<1>8. PICK m0 \in Byte, m1 \in Byte, m2 \in Byte, m3 \in Byte :
        /\ m0 = gmul(s0, Entry(r, 0)) /\ m0 = Times(Entry(r, 0), s0)
        /\ m1 = gmul(s1, Entry(r, 1)) /\ m1 = Times(Entry(r, 1), s1)
        /\ m2 = gmul(s2, Entry(r, 2)) /\ m2 = Times(Entry(r, 2), s2)
        /\ m3 = gmul(s3, Entry(r, 3)) /\ m3 = Times(Entry(r, 3), s3)
  BY <1>7, Zenon
<1>9. Mixed(s0, s1, s2, s3, r) = Xor4(m0, m1, m2, m3)
  BY <1>5, <1>8, Zenon
<1>10. Xor4(m0, m1, m2, m3) \in Byte
  BY <1>4
<1>11. Xor4(m0, m1, m2, m3) = Xor4(Times(Entry(r, 0), s0), Times(Entry(r, 1), s1),
                                   Times(Entry(r, 2), s2), Times(Entry(r, 3), s3))
  BY <1>8, Zenon
<1>12. QED
  BY <1>5, <1>9, <1>10, <1>11, Zenon

LEMMA MixColumnsIs ==
    ASSUME NEW state \in Blocks
    PROVE  /\ MixColumns(state) \in Blocks
           /\ \A i \in Index :
                LET s(k) == state[4 * (i \div 4) + k]
                    term(k) == Times(Entry(i % 4, k), s(k))
                IN MixColumns(state)[i] = Xor4(term(0), term(1), term(2), term(3))
           /\ animateMixColumns(Transposed(state)) = Transposed(MixColumns(state))
<1>1. \A i \in Index : MixColumns(state)[i] = Mixed(state[4 * (i \div 4) + 0], state[4 * (i \div 4) + 1],
                                                    state[4 * (i \div 4) + 2], state[4 * (i \div 4) + 3], i % 4)
  BY Zenon DEF MixColumns, Mixed
<1>2. 0 \in 0 .. 3 /\ 1 \in 0 .. 3 /\ 2 \in 0 .. 3 /\ 3 \in 0 .. 3
  OBVIOUS
<1>3. \A c \in 0 .. 3 : /\ state[4 * c + 0] \in Byte /\ state[4 * c + 1] \in Byte
                        /\ state[4 * c + 2] \in Byte /\ state[4 * c + 3] \in Byte
  BY DEF Blocks, Index
<1>4. \A i \in Index : i \div 4 \in 0 .. 3 /\ i % 4 \in 0 .. 3
  BY RowAndColumn
<1>5. \A i \in Index : Mixed(state[4 * (i \div 4) + 0], state[4 * (i \div 4) + 1],
                             state[4 * (i \div 4) + 2], state[4 * (i \div 4) + 3], i % 4) \in Byte
  BY <1>3, <1>4, MixedIs
<1>6. MixColumns(state) \in Blocks
  <2>1. MixColumns(state) = [i \in Index |-> MixColumns(state)[i]]
    <3> DEFINE mixed(i) == Mixed(state[4 * (i \div 4) + 0], state[4 * (i \div 4) + 1],
                                 state[4 * (i \div 4) + 2], state[4 * (i \div 4) + 3], i % 4)
    <3>1. MixColumns(state) = [i \in Index |-> mixed(i)]
      BY Zenon DEF MixColumns, Mixed
    <3> HIDE DEF mixed
    <3>2. QED
      BY <3>1
  <2>2. \A i \in Index : MixColumns(state)[i] \in Byte
    BY <1>1, <1>5, Zenon
  <2>3. QED
    BY <2>1, <2>2 DEF Blocks
<1>7. ASSUME NEW i \in Index
      PROVE  MixColumns(state)[i] = Xor4(Times(Entry(i % 4, 0), state[4 * (i \div 4) + 0]),
                                         Times(Entry(i % 4, 1), state[4 * (i \div 4) + 1]),
                                         Times(Entry(i % 4, 2), state[4 * (i \div 4) + 2]),
                                         Times(Entry(i % 4, 3), state[4 * (i \div 4) + 3]))
  <2>1. PICK c \in 0 .. 3, r \in 0 .. 3 : c = i \div 4 /\ r = i % 4
    BY <1>4
  <2>2. PICK s0 \in Byte, s1 \in Byte, s2 \in Byte, s3 \in Byte :
          s0 = state[4 * c + 0] /\ s1 = state[4 * c + 1] /\ s2 = state[4 * c + 2] /\ s3 = state[4 * c + 3]
    BY <1>3
  <2>3. MixColumns(state)[i] = Mixed(s0, s1, s2, s3, r)
    BY <1>1, <2>1, <2>2, Zenon
  <2>4. Mixed(s0, s1, s2, s3, r) = Xor4(Times(Entry(r, 0), s0), Times(Entry(r, 1), s1),
                                        Times(Entry(r, 2), s2), Times(Entry(r, 3), s3))
    BY MixedIs
  <2>5. QED
    BY <2>1, <2>2, <2>3, <2>4, Zenon
<1>8. ASSUME NEW i \in Index
      PROVE  animateMixColumns(Transposed(state))[i] = Transposed(MixColumns(state))[i]
  <2>1. PICK c \in 0 .. 3, r \in 0 .. 3 : c = i % 4 /\ r = i \div 4
    BY <1>4
  <2>2. PICK n \in Index : n = 4 * c + r /\ n % 4 = r /\ n \div 4 = c
    BY RowAndColumn
  <2>3. Transposed(MixColumns(state))[i] = MixColumns(state)[n]
    BY <2>1, <2>2, Zenon DEF Transposed
  <2>4. MixColumns(state)[n] = Mixed(state[4 * c + 0], state[4 * c + 1], state[4 * c + 2], state[4 * c + 3], r)
    BY <1>1, <2>2, Zenon
  <2>5. ASSUME NEW k \in 0 .. 3
        PROVE  Transposed(state)[4 * k + c] = state[4 * c + k]
    <3>1. PICK j \in Index : j = 4 * k + c /\ j % 4 = c /\ j \div 4 = k
      BY RowAndColumn
    <3>2. QED
      BY <3>1, Zenon DEF Transposed
  <2>6. ASSUME NEW k \in 0 .. 3
        PROVE  << <<2, 3, 1, 1>>, <<1, 2, 3, 1>>, <<1, 1, 2, 3>>, <<3, 1, 1, 2>> >>[r + 1][k + 1] = Entry(r, k)
    BY DEF Entry
  <2>7. animateMixColumns(Transposed(state))[i] = Xor4(gmul(state[4 * c + 0], Entry(r, 0)),
                                                       gmul(state[4 * c + 1], Entry(r, 1)),
                                                       gmul(state[4 * c + 2], Entry(r, 2)),
                                                       gmul(state[4 * c + 3], Entry(r, 3)))
    BY <1>2, <2>1, <2>5, <2>6, Zenon DEF animateMixColumns
  <2>8. PICK s0 \in Byte, s1 \in Byte, s2 \in Byte, s3 \in Byte :
          s0 = state[4 * c + 0] /\ s1 = state[4 * c + 1] /\ s2 = state[4 * c + 2] /\ s3 = state[4 * c + 3]
    BY <1>3
  <2>9. Mixed(s0, s1, s2, s3, r) = Xor4(gmul(s0, Entry(r, 0)), gmul(s1, Entry(r, 1)),
                                        gmul(s2, Entry(r, 2)), gmul(s3, Entry(r, 3)))
    BY MixedIs
  <2>10. QED
    BY <2>3, <2>4, <2>7, <2>8, <2>9, Zenon
<1>9. /\ animateMixColumns(Transposed(state)) = [i \in Index |-> animateMixColumns(Transposed(state))[i]]
      /\ Transposed(MixColumns(state)) = [i \in Index |-> Transposed(MixColumns(state))[i]]
  <2>1. PICK t, u : t = Transposed(state) /\ u = MixColumns(state)
    OBVIOUS
  <2> DEFINE mixed(i) ==
               LET s(k) == t[4 * k + (i % 4)]
                   factor == << <<2, 3, 1, 1>>, <<1, 2, 3, 1>>, <<1, 1, 2, 3>>, <<3, 1, 1, 2>> >>
                   term(k) == gmul(s(k), factor[(i \div 4) + 1][k + 1])
               IN Xor4(term(0), term(1), term(2), term(3))
  <2>2. /\ animateMixColumns(t) = [i \in Index |-> mixed(i)]
        /\ Transposed(u) = [i \in Index |-> u[4 * (i % 4) + (i \div 4)]]
    BY Zenon DEF animateMixColumns, Transposed
  <2> HIDE DEF mixed
  <2>3. animateMixColumns(t) = [i \in Index |-> animateMixColumns(t)[i]]
    BY <2>2
  <2>4. Transposed(u) = [i \in Index |-> Transposed(u)[i]]
    BY <2>2
  <2>5. QED
    BY <2>1, <2>3, <2>4, Zenon
<1>10. QED
  BY <1>6, <1>7, <1>8, <1>9, Zenon

LEMMA EncryptRoundIs ==
    ASSUME NEW state \in Blocks, NEW keys \in [0 .. 14 -> Blocks], NEW r \in 1 .. 14
    PROVE  EncryptRound(state, keys, r) \in Blocks /\ EncryptRound(state, keys, r) = StandardRound(state, keys, r)
<1>1. PICK sub \in Blocks : sub = SubBytes(state) /\ sub = [i \in Index |-> StandardSub[state[i]]]
  BY SubBytesIs
<1>2. PICK shifted \in Blocks : shifted = ShiftRows(sub)
                                /\ shifted = [i \in Index |-> At(sub, i % 4, ((i \div 4) + (i % 4)) % 4)]
  BY ShiftRowsIs
<1>3. PICK key \in Blocks : key = keys[r]
  OBVIOUS
<1>4. PICK mixed \in Blocks : mixed = IF r < 14 THEN MixColumns(shifted) ELSE shifted
  BY MixColumnsIs
<1>5. EncryptRound(state, keys, r) = AddRoundKey(mixed, key)
  BY <1>1, <1>2, <1>3, <1>4, Zenon DEF EncryptRound
<1>6. AddRoundKey(mixed, key) \in Blocks /\ AddRoundKey(mixed, key) = [i \in Index |-> XorBytes(mixed[i], key[i])]
  BY AddRoundKeyIs, Zenon DEF AddRoundKey
<1> DEFINE circulant(i, k) == <<2, 3, 1, 1>>[((k - i + 4) % 4) + 1]
           term(c, i, k) == Times(circulant(i, k), At(shifted, k, c))
           column(c, i) == Xor4(term(c, i, 0), term(c, i, 1), term(c, i, 2), term(c, i, 3))
<1>7. StandardRound(state, keys, r) =
        [i \in Index |-> XorBytes(IF r < 14 THEN column(i \div 4, i % 4) ELSE shifted[i], keys[r][i])]
  BY <1>1, <1>2, Zenon DEF StandardRound
<1>8. ASSUME NEW i \in Index
      PROVE  MixColumns(shifted)[i] = column(i \div 4, i % 4)
  <2>1. PICK c \in 0 .. 3, q \in 0 .. 3 : c = i \div 4 /\ q = i % 4
    BY RowAndColumn
  <2>2. \A k \in 0 .. 3 : shifted[4 * c + k] = At(shifted, k, c) /\ Entry(q, k) = circulant(q, k)
    <3> TAKE k \in 0 .. 3
    <3>1. 4 * c + k = k + 4 * c
      OBVIOUS
    <3>2. QED
      BY <3>1, Zenon DEF At, Entry
  <2>3. 0 \in 0 .. 3 /\ 1 \in 0 .. 3 /\ 2 \in 0 .. 3 /\ 3 \in 0 .. 3
    OBVIOUS
  <2>4. MixColumns(shifted)[i] = Xor4(Times(Entry(q, 0), shifted[4 * c + 0]), Times(Entry(q, 1), shifted[4 * c + 1]),
                                      Times(Entry(q, 2), shifted[4 * c + 2]), Times(Entry(q, 3), shifted[4 * c + 3]))
    BY <2>1, MixColumnsIs, Zenon
  <2>5. QED
    BY <2>1, <2>2, <2>3, <2>4, Zenon
<1>9. \A i \in Index : mixed[i] = IF r < 14 THEN column(i \div 4, i % 4) ELSE shifted[i]
  BY <1>4, <1>8, Zenon
<1>10. StandardRound(state, keys, r) = [i \in Index |-> XorBytes(mixed[i], key[i])]
  BY <1>3, <1>7, <1>9, Zenon
<1>11. QED
  BY <1>5, <1>6, <1>10, Zenon

\* Transposing twice is nothing; of a block or a key it gives a block.
LEMMA TransposedTwice ==
    /\ \A state \in Blocks : Transposed(state) \in Blocks /\ Transposed(Transposed(state)) = state
    /\ \A key \in Keys : Transposed(key) \in Blocks
<1>1. \A i \in Index : 4 * (i % 4) + (i \div 4) \in Index
  BY RowAndColumn
<1>2. ASSUME NEW state \in Blocks
      PROVE  Transposed(state) \in Blocks
  BY <1>1, <1>2 DEF Transposed, Blocks
<1>3. ASSUME NEW key \in Keys
      PROVE  Transposed(key) \in Blocks
  <2>1. \A i \in Index : i \in 0 .. 31
    BY DEF Index
  <2>2. QED
    BY <1>1, <2>1 DEF Transposed, Blocks, Keys
<1>4. ASSUME NEW state \in Blocks
      PROVE  Transposed(Transposed(state)) = state
  <2>1. ASSUME NEW i \in Index
        PROVE  Transposed(Transposed(state))[i] = state[i]
    <3>1. PICK c \in 0 .. 3, q \in 0 .. 3 : c = i \div 4 /\ q = i % 4 /\ 4 * c + q = i
      BY RowAndColumn
    <3>2. PICK j \in Index : j = 4 * q + c /\ j % 4 = c /\ j \div 4 = q
      BY RowAndColumn
    <3>3. Transposed(Transposed(state))[i] = Transposed(state)[j]
      BY <3>1, <3>2, Zenon DEF Transposed
    <3>4. Transposed(state)[j] = state[i]
      BY <3>1, <3>2, Zenon DEF Transposed
    <3>5. QED
      BY <3>3, <3>4
  <2>2. Transposed(Transposed(state)) \in Blocks
    BY <1>2
  <2>3. QED
    BY <2>1, <2>2 DEF Blocks
<1>5. QED
  BY <1>2, <1>3, <1>4

\* The scene's round is one of the engine's, of text and key by rows.
LEMMA AnimatedRoundIs ==
    ASSUME NEW plain \in Blocks, NEW key \in Keys
    PROVE  animatedRound(plain, key) = Transposed(PlainRound(Transposed(plain), Transposed(key)))
<1>1. PICK p \in Blocks, k \in Blocks : p = Transposed(plain) /\ k = Transposed(key) /\ plain = Transposed(p)
  BY TransposedTwice
<1>2. PICK sub \in Blocks : sub = SubBytes(p) /\ Transposed(sub) = SubBytes(plain)
  <2>1. SubBytes(p) \in Blocks
    BY SubBytesIs
  <2>2. \A i \in Index : 4 * (i % 4) + (i \div 4) \in Index
    BY RowAndColumn
  <2>3. Transposed(SubBytes(p)) = SubBytes(Transposed(p))
    BY <2>2, Zenon DEF Transposed, SubBytes
  <2>4. QED
    BY <1>1, <2>1, <2>3
<1>3. PICK shifted \in Blocks : /\ shifted = ShiftRows(sub)
                                /\ animateShiftRows(Transposed(sub)) = Transposed(shifted)
  BY ShiftRowsIs
<1>4. PICK mixed \in Blocks : /\ mixed = MixColumns(shifted)
                              /\ animateMixColumns(Transposed(shifted)) = Transposed(mixed)
  BY MixColumnsIs
<1>5. animateAddRoundKey(Transposed(mixed), key) = Transposed(AddRoundKey(mixed, k))
  <2>1. ASSUME NEW i \in Index
        PROVE  animateAddRoundKey(Transposed(mixed), key)[i] = Transposed(AddRoundKey(mixed, k))[i]
    <3>1. PICK c \in 0 .. 3, q \in 0 .. 3 : c = i \div 4 /\ q = i % 4 /\ 4 * c + q = i
      BY RowAndColumn
    <3>2. PICK j \in Index : j = 4 * q + c /\ j % 4 = c /\ j \div 4 = q
      BY RowAndColumn
    <3>3. Transposed(AddRoundKey(mixed, k))[i] = XorBytes(mixed[j], k[j])
      BY <3>1, <3>2, Zenon DEF Transposed, AddRoundKey
    <3>4. k[j] = key[i]
      BY <1>1, <3>1, <3>2, Zenon DEF Transposed
    <3>5. animateAddRoundKey(Transposed(mixed), key)[i] = XorBytes(mixed[j], key[i])
      BY <3>1, <3>2, Zenon DEF Transposed, animateAddRoundKey
    <3>6. QED
      BY <3>3, <3>4, <3>5, Zenon
  <2>2. PICK left, right : left = Transposed(mixed) /\ right = AddRoundKey(mixed, k)
    OBVIOUS
  <2>3. animateAddRoundKey(left, key) = [i \in Index |-> XorBytes(left[i], key[i])]
        /\ Transposed(right) = [i \in Index |-> right[4 * (i % 4) + (i \div 4)]]
    BY Zenon DEF animateAddRoundKey, Transposed
  <2>4. animateAddRoundKey(left, key) = [i \in Index |-> animateAddRoundKey(left, key)[i]]
        /\ Transposed(right) = [i \in Index |-> Transposed(right)[i]]
    BY <2>3
  <2>5. QED
    BY <2>1, <2>2, <2>4, Zenon
<1>6. PICK keys \in [0 .. 14 -> Blocks] : keys = [r \in 0 .. 14 |-> k] /\ keys[1] = k
  <2> DEFINE same == [r \in 0 .. 14 |-> k]
  <2>1. same \in [0 .. 14 -> Blocks]
    OBVIOUS
  <2>2. same[1] = k
    OBVIOUS
  <2>3. QED
    BY <2>1, <2>2, Zenon
<1>7. EncryptRound(p, keys, 1) = AddRoundKey(mixed, k)
  <2>1. 1 < 14
    OBVIOUS
  <2>2. QED
    BY <1>2, <1>3, <1>4, <1>6, <2>1, Zenon DEF EncryptRound
<1>8. EncryptRound(p, keys, 1) = PlainRound(p, k)
  <2>1. 1 \in 1 .. 14
    OBVIOUS
  <2>2. EncryptRound(p, keys, 1) = StandardRound(p, keys, 1)
    BY <2>1, EncryptRoundIs
  <2>3. QED
    BY <1>6, <2>2, Zenon DEF PlainRound
<1>9. QED
  BY <1>1, <1>2, <1>3, <1>4, <1>5, <1>7, <1>8, Zenon DEF animatedRound

-----------------------------------------------------------------------------
(* The block cipher. *)

AESSpec == InitAES /\ [][AESStep]_aesVars

\* The state is the standard's, and runRound1 has done the same first round.
AESInv ==
    /\ round \in -1 .. 14
    /\ round >= 0 =>
         /\ standard \in [key : Keys, plain : Blocks, state : Blocks]
         /\ picture = animatedRound(standard.plain, standard.key)
         /\ roundKeys \in [0 .. 14 -> Blocks]
         /\ IsSchedule(roundKeys, standard.key)
         /\ block = standard.state
         /\ firstRound.roundKey = roundKeys[1]
         /\ round = 0 => /\ firstRound.inputState = block
                         /\ firstRound.addRoundKeyState = EncryptRound(block, roundKeys, 1)
         /\ round = 1 => firstRound.addRoundKeyState = block

LEMMA BeginKeepsAESInv ==
    ASSUME AESInv, Begin
    PROVE  AESInv'
<1>1. PICK input \in Inputs :
        /\ roundKeys' = expandKey(input[1])
        /\ block' = AddRoundKey(input[2], roundKeys'[0])
        /\ firstRound' = runRound1(input[2], input[1])
        /\ picture' = animatedRound(input[2], input[1])
        /\ standard' = [key |-> input[1], plain |-> input[2], state |-> [i \in Index |-> XorBytes(input[2][i], input[1][i])]]
  BY Zenon DEF Begin
<1>2. PICK key \in Keys, plain \in Blocks : key = input[1] /\ plain = input[2]
  BY AESAssumption
<1>3. PICK keys \in [0 .. 14 -> Blocks] : keys = expandKey(key) /\ IsSchedule(keys, key)
  BY expandKeyIs
<1>4. PICK keyed \in Blocks : keyed = AddRoundKey(plain, keys[0])
  BY AddRoundKeyIs
<1>5. ASSUME NEW i \in Index
      PROVE  keys[0][i] = key[i]
  <2>1. i % 4 \in 0 .. 3 /\ i \div 4 \in 0 .. 3 /\ 4 * (i \div 4) + (i % 4) = i
    BY RowAndColumn
  <2>2. PICK c \in 0 .. 3, k \in 0 .. 3 : c = i \div 4 /\ k = i % 4 /\ 4 * c + k = i
    BY <2>1
  <2>3. c \in 0 .. 7 /\ c \div 4 = 0 /\ c % 4 = c
    OBVIOUS
  <2>4. WordOf(keys, c) = [j \in 0 .. 3 |-> key[4 * c + j]]
    BY <1>3, <2>3, Zenon DEF IsSchedule
  <2>5. WordOf(keys, c)[k] = key[4 * c + k]
    BY <2>4, Zenon
  <2>6. WordOf(keys, c)[k] = keys[0][4 * c + k]
    BY <2>3, Zenon DEF WordOf
  <2>7. QED
    BY <2>2, <2>5, <2>6, Zenon
<1>6. keyed = [i \in Index |-> XorBytes(plain[i], key[i])]
  BY <1>4, <1>5, Zenon DEF AddRoundKey
<1>7. standard' = [key |-> key, plain |-> plain, state |-> keyed] /\ roundKeys' = keys /\ block' = keyed
  BY <1>1, <1>2, <1>3, <1>4, <1>6, Zenon
<1>8. /\ standard' \in [key : Keys, plain : Blocks, state : Blocks]
      /\ standard'.key = key /\ standard'.plain = plain /\ standard'.state = keyed
      /\ picture' = animatedRound(standard'.plain, standard'.key)
  BY <1>1, <1>2, <1>7
<1>9. PICK first : first = AddRoundKey(MixColumns(ShiftRows(SubBytes(keyed))), keys[1])
  OBVIOUS
<1>10. EncryptRound(keyed, keys, 1) = first
  <2>1. 1 < 14
    OBVIOUS
  <2>2. QED
    BY <1>9, <2>1, Zenon DEF EncryptRound
<1>11. PICK sub, shifted, mixed :
         /\ sub = SubBytes(keyed) /\ shifted = ShiftRows(sub) /\ mixed = MixColumns(shifted)
  OBVIOUS
<1>12. firstRound' = [inputState |-> keyed, subBytesState |-> sub, shiftRowsState |-> shifted,
                      mixColumnsState |-> mixed, addRoundKeyState |-> first, roundKey |-> keys[1]]
  BY <1>1, <1>2, <1>3, <1>4, <1>9, <1>11, Zenon DEF runRound1
<1>13. firstRound'.inputState = keyed /\ firstRound'.addRoundKeyState = first /\ firstRound'.roundKey = keys[1]
  BY <1>12
<1>14. round' = 0
  BY DEF Begin
<1>15. QED
  BY <1>3, <1>7, <1>8, <1>10, <1>13, <1>14 DEF AESInv

LEMMA NextRoundKeepsAESInv ==
    ASSUME AESInv, NextRound
    PROVE  AESInv'
<1>1. /\ round \in 0 .. 13 /\ round' = round + 1 /\ round' \in 1 .. 14
      /\ roundKeys' = roundKeys /\ firstRound' = firstRound /\ picture' = picture
      /\ block' = EncryptRound(block, roundKeys, round')
      /\ standard' = [standard EXCEPT !.state = StandardRound(standard.state, roundKeys, round')]
  BY DEF NextRound
<1>2. /\ standard \in [key : Keys, plain : Blocks, state : Blocks]
      /\ picture = animatedRound(standard.plain, standard.key)
      /\ roundKeys \in [0 .. 14 -> Blocks]
      /\ IsSchedule(roundKeys, standard.key)
      /\ block = standard.state
      /\ firstRound.roundKey = roundKeys[1]
      /\ round = 0 => firstRound.addRoundKeyState = EncryptRound(block, roundKeys, 1)
  BY <1>1 DEF AESInv
<1>3. PICK b \in Blocks, key \in Keys : b = standard.state /\ key = standard.key
  BY <1>2
<1>4. PICK n \in Blocks : n = EncryptRound(b, roundKeys, round') /\ n = StandardRound(b, roundKeys, round')
  BY <1>1, <1>2, EncryptRoundIs
<1>5. standard' = [standard EXCEPT !.state = n] /\ block' = n
  BY <1>1, <1>2, <1>3, <1>4
<1>6. /\ standard' \in [key : Keys, plain : Blocks, state : Blocks] /\ standard'.state = n
      /\ standard'.key = standard.key /\ standard'.plain = standard.plain
  BY <1>2, <1>5
<1>7. IsSchedule(roundKeys', standard'.key)
  BY <1>1, <1>2, <1>6, Zenon
<1>8. round' = 1 => firstRound'.addRoundKeyState = block'
  <2>1. round' = 1 => round = 0
    BY <1>1
  <2>2. QED
    BY <1>1, <1>2, <2>1, Zenon
<1>9. round' # 0 /\ round' \in -1 .. 14
  BY <1>1
<1>10. QED
  BY <1>1, <1>2, <1>5, <1>6, <1>7, <1>8, <1>9 DEF AESInv

LEMMA AESInvImpliesIsStandard ==
    ASSUME AESInv
    PROVE  IsStandard
<1> SUFFICES ASSUME round >= 0
             PROVE  /\ IsSchedule(roundKeys, standard.key)
                    /\ block = standard.state
                    /\ round = 0 => firstRound.inputState = standard.state
                    /\ round = 1 => firstRound.addRoundKeyState = standard.state
                    /\ firstRound.roundKey = roundKeys[1]
                    /\ picture = Transposed(PlainRound(Transposed(standard.plain), Transposed(standard.key)))
  BY Zenon DEF IsStandard
<1>1. /\ standard \in [key : Keys, plain : Blocks, state : Blocks] /\ block = standard.state
      /\ IsSchedule(roundKeys, standard.key) /\ firstRound.roundKey = roundKeys[1]
      /\ round = 0 => firstRound.inputState = block
      /\ round = 1 => firstRound.addRoundKeyState = block
      /\ picture = animatedRound(standard.plain, standard.key)
  BY Zenon DEF AESInv
<1>2. standard.key \in Keys /\ standard.plain \in Blocks
  BY <1>1
<1>3. picture = Transposed(PlainRound(Transposed(standard.plain), Transposed(standard.key)))
  BY <1>1, <1>2, AnimatedRoundIs, Zenon
<1>4. QED
  BY <1>1, <1>3, Zenon

\* The cipher of the visualisation is AES-256: for any key and block, the round
\* keys are those of FIPS 197 and so is the state after every round.  The round
\* the scene animates is one of AES as well, of the text and the key by rows and
\* without the first round key.
THEOREM CipherIsStandard == AESSpec => []IsStandard
<1>1. InitAES => AESInv
  <2> SUFFICES ASSUME InitAES PROVE AESInv
    OBVIOUS
  <2>1. round = -1
    BY DEF InitAES
  <2>2. round \in -1 .. 14 /\ ~(round >= 0)
    BY <2>1
  <2>3. QED
    BY <2>2 DEF AESInv
<1>2. AESInv /\ [AESStep]_aesVars => AESInv'
  <2> SUFFICES ASSUME AESInv, [AESStep]_aesVars PROVE AESInv'
    OBVIOUS
  <2>1. CASE Begin
    BY <2>1, BeginKeepsAESInv
  <2>2. CASE NextRound
    BY <2>2, NextRoundKeepsAESInv
  <2>3. CASE UNCHANGED aesVars
    BY <2>3, Zenon DEF AESInv, aesVars
  <2>4. QED
    BY <2>1, <2>2, <2>3 DEF AESStep
<1>3. AESInv => IsStandard
  BY AESInvImpliesIsStandard
<1>4. QED
  BY <1>1, <1>2, <1>3, PTL DEF AESSpec

-----------------------------------------------------------------------------
(* All of them side by side. *)

\* The wizard has a page only after it has been opened at a step.
NoPageWithoutStep == EngineInv /\ (step = 0 => page = 0)

LEMMA VisualsStage ==
    NoPageWithoutStep /\ [Next]_visualsVars => NoPageWithoutStep' /\ [StageNext]_stageVars
<1> SUFFICES ASSUME NoPageWithoutStep, [Next]_visualsVars
             PROVE  NoPageWithoutStep' /\ [StageNext]_stageVars
  OBVIOUS
<1>1. EngineInv /\ (step = 0 => page = 0)
  BY DEF NoPageWithoutStep
<1>2. CASE AboutWizard /\ SceneStep /\ UNCHANGED sandboxVars
  <2>1. [StageNext]_stageVars
    BY <1>2 DEF StageNext
  <2>2. EngineInv'
    BY <1>1, <2>1, EngineStepHolds
  <2>3. ASSUME step' = 0
        PROVE  page' = 0
    <3>1. CASE OpenWizard \/ LeaveWizard
      BY <3>1 DEF OpenWizard, LeaveWizard
    <3>2. CASE ChangeStep
      BY <2>3, <3>2, StepScenesAssumption DEF ChangeStep
    <3>3. CASE PageLoads \/ RouteFollows \/ FrameReplaced
      <4>1. place = "wizard" /\ step = 0
        BY <2>3, <3>3 DEF PageLoads, RouteFollows, FrameReplaced
      <4>2. visit # 0
        BY <1>1, <4>1, VizEngineAssumption DEF EngineInv, EngineType, Visits
      <4>3. QED
        BY <1>2, <4>1, <4>2 DEF AboutWizard
    <3>4. CASE UNCHANGED <<step, page>>
      BY <1>1, <2>3, <3>4
    <3>5. CASE \E v \in Visits : EngineReady(v) \/ EngineFails(v)
      BY <3>4, <3>5 DEF EngineReady, EngineFails, sceneVars
    <3>6. CASE ReducedMotion /\ UNCHANGED sceneVars
      BY <3>4, <3>6 DEF sceneVars
    <3>7. CASE \/ GenerateKey \/ RunAESAnimation \/ RunKeyExpansionAnimation \/ ResetMatrix \/ ResetWire
               \/ \E request \in generating : KeyGenerationFails(request)
               \/ \E i \in Pages : KeyPairGenerated(i) \/ SessionKeyGenerated(i)
               \/ \E i \in Pages : Encrypted(i) \/ RoundOutputs(i) \/ DelayOver(i)
      BY <3>4, <3>7 DEF GenerateKey, RunAESAnimation, RunKeyExpansionAnimation, ResetMatrix, ResetWire,
         KeyGenerationFails, KeyPairGenerated, SessionKeyGenerated, Encrypted, RoundOutputs, DelayOver
    <3>8. QED
      BY <1>2, <3>1, <3>2, <3>3, <3>5, <3>6, <3>7 DEF SceneStep, RunGoesOn
  <2>4. QED
    BY <2>1, <2>2, <2>3 DEF NoPageWithoutStep
<1>3. CASE AboutSandbox /\ ((EngineStep /\ UNCHANGED sandboxVars) \/ SandboxStep) /\ UNCHANGED sceneVars
  <2>1. page = 0
    BY <1>1, <1>3 DEF AboutSandbox
  <2>2. [StageNext]_stageVars
    BY <1>3, <2>1 DEF StageNext
  <2>3. EngineInv'
    BY <1>1, <2>2, EngineStepHolds
  <2>4. page' = 0
    BY <1>3, <2>1 DEF sceneVars
  <2>5. QED
    BY <2>2, <2>3, <2>4 DEF NoPageWithoutStep
<1>4. CASE UNCHANGED <<engineVars, sceneVars, sandboxVars>>
  <2>1. [StageNext]_stageVars
    BY <1>4 DEF stageVars
  <2>2. EngineInv'
    BY <1>1, <2>1, EngineStepHolds
  <2>3. QED
    BY <1>1, <1>4, <2>1, <2>2 DEF NoPageWithoutStep, sceneVars
<1>5. QED
  BY <1>2, <1>3, <1>4 DEF Next, visualsVars

\* The pictures side by side are behaviours of each of them: no step of one,
\* whatever the bounds on who acts, is anything but a step or a pause of the others.
THEOREM VisualsImplementTheParts ==
    Spec => StageSpec /\ BruteSpec /\ FlipperSpec /\ AESSpec
<1>1. Init => StageInit /\ InitBrute /\ InitFlipper /\ InitAES
  BY DEF Init, StageInit
<1>2. Init => NoPageWithoutStep
  BY EngineInitially DEF Init, InitScenes, NoPageWithoutStep
<1>3. [Next]_visualsVars => [BruteStep]_bruteVars /\ [FlipperStep]_flipperVars /\ [AESStep]_aesVars
  BY DEF Next, visualsVars
<1>4. QED
  BY <1>1, <1>2, <1>3, VisualsStage, PTL DEF Spec, StageSpec, BruteSpec, FlipperSpec, AESSpec

\* Whatever holds of the pictures one by one holds of them side by side.
THEOREM VisualsAreSafe ==
    Spec => [](/\ EngineReleased /\ OneClock /\ NoStrangerOnStage
               /\ StoredIsShown /\ MatrixIsCiphertext
               /\ CrackedIsTrue /\ CellsAreBits /\ IsStandard)
BY VisualsImplementTheParts, NoApplicationLeft, OneDriver, NoStranger, StorageFollows, MatrixFollows,
   FactorsAreTrue, CellsFollow, CipherIsStandard, PTL

=============================================================================
