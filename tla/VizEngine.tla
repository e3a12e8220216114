------------------------------- MODULE VizEngine -------------------------------
(***************************************************************************)
(* The visualization engine, the CanvasProvider that owns it, and the one  *)
(* clock of GSAP they share with every other page.  Each time the user     *)
(* opens the wizard a provider is mounted and makes an engine; init()      *)
(* suspends while PixiJS looks for a renderer, and the provider may be     *)
(* unmounted, and so the engine destroyed, before it goes on.              *)
(***************************************************************************)
EXTENDS Naturals, FiniteSets

CONSTANTS MaxVisits   \* bound: times the user opens the wizard

ASSUME VizEngineAssumption == MaxVisits \in Nat

VARIABLES place,    \* where the user is: "elsewhere", "wizard" or "sandbox"
          visit,    \* providers mounted so far; the last engine is engine[visit]
          engine,   \* visit -> its engine
          drivers,  \* who calls gsap.updateRoot: GSAPTicker or applications
          reduced   \* does the user prefer reduced motion?

engineVars == <<place, visit, engine, drivers, reduced>>

Visits == 1 .. MaxVisits

\* gsap.ticker, which drives GSAP until an engine takes over.
GSAPTicker == 0

NoEngine == [init |-> "none", destroyed |-> FALSE, app |-> "none"]

InitEngine ==
    /\ place = "elsewhere"
    /\ visit = 0
    /\ engine = [v \in Visits |-> NoEngine]
    /\ drivers = {GSAPTicker}
    /\ reduced \in BOOLEAN

\* The wizard is open and its provider holds an engine that is ready.
HasEngine == place = "wizard" /\ engine[visit].init = "done"

\* engine.setSpeed(reduced ? 0 : speed), which stepForward() leaves as it is.
TimeScale == IF reduced THEN 0 ELSE 1

\* The effect of CanvasProvider: a new engine, whose init() reaches its await.
MountProvider ==
    /\ place = "elsewhere"
    /\ visit < MaxVisits
    /\ place' = "wizard"
    /\ visit' = visit + 1
    /\ engine' = [engine EXCEPT ![visit + 1].init = "pending"]
    /\ UNCHANGED <<drivers, reduced>>

\* Mutants of InitResolves: it does not look at `destroyed' again, or leaves
\* GSAP to its own ticker as well.
InitResolvesRegardless(v) ==
    /\ engine[v].init = "pending"
    /\ engine' = [engine EXCEPT ![v].init = "done", ![v].app = "live"]
    /\ drivers' = (drivers \ {GSAPTicker}) \cup {v}
    /\ UNCHANGED <<place, visit, reduced>>
InitResolvesBeside(v) ==
    /\ engine[v].init = "pending"
    /\ IF engine[v].destroyed
       THEN /\ engine' = [engine EXCEPT ![v].init = "dropped", ![v].app = "destroyed"]
            /\ UNCHANGED drivers
       ELSE /\ engine' = [engine EXCEPT ![v].init = "done", ![v].app = "live"]
            /\ drivers' = drivers \cup {v}
    /\ UNCHANGED <<place, visit, reduced>>

\* app.init() resolves.  An engine destroyed meanwhile destroys the
\* application at once; any other takes GSAP over from its ticker.
InitResolves(v) ==
    /\ engine[v].init = "pending"
    /\ IF engine[v].destroyed
       THEN /\ engine' = [engine EXCEPT ![v].init = "dropped", ![v].app = "destroyed"]
            /\ UNCHANGED drivers
       ELSE /\ engine' = [engine EXCEPT ![v].init = "done", ![v].app = "live"]
            /\ drivers' = (drivers \ {GSAPTicker}) \cup {v}
    /\ UNCHANGED <<place, visit, reduced>>

\* app.init() rejects, for want of WebGL: the provider logs it and goes on
\* without an engine.
InitRejects(v) ==
    /\ engine[v].init = "pending"
    /\ engine' = [engine EXCEPT ![v].init = "failed"]
    /\ UNCHANGED <<place, visit, drivers, reduced>>

\* engine.destroy(): before init() is over the application has nothing to
\* destroy and throws, which is swallowed; later its ticker goes with it, and
\* nobody hands GSAP back to its own.
Destroyed(e) ==
    [e EXCEPT !.destroyed = TRUE, !.app = IF @ = "live" THEN "destroyed" ELSE @]

\* The cleanup of CanvasProvider, when the user leaves the wizard.  (A link
\* straight to the sandbox is this and the mount of the sandbox in one go.)
UnmountProvider ==
    /\ place = "wizard"
    /\ place' = "elsewhere"
    /\ engine' = [engine EXCEPT ![visit] = Destroyed(@)]
    /\ drivers' = drivers \ {visit}
    /\ UNCHANGED <<visit, reduced>>

\* The user changes the reduced-motion setting; the layout's effect passes it
\* on to the engine.
ReducedMotion ==
    /\ reduced' = ~reduced
    /\ UNCHANGED <<place, visit, engine, drivers>>

EngineStep ==
    \/ MountProvider \/ UnmountProvider
    \/ \E v \in Visits : InitResolves(v) \/ InitRejects(v)

-----------------------------------------------------------------------------

\* The application of an engine of the wizard, with its canvas, renderer and
\* ticker, lives only as long as the provider that made it is mounted, wherever
\* between the steps of init() and destroy() the user leaves and returns.  (The
\* Bit Flipper of the sandbox makes an application of its own, outside the
\* engine, and does not keep to this.)
EngineReleased ==
    \A v \in Visits : engine[v].app = "live" => place = "wizard" /\ visit = v

\* GSAP is driven once at most, and by the engine of the wizard whenever there
\* is one: neither by two, each with a time of its own, which two visits could
\* lead to, nor not at all while a page of the wizard waits for an animation.
OneClock ==
    /\ Cardinality(drivers) <= 1
    /\ HasEngine => drivers = {visit}
=============================================================================
