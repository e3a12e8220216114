# CryptoVisual in TLA+

This directory models the program in this repository: a front end that walks a
user through a hybrid handshake (RSA, AES, envelope, wire, decryption), with its
cryptography in a web worker and its pictures on a PixiJS stage, and a back end
with a WebSocket gateway and a REST API.  The modules are translated from the
source under `cryptovisualback/src` and `cryptovisualfull/src`; TLC checks them on
small instances, and TLAPS proves some of the properties for every value of the
constants.

## 1. Inventory

### Components, their state and how they interact

| Component | State it keeps | Operations | Hard behaviour | What makes it correct |
|---|---|---|---|---|
| Rate limiter of the gateway (`websocket.gateway.ts`, `checkRateLimit`) | Map of token buckets by sender id | refill and charge per message; forget on disconnect | wall clock, caps, fractions, buckets deleted and made anew | in any window never more than the rate and a full bucket per disconnection; no refusal below the burst |
| Heartbeat of the gateway (`setupHeartbeat`) | per socket: `isAlive`, `missedPongs` | interval tick, pong, connect, close | pongs race with ticks; clients that fall silent | only silent sockets are cut, all of them are |
| Gateway (`websocket.gateway.ts`, `prometheus.service.ts`, `redis.service.ts`) | per process: Map of peers, buckets, gauges, Redis subscription | connect, handshake_init, relay, close, error, shutdown | several processes; late close events; lossy Redis; ids taken over | live registrations kept, dead ones and gauges as far as the handlers go; each message once, in order, by one route |
| REST services (`session`, `handshake`, `public-key-directory`, `audit`, `metrics`) and the HTTP layer in front of them | rows in PostgreSQL; hits per window of the rate limiter | calls of one or two statements, nightly purge | concurrent calls, read-modify-write, unique constraints, statements that fail | serial behaviour where promised, losses only where calls overlap, replies that tell the truth |
| Wizard (`handshake.machine.ts`, `wizard-provider.tsx`) | machine context, route, `sessionStorage` | NEXT, BACK, GO_TO, SET_*, RESTORE; mount, leave, reload, history | order of effects, saved and live state | no step skipped, no progress lost |
| Shell (`__root.tsx`, `handshake.tsx`, theme, speed, tutorial, step guide, service-worker notice, error boundary) | providers of the document and of the layout, `localStorage` | controls, keys, reload, an error in a page, retry, go home | what is mounted where when a page throws | choices survive; the wizard is not disturbed |
| Crypto step pages (`handshake.step-1..4,6.tsx`) and their widgets | per page: busy flag, copies of keys, `tampered`, `decryptedText`, questions, timers | buttons, effects of steps 4 and 6 | computations outlive their page and end in any order | the artefacts fit each other; pages come to rest; what is shown is what is used |
| Crypto worker and client (`crypto.worker.ts`, `worker-client.ts`) and the engines (`rsa.ts`) | Map of pending requests | request, answer, error, terminate | overlapping handlers, dead worker | each call settled once, with its own result |
| WebSocket client (`websocket.service.ts`) | Map of connections with their status, promises of `connect()` | connect, disconnect, socket events | `close()` is asynchronous, events find their connection by id | no orphan socket, status tells the truth |
| Wire simulation (`handshake.step-5.tsx`) | local run, `isAnimating` | run, reset | overlapping runs share connection ids; waits for messages | runs end, sockets are closed |
| Engine and canvas (`visualization-engine.ts`, `CanvasProvider.tsx`) | PixiJS application, ticker, GSAP's clock | init, destroy, speed | unmounted while `init` is suspended; two engines over one clock | nothing leaks, one clock |
| Scenes (`visualization/scenes`) on the pages | stage, one scene per page, animation under way | attach, update, animate, clear | late results and timers of pages that are gone | nothing of a gone page is seen; animations end |
| Sandbox (`BitFlipper.tsx`, `sandbox/bit-flipper.tsx`, `bit-flipper-scene.ts`) | ciphertext, matrix, cells, `sessionStorage` | generate, flip, reset, analyse, decrypt | initialisation left half-way; analysis while the user flips | matrix, storage, cells and counts agree |
| Brute-force panel (`BruteForcePanel.tsx`, its client and worker) | challenge, bar, result | start, progress, close | progress messages, boundary of the trial division | what is shown as cracked is |
| AES for the eye (`aes-visual.ts`) | none | key expansion, rounds | arithmetic written by hand | it is the standard's cipher |

The machine's context is the shared state of the front end: pages read it when
they render, start a computation with what they hold, and `send` the result to
the machine when it arrives, mounted or not.  Pages talk to the worker through
`CryptoWorkerClient`, and step 5 to the gateway through `WebSocketService`.
Pages of the wizard and the sandbox share GSAP's one clock.  Gateway processes
share nothing but the Redis channel `ws:message`, and the REST services nothing
but the database.

`PROJECT.json` lists every component with its status, and as "hazards" what in
this code is hard to test, each at its line.

### What models what

| Module | Models | Notes |
|---|---|---|
| `TokenBucket`, `RateLimiter` | `checkRateLimit` | the arithmetic apart, since `Gateway` uses it too |
| `Heartbeat` | `setupHeartbeat` | one tick of the interval is one step: the callback does not yield |
| `Connections` | limiter and heartbeat together | composes the two; they meet in the close event |
| `Gateway`, `MapOps` | the gateway's processes and Redis | one event handler is one step; `MapOps` holds the operations of a JavaScript `Map` |
| `HttpRoutes`, `RestCalls` | routes, DTOs, guard, limiter, filter; the calls under way | a call is one step per statement it awaits |
| `HandshakeStore`, `SessionStore`, `KeyDirectory`, `AuditTrail`, `MetricSummary` | the services over their tables | each EXTENDS `RestCalls`; a row is what the properties tell apart |
| `KeyRegistry` | what the key directory promises | abstract: registrations and revocations one at a time |
| `RestApi` | all services over one database | composes the stores, the cron job and the clocks |
| `Wizard` | the machine inside the provider | one event with the effects it causes is one step |
| `AppShell` | layout and document around the wizard | EXTENDS `Wizard` and implements it |
| `CryptoEngine` | `RSAEngine`, `AESEngine` | operators: what a key opens, where the tag of AES-GCM goes |
| `Envelope` | pages 1 to 4 and 6 over the machine's context | a computation holds a copy of what its closure captured; its end is a step of its own |
| `StepPages` | what those pages show, and their widgets | EXTENDS `Envelope` |
| `Rpc` | what the worker client promises its callers | the abstract specification |
| `CryptoWorker` | client, worker and the two message channels | implements `Rpc` |
| `WsClient` | `WebSocketService` and the browser's sockets | |
| `WireRun` | step 5 over `WsClient` and what the gateway does with a `handshake_init` | composes the two |
| `VizEngine` | engine, canvas provider, GSAP's clock | |
| `StepScenes` | the scenes of the pages of the wizard | EXTENDS `VizEngine` |
| `Sandbox` | the Bit Flipper of the sandbox | EXTENDS `VizEngine`, whose clock it shares |
| `BitFlipperPage`, `BruteForce`, `AESVisual` | the nested route of the sandbox, the panel of step 1, the cipher | independent of the rest |
| `Visuals` | the five above side by side | |
| `MC*` | instances for TLC | `Connections`, `Heartbeat` and `CryptoWorker` need none |
| `*Proofs` | theorems | |

Correspondence in short (every definition's lines are in `PROJECT.json`, "map"):
JavaScript `Map`s are functions on the keys they hold; `state`, `engine`,
`sock` and `scene` are the states of objects by name; a promise is the value of
`promise` or `state` of its call; a closure is a record in `jobs`, `call`, `run`
or `analysis`.  Operators marked "Mutant of" are not used by any specification:
they are wrong variants of the definition below them, kept to show that the
properties notice the difference.

Abstractions.  Time of the limiter is in ticks, in which the refill is a whole
number of tokens (the code's fractions are those of a finer tick).  The gateway's
Map is searched by socket for the *oldest* entry; the model takes *any* entry,
which only adds behaviours.  The two gauges move together and are one.  In the
wizard the four crypto results are one value, because the machine treats them
alike; `Envelope` takes them apart.  A word in `cv_theme` that is no theme stays a
word among the document's classes; a text with a space in it, which
`classList.add` throws at, is left out.  The percentiles of a summary come from a
histogram as `hdr-histogram-js` makes it with three digits: exact below 2048 ms,
in buckets of two, four, ... above, of which it answers the greatest value; its
average, a sum of floating-point numbers, is left out.  Keys are numbered by their generation, and
decryption succeeds exactly with the right keys, tag and an unaltered ciphertext
(an empty message has no byte to alter, so tampering with it changes nothing).
Effects of React run in the step that causes them, with one exception: a change
of the wizard's step is three commits in `StepScenes`, because clearing the stage
and attaching the scene are in different ones.  Rows of the audit log and metrics
are told apart by day and contents only, as bags.  The bytes of the cipher are
those of the code.

## 2. Checks

| Run | Asks | Instance | Distinct states |
|---|---|---|---|
| `connections` | `RateBound`, `RefusedOnlyWhenExceeded`, `TerminatedOnlyIfSilent`, `SilentIsReaped` | 1 peer, capacity 5, cost 2, refill 1, clock to 5; 2 sockets, the default of 2 missed pongs | 516,231 |
| `gateway` | `LiveRegistrationKept`, `ClosedSocketHoldsFewer`, `GaugeCoversConnections` | 1 process, 3 sockets, 2 ids, of which one socket uses both, 4 messages | 3,857,080 |
| `gateway_delivery` | `DeliveredOnce`, `PublishedIsDelivered` | 2 processes with a socket each and one id, 3 messages | 161,617 |
| `wizard` | `NothingSkipped`, `ChoicesSurvive`, `ProgressKept`, `ReturnRestores` | 6 steps, 2 speeds, 2 hints, 36 contents of `localStorage` | 30,928 |
| `envelope` | `EnvelopeOpens`, `StepFourWraps`, `BusyEnds`, `OnlyLateResultsMislead` | 1 RSA key, 2 AES keys, 2 texts, 2 computations, 1 failure | 232,219 |
| `wire_run` | `NoOrphanSocket`, `ConnectedIsOpen`, `NothingLeftOpen`, `WaitingEnds` | 2 runs, 4 WebSockets, failing network | 379,393 |
| `crypto_worker` | `PendingIsExact`, `KeepsPromise`, `CallsSettle` | 3 calls of every type | 419,123 |
| `rest_api` | `LossNeedsOverlap`, `TidyAfterPurge`, `DeletionsReported`, `SummaryFits`, `ValidBeforeExpiry`, `DirectoryIsSerial`, `RepliesMatchEffects` | 3 calls, 1 handshake, 1 session, 2 keys, 3 days, 1 failing statement of a purge | 268,756 |
| `visuals` | `CellsAreBits`, `EngineReleased`, `OneClock`, `NoStrangerOnStage`, `StoredIsShown`, `MatrixIsCiphertext`, `CrackedIsTrue`, `IsStandard`, `AnimationsEnd` | 2 visits, 2 pages, 2 stays in the sandbox, 2 runs of brute force, 2 mounts of the flipper | 781,179 |
| `heartbeat_missed`, `envelope_verified`, `wire_run_hangs` | what the repository says and the code does not do | the smallest instance | |

Each finishes within about three minutes with two workers.

A type invariant is stated in the modules with theorems, and proved
(section 3).  Deadlock is checked where the system never stops.  It is switched
off for `Gateway` (every process may be shut down), `CryptoWorker` (all calls made
and the worker terminated), `WireRun` (all runs started and ended), `RestApi` and
`Visuals`, whose bounded budgets of calls, days, visits and runs end there.

### Bounds

- **connections**: cost 2 does not divide capacity 5, so buckets run dry, refill
  partly and hit the cap; a window may start at any instant and go on over
  disconnections.  The clock does not step back: one that does takes tokens away.
  Sockets do not interact in the heartbeat, and each goes through all its counts.
- **gateway**: a client with two ids, one that takes over one of them, and one
  that reconnects while old events are due.  Redis is left to `gateway_delivery`,
  where a client may be on either process or move between them.
- **wizard**: all 6 steps, and in `localStorage` a valid speed, a wrong one or
  none, a theme, another word or none, the guide closed or not and the tutorial
  completed or not.  `AboutOne`: either the user has not gone past step 2
  and does everything the shell offers, or uses the whole wizard, with reloads,
  history and errors, and leaves theme, tutorial and speed alone.  The two meet
  in `localStorage` and in what is mounted only, and both parts cover those.
- **envelope**: 1 RSA key, 2 AES keys, 1 failure, 2 computations in flight when
  the user acts, an empty and another message: enough for a stale wrap, a late
  result, a retry and overlapping decryptions.  `AboutWidgets`/`WidgetsUntouched`:
  the widgets (questions, timers, size of the key) are used by a user for whom
  nothing fails and who makes each key once; in the other behaviours they stay as
  they come.  They read the pages' state and do not write it.
- **wire_run**: 2 runs with 2 sockets each, so that every connection id is
  connected again while the first run's events are due, on a network that fails.
- **crypto_worker**: 3 calls of every type: all orders of overlapping requests.
- **rest_api**: 3 calls over 2 windows of 2 calls each, so that one may be refused
  and any may overlap; a session that ends after 1 tick of 2; a purge on each of 3
  days, 1 of whose statements fails; any statement of a call may fail.  Durations of 0.4 ms, which
  rounds to 0, and of 2048 ms, the first that shares a bucket.  `OneConcern`:
  handshakes, sessions with their keys, and
  the audit trail share no row, so a behaviour is about one of them.
  `StopAtShown`: nothing follows a call that was refused or only shows rows.
- **visuals**: a behaviour is about one of wizard, sandbox, brute force, flipper
  and cipher (`AboutX`), except that the sandbox comes with visits to the wizard,
  whose engines change its clock.  2 visits, 2 mounts of a page, 2 stays: what is
  gone and what is in place.  `DecryptsAlone` keeps decryptions, which share
  nothing with matrix and clock, apart from the analysis.  Primes of 5 bits,
  bytes of 2 bits and 2 cells: the arithmetic of `BruteForce` and the scene does
  not depend on them.  Two primes of a challenge differ (`BruteForcePanel.tsx:28-31`),
  so twin primes are what brings the divisor next to the root.  The cipher
  runs the standard's example and another pair of key and block.

`EnvelopeOpens` needs the observer `spoilt`: if a key is generated again after
it was wrapped, or while it is being wrapped or used, nothing in the program
makes the envelope anew, and if the second encryption of step 4 fails, the
ciphertext of step 3 may be of an earlier key.  Three more observers let a
property say what the code does where it does not do what one would expect.
`StoredIsShown` demands what is shown, or, after a Bit Flipper that was left has
stored its ciphertext late (`disturbed`), exactly that text.  `MatrixIsCiphertext`
demands it of every byte, or, when the user has flipped bits during an analysis, of
those the analysis has passed (`kept`).  `GaugeCoversConnections` and
`ClosedSocketHoldsFewer` compare with the ids a socket has used (`named`).
`RateBound` counts over disconnections, since a client that returns finds a full
bucket (`websocket.gateway.ts:375`); the rate of one that keeps reconnecting is
bounded only by how fast it can.  `RepliesMatchEffects` looks at all the statements
of a call: one that fails has done nothing, and neither had those before it in any
call that is answered with an error.  `ValidBeforeExpiry` demands that the session
has not ended when "valid" is answered and that nobody was shown its end.
`DeletionsReported` speaks until a purge fails: deletions of a purge that fails
between its statements are in no report, and its counter `metricsPurged` is left
out.  `IsStandard` compares `encryptBlock` with the standard, and
the picture of step 3 with what it is: one AES round, on the text and
the key laid out by rows, without the first round key.  `LossNeedsOverlap` says when
a merge may be lost, since
`addMetadata` promises no more; `DirectoryIsSerial` is the refinement of
`KeyRegistry`, with the registrations of a row and those told that they revoked
it as the refinement mapping.

### Fairness

Never of the user, and never of a failure.

- `Heartbeat`: `setInterval` keeps firing, a destroyed socket emits `close`.
  Nothing makes a client answer or close.
- `Gateway`: what a process has received from Redis is handled, a connection
  that ends emits `close` (the library gives up waiting after a timeout), and
  `wss.close` calls back when no connection is left.  Redis may lose envelopes.
- `WireRun`: the browser ends every attempt to connect and fires the events that
  are due; a continuation whose promises are settled runs.  An open socket may
  stay open.
- `CryptoWorker`: the script loads or fails, handlers end, messages arrive.
- `Envelope`, `StepPages`: every computation ends (that is `Rpc`'s promise) and
  animations end (their delays are timers of GSAP, with a speed of at least 0.5).
  Failures are bounded: step 4 would otherwise retry for ever.
- `Visuals`: GSAP calls back what waits on it *while it is driven*; so the
  animations of step 3 (`RunGoesOn`) and of the sandbox (`AnalysisGoesOn`) go on
  under weak fairness only as long as an engine or GSAP's own ticker drives it.
  `AnalysisEnds` is about analyses of a matrix that is there, which something
  drives; a click on Analyze before that, or with nothing to drive it, leaves the
  button disabled until the user leaves the sandbox (section "Seen while modelling").

### What the violated properties show

- `heartbeat_missed`: `docs/archive/implementation-plan.md:136` says "force
  disconnect on 2 missed pongs"; the callback compares before it counts, and an
  open socket gets a third ping with two unanswered (`websocket.gateway.ts:107`).
- `envelope_verified`: after "Simulate Tampered Packet" and then "Retry
  Decryption", two decryptions are under way; if the tampered one ends last the
  page says "Integrity Verified: Message Authentic" above "[decryption failed]".
- `wire_run_hangs`: step 5 waits for a `handshake_init` at the responder; the
  gateway answers the initiator and forwards nothing, so the run never ends.

### Seen while modelling, without a run

Direct readings of the code, which need no search.

*Gateway.*  The gauges count a socket at connection but uncount it only if it
registered, so they can stay too high (`websocket.gateway.ts:165`, `:376`); a
socket that registers two ids leaves one behind when it closes (`:184`), or, when an
error comes first, is uncounted twice; a peer that reconnects starts with a full
bucket (`:375`); `onModuleDestroy`
closes registered sockets only, and an open one that never registered keeps
`wss.close` from calling back (`:123-133`); buckets of ids that never register
stay in the Map (`:178`); a wall clock set back drains the buckets (`:149`).

*REST.*  Overlapping `addMetadata` calls lose one of the merges
(`handshake.service.ts:79`; `docs/archive/sprint-6-completion.md:221` does not
expect it).  `validateChallenge` also turns a COMPLETED session into EXPIRED,
`completeSession` looks at neither status nor expiry, and `expireSession` and
`cleanupExpiredSessions` have no caller (`session.service.ts:66-110`).  A purge that
fails between its statements has deleted rows that nothing records
(`audit-retention.service.ts:31`).  `registerKey` writes the owner to `sessionId`,
a foreign key, so an owner that is no session is answered with 500.  A negative
duration of a metric makes `getSummary` throw; a percentile may be above the maximum
(2049 for a single 2048, `metrics.service.ts:92-105`), and so may the mean, by the
rounding of its sum.  `main.ts:17-25` allows 100 calls in
15 minutes, fixed, where `docs/deployment/production.md:353` says 100 per minute,
configurable.  The bodies of `addMetadata` and `validate` must repeat the id of
the path, which is the one used.  `getSession` answers 200 for a session that does
not exist, `getLogById` 400; a `limit` that is no number and a failing health check
are answered with 500.

*Wizard and shell.*  `beforeunload` removes the saved wizard state, so a reload
restores nothing (`wizard-provider.tsx:102`), and a return to the wizard loses the
typed message (`handshake.machine.ts:155`); back and forward in the browser change
the page but not the machine (`wizard-provider.tsx:108`), and Continue on such a
page moves the machine from its own step; the arrow keys move the wizard also while
the user types in step 2's input (`use-wizard-keyboard.ts`).  Dismissing the notice
of offline use takes back that of new content.  Hints 4 to 7 of the tutorial name
elements no page has.  Closing the guide of any step also keeps that of step 1
from opening.  A stored theme that is no theme is taken over with its class
(`ThemeProvider.tsx:23-31`), which stays beside the one the toggle sets until the
next load; one with a space in it makes the effect throw outside the error boundary.

*Crypto steps.*  "Retry Decryption" on a page that is not tampered clears the text
and decrypts nothing (`handshake.step-6.tsx:223`); before anything was decrypted,
and without keys, the page shows "Integrity Verified" with the typed message; its
widgets confirm a decryption that failed, and an empty message that was tampered
with.  A page 1 or 2 that was opened before a late result shows no key although
the machine has one.  A call to a worker whose script did not load stays open
(`worker-client.ts:47`), as do those under way at `terminate()` (`:222`).

*Wire.*  `disconnect` and `connect` for one id: the `close` event of the old
WebSocket, arriving afterwards, marks the new connection "disconnected" although
it is open (`websocket.service.ts:177`; the test
`websocket-reconnect.test.ts:143` delivers the event at once).  Nothing reconnects a
dropped WebSocket (`:176`), and `off()` does not remove a listener that `once()`
registered.

*Pictures.*  `clearScenes` also runs when the engine becomes ready and takes the
current page's scene off the stage (`routes/handshake.tsx:59`), as the blank
canvases of `docs/visual-inspection/visual-inspection-report.md:118` and `:270`
show; going to a step and quickly Back leaves the page without its scene.  Reset in
step 3 leaves `cancelled` set, and a later Play shows no grid.  After the last
engine is destroyed nobody drives GSAP (`visualization-engine.ts`), so an analysis
in the sandbox waits until the wizard is opened again.  The delays of the
key-expansion animation are given in milliseconds to a function that takes
seconds (`handshake.step-3.tsx:175`).  Step 3 lays text and key out by rows where the
cipher counts by columns, and its first round has no AddRoundKey before it
(`handshake.step-3.tsx:94-106`), so no state it shows is one of the encryption.  For
the avalanche it hands `runAESRoundOutputs` key and text in the other order than the
client declares (`handshake.step-3.tsx:122-129`, `worker-client.ts:196`), which makes
the bit it flips one of the key; a text shorter than 16 bytes ends the run at once,
since the matrix throws.  The Bit Flipper of the sandbox decodes a
hexadecimal ciphertext as base64 (`BitFlipper.tsx:103`) and passes no
authentication tag, so "Original Decryption" always fails, where
`docs/archive/implementation-plan.md:171` expects the text; what is restored has no
key to decrypt with; Analyze before the matrix is there leaves the button
disabled (`BitFlipper.tsx:136-137`); a Bit Flipper left while it generates stores its
ciphertext over the next one's (`:115`); an application still initialising is
not destroyed and stays live (`:119-121`,
`docs/visual-inspection/visual-inspection-report.md:289`), while the wizard's engine
is destroyed after the await.  On the route of the bit
flipper, clicks on cells do not update the count, so Decrypt stays disabled, and a
late verdict is about an older ciphertext.  A brute-force worker that failed is not
terminated.

## 3. Proofs

TLAPS checks every theorem to its leaves.

| Module | Theorems | Assumes |
|---|---|---|
| `RateLimiterProofs` | `TypeCorrect`, `AccountsInOrder`, `RateIsBounded`, `RefusalIsEarned`, `ConnectionsImplement` | capacity and rate are natural, cost is positive; the last three, a clock that does not step back |
| `GatewayProofs` | `TypeCorrect`, `LiveRegistrationsKept`, `NoDeadPeers`, `GaugesCover`, `DeliveredAtMostOnce` | those of `TokenBucket`, and that `Home` and `Ids` are defined for every socket; `GaugesCover`, finitely many sockets |
| `SocketProofs` | `HeartbeatTypeCorrect`, `OnlySilentTerminated`, `SilenceBounded`; `ClientTypeCorrect`, `NoneOrphaned`, `StatusIsTrue`, `RunsCleanUp` | `WS_MAX_MISSED_PONGS` is natural; the two connection ids differ and are all there are |
| `WizardProofs` | `TypeCorrect`, `StepsInOrder`, `ProgressIsKept`, `ReturnIsFaithful`; `ShellImplementsWizard`, `ShellStepsInOrder`, `ShellReturnIsFaithful`, `ChoicesSurviveAlways` | there is a step; the speeds the slider can be moved to are in its range, there is at least one hint, and an absent item of `localStorage` is no speed and no theme; nothing of what is stored at first |
| `EnvelopeProofs` | `EnvelopeIsSound`, `OnlyLateResults` | none |
| `CryptoWorkerProofs` | `TypeCorrect`, `MapIsExact`, `Implements` | none |
| `RestProofs` | `RestInvHolds`, `MergesAreLostToOverlapsOnly`, `PurgeLeavesNothingOld`, `EveryDeletionIsReported`, `SummariesFit`, `ValidChallengesAreInTime`, `DirectoryImplementsRegistry`, `RepliesAreTruthful` | lifetimes of sessions, retention and durations are natural; key texts are none of the words the services answer with |
| `StageProofs` | `NoApplicationLeft`, `OneDriver`, `NoStranger`, `StorageFollows`, `MatrixFollows`, `FactorsAreTrue`, `CellsFollow`, `CipherIsStandard`, `VisualsImplementTheParts`, `VisualsAreSafe` | `MaxVisits`, `MaxPages`, `MaxStays`, `MaxRuns`, `MaxMounts` and `AtRandom` are natural, the places of `Cells` are natural numbers, `ProgressEvery` and `Width` are positive, ciphertexts are sequences of bytes of `Width` bits, steps are among 1 to 6, a cipher's input is a key of 32 bytes and a block of 16, and the S-box of the source is the table its definition gives (`SBOXAssumption`: a closed formula, which TLC evaluates for all 256 bytes) |

The assumptions on constants are the named ASSUMEs of the modules, which TLC
evaluates in the runs.

- *Rate limiter.*  `RateBound` counts the messages of a window; what makes it
  inductive is an account of the bucket: what the window has admitted, plus what
  the bucket holds now, is at most a full bucket, the refill since the start
  of the window, and a full bucket for each one deleted in it.  A refill moves both
  sides, capped on the left only; a message moves its cost from the bucket to the
  count; a bucket that is deleted counts as a full one until it is made again.  The
  burst has the mirror account.  `Connections` implements limiter and heartbeat, so
  the theorems of both hold of what the run checks (`ConnectionsImplement`).
- *Gateway, registrations.*  `LiveRegistrationKept` needs little: a close event
  takes away entries of its own socket only, and that a registrant has been
  connected, so no connection makes an old registration live (`RegistryInv`).
  `ClosedSocketHoldsFewer` is kept because an end of a socket removes one entry if
  there is any, and every entry was named; of a client with one name nothing is left.
  The gauges are compared with all sockets they have still to take back, the
  unregistered ones that may yet register included (`Owed`): a registration then
  moves nothing, and a second decrement can only be for a socket with several names,
  one of which the first left in the Map (`ManyNamed`).
- *Gateway, delivery.*  Numbers on their way to a process ascend and are above
  what its sockets have from other processes (`BusAscends`, `BusAfterInbox`): hence
  order, and no message twice on one process.  What was written directly is on no
  queue, and an envelope names the process of its sender, which skips it
  (`DirectStaysHome`, `OwnEnvelopes`): hence one route.  Nothing in this asks
  whether an envelope arrives.
- *Heartbeat.*  An open socket has as many unanswered pings as `missedPongs`,
  plus one if a ping is under way (`~isAlive`); both counts start again with a
  pong.  From this, the test in the tick fires at exactly
  `WS_MAX_MISSED_PONGS + 1` unanswered pings.
- *Wizard.*  `InOrder` must hold of the saved context as well as of the live
  one, and while the wizard is open, or closed with something saved, the saved
  context agrees with the live one.
- *Shell.*  Every step of the shell is one of the wizard or leaves it alone, so
  `ShellSpec => Spec`, and the wizard's theorems hold in it.  `ChoicesSurvive` is
  not inductive: while the wizard is unmounted nothing on the page shows what was
  chosen, so the invariant (`ShellInv`) says what `localStorage` holds meanwhile,
  and that what a mounted layout shows is stored.  It starts from any content of
  `localStorage`; what a provider makes of a wrong one is stored again or, of a theme,
  kept out of the two it styles.
- *Crypto worker.*  `Phase` maps the state of client and worker to that of `Rpc`:
  a pending call is computed ("ready" or "broken") once its response is posted, and
  abandoned once its id has left the client's Map.  The invariant (`WorkerInv`): an
  id is in one place at most, in the requests, in a handler or among the answers;
  every answer carries the result of its own request and the type its caller
  expects.  From this a handler that ends is a `Compute` of `Rpc`, a message that
  arrives an `Answer` or a `Fail`, `onerror` and `terminate()` are a `Stop`, and
  every other step is a `Request` or a stutter.
- *Wire.*  The status of a connection can be set by events of WebSockets it has
  replaced.  That this never makes it look connected rests on what `close()` does:
  a WebSocket that was replaced never fires `open`; the invariant (`WireInv`) has
  each entry of the Map lead to a WebSocket of its own that was made for it, and
  whatever is open or connecting be reachable that way.
- *Stage.*  `StageSpec` composes `StepScenes` and `Sandbox` over the engine's
  variables: `Visuals` without the modules that share nothing with them, and
  without its bound that a behaviour is about one of its parts.  `EngineInv`: an
  engine is destroyed exactly when its provider is gone, so the check of `destroyed`
  after the await tells the two cases apart; and while no engine is ready GSAP is
  driven by its own ticker or by nothing, so one that becomes ready is alone.
  `SceneInv`: only the scene of the page in place has anything in its root; late
  results may put an old root back on the stage, but an empty one.
- *Sandbox.*  The texts themselves are the invariant (`SandboxInv`), with what an
  analysis under way has captured: it is the ciphertext shown, or else no byte it has
  yet to come to is among those the matrix is compared at (`AnalysisCaptured`); and
  what was stored last by a Bit Flipper that is gone is its fresh text
  (`StoredByGone`).
- *Brute force.*  That the least divisor above one of a product of two primes is
  the smaller of the two takes Euclid's lemma, and that an induction: each time the
  least number of a set (`LeastNumber`, from the well-foundedness of `<`) stands in
  for it.  The invariant (`BruteInv`) is about what the worker has still to say: a
  run that goes on ends with the factors of the number that is shown, and only the
  last run goes on.
- *Bit flipper.*  A cell shows the bit of the text at its place (`SceneOK`): adding or
  taking the weight of a bit changes this bit of its byte and no other (`AddedBit`),
  for of two powers of two the lower divides the higher an even number of times
  (`PowersDivide`), and so a flipped cell and a flipped byte stay in step, for one bit
  (`FlipBitKeeps`) and for any set of them (`FlipBitsKeeps`, along the subsets of the
  set, in whatever order the fold takes them).  The invariant (`FlipperInv`) adds that
  there is a scene only while the page in place is ready, and that what the page has
  counted is what is flipped, unless a cell was clicked since.
- *Cipher.*  Each of the eight passes of `gmul` doubles its factor in the field
  (`DoubledIs`), so by 1, 2 and 3 it multiplies as the polynomials do (`TimesIs`).
  The key schedule is a recursive function; that it exists, is of bytes and is the
  standard's is an induction over its words, made with the set of the numbers
  reached so far (`CountedInduction`).  The scene keeps a block by rows where the
  cipher counts by columns, and each of its steps is the standard's seen that way
  (`ShiftRowsIs`, `MixColumnsIs`, `EncryptRoundIs`).  The invariant (`AESInv`): the
  round keys are a schedule of the standard for the key at hand, the state is the
  standard's after as many rounds, what `runRound1` made of the first round is what
  the cipher made of it, and the picture is the round `AnimatedRoundIs` says: the
  standard's operations on the text and the key read by rows.
- *Side by side.*  Every step of `Visuals` is a step of each of its parts or leaves
  it alone; for the pages this needs that one is open only after the wizard came to
  a step (`NoPageWithoutStep`).  So `Visuals` implements `StageSpec`, `BruteSpec`,
  `FlipperSpec` and `AESSpec`, and has all their invariants (`VisualsAreSafe`).
- *Envelope.*  What a job's closure captured is what counts (`EnvelopeInv`).  Unless
  a key was replaced while something made with the old one was in use (`spoilt`),
  every job that wraps or encrypts still holds the machine's keys, a wrapped key in
  the machine is made of both its keys, and the ciphertext beside it opens with its
  AES key, except while an encryption of step 4 is under way (`Sound`).  A job that
  is the open page's own is of the kind that page starts (`JobOK`).
- *Pages.*  From the same invariant, step by step: a page copies the machine's key
  when it opens, and afterwards both change together, in the end of the page's own
  job; the one other way to change the machine is the end of a job of a page that
  is gone.
- *REST.*  `CallsOK` is about the calls alone: two that wait know that they overlap,
  and so a call that was suspended while a row changed overlaps with the one that
  changed it.  `MergesKept`: what a merge wrote is in the row and in what every merge
  under way has read of it, or was written again, or overlaps with it; a merge that
  writes back what it has read keeps the others that way.  `ExpiryOK`: only an end
  that has passed is shown as expired, and the end of a session does not change.  The
  mapping to `KeyRegistry` takes the rows held and who revoked each; a registration
  is its `Register` in the statement that inserts, a revocation its `Revoke` in the
  one that updates, every other step a stutter.  Rows and durations are summed by
  the folds of the community modules; that such a sum exists, takes its elements in
  any order and splits is proved by the well-foundedness of the subsets of a finite
  set (`SubsetInduction`), a set of good subsets standing in for the predicate of an
  induction.  `AccountsOK`: the tables are finite, the job has counted nothing before
  its first statement, and no row is lost without a report.  For the replies every answer is
  followed from its handler through the table of routes to its status, and only calls
  that are done have changed a table: no statement comes after one that changes any
  (`RepliesOK`).

Only model-checked: every liveness property and the fairness in them (TLAPS here has
no rules for `ENABLED`), which are `SilentIsReaped`, `PublishedIsDelivered`,
`StepFourWraps`, `BusyEnds`, `WaitingEnds`, `CallsSettle` and `AnimationsEnd`.  That the
256 numbers of the S-box in the source are those of its definition is evaluated by TLC
(`SBOXAssumption`), and the proof of `CipherIsStandard` takes it from there.

## 4. Not modelled

- Vendored and generated code: the service worker library in `dev-dist`, a quarter
  of all lines that count as implementation, the builds in `dist`, and
  `routeTree.gen.ts`.
- Presentation: what components render, geometry, colours, tones and texts, the
  landing page, i18n, accessibility announcements.  Configuration, scripts and the
  wiring of NestJS modules.
- Code no part of the program uses, and whose states it therefore cannot be in:
  `EnvelopeScene`, `WireScene`'s packets, `PanZoomController`, `SceneManager`,
  `useSceneStatus`, `NarratorOverlay`, `CanvasFallback`, `PerformanceSlider`,
  `LoggingInterceptor`, the response decorators, `expireSession`,
  `cleanupExpiredSessions`, `sendTo` and `broadcast` of the gateway.
  `sandbox/bit-flipper.tsx` is modelled as written although `/sandbox` renders no
  `Outlet` for it today.
- Of the gateway: `verifyClient`, the lifecycle events it emits to nobody the
  repository shows, and latency histograms.  Of the REST services: the contents
  of queries.  Of step 5: the messages after the await that never ends.
- What `crypto.subtle`, PixiJS, GSAP, PostgreSQL, Redis, `ws` and the browser do
  inside; they are modelled by how the code uses them.

## 5. Plan

Everything the first plan named is modelled, and every safety invariant, action
property and refinement a passing run checks is proved, of the specification that run
checks.  What is left is out of the prover's reach: liveness stays with TLC, on the
instances of section 3's runs, and would need a prover with rules for `ENABLED`.
