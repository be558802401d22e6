# Sweet Home launcher: TLA+ specifications, model checking and proofs

This directory holds the formal development for the launcher: an Android
application (`app/`, Kotlin) that plays one NES game through LibretroDroid
(`libretrodroid/`, Kotlin, Java and C++), which loads a libretro core, runs it
frame by frame on a GL thread and plays its sound through oboe.

`PROJECT.json` lists the components, the runs, the theorems, the hazards and,
for every definition that models code, the lines it stands for.

## 1. The system

| Part | State it keeps | Operations | Talks to |
|---|---|---|---|
| `GLRetroView` | `isGameLoaded`, `isEmulationReady`, `isAborted`, the lifecycle | lifecycle handlers, `runOnGLThread`, key, motion and touch input, the `Renderer` callbacks | main thread, GL thread, the engine through JNI |
| Engine (`libretrodroid.cpp`) | the singleton's `core`, `video`, `audio`, `fpsSync`, `input`, `rumble` | create, load, resume, step, pause, destroy, serialize, reset | all the native parts |
| `GameActivity` | rewind buffer, jobs, switches, dialogs, files | lifecycle, save and load dialogs, quicksave, rewind, power-off, Konami code | view, file system |
| `MainActivity` | files on disk | new game, continue, load, test ROM | starts `GameActivity` |
| Audio (`audio.cpp`) | stream, FIFO, controller | write (GL thread), callback (oboe thread), start/stop (main thread), reconnect (error thread) | oboe |
| Frame pacing (`fpssync.cpp`) | `lastFrame` | advanceFrames, wait | clock |
| Environment (`environment.cpp`) | variables, controllers, geometry, rotation, rumble | the core's callback, the getters and setters of the UI | core, engine |
| Input (`input.cpp`, `GamepadsManager`) | pressed keys and axes of four pads | key and motion events, `getInputState` | view, core |
| VFS, microphone | descriptors, input stream | the core's interfaces | core |
| Video (`video.cpp`, renderers, shaders) | textures, framebuffers, shader chain | onNewFrame, renderFrame, updateProgram | GL |

Three threads matter. The *main thread* runs the activity, the dialogs, the
coroutines and the lifecycle. The *GL thread* of `GLSurfaceView` serves a queue
of blocks, the surface and the frames. oboe's *callback and error threads* feed
the speaker and reopen a stream that was lost. The main thread blocks on the GL
thread in four ways: a latch (`runOnGLThread`), `onPause()`/`onResume()`, the
surface callbacks, and the exit of the thread when the view is detached.

What is hard: the engine objects are a singleton with no lock, created and
destroyed on the main thread and used on the GL thread; everything depends on
the order of a few calls in the lifecycle handlers, on where the GL thread
serves its queue, and on flags that one thread sets for the other.

## 2. The modules

### RetroSession: one session

State. `act` is the lifecycle of the activity. `ui` and `gl` are the calls in
which the two threads are: `"idle"` and `"loop"` mean back in the looper or in
the drawing loop, any other value a call in progress, so that the steps of the
other thread fall in the middle of it. `latch`, `posted`, `menu` and `scope`
are the pending latch, the pending `addObserver` message, an open dialog or
drawer, and `mainScope`. `observer`, `isGameLoaded`, `isEmulationReady`,
`isAborted` are the view's fields. `core`, `video`, `fpsSync`, `audio`,
`input` say which objects of the engine exist (and whether the core has its
game and the stream is started). `evq` is the queue of `GLSurfaceView`: `"op"`
for a block of `runOnGLThread`, `"key"` for a key event. `requestPaused` to
`context` are the fields of its thread. `proc` records the end of the process,
`"nullEngine"` being a call into an engine object that is not there.

Actions. One per handler, split only where the handler waits or where the other
thread may interleave: `Pause` clears `isEmulationReady` and asks for the pause,
`PauseAcked` is the return of `onPause()`, `PauseNative` is
`LibretroDroid::pause`, `Autosave` the block that `Activity.onPause` queues.
`EngineCall` stands for every caller of `serializeState`, `unserializeState`
and `reset` on the main thread (the rewind tick, saves, loads, restores).
`Create` covers a core that cannot be opened and one that is refused for its GL
version; `LoadGame` a game that is refused.

External. `GLSurfaceView` and the order of lifecycle callbacks are not in the
repository. They are modelled by the contract the code relies on: the event
queue is served before anything else, even while paused; `onPause()` returns
when the thread has acknowledged; `surfaceDestroyed()` when it has released the
surface; a detach when it has exited. A session may end and another begin in the
same process, after the view of the first one is detached; two live views at
once are not modelled (section 7).

Abstractions. `GLBeginPass` needs a surface, no pause requested and no
context lost; the reason a context is lost (`GLLoseContext`) is left open. A
size change may come with any pass. Motion events behave as key events.

Properties of waiting. `NoMutualWait` says that while the main thread waits in
vain the GL thread is inside a call or has something to attend to; `WaitShrinks`
that every step, of either thread, of the user or of the system, then lowers
`Work`, the number of steps the GL thread has before it. `runOnGLThread` waits on
a latch without a timeout, so that one block too many, or a pass that began again,
would show there. `PlaysInFront` is the other direction of `QuietWhenPaused`: a
loaded game in front has been resumed, however late the load was.

`CoreContract` is the abstract specification of what a libretro core is called
for: `phase` is closed, open or with a game, `calls` the calls in progress, one at
a time and each in a phase that allows it. `ImplementsContract` maps a session to
it: `CorePhase` is `core`, and `CoreCalls` says at which points of the two threads
a call into the core is in progress. What the program does and a core has to bear
is part of the contract: states are asked for, and `retro_unload_game` is called,
also when no game was accepted.

`MCRetroSession` is the instance that TLC runs; the configurations give it
their bounds.

### Rewind: the rewind buffer and its jobs

State. `now` is the state of the game, a record `[era, at]`: how many
restorations and resets came before, and the moment of the game. `rewindBuffer`,
`rewindEnabled`, `rewindBufferMaxDurationSec` are the fields of `GameActivity`;
`pressed` and `job` the button and `rewindProgressiveJob`; `restoring` says that
the activity was started with a state to restore; `saved` holds what the save
files hold. `era` and `restored` are history variables.

Actions. `Record` is one turn of `rewindJob` between two `delay()`s,
`RewindStep` one turn of the progressive rewind, so that any other step of the
main thread falls between two turns. `Press`, `Release`, `SetRewindEnabled` and
`SelectDuration` are the listeners. `Restore` (at most one per activity) clears
the buffer, `QuickLoad` stands for every other load, which does not.
`Unserialize` may fail: the code ignores what `unserializeState` answers.
`Play` is the game itself (external); `Record` may happen without `Play`, as it
does while a dialog has paused the view.

### BoundedQueue and AudioFifo: the samples on their way to the speaker

`BoundedQueue` is the abstract specification: a writer offers a block, of which
what finds room is committed; a reader takes what there is, fills up with
silence and gives the room back later. Samples are numbered in the order in
which the game made them.

`AudioFifo` is the code: `Audio::write` on the GL thread, `Audio::onAudioReady`
on oboe's callback thread, and `oboe::FifoBuffer`, with two counters and no
lock. `WriteBegin`, `WriteCopy`, `WriteEnd` are the parts of a call to
`FifoBuffer::write`: reading the counters, the `memcpy` (one sample at a time),
`advanceWriteIndex`. `ReadBegin`, `ReadCopy`, `ReadEnd` are those of `readNow`;
the zeros of an underrun go with the last, since only the callback sees them.
The parity of a sample's number is its channel. `ImplementsQueue` is the
refinement: what lies between the two counters, less what a read in progress
took, is the abstract queue.

Abstractions. The counters are 64-bit atomics and do not wrap in practice: they
are natural numbers, read and written in program order (the acquire and release
operations that oboe uses). How many frames the callback takes comes from a
floating-point controller and is any member of `ReadFrames`. The temporary
buffer and the resampler are not modelled; the life of the stream is the matter
of `AudioStream`.

### AudioStream: start, stop and reconnection

State. `stream` is what the member refers to (nothing, a stopped or playing
stream, one that was lost); streams are numbered, and `fifoBuffer` and
`latencyTuner` hold the number of the stream they were made for, 0 for a null
pointer. `main` and `error` say at which access the two threads are. Actions are
single accesses to shared members: `Start`/`StartStream` and `Stop`/`StopStream`
are `Audio::start` and `stop`, `Disconnected` is the loss of the device, and
`OpenSucceeds` to `StartAgain` are `onErrorAfterClose` with `initializeStream`,
in the order of the code, for an opening that works and one that fails.
`overtaken` marks a `stop()` between the error thread's test of `startRequested`
and its start of the stream. One disconnection is handled at a time. `TypeOK` carries
the bound that makes the numbers mean something: however many streams come and go,
the ring is never more than one stream behind the one in use, nor is the tuner
unless it is gone.

### SaveStates: the game between two sittings

State. A state of the game is a number; `game` is the one in the core.
`autosave` and `slots` (0 is the quicksave) are the files, any of them `Torn` when
the process died while it was written; `rank` is their order of modification.
`intent`, `bundle`, `posted`, `menuDue` are the extra of the activity, its saved
instance state, the restorations waiting in `retroView.post`, and the menu that
waits for the first frame. `dialog`, `recent`, `fading` are the dialogs: which one,
the `lastFile` of the load dialog, the slots fading out before deletion. `act` is the
lifecycle of the activity and `viewPaused` says that the view stands still;
`rewinding` that the activity was paused with the rewind button held, and that its
job still runs. Two history variables: `left` is the state the player last left,
when the program had it whole; `strayed` says whether a coroutine of `mainScope` has
moved the game since the last pause, and if the first time was before
(`"paused"`) or behind (`"stopped"`) `onSaveInstanceState`.

Actions. `NewGame`, `Continue`, `LoadMenu` are the buttons of `MainActivity`;
`Pause` is ON_PAUSE with `onPause`, `Stop` is `onStop` with `onSaveInstanceState`,
later, so that the looper runs in between; `Back`, `Finish`, `PowerOff`, `Rotate` are
whole chains of lifecycle handlers (a relaunch is one message of the looper).
`FirstFrameMenu` (the collector of `open_load_menu`) and `RewindTurn` (a turn of the
rewind button's job) are coroutines that live until `onDestroy`, and need no
activity in front. `KilledAndBack`, `Killed`, `KilledPausing`, `KilledSaving` are deaths of
the process, in the background or in the middle of a write. `GameLoaded` and
`Restore` come in any order, as they do between the GL thread and the looper. The
rest are the buttons of the screen and of the dialogs, which need the activity in
front but, as in the code, no loaded game.

Abstractions. The engine calls are atomic here (`RetroSession` shows how they
reach the GL thread). `Rotate` waits for a posted restoration, since what is
posted to a view that is gone has no effect on its successor. A turn of the rewind
takes any state made so far: which one is the matter of `Rewind`. Not modelled: the
pictures of the slots, the test ROM, `save_file`, the drawer.

### Services and its six parts

`Services` puts six small state machines next to each other. They share no
variable, so no interleaving of two of them tells anything: `focus` is chosen in
the initial state and only the part it names moves; the others stay in one quiet
initial state. The theorem `Composition` says that each part behaves in
`Services` as its own specification allows.

- `FrameSync` (`fpssync.cpp`, the loop of `LibretroDroid::step`): the clock,
  `lastFrame`, the frames due, the loop, the sleep, resume and pause. `origin`,
  `granted`, `steppedAt` are history. Time is in ticks, and two reads of the clock
  in a row are one.
- `CoreOptions` (`environment.cpp`): the map of options and its flag, written on
  the main thread and read on the GL thread, one access at a time, with
  `SET_VARIABLES`, `GET_VARIABLE` and `GET_VARIABLE_UPDATE`.
- `FrameEvents` (`environment.cpp`, `rumble.cpp`, the rest of `step` and of its JNI
  function): rumble, rotation and geometry from the core to the view, in the order
  of a step, while the main thread may switch rumble at any point.
- `Controls` (`GameActivity.handleKeyEvent`, `input.cpp`): fingers, the queue to the
  GL thread, the set of pressed keys across pauses; the sliding window of the
  Konami code and its dialog, which may also fail to show (`thrown`). `early` is
  history: the keys pressed before the last resume and not lifted since, which the
  new `Input` object cannot know of.
- `Vfs` (`vfs/vfs.cpp`, `VFSFile`): the table of file descriptors of the process,
  who owns which number, and the two places where a number is closed twice.
- `ShaderChain` (`libretrodroid.cpp`, `video.cpp`, the OpenGL ES 3 renderers): the
  configured, the requested and the loaded shader, the chain, the framebuffers and
  their sizes. `SetConfig` and `TellVideo` (or `NoVideo`) are the two statements of
  `setShaderConfig` on the main thread, `BuildVideo` and `AssignVideo` what
  `onSurfaceCreated` does on the GL thread, for every new surface: between the two
  the new `Video` has its copy of the configuration and is not yet found by
  `if (video)`. That the main thread may be inside `updateShaderType` when the GL
  thread drops the old `Video` is left out: a shader is told in one step.

The application uses neither virtual files, nor a change of shader while it runs,
nor `setFrameSpeed`, nor rumble events: these are features of the library
that the repository also holds, modelled as the library offers them.

Several of the properties except a situation that a history variable recognises,
because the code loses in it what the property promises: `overlooked` (a flag
raised between the two accesses of `GET_VARIABLE_UPDATE`), `overwritten` (an
option chosen while the core declares it), `dismissed` (the Konami dialog left
with the back button leaves `konamiActivated` set), `raced` (a descriptor opened
between the two closes of its number), `torn` (a shader set between the two
reads of `updateProgram`) and `missed` (one set while a new `Video` is being built,
of which nobody is told). In `SaveStates`, `strayed` is of this kind, and `left`
where it is `Unknown`. Without its exception TLC refutes each of them.
`early` is of the same kind: a finger that stays down across a pause and a
resume presses nothing in the new `Input`. `heard` and `renewed` only say when
there is something to promise: both tests of `rumbleEnabled` in a step found it
set; a frame was drawn since the `Video` was told of a shader.

## 3. The runs

| Run | Question | Bounds |
|---|---|---|
| `session_safety` | `TypeOK`, `NoNullEngine`, `EngineExclusive`, `QuietWhenPaused`, `PlaysInFront`, `LoadOnce`, `NoMutualWait`, `WaitShrinks`, `ImplementsContract`, `IInv` under every interleaving; no deadlock | two key events queued, unbounded sessions |
| `session_liveness` | `MainThreadReleased`, `KeepsPlaying` | one key event queued |
| `session_menu` | the comment "Met l'émulation en pause à l'ouverture du menu" against the code (violated) | one key event queued |
| `saves_safety` | `TypeOK`, `PausedMeansSaved`, `ResumesWhereLeft`, with deaths of the process between and in the middle of writes | two slots, the console just switched on and one state of play, unbounded sittings |
| `saves_rotation` | the comment "Chargement automatique de l'état du jeu après un changement d'orientation" (violated) | two slots, two states of play |
| `saves_recent` | the comment "Gestion du bouton de chargement du quicksave ou de la sauvegarde la plus récente" (violated) | as above |
| `rewind_safety` | `TypeOK` (with the bound of the buffer), `Chronological`, `RewindOnlyWhenHeld`, `RewindGoesBack` | two records held, durations 2 and 3, three moments, one restoration |
| `rewind_restore` | the comment "On vide le buffer de rewind après restauration" against every way to load a state (violated) | as above |
| `rewind_duration` | the comment "Spinner pour choisir la durée max" against the buffer (violated) | as above |
| `audio_fifo` | `TypeOK`, `NoOverlap`, `ChannelsAligned`, `ImplementsQueue` | a ring of 4 (5 before rounding), blocks of one or two frames, 12 samples |
| `audio_stream` | `TypeOK`, `WriterHasRing`, `CallbackHasItsOwn`, `SoundFollowsActivity`, `SoundComesBack` | three streams opened, any number of failed openings |
| `core_services` | `TypeOK` and the eleven properties of the six parts: `PaceKept`, `NoUpdateLost`, `ChoiceKept`, `RumbleTold`, `FrameShapeFollows`, `KeysAsHeld`, `EggOnCode`, `OwnershipPreserved`, `NothingLeaks`, `FramebuffersFit`, `ShaderFollows` | below |

The bounds. The state of RetroSession is finite but for `evq`; blocks are queued
one at a time because the main thread waits, so only key events need a bound.
With two of them TLC meets a key before, behind and between blocks, and the
theorems of section 5 hold for every bound. Deadlock is checked: two threads
that wait for each other would be one.

`NoNullEngine` allows for a session whose `create()` failed: its view is aborted,
but `runOnGLThread` is not covered by `catchExceptions`, and the first rewind
tick or autosave then reaches a null core. TLC finds that at once when the
exception is removed from the property. `EngineExclusive` allows for one race
that is in the code: when a menu has paused the view before, the `onPause()` of
`ON_PAUSE` returns at once, and a key event queued just before may be reading
`input` while `LibretroDroid::pause` drops it.

`session_menu` shows that `RenderLifecycleObserver.resume()` asks for no menu. In
TLC's trace the surface is there and the GL thread is about to load the game when
the drawer is opened, whose listener pauses the view. The load goes on to its end
and posts the message that adds the observer. The GL thread then acknowledges the pause, the
message is handled, and the observer, added to a resumed lifecycle, gets its
ON_RESUME: `onResume()`, `LibretroDroid.resume()`, `isEmulationReady = true`. The
next pass runs a frame, with the menu still open.

The bounds of Rewind let the buffer fill, overflow and drain, and a restoration
fall between any two turns of the jobs; a second era is enough to tell the
records of the game that was left from those of the game in progress. In
`rewind_restore` a quickload, which does not clear the buffer, leaves such
records behind. In `rewind_duration` the spinner is set to the longer duration
and the next record still pushes out the oldest one: `rewindBufferMaxSize` was
computed when the activity was created.

The bounds of AudioFifo let the ring wrap three times, with blocks that do and
do not fit, so that a write is cut short, a copy wraps in the middle, and an
underrun follows a full ring. An odd `BufferSize` makes the rounding matter:
without it `ChannelsAligned` fails.

The bounds of SaveStates: with the quicksave and one more slot there is always
another save, older or newer, that a dialog or `Continue` could take by mistake;
with one state of play beside that of a console just switched on, which resets,
rewinds, loads and every new sitting bring back, an autosave and a bundle can be taken
for each other or for a slot. Sittings, rotations and deaths are not bounded.
`PausedMeansSaved` says nothing of the bundle once a coroutine has moved the game
before `onSaveInstanceState`, nor of the game in the core once one has moved it at
all: these may then be another state than the autosave, and after a death in the
background the player comes back to the bundle. `ResumesWhereLeft` leaves out a move
before `onSaveInstanceState`, a torn autosave, and a restoration that comes before
the load. In `saves_rotation` the game is started with
"Nouvelle partie", played and turned: the `new_game` extra outlives the activity,
`onCreate` restores nothing, and the next pause overwrites the autosave. In
`saves_recent` the most recent save is deleted in the load dialog whose button
still names it; the next step of the model (`LoadRecentThrows`) is the crash.

The bounds of AudioStream: two disconnections in a row, so that a member may
belong to the stream before the last. The exceptions of `CallbackHasItsOwn` and
`SoundFollowsActivity` are races of the code: a `resume()` may start the new stream
while the error thread still holds the old ring, and a `stop()` may be overtaken.

The bounds of `core_services`: frames of three ticks and twelve ticks of clock let a
step come early, late by one and by several frames, before and after a resume;
speeds 1 and 2. Two options of two values: one may be declared, read or chosen
while the other is. Two ports, rotations and aspect ratios. A code of three keys,
up-down-up, overlaps itself, so that a wrong attempt may be the start of a right
one; six presses and three queued events. Two files, and a table of four
descriptors that a stream and a file of somebody else fill. Two shaders, two
sizes. The theorems of section 5 hold for all these parameters.

## 4. Fairness

`AudioStream` assumes weak fairness of `Reconnect`: oboe's error thread runs to its
end. Nothing is assumed of devices: the promise of `SoundComesBack` includes that none
can be opened. What follows is about `RetroSession`; no other run checks liveness.


`LiveSpec` assumes weak fairness of both threads inside a call (the system
schedules them, and each step they have to take is one that nothing but the
other thread can hold up). Strong fairness is assumed of three steps that are
disabled and enabled again as the other thread moves: the main looper delivers
its messages (`AddObserver`), the system gives a visible window its surface
(`SurfaceNew`), and a drawing pass that can begin again and again begins
(`GLBeginPass`). Nothing is assumed of the user, of the lifecycle, of context
losses, or of the success of a load. `KeepsPlaying` speaks of a stay in front
without menus and key events, since the queue is served before the frames: an
endless stream of events starves them, in the code as in the model.

## 5. The proofs

`RetroSessionProofs` proves, for every `MaxKeys \in Nat` (the only assumption
on constants):

- `Invariance`: `Spec => []IInv`, the inductive invariant;
- `TypeCorrect`, `EngineNeverNull`, `EngineExclusion`, `PausedIsQuiet`,
  `FrontPlays`, `LoadsOnce`, `WaitsForWorker`: the invariants of `session_safety`,
  which follow from it;
- `WaitsShrink`: the action property `WaitShrinks`;
- `KeepsContract`: a session implements `CoreContract`; and `CoreServedInTurn`, the
  promise of the contract, carried over to the session.

None of the properties is inductive. `EngineExclusive`, for instance, says that
`destroy()` finds the GL thread out of the engine; that is so because the
surface was taken away in `onStop`, because the queue was empty when the latch
of the autosave opened, and because nothing queues a block once the activity is
stopped. `IInv` is the conjunction of the named facts that make that argument:

- `UIWhere`, `GLWhere`: in which lifecycle states each call of either thread can be;
- `TeardownQuiet`: the engine is quiet from `onDestroy` and from power-off on;
- `Events`: at most one block, behind all the key events, and only while the
  main thread waits for it; when its latch opens the queue is empty (the queue
  is first in, first out);
- `PauseProtocol`: a view that nobody has paused is not paused, and an
  acknowledged pause leaves the queue empty unless a menu had paused before;
- `Playing`: frames and sound only between `ON_RESUME` and `ON_PAUSE`;
- `InFront`: a loaded game has its observer or the message that brings it, and an
  observer in front has resumed the engine;
- `Built`: how far the engine is built, by the flags of the view.

The preservation proof has one step per action, in lemmas for what the user or
the system starts (`Started`), for what the main thread continues
(`UIContinue`) and for what the GL thread continues (`GLContinue`), and under
it one step per part of the invariant that the action can disturb. Types are
proved first, in lemmas of their own, from `TypeOK` and `Events` alone. The
queue needs facts about `Head` and `Tail` that are stated once, in the step for
`GLTakeEvent`.

`WaitsShrink` compares `Work` before and after each action. While the main thread
waits in vain it takes no step itself (`MainIsHeld`), no new pass begins
(`NoPassBegins`), and each step of the GL thread lowers one summand of `Work` and
raises no other (`PassGoesOn`, `GLWorkShrinks`); `Work` is a natural number
(`WorkIsNat`). With `WaitsForWorker` this is the safety core of
`MainThreadReleased`: there is always a step to take, and no more than `Work` of
them. That the threads do take them is fairness, and stays with TLC.

`KeepsContract` maps every step to a step of the contract or a stutter. That calls
never overlap is what `TeardownQuiet`, `Events` and `GLWhere` give together: at a
`destroy` nothing of the GL thread is in the core (`OneCall` is the statement for
one state, `CallNow` and `CallNext` its two uses in a step).

`RewindProofs` proves the four properties of `rewind_safety` for every capacity,
duration and bound (`RewindAssumption`): `RecordsInOrder`, `OnlyBackwards`,
`BufferBounded`, `HeldOnly`. The inductive invariant `RewindInv` adds to the properties that
the game is in no later era than the count of them, so that a restoration puts
it after everything in the buffer.

`AudioFifoProofs` proves, for every buffer size of at least one frame, every
set of block lengths and every number of samples (`FifoAssumption`):
`RaceFree`, `Stereo`, `RingBounded`. The inductive invariant `FifoInv` says that
the block of each thread fits between the counters (`Shares`) and that counters
and lengths are even (`AllEven`), so that a slot holds samples of its own
channel (`SlotsAligned`). The steps rest on four lemmas about remainders:
positions less than a ring apart fall on different slots (`IndexInjective`), and
in a ring of even size a slot has the parity of its positions (`IndexParity`).

`RefinesQueue` proves that the ring implements `BoundedQueue`. Its invariant adds
that what each thread has copied is where it belongs (`WriteCopied`,
`ReadCopied`). A copied sample changes no slot between the reader's counter and
the last sample copied (`CopyElsewhere`), so that both copies are stutters; the
beginning of a read is `Take`, its end `GiveBack`, the beginning of a write `Offer`,
its end `Commit`, each with a lemma that compares the two sequences element by element.

`AudioStreamProofs` proves `TypeCorrect`, `RingForTheWriter`, `OwnBuffers` and
`SoundFollows` for any number of streams. The invariant says what the error thread knows of the
stream at each of its steps (`ErrorKnows`), to which stream the members belong
(`Ownership`, from which the bound of `TypeOK` follows), that a pause that was not
overtaken leaves no start behind
(`PauseLeaves`), and that while the activity is resumed a stopped stream has
somebody who is still going to start it (`ResumeLeaves`).

`SaveStatesProofs` proves `TypeCorrect`, `BackgroundIsSaved` and `ContinueResumes` for
any number of slots and any length of play (`SavesAssumption`). `ResumesWhereLeft` is
a property of one step, the last of a restoration, and holds because of three
facts that follow the state that was left: it is in the autosave (`LeftIsFiled`), in
the background also in the core and the bundle, as far as no coroutine has moved the
game (`LeftIsBundled`), and in an activity that continues it is the one restoration
posted until the core has it (`LeftIsPosted`). A restoration and a reset leave a
core without a game as it is (`StillLoaded`), so that a button pressed too early
disturbs none of this.

`FrameSyncProofs` proves `PaceFollowsClock` for every interval, clock and speed:
`lastFrame` is exactly where the granted frames end, counted from the first step
after a resume, so that rounding never accumulates (`PaceInv`).
`ControlsProofs` proves `KeysFollowFingers` and `CodeRecognised` for every set of keys
and every code. What the queue will make of a key is decided by its last event, or
by `pressedKeys` if there is none (`WillBe`): up for a key under no finger, down for
one that was pressed since the last resume. An event added to the queue decides for
its own key (`AppendDecides`) and for no other (`AppendKeeps`), and serving one changes
nothing of it (`ServeKeeps`). The buffer of the code is always the last keys typed
(`EggInv`).

`ServicesProofs` proves the properties of the other four parts and the composition.
`CoreOptions`: a value that the core does not work with yet is on its way
(`OnItsWay`), and what `SET_VARIABLES` holds is not older than the last choice
(`ChosenInv`). `FrameEvents`: where the layout is behind the core the step has yet to
bring it the news (`ShapeInv`); what the view was not told is dirty (`RumbleInv`).
`ShaderChain`: a `Video` has been asked for the configuration unless a shader was set
behind its back or is about to be told (`ConfigInv`), and the two reads agree unless
one was told between them (`ReadsInv`). `Vfs`: what is open has an owner (`OwnerInv`), what is owned is open as
long as no number was taken between two closes (`OpenInv`).

The assumptions of these theorems are those of the modules, all checked by TLC in
the runs; where a theorem needs one of them it names it.

Liveness stays with TLC, since the prover does no reasoning about fairness:
`MainThreadReleased`, `KeepsPlaying` and `SoundComesBack` are model-checked only.

## 6. Plan

The order puts first what can lose a player's game or crash.

1. `RetroSession`, `Rewind`, `AudioFifo` with their proofs: done.
2. `SaveStates` with the deaths of the process, and its proofs: done.
3. `AudioStream`, and the proof that `AudioFifo` implements `BoundedQueue`: done.
4. The contract of a core, and that the waits of the main thread end: done.
5. The services of the engine (`FrameSync`, `CoreOptions`, `FrameEvents`, `Controls`,
   `Vfs`, `ShaderChain`) with their proofs: done.
6. Left, in this order: `SessionOverlap`, two activities over one engine; the
   pictures of the slots and the restorations posted to a view that is gone, as an
   extension of `SaveStates`; controllers, axes and pointers beside the keys.

## 7. What is not modelled, and why

Parts marked `not_modelled` in `PROJECT.json` say why.

- Two activities over one engine: `RetroSession` has one view at a time. A model of
  two needs the order in which the system destroys one activity and creates the
  next, which the code does not settle.
- The microphone: whether closing the input stream waits for its callback, and so
  whether `Microphone::close` can block on its own lock, differs between the backends
  of oboe.
- The interval between two frames is a parameter of `FrameSync`; that it is cut to
  whole microseconds when it is computed is rounding outside of `PaceKept`.
- The resamplers, the video layout and the background are floating-point drawing
  code, as are the controllers of the sound's latency; the shader text, the GL calls
  and `screenshot_jni.cpp` are pixels; the ES 2 renderer keeps no chain.
- `core.cpp` is `dlopen` and symbol lookup; its failure is the failure of `create()` in
  `RetroSession`. The order of the calls through those symbols is `CoreContract`.
- Gamepad tables, key codes, directories, disks, cheats and controller types are
  values handed over without state that could go wrong.
- oboe, libretro-common and the libraries inside it, zlib among them, are third-party
  code and by far the larger part of the repository's lines. Where the program
  relies on them (the ring and its counters, `GLSurfaceView`, the error thread, the
  file interface) the model has what it relies on; the rest is theirs.
- The scripts build the application.
