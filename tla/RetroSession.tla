---------------------------- MODULE RetroSession ----------------------------
(***************************************************************************)
(* One emulation session: a GLRetroView driven by the activity lifecycle   *)
(* on the main thread and by the GLSurfaceView on its GL thread, both      *)
(* reaching the same native engine (the LibretroDroid singleton).          *)
(*                                                                         *)
(* Each thread has a program counter, ui and gl.  A value other than       *)
(* "idle" / "loop" means that the thread is inside that call, so what the  *)
(* other thread does meanwhile is an interleaving of the two.              *)
(*                                                                         *)
(* GLSurfaceView is not in the repository: GL* actions marked external     *)
(* follow the contract the code relies on.  onPause() returns once the GL  *)
(* thread has acknowledged, surfaceDestroyed() once it has stopped using   *)
(* the surface, a detach once it has exited, and the event queue is        *)
(* emptied before anything else, even while paused.                        *)
(***************************************************************************)
EXTENDS Naturals, Sequences

CONSTANT MaxKeys    \* bound on key events waiting in the GL queue
ASSUME MaxKeysAssumption == MaxKeys \in Nat

VARIABLES
  act,                \* activity lifecycle
  ui,                 \* call the main thread is in
  menu,               \* a save/load dialog or the drawer is open
  scope,              \* GameActivity.mainScope is active
  posted,             \* addObserver message posted to the main looper
  latch,              \* runOnGLThread's CountDownLatch is still at 1
  observer,           \* RenderLifecycleObserver is registered
  isGameLoaded, isEmulationReady, isAborted,
  gl,                 \* call the GL thread is in
  evq,                \* GLSurfaceView event queue
  requestPaused, paused, hasSurface, waitingForSurface, shouldExit, context,
  core, video, fpsSync, audio, input,   \* LibretroDroid's objects
  proc                \* the process: "running", "nullEngine" (died), "exited"

looper == <<posted, latch, scope, menu>>
flags  == <<observer, isGameLoaded, isEmulationReady, isAborted>>
glsv   == <<requestPaused, paused, hasSurface, waitingForSurface, shouldExit, context>>
engine == <<core, video, fpsSync, audio, input>>
vars   == <<act, ui, looper, flags, gl, evq, glsv, engine, proc>>

UIThread == <<act, ui, looper, flags>>
GLThread == <<gl, evq, glsv>>

\* Main-thread calls that wait for the GL thread ...
Waiting == {"resumeWait", "pauseWait", "menuPause", "menuResume", "surfNew",
            "surfGone", "latch", "offLatch", "offPause", "exitWait"}
\* ... and those that run in the native engine or are about to.
UIStates == Waiting \cup {"idle", "resume", "pauseNative", "autosave", "touch",
                          "destroy", "offDestroy", "offExit"}
\* The calls of one pass of the GL thread's drawing loop.
DrawPass == {"surfaceCreated", "loading", "surfNative", "post",
             "surfaceChanged", "drawFrame", "step"}
GLStates == DrawPass \cup {"none", "loop", "op", "key", "exited"}

TypeOK ==
  /\ act \in {"new", "created", "resumed", "paused", "stopped", "destroyed"}
  /\ ui \in UIStates
  /\ gl \in GLStates
  /\ evq \in Seq({"op", "key"}) /\ Len(evq) <= MaxKeys + 1
  /\ menu \in BOOLEAN /\ scope \in BOOLEAN /\ posted \in BOOLEAN
  /\ latch \in BOOLEAN /\ observer \in BOOLEAN /\ isGameLoaded \in BOOLEAN
  /\ isEmulationReady \in BOOLEAN /\ isAborted \in BOOLEAN
  /\ requestPaused \in BOOLEAN /\ paused \in BOOLEAN /\ hasSurface \in BOOLEAN
  /\ waitingForSurface \in BOOLEAN /\ shouldExit \in BOOLEAN
  /\ context \in BOOLEAN
  /\ video \in BOOLEAN /\ fpsSync \in BOOLEAN /\ input \in BOOLEAN
  /\ core \in {"null", "init", "game"}
  /\ audio \in {"null", "stopped", "started"}
  /\ proc \in {"running", "nullEngine", "exited"}

Init ==
  /\ act = "new" /\ ui = "idle" /\ gl = "none" /\ evq = <<>>
  /\ menu = FALSE /\ scope = FALSE /\ posted = FALSE /\ latch = FALSE
  /\ observer = FALSE /\ isGameLoaded = FALSE
  /\ isEmulationReady = FALSE /\ isAborted = FALSE
  /\ requestPaused = FALSE /\ paused = FALSE /\ hasSurface = FALSE
  /\ waitingForSurface = FALSE /\ shouldExit = FALSE /\ context = FALSE
  /\ core = "null" /\ video = FALSE /\ fpsSync = FALSE
  /\ audio = "null" /\ input = FALSE
  /\ proc = "running"

-----------------------------------------------------------------------------
(* Variants of the actions below with one fault each: what the properties  *)
(* have to reject.                                                         *)

\* The members LibretroDroid::destroy resets; input is not one of them.
DropEngine ==
  /\ core' = "null" /\ video' = FALSE /\ fpsSync' = FALSE /\ audio' = "null"
  /\ UNCHANGED input

\* RenderLifecycleObserver.pause without the wait for the GL thread.
PauseNativeFirst ==
  /\ ui = "idle" /\ act = "resumed"
  /\ act' = "paused"
  /\ IF observer
     THEN isEmulationReady' = FALSE /\ ui' = "pauseNative"
          /\ UNCHANGED requestPaused
     ELSE ui' = "autosave" /\ UNCHANGED <<isEmulationReady, requestPaused>>
  /\ UNCHANGED <<looper, observer, isGameLoaded, isAborted, gl, evq, paused,
                 hasSurface, waitingForSurface, shouldExit, context, engine, proc>>

\* An activity that neither cancels mainScope nor waits for the detach.
DestroyKeepingScope ==
  /\ ui = "destroy"
  /\ IF core # "null"
     THEN /\ DropEngine
          /\ act' = "destroyed" /\ shouldExit' = TRUE /\ ui' = "idle"
          /\ UNCHANGED <<scope, proc>>
     ELSE proc' = "nullEngine" /\ UNCHANGED <<act, ui, scope, shouldExit, engine>>
  /\ UNCHANGED <<posted, latch, menu, flags, gl, evq, requestPaused,
                 paused, hasSurface, waitingForSurface, context>>

\* GLRetroView.onDestroy without the isAborted test of catchExceptions.
DestroyEvenIfAborted ==
  /\ ui = "idle" /\ act = "stopped"
  /\ ui' = "destroy"
  /\ UNCHANGED <<act, looper, flags, GLThread, engine, proc>>

\* A new observer that starts the engine whatever the lifecycle's state.
ObserveAndResume ==
  /\ ui = "idle" /\ posted
  /\ posted' = FALSE
  /\ observer' = (act # "destroyed")
  /\ ui' = IF act # "destroyed" THEN "resume" ELSE "idle"
  /\ UNCHANGED <<act, latch, scope, menu, isGameLoaded, isEmulationReady,
                 isAborted, GLThread, engine, proc>>

\* An observer that is lost when the activity is not in front.
ObserveIfResumed ==
  /\ ui = "idle" /\ posted
  /\ posted' = FALSE
  /\ observer' = (act = "resumed")
  /\ ui' = IF act = "resumed" THEN "resume" ELSE "idle"
  /\ UNCHANGED <<act, latch, scope, menu, isGameLoaded, isEmulationReady,
                 isAborted, GLThread, engine, proc>>

\* runOnGLThread without its latch.
QueueWithoutWaiting(next) ==
  /\ evq' = Append(evq, "op")
  /\ UNCHANGED <<ui, latch>>

\* initializeCore without the isGameLoaded test.
ReloadOnSurfaceCreated ==
  /\ gl = "surfaceCreated"
  /\ gl' = IF isAborted THEN "surfaceChanged" ELSE "loading"
  /\ UNCHANGED <<UIThread, evq, glsv, engine, proc>>

\* A load whose failure is swallowed.
LoadGameIgnoringFailure ==
  /\ gl = "loading"
  /\ \/ core' = "game" /\ fpsSync' = TRUE /\ audio' = "stopped"
     \/ UNCHANGED <<core, fpsSync, audio>>
  /\ gl' = "surfNative"
  /\ UNCHANGED <<UIThread, evq, glsv, video, input, proc>>

\* A load that is tried again until it succeeds.
LoadGameUntilLoaded ==
  /\ gl = "loading" /\ core # "null"
  /\ \/ /\ core' = "game" /\ fpsSync' = TRUE /\ audio' = "stopped"
        /\ gl' = "surfNative"
     \/ gl' = "surfaceCreated" /\ UNCHANGED <<core, fpsSync, audio>>
  /\ UNCHANGED <<UIThread, evq, glsv, video, input, proc>>

-----------------------------------------------------------------------------
(* Main thread: activity lifecycle and LibretroDroid.create/destroy.       *)

\* A fresh activity and view; then ON_CREATE reaches LibretroDroid::create,
\* which drops every engine object of an earlier session and either succeeds,
\* fails to open the core, or rejects it for its GL version.
Create ==
  /\ ui = "idle" /\ act \in {"new", "destroyed"} /\ ~posted
  /\ act' = "created"
  /\ \/ core' = "init" /\ isAborted' = FALSE
     \/ core' \in {"null", "init"} /\ isAborted' = TRUE
  /\ video' = FALSE /\ fpsSync' = FALSE /\ audio' = "null" /\ input' = FALSE
  /\ observer' = FALSE /\ isGameLoaded' = FALSE /\ isEmulationReady' = FALSE
  /\ scope' = TRUE /\ menu' = FALSE /\ latch' = FALSE
  /\ gl' = "loop" /\ evq' = <<>>
  /\ requestPaused' = FALSE /\ paused' = FALSE /\ hasSurface' = FALSE
  /\ waitingForSurface' = FALSE /\ shouldExit' = FALSE /\ context' = FALSE
  /\ UNCHANGED <<ui, posted, proc>>

\* ON_RESUME, with or without RenderLifecycleObserver.resume().
Resume ==
  /\ ui = "idle" /\ act \in {"created", "paused"}
  /\ act' = "resumed"
  /\ ui' = IF observer THEN "resume" ELSE "idle"
  /\ UNCHANGED <<looper, flags, GLThread, engine, proc>>

\* LibretroDroid::resume, then GLSurfaceView.onResume starts to wait.
ResumeNative ==
  /\ ui = "resume"
  /\ IF fpsSync /\ audio # "null" /\ video
     THEN /\ input' = TRUE /\ audio' = "started"
          /\ requestPaused' = FALSE /\ ui' = "resumeWait"
          /\ UNCHANGED <<core, video, fpsSync, proc>>
     ELSE /\ proc' = "nullEngine"
          /\ UNCHANGED <<ui, requestPaused, engine>>
  /\ UNCHANGED <<act, looper, flags, gl, evq, paused, hasSurface,
                 waitingForSurface, shouldExit, context>>

ResumeDone ==
  /\ ui = "resumeWait" /\ ~paused
  /\ isEmulationReady' = TRUE /\ ui' = "idle"
  /\ UNCHANGED <<act, looper, observer, isGameLoaded, isAborted, GLThread,
                 engine, proc>>

\* ON_PAUSE: RenderLifecycleObserver.pause() up to the wait in
\* GLSurfaceView.onPause; Activity.onPause then writes the autosave.
Pause ==
  /\ ui = "idle" /\ act = "resumed"
  /\ act' = "paused"
  /\ IF observer
     THEN isEmulationReady' = FALSE /\ requestPaused' = TRUE /\ ui' = "pauseWait"
     ELSE ui' = "autosave" /\ UNCHANGED <<isEmulationReady, requestPaused>>
  /\ UNCHANGED <<looper, observer, isGameLoaded, isAborted, gl, evq, paused,
                 hasSurface, waitingForSurface, shouldExit, context, engine, proc>>

PauseAcked ==
  /\ ui = "pauseWait" /\ paused
  /\ ui' = "pauseNative"
  /\ UNCHANGED <<act, looper, flags, GLThread, engine, proc>>

\* LibretroDroid::pause stops the audio stream and drops the input object.
PauseNative ==
  /\ ui = "pauseNative"
  /\ IF audio # "null"
     THEN audio' = "stopped" /\ input' = FALSE /\ ui' = "autosave"
          /\ UNCHANGED <<core, video, fpsSync, proc>>
     ELSE proc' = "nullEngine" /\ UNCHANGED <<ui, engine>>
  /\ UNCHANGED <<act, looper, flags, GLThread>>

\* The window is stopped: surfaceDestroyed() waits for the GL thread.
Stop ==
  /\ ui = "idle" /\ act = "paused"
  /\ act' = "stopped" /\ hasSurface' = FALSE
  /\ ui' = IF hasSurface THEN "surfGone" ELSE "idle"
  /\ UNCHANGED <<looper, flags, gl, evq, requestPaused, paused,
                 waitingForSurface, shouldExit, context, engine, proc>>

SurfaceGone ==
  /\ ui = "surfGone" /\ waitingForSurface
  /\ ui' = "idle"
  /\ UNCHANGED <<act, looper, flags, GLThread, engine, proc>>

Restart ==
  /\ ui = "idle" /\ act = "stopped"
  /\ act' = "paused"
  /\ UNCHANGED <<ui, looper, flags, GLThread, engine, proc>>

\* surfaceCreated(): the GL thread has to notice the new surface.
SurfaceNew ==
  /\ ui = "idle" /\ act \in {"resumed", "paused"} /\ ~hasSurface
  /\ hasSurface' = TRUE /\ ui' = "surfNew"
  /\ UNCHANGED <<act, looper, flags, gl, evq, requestPaused, paused,
                 waitingForSurface, shouldExit, context, engine, proc>>

SurfaceNoticed ==
  /\ ui = "surfNew" /\ ~waitingForSurface
  /\ ui' = "idle"
  /\ UNCHANGED <<act, looper, flags, GLThread, engine, proc>>

\* ON_DESTROY (GLRetroView.onDestroy does nothing once aborted), then
\* Activity.onDestroy cancels mainScope and the view is detached.
Destroy ==
  /\ ui = "idle" /\ act = "stopped"
  /\ ui' = IF isAborted THEN "exitWait" ELSE "destroy"
  /\ scope' = IF isAborted THEN FALSE ELSE scope
  /\ shouldExit' = isAborted
  /\ UNCHANGED <<act, posted, latch, menu, flags, gl, evq, requestPaused,
                 paused, hasSurface, waitingForSurface, context, engine, proc>>

\* LibretroDroid::destroy, then the detach.
DestroyNative ==
  /\ ui = "destroy"
  /\ IF core # "null"
     THEN /\ DropEngine
          /\ scope' = FALSE /\ shouldExit' = TRUE /\ ui' = "exitWait"
          /\ UNCHANGED proc
     ELSE proc' = "nullEngine" /\ UNCHANGED <<ui, scope, shouldExit, engine>>
  /\ UNCHANGED <<act, posted, latch, menu, flags, gl, evq, requestPaused,
                 paused, hasSurface, waitingForSurface, context>>

Detached ==
  /\ ui = "exitWait" /\ gl = "exited"
  /\ act' = "destroyed" /\ ui' = "idle"
  /\ UNCHANGED <<looper, flags, GLThread, engine, proc>>

-----------------------------------------------------------------------------
(* Main thread: messages, user input, menus and blocking engine calls.     *)

\* The message initializeCore posts.  `lifecycle` is null after onDestroy; a
\* resumed lifecycle dispatches ON_RESUME to its new observer at once.
AddObserver ==
  /\ ui = "idle" /\ posted
  /\ posted' = FALSE
  /\ observer' = (act # "destroyed")
  /\ ui' = IF act = "resumed" THEN "resume" ELSE "idle"
  /\ UNCHANGED <<act, latch, scope, menu, isGameLoaded, isEmulationReady,
                 isAborted, GLThread, engine, proc>>

\* runOnGLThread from the main thread: queue the block, wait on the latch.
RunOnGLThread(next) ==
  /\ evq' = Append(evq, "op") /\ latch' = TRUE
  /\ ui' = next

\* A rewind tick, a save, a load, a restore or a reset: any caller of
\* serializeState, unserializeState or reset on the main thread.
EngineCall ==
  /\ ui = "idle" /\ scope
  /\ RunOnGLThread("latch")
  /\ UNCHANGED <<act, posted, scope, menu, flags, gl, glsv, engine, proc>>

Autosave ==
  /\ ui = "autosave"
  /\ RunOnGLThread("latch")
  /\ UNCHANGED <<act, posted, scope, menu, flags, gl, glsv, engine, proc>>

LatchOpen ==
  /\ ui = "latch" /\ ~latch
  /\ ui' = "idle"
  /\ UNCHANGED <<act, looper, flags, GLThread, engine, proc>>

SendKeyEvent ==
  /\ ui = "idle" /\ act = "resumed" /\ Len(evq) < MaxKeys
  /\ evq' = Append(evq, "key")
  /\ UNCHANGED <<UIThread, gl, glsv, engine, proc>>

\* onTouchEvent enters the engine on the main thread.
Touch ==
  /\ ui = "idle" /\ act = "resumed"
  /\ ui' = "touch"
  /\ UNCHANGED <<act, looper, flags, GLThread, engine, proc>>
TouchDone ==
  /\ ui = "touch"
  /\ ui' = "idle"
  /\ UNCHANGED <<act, looper, flags, GLThread, engine, proc>>

\* A dialog or the drawer opens: retroView.onPause(); it closes: onResume().
OpenMenu ==
  /\ ui = "idle" /\ act = "resumed" /\ ~menu
  /\ menu' = TRUE /\ requestPaused' = TRUE /\ ui' = "menuPause"
  /\ UNCHANGED <<act, posted, latch, scope, flags, gl, evq, paused, hasSurface,
                 waitingForSurface, shouldExit, context, engine, proc>>
MenuPaused ==
  /\ ui = "menuPause" /\ paused
  /\ ui' = "idle"
  /\ UNCHANGED <<act, looper, flags, GLThread, engine, proc>>
CloseMenu ==
  /\ ui = "idle" /\ act = "resumed" /\ menu
  /\ menu' = FALSE /\ requestPaused' = FALSE /\ ui' = "menuResume"
  /\ UNCHANGED <<act, posted, latch, scope, flags, gl, evq, paused, hasSurface,
                 waitingForSurface, shouldExit, context, engine, proc>>
MenuResumed ==
  /\ ui = "menuResume" /\ ~paused
  /\ ui' = "idle"
  /\ UNCHANGED <<act, looper, flags, GLThread, engine, proc>>

\* Power-Off: autosave, retroView.onPause(), retroView.onDestroy(), exit(0).
PowerOff ==
  /\ ui = "idle" /\ act = "resumed" /\ scope
  /\ RunOnGLThread("offLatch")
  /\ UNCHANGED <<act, posted, scope, menu, flags, gl, glsv, engine, proc>>
PowerOffSaved ==
  /\ ui = "offLatch" /\ ~latch
  /\ requestPaused' = TRUE /\ ui' = "offPause"
  /\ UNCHANGED <<act, looper, flags, gl, evq, paused, hasSurface,
                 waitingForSurface, shouldExit, context, engine, proc>>
PowerOffPaused ==
  /\ ui = "offPause" /\ paused
  /\ ui' = IF isAborted THEN "offExit" ELSE "offDestroy"
  /\ UNCHANGED <<act, looper, flags, GLThread, engine, proc>>
PowerOffDestroy ==
  /\ ui = "offDestroy"
  /\ IF core # "null"
     THEN DropEngine /\ ui' = "offExit" /\ UNCHANGED proc
     ELSE proc' = "nullEngine" /\ UNCHANGED <<ui, engine>>
  /\ UNCHANGED <<act, looper, flags, GLThread>>
PowerOffExit ==
  /\ ui = "offExit"
  /\ proc' = "exited"
  /\ UNCHANGED <<UIThread, GLThread, engine>>

-----------------------------------------------------------------------------
(* GL thread: GLSurfaceView's loop (external) and the Renderer callbacks.  *)

\* The event queue comes before everything but the exit.
GLTakeEvent ==
  /\ gl = "loop" /\ ~shouldExit /\ evq # <<>>
  /\ gl' = Head(evq) /\ evq' = Tail(evq)
  /\ UNCHANGED <<UIThread, glsv, engine, proc>>

\* The block of a runOnGLThread: the engine is used with no null check.
GLRunBlock ==
  /\ gl = "op"
  /\ IF core # "null"
     THEN gl' = "loop" /\ latch' = FALSE /\ UNCHANGED proc
     ELSE proc' = "nullEngine" /\ UNCHANGED <<gl, latch>>
  /\ UNCHANGED <<act, ui, posted, scope, menu, flags, evq, glsv, engine>>

\* onKeyEvent checks `input` first.
GLRunKey ==
  /\ gl = "key"
  /\ gl' = "loop"
  /\ UNCHANGED <<UIThread, evq, glsv, engine, proc>>

GLIdle == gl = "loop" /\ ~shouldExit /\ evq = <<>>

GLPause ==
  /\ GLIdle /\ paused # requestPaused
  /\ paused' = requestPaused
  /\ UNCHANGED <<UIThread, gl, evq, requestPaused, hasSurface,
                 waitingForSurface, shouldExit, context, engine, proc>>

GLSurface ==
  /\ GLIdle /\ hasSurface = waitingForSurface
  /\ waitingForSurface' = ~hasSurface
  /\ UNCHANGED <<UIThread, gl, evq, requestPaused, paused, hasSurface,
                 shouldExit, context, engine, proc>>

\* Begin a pass: a new EGL context calls onSurfaceCreated, a new size
\* onSurfaceChanged, and every pass ends in onDrawFrame.
GLBeginPass ==
  /\ GLIdle /\ ~paused /\ ~requestPaused /\ hasSurface /\ ~waitingForSurface
  /\ IF context
     THEN gl' \in {"surfaceChanged", "drawFrame"}
     ELSE gl' = "surfaceCreated"
  /\ context' = TRUE
  /\ UNCHANGED <<UIThread, evq, requestPaused, paused, hasSurface,
                 waitingForSurface, shouldExit, engine, proc>>

\* The device loses the EGL context between two passes.
GLLoseContext ==
  /\ GLIdle /\ context
  /\ context' = FALSE
  /\ UNCHANGED <<UIThread, gl, evq, requestPaused, paused, hasSurface,
                 waitingForSurface, shouldExit, engine, proc>>

GLExit ==
  /\ gl = "loop" /\ shouldExit
  /\ gl' = "exited"
  /\ UNCHANGED <<UIThread, evq, glsv, engine, proc>>

\* Renderer.onSurfaceCreated up to initializeCore's early returns.
OnSurfaceCreated ==
  /\ gl = "surfaceCreated"
  /\ gl' = IF isAborted \/ isGameLoaded THEN "surfaceChanged" ELSE "loading"
  /\ UNCHANGED <<UIThread, evq, glsv, engine, proc>>

\* loadGameFromPath and afterGameLoad, or the exception that aborts the view.
LoadGame ==
  /\ gl = "loading"
  /\ IF core # "null"
     THEN \/ /\ core' = "game" /\ fpsSync' = TRUE /\ audio' = "stopped"
             /\ gl' = "surfNative"
             /\ UNCHANGED <<isAborted, proc>>
          \/ /\ isAborted' = TRUE /\ gl' = "surfaceChanged"
             /\ UNCHANGED <<core, fpsSync, audio, proc>>
     ELSE proc' = "nullEngine" /\ UNCHANGED <<gl, isAborted, core, fpsSync, audio>>
  /\ UNCHANGED <<act, ui, looper, observer, isGameLoaded, isEmulationReady,
                 evq, glsv, video, input>>

\* LibretroDroid::onSurfaceCreated builds the Video; then isGameLoaded.
SurfaceCreatedNative ==
  /\ gl = "surfNative"
  /\ video' = TRUE /\ isGameLoaded' = TRUE /\ gl' = "post"
  /\ UNCHANGED <<act, ui, looper, observer, isEmulationReady, isAborted, evq,
                 glsv, core, fpsSync, audio, input, proc>>

PostObserver ==
  /\ gl = "post"
  /\ posted' = TRUE /\ gl' = "surfaceChanged"
  /\ UNCHANGED <<act, ui, latch, scope, menu, flags, evq, glsv, engine, proc>>

OnSurfaceChanged ==
  /\ gl = "surfaceChanged"
  /\ IF isAborted \/ video
     THEN gl' = "drawFrame" /\ UNCHANGED proc
     ELSE proc' = "nullEngine" /\ UNCHANGED gl
  /\ UNCHANGED <<UIThread, evq, glsv, engine>>

OnDrawFrame ==
  /\ gl = "drawFrame"
  /\ gl' = IF isEmulationReady /\ ~isAborted THEN "step" ELSE "loop"
  /\ UNCHANGED <<UIThread, evq, glsv, engine, proc>>

Step ==
  /\ gl = "step"
  /\ IF core # "null"
     THEN gl' = "loop" /\ UNCHANGED proc
     ELSE proc' = "nullEngine" /\ UNCHANGED gl
  /\ UNCHANGED <<UIThread, evq, glsv, engine>>

-----------------------------------------------------------------------------
(* What the system or the user starts, and what the threads go on to do.   *)
Started ==
  \/ Create \/ Resume \/ Pause \/ Stop \/ Restart \/ SurfaceNew \/ Destroy
  \/ EngineCall \/ SendKeyEvent \/ Touch \/ OpenMenu \/ CloseMenu \/ PowerOff

UIContinue ==
  \/ ResumeNative \/ ResumeDone \/ PauseAcked \/ PauseNative
  \/ SurfaceGone \/ SurfaceNoticed \/ DestroyNative \/ Detached
  \/ AddObserver \/ Autosave \/ LatchOpen \/ TouchDone
  \/ MenuPaused \/ MenuResumed
  \/ PowerOffSaved \/ PowerOffPaused \/ PowerOffDestroy \/ PowerOffExit

GLContinue ==
  \/ GLTakeEvent \/ GLRunBlock \/ GLRunKey \/ GLPause \/ GLSurface \/ GLExit
  \/ OnSurfaceCreated \/ LoadGame \/ SurfaceCreatedNative \/ PostObserver
  \/ OnSurfaceChanged \/ OnDrawFrame \/ Step

\* The process is gone: nothing runs any more.
Halted == proc # "running" /\ UNCHANGED vars

Next ==
  \/ /\ proc = "running"
     /\ Started \/ UIContinue \/ GLContinue \/ GLBeginPass \/ GLLoseContext
  \/ Halted

Running(A) == proc = "running" /\ A

\* Both threads go on with the call they are in, a visible window is given a
\* surface, and a pass that can begin again and again begins.
Fairness ==
  /\ WF_vars(Running(UIContinue))
  /\ WF_vars(Running(GLContinue))
  /\ SF_vars(Running(AddObserver))
  /\ SF_vars(Running(SurfaceNew))
  /\ SF_vars(Running(GLBeginPass))

Spec == Init /\ [][Next]_vars
LiveSpec == Spec /\ Fairness

-----------------------------------------------------------------------------
(* Properties.                                                             *)

\* Only a session whose create() failed can reach a null engine object: as
\* long as the core was opened, no queued block, GL callback, lifecycle
\* handler or exit path calls into an object that is not there (the calls in
\* libretrodroid.cpp that dereference core, audio, fpsSync and video).
NoNullEngine == proc = "nullEngine" => isAborted

\* The main thread never frees what the GL thread is using: LibretroDroid::
\* destroy runs only while no engine call is in progress or queued on the GL
\* thread, ::pause drops the input object only while no step reads it, and a
\* touch that gets past its guard never meets the replacement of the video
\* object.  A key event may still be reading the input object if a menu had
\* paused the view before: onPause() then returns without waiting.
EngineExclusive ==
  /\ ui \in {"destroy", "offDestroy"} =>
        gl \in {"loop", "none"} /\ evq = <<>>
  /\ ui = "pauseNative" => gl # "step" /\ (gl = "key" => menu)
  /\ ui = "touch" /\ input => gl # "surfNative"

\* Once the main thread has left ON_PAUSE, the game does not advance and the
\* audio stream is stopped until the next ON_RESUME (the order of the three
\* calls in RenderLifecycleObserver.pause, and the observer that is added
\* after the pause).
QuietWhenPaused ==
  act \in {"paused", "stopped"} /\ ui # "pauseWait" =>
     /\ gl # "step"
     /\ ui # "pauseNative" => audio # "started"

\* A new EGL context never makes a running core load its game again
\* (the isGameLoaded test of initializeCore).
LoadOnce == gl = "loading" => core # "game" /\ ~isGameLoaded

\* "Met l'émulation en pause à l'ouverture du menu" (GameActivity): while a
\* menu is open and the main thread is back in its loop, no frame is run.
PausedWhileMenuOpen == menu /\ ui = "idle" => gl # "step"

\* A main thread that waits for the GL thread (a latch, a pause, a surface
\* or the exit of the thread) does not wait for ever.
MainThreadReleased ==
  ui \in Waiting ~> (ui \notin Waiting \/ proc # "running")

\* An activity that stays in front, with its game loaded, no menu and no
\* stream of key events, runs frames again and again, whatever pauses,
\* context losses and late observers came before.
KeepsPlaying ==
  <>[](/\ act = "resumed" /\ ~menu /\ ~isAborted /\ proc = "running"
       /\ \A i \in DOMAIN evq : evq[i] # "key")
  => []<>(gl = "step")

\* What the main thread waits for has come.
WaitOver ==
  \/ ui \in {"resumeWait", "menuResume"} /\ ~paused
  \/ ui \in {"pauseWait", "menuPause", "offPause"} /\ paused
  \/ ui = "surfNew" /\ ~waitingForSurface
  \/ ui = "surfGone" /\ waitingForSurface
  \/ ui \in {"latch", "offLatch"} /\ ~latch
  \/ ui = "exitWait" /\ gl = "exited"
InVain == proc = "running" /\ ui \in Waiting /\ ~WaitOver

\* The main thread never waits for a GL thread that has nothing to do or is
\* gone: as long as what it waits for has not come, the GL thread is inside a
\* call or its loop has something to attend to (runOnGLThread's latch, which
\* has no timeout, and the waits of GLSurfaceView).
NoMutualWait ==
  InVain =>
    \/ gl \in DrawPass \cup {"op", "key"}
    \/ gl = "loop" /\ \/ shouldExit \/ evq # <<>>
                      \/ paused # requestPaused \/ hasSurface = waitingForSurface

\* What the GL thread has to do before its loop is at rest, counted in steps.
PassSteps == [none |-> 0, exited |-> 0, loop |-> 1, op |-> 2, key |-> 2, step |-> 2,
              drawFrame |-> 3, surfaceChanged |-> 4, post |-> 5, surfNative |-> 6,
              loading |-> 7, surfaceCreated |-> 8]
PauseDue   == IF paused # requestPaused THEN 1 ELSE 0
SurfaceDue == IF hasSurface = waitingForSurface THEN 1 ELSE 0
ContextUp  == IF context THEN 1 ELSE 0
Work == PassSteps[gl] + 2 * Len(evq) + PauseDue + SurfaceDue + ContextUp

\* While the main thread waits, whatever happens brings the end of the wait
\* nearer: no new pass begins, no block is queued behind the one waited for,
\* no load is tried again.  The wait takes no more than Work steps.
WaitShrinks == [][InVain /\ proc' = "running" => Work' < Work]_vars

\* A loaded game that is in front plays, once the main thread is back in its
\* looper and the message of initializeCore is handled: the engine has been
\* resumed and nobody forgot to say so to onDrawFrame, however late the load
\* was and whatever pauses came before.
PlaysInFront ==
  /\ proc = "running" /\ act = "resumed" /\ ui = "idle"
  /\ isGameLoaded /\ gl # "post" /\ ~posted
  => observer /\ isEmulationReady /\ audio = "started" /\ input

\* The calls into the core, on either thread: a core sees them one at a time
\* and in an order it can work with (CoreContract).
CoreCalls ==
  {c \in {"load", "avInfo", "run", "state", "close"} :
     \/ c = "load" /\ gl = "loading" /\ core # "null"
     \/ c = "avInfo" /\ gl = "surfNative"
     \/ c = "run" /\ gl = "step"
     \/ c = "state" /\ gl = "op" /\ core # "null"
     \/ c = "close" /\ ui \in {"destroy", "offDestroy"}}
CorePhase == CASE core = "null" -> "closed" [] core = "init" -> "open" [] OTHER -> "game"
Contract == INSTANCE CoreContract WITH phase <- CorePhase, calls <- CoreCalls
ImplementsContract == Contract!Spec

-----------------------------------------------------------------------------
(* The inductive invariant behind the safety properties, in named parts.   *)

\* LibretroDroid::destroy has run and the process or session is ending.
Torn == ui \in {"exitWait", "offExit"} \/ act = "destroyed"
EngineUp == core = "game" /\ video /\ fpsSync /\ audio # "null"
NoOps  == gl # "op" /\ \A i \in DOMAIN evq : evq[i] # "op"
NoKeys == gl # "key" /\ \A i \in DOMAIN evq : evq[i] # "key"

\* Which lifecycle states each main-thread call belongs to.
UIWhere ==
  /\ ui \in {"resume", "resumeWait"} => act = "resumed" /\ observer
  /\ ui \in {"touch", "menuPause", "menuResume", "offLatch", "offPause",
             "offDestroy", "offExit"} => act = "resumed"
  /\ ui \in {"pauseWait", "pauseNative"} => act = "paused" /\ observer
  /\ ui = "autosave" => act = "paused"
  /\ ui = "surfGone" => act = "stopped" /\ ~hasSurface
  /\ ui = "surfNew" => hasSurface
  /\ ui \in {"destroy", "exitWait"} => act = "stopped"
  /\ ui \in {"destroy", "offDestroy"} => ~isAborted
  /\ act = "new" => ui = "idle" /\ ~scope /\ ~posted
  /\ act = "destroyed" => ui = "idle" /\ ~scope
  /\ ~scope <=> act \in {"new", "destroyed"} \/ ui = "exitWait"

\* Where the GL thread can be.
GLWhere ==
  /\ gl = "none" => act = "new"
  /\ act \in {"new", "destroyed"} => gl \in {"none", "exited"} /\ evq = <<>>
  /\ shouldExit => ui = "exitWait" \/ act = "destroyed"
  /\ ui = "exitWait" => shouldExit
  /\ gl = "exited" => shouldExit
  /\ gl \in DrawPass => /\ ~paused /\ ~waitingForSurface /\ context
                        /\ hasSurface \/ ui = "surfGone"
  /\ act = "stopped" => ~hasSurface

\* The engine is quiet before it is destroyed.
TeardownQuiet ==
  /\ ui \in {"destroy", "exitWait"} =>
        evq = <<>> /\ gl \in {"loop", "exited"}
  /\ ui \in {"offPause", "offDestroy", "offExit"} =>
        evq = <<>> /\ gl \notin {"op", "key"}
  /\ ui \in {"offDestroy", "offExit"} => paused /\ requestPaused /\ gl = "loop"

\* A block is queued only while the main thread waits for it, behind every
\* key event; when the latch opens, the queue is empty.
Events ==
  /\ latch => ui \in {"latch", "offLatch"}
  /\ ~latch => NoOps /\ Len(evq) <= MaxKeys
  /\ latch /\ gl = "op" => evq = <<>>
  /\ \A i \in DOMAIN evq : evq[i] = "op" => i = Len(evq)
  /\ ui \in {"latch", "offLatch"} /\ ~latch => evq = <<>> /\ gl # "key"
  /\ ui \in {"latch", "offLatch"} /\ latch /\ gl # "op" =>
        evq # <<>> /\ evq[Len(evq)] = "op"
  /\ act = "paused" /\ ui \in {"idle", "surfNew"} => NoKeys
  /\ act = "stopped" /\ ui # "latch" => NoKeys

\* A view that no menu and no ON_PAUSE has paused is not paused.
PauseProtocol ==
  /\ ui \in {"resumeWait", "menuResume"} => ~requestPaused
  /\ ui = "menuResume" => ~menu
  /\ ui = "menuPause" => menu /\ requestPaused
  /\ ui \in {"pauseWait", "pauseNative", "offPause"} => requestPaused
  /\ act = "resumed" /\ ~menu
       /\ ui \in {"idle", "touch", "latch", "surfNew", "offLatch"} =>
        ~paused /\ ~requestPaused
  /\ ~observer /\ ~menu
       /\ ui \notin {"menuResume", "offPause", "offDestroy", "offExit"} =>
        ~paused /\ ~requestPaused
  /\ ui = "pauseWait" /\ ~menu /\ paused => evq = <<>> /\ gl # "key"
  /\ ui = "pauseNative" => paused /\ (~menu => evq = <<>> /\ gl # "key")

\* Frames and sound only between ON_RESUME and ON_PAUSE.
Playing ==
  /\ isEmulationReady => act = "resumed" /\ observer
  /\ gl = "step" => isEmulationReady \/ ui = "pauseWait"
  /\ audio = "started" =>
        observer /\ (act = "resumed" \/ ui \in {"pauseWait", "pauseNative"})

\* Nothing is left undone in front: a loaded game has its observer or the message
\* that brings it, and an observer in front has resumed the engine or is at it.
InFront ==
  /\ isGameLoaded => observer \/ posted \/ gl = "post" \/ act = "destroyed"
  /\ observer /\ act = "resumed" /\ ui \notin {"resume", "offExit"} =>
        /\ audio = "started" /\ input
        /\ ui # "resumeWait" => isEmulationReady

\* How far the engine is built.
Built ==
  /\ isGameLoaded => ~isAborted
  /\ isGameLoaded /\ ~Torn => EngineUp
  /\ act # "new" /\ ~isAborted /\ ~Torn => core # "null"
  /\ core = "game" => isGameLoaded \/ gl = "surfNative"
  /\ gl = "loading" => ~isGameLoaded /\ ~isAborted
  /\ gl = "surfNative" => /\ ~isGameLoaded /\ ~isAborted /\ core = "game"
                          /\ fpsSync /\ audio = "stopped"
  /\ gl = "post" \/ posted \/ observer \/ input => isGameLoaded
  /\ gl = "post" \/ posted => ~observer
  /\ gl = "post" => ~posted
  /\ context /\ gl \notin {"surfaceCreated", "loading", "surfNative"} =>
        isAborted \/ isGameLoaded

IInv ==
  /\ TypeOK /\ NoNullEngine
  /\ UIWhere /\ GLWhere /\ TeardownQuiet /\ Events
  /\ PauseProtocol /\ Playing /\ InFront /\ Built
=============================================================================
