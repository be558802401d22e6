------------------------- MODULE RetroSessionProofs -------------------------
(***************************************************************************)
(* Proofs about RetroSession, for every bound on the key events waiting in *)
(* the GL queue.  IInv is inductive: one step per action, in three lemmas  *)
(* for what the user or the system starts, what the main thread goes on to *)
(* do and what the GL thread goes on to do.  The safety properties follow  *)
(* from it, and with them the measure of the main thread's waits and the   *)
(* refinement of CoreContract.                                             *)
(***************************************************************************)
EXTENDS RetroSession, TLAPS

\* The initial state satisfies the inductive invariant.
LEMMA InitIInv == Init => IInv
<1> SUFFICES ASSUME Init PROVE IInv
  OBVIOUS
<1>1. TypeOK
  <2>1. evq \in Seq({"op", "key"}) /\ Len(evq) <= MaxKeys + 1
    BY MaxKeysAssumption DEF Init
  <2> QED BY <2>1 DEF Init, TypeOK, UIStates, Waiting, GLStates, DrawPass
<1>2. NoNullEngine /\ UIWhere /\ GLWhere /\ TeardownQuiet
  BY DEF Init, NoNullEngine, UIWhere, GLWhere, TeardownQuiet, DrawPass
<1>3. Events
  BY MaxKeysAssumption DEF Init, Events, NoOps, NoKeys
<1>4. PauseProtocol /\ Playing /\ InFront /\ Built
  BY DEF Init, PauseProtocol, Playing, InFront, Built, Torn, EngineUp
<1> QED
  BY <1>1, <1>2, <1>3, <1>4 DEF IInv

\* A step that changes no variable keeps it.
LEMMA StutterIInv == IInv /\ UNCHANGED vars => IInv'
  BY DEF vars, looper, flags, glsv, engine, IInv, TypeOK, NoNullEngine, UIWhere,
         GLWhere, TeardownQuiet, Events, PauseProtocol, Playing, InFront, Built, Torn,
         EngineUp, NoOps, NoKeys

\* Types, and the length of the GL queue, are kept by what the user or the system starts.
LEMMA StartedTypeOK == TypeOK /\ Events /\ Started => TypeOK'
<1> SUFFICES ASSUME TypeOK, Events, Started PROVE TypeOK'
  OBVIOUS
<1> USE MaxKeysAssumption
    DEF TypeOK, UIStates, Waiting, GLStates, DrawPass,
        looper, flags, glsv, engine, UIThread, GLThread
<1>1. CASE Create
  <2>1. isAborted' \in BOOLEAN /\ video' \in BOOLEAN /\ fpsSync' \in BOOLEAN /\ input' \in BOOLEAN /\ observer' \in BOOLEAN /\ isGameLoaded' \in BOOLEAN /\ isEmulationReady' \in BOOLEAN /\ scope' \in BOOLEAN /\ menu' \in BOOLEAN /\ latch' \in BOOLEAN /\ requestPaused' \in BOOLEAN /\ paused' \in BOOLEAN /\ hasSurface' \in BOOLEAN /\ waitingForSurface' \in BOOLEAN /\ shouldExit' \in BOOLEAN /\ context' \in BOOLEAN
    BY <1>1 DEF Create
  <2> QED BY <1>1, <2>1 DEF Create
<1>2. CASE Resume
  BY <1>2 DEF Resume
<1>3. CASE Pause
  <2>1. isEmulationReady' \in BOOLEAN /\ requestPaused' \in BOOLEAN
    BY <1>3 DEF Pause
  <2> QED BY <1>3, <2>1 DEF Pause
<1>4. CASE Stop
  <2>1. hasSurface' \in BOOLEAN
    BY <1>4 DEF Stop
  <2> QED BY <1>4, <2>1 DEF Stop
<1>5. CASE Restart
  BY <1>5 DEF Restart
<1>6. CASE SurfaceNew
  BY <1>6 DEF SurfaceNew
<1>7. CASE Destroy
  <2>1. CASE isAborted
    <3>1. scope' \in BOOLEAN /\ shouldExit' \in BOOLEAN
      BY <1>7, <2>1 DEF Destroy
    <3> QED BY <1>7, <2>1, <3>1 DEF Destroy
  <2>2. CASE ~isAborted
    <3>1. scope' \in BOOLEAN /\ shouldExit' \in BOOLEAN
      BY <1>7, <2>2 DEF Destroy
    <3> QED BY <1>7, <2>2, <3>1 DEF Destroy
  <2> QED BY <2>1, <2>2
<1>8. CASE EngineCall
  BY <1>8 DEF EngineCall, RunOnGLThread, Events, NoOps
<1>9. CASE SendKeyEvent
  BY <1>9 DEF SendKeyEvent, Events, NoOps
<1>10. CASE Touch
  BY <1>10 DEF Touch
<1>11. CASE OpenMenu
  BY <1>11 DEF OpenMenu
<1>12. CASE CloseMenu
  <2>1. menu' \in BOOLEAN /\ requestPaused' \in BOOLEAN
    BY <1>12 DEF CloseMenu
  <2> QED BY <1>12, <2>1 DEF CloseMenu
<1>13. CASE PowerOff
  BY <1>13 DEF PowerOff, RunOnGLThread, Events, NoOps
<1> QED
  BY <1>1, <1>2, <1>3, <1>4, <1>5, <1>6, <1>7, <1>8, <1>9, <1>10, <1>11, <1>12, <1>13 DEF Started

\* Types, and the length of the GL queue, are kept by what the main thread goes on to do.
LEMMA UIContinueTypeOK == TypeOK /\ Events /\ UIContinue => TypeOK'
<1> SUFFICES ASSUME TypeOK, Events, UIContinue PROVE TypeOK'
  OBVIOUS
<1> USE MaxKeysAssumption
    DEF TypeOK, UIStates, Waiting, GLStates, DrawPass,
        looper, flags, glsv, engine, UIThread, GLThread
<1>1. CASE ResumeNative
  <2>1. input' \in BOOLEAN /\ requestPaused' \in BOOLEAN
    BY <1>1 DEF ResumeNative
  <2> QED BY <1>1, <2>1 DEF ResumeNative
<1>2. CASE ResumeDone
  BY <1>2 DEF ResumeDone
<1>3. CASE PauseAcked
  BY <1>3 DEF PauseAcked
<1>4. CASE PauseNative
  <2>1. input' \in BOOLEAN
    BY <1>4 DEF PauseNative
  <2> QED BY <1>4, <2>1 DEF PauseNative
<1>5. CASE SurfaceGone
  BY <1>5 DEF SurfaceGone
<1>6. CASE SurfaceNoticed
  BY <1>6 DEF SurfaceNoticed
<1>7. CASE DestroyNative
  <2>1. scope' \in BOOLEAN /\ shouldExit' \in BOOLEAN /\ video' \in BOOLEAN /\ fpsSync' \in BOOLEAN
    BY <1>7 DEF DestroyNative, DropEngine
  <2> QED BY <1>7, <2>1 DEF DestroyNative, DropEngine
<1>8. CASE Detached
  BY <1>8 DEF Detached
<1>9. CASE AddObserver
  <2>1. posted' \in BOOLEAN /\ observer' \in BOOLEAN
    BY <1>9 DEF AddObserver
  <2> QED BY <1>9, <2>1 DEF AddObserver
<1>10. CASE Autosave
  BY <1>10 DEF Autosave, RunOnGLThread, Events, NoOps
<1>11. CASE LatchOpen
  BY <1>11 DEF LatchOpen
<1>12. CASE TouchDone
  BY <1>12 DEF TouchDone
<1>13. CASE MenuPaused
  BY <1>13 DEF MenuPaused
<1>14. CASE MenuResumed
  BY <1>14 DEF MenuResumed
<1>15. CASE PowerOffSaved
  BY <1>15 DEF PowerOffSaved
<1>16. CASE PowerOffPaused
  BY <1>16 DEF PowerOffPaused
<1>17. CASE PowerOffDestroy
  <2>1. video' \in BOOLEAN /\ fpsSync' \in BOOLEAN
    BY <1>17 DEF PowerOffDestroy, DropEngine
  <2> QED BY <1>17, <2>1 DEF PowerOffDestroy, DropEngine
<1>18. CASE PowerOffExit
  BY <1>18 DEF PowerOffExit
<1> QED
  BY <1>1, <1>2, <1>3, <1>4, <1>5, <1>6, <1>7, <1>8, <1>9, <1>10, <1>11, <1>12, <1>13, <1>14, <1>15, <1>16, <1>17, <1>18 DEF UIContinue

\* Types, and the length of the GL queue, are kept by what the GL thread goes on to do.
LEMMA GLContinueTypeOK == TypeOK /\ Events /\ GLContinue => TypeOK'
<1> SUFFICES ASSUME TypeOK, Events, GLContinue PROVE TypeOK'
  OBVIOUS
<1> USE MaxKeysAssumption
    DEF TypeOK, UIStates, Waiting, GLStates, DrawPass,
        looper, flags, glsv, engine, UIThread, GLThread
<1>1. CASE GLTakeEvent
  BY <1>1 DEF GLTakeEvent, Events, NoOps
<1>2. CASE GLRunBlock
  <2>1. latch' \in BOOLEAN
    BY <1>2 DEF GLRunBlock
  <2> QED BY <1>2, <2>1 DEF GLRunBlock
<1>3. CASE GLRunKey
  BY <1>3 DEF GLRunKey
<1>4. CASE GLPause
  BY <1>4 DEF GLPause, GLIdle
<1>5. CASE GLSurface
  <2>1. waitingForSurface' \in BOOLEAN
    BY <1>5 DEF GLSurface, GLIdle
  <2> QED BY <1>5, <2>1 DEF GLSurface, GLIdle
<1>6. CASE GLExit
  BY <1>6 DEF GLExit
<1>7. CASE OnSurfaceCreated
  BY <1>7 DEF OnSurfaceCreated
<1>8. CASE LoadGame
  <2>1. isAborted' \in BOOLEAN /\ fpsSync' \in BOOLEAN
    BY <1>8 DEF LoadGame
  <2> QED BY <1>8, <2>1 DEF LoadGame
<1>9. CASE SurfaceCreatedNative
  BY <1>9 DEF SurfaceCreatedNative
<1>10. CASE PostObserver
  BY <1>10 DEF PostObserver
<1>11. CASE OnSurfaceChanged
  BY <1>11 DEF OnSurfaceChanged
<1>12. CASE OnDrawFrame
  BY <1>12 DEF OnDrawFrame
<1>13. CASE Step
  BY <1>13 DEF Step
<1> QED
  BY <1>1, <1>2, <1>3, <1>4, <1>5, <1>6, <1>7, <1>8, <1>9, <1>10, <1>11, <1>12, <1>13 DEF GLContinue

\* Types are kept when a pass begins or a context is lost.
LEMMA GLBetweenPassesTypeOK == TypeOK /\ Events /\ (GLBeginPass \/ GLLoseContext) => TypeOK'
<1> SUFFICES ASSUME TypeOK, Events, GLBeginPass \/ GLLoseContext PROVE TypeOK'
  OBVIOUS
<1> USE MaxKeysAssumption
    DEF TypeOK, UIStates, Waiting, GLStates, DrawPass,
        looper, flags, glsv, engine, UIThread, GLThread
<1>1. CASE GLBeginPass
  BY <1>1 DEF GLBeginPass, GLIdle
<1>2. CASE GLLoseContext
  <2>1. context' \in BOOLEAN
    BY <1>2 DEF GLLoseContext, GLIdle
  <2> QED BY <1>2, <2>1 DEF GLLoseContext, GLIdle
<1> QED
  BY <1>1, <1>2

\* What the user or the system starts on the main thread keeps it.
LEMMA StartedIInv == IInv /\ proc = "running" /\ Started => IInv'
<1> SUFFICES ASSUME IInv, proc = "running", Started PROVE IInv'
  OBVIOUS
<1>0. TypeOK'
  BY StartedTypeOK DEF IInv
<1> USE MaxKeysAssumption
    DEF IInv, TypeOK, NoNullEngine, UIWhere, GLWhere, TeardownQuiet, Events,
        PauseProtocol, Playing, InFront, Built, Torn, EngineUp, NoOps, NoKeys,
        UIStates, Waiting, GLStates, DrawPass,
        looper, flags, glsv, engine, UIThread, GLThread
<1>1. CASE Create
  <2>1. NoNullEngine'
    BY <1>1 DEF Create
  <2>2. UIWhere'
    BY <1>1 DEF Create
  <2>3. GLWhere' /\ TeardownQuiet'
    BY <1>1 DEF Create
  <2>4. Events'
    BY <1>1 DEF Create
  <2>5. PauseProtocol' /\ Playing' /\ InFront'
    BY <1>1 DEF Create
  <2>6. Built'
    BY <1>1 DEF Create
  <2> QED BY <1>0, <2>1, <2>2, <2>3, <2>4, <2>5, <2>6
<1>2. CASE Resume
  BY <1>0, <1>2 DEF Resume
<1>3. CASE Pause
  <2>1. NoNullEngine'
    BY <1>3 DEF Pause
  <2>2. UIWhere'
    BY <1>3 DEF Pause
  <2>3. GLWhere' /\ TeardownQuiet'
    BY <1>3 DEF Pause
  <2>4. Events'
    BY <1>3 DEF Pause
  <2>5. PauseProtocol' /\ Playing' /\ InFront'
    BY <1>3 DEF Pause
  <2>6. Built'
    BY <1>3 DEF Pause
  <2> QED BY <1>0, <2>1, <2>2, <2>3, <2>4, <2>5, <2>6
<1>4. CASE Stop
  <2>1. NoNullEngine'
    BY <1>4 DEF Stop
  <2>2. UIWhere'
    BY <1>4 DEF Stop
  <2>3. GLWhere' /\ TeardownQuiet'
    BY <1>4 DEF Stop
  <2>4. Events'
    BY <1>4 DEF Stop
  <2>5. PauseProtocol' /\ Playing' /\ InFront'
    BY <1>4 DEF Stop
  <2>6. Built'
    BY <1>4 DEF Stop
  <2> QED BY <1>0, <2>1, <2>2, <2>3, <2>4, <2>5, <2>6
<1>5. CASE Restart
  BY <1>0, <1>5 DEF Restart
<1>6. CASE SurfaceNew
  BY <1>0, <1>6 DEF SurfaceNew
<1>7. CASE Destroy
  <2>1. NoNullEngine'
    BY <1>7 DEF Destroy
  <2>2. UIWhere'
    BY <1>7 DEF Destroy
  <2>3. GLWhere' /\ TeardownQuiet'
    BY <1>7 DEF Destroy
  <2>4. Events'
    BY <1>7 DEF Destroy
  <2>5. PauseProtocol' /\ Playing' /\ InFront'
    BY <1>7 DEF Destroy
  <2>6. Built'
    BY <1>7 DEF Destroy
  <2> QED BY <1>0, <2>1, <2>2, <2>3, <2>4, <2>5, <2>6
<1>8. CASE EngineCall
  BY <1>0, <1>8 DEF EngineCall, RunOnGLThread
<1>9. CASE SendKeyEvent
  BY <1>0, <1>9 DEF SendKeyEvent
<1>10. CASE Touch
  BY <1>0, <1>10 DEF Touch
<1>11. CASE OpenMenu
  BY <1>0, <1>11 DEF OpenMenu
<1>12. CASE CloseMenu
  <2>1. NoNullEngine'
    BY <1>12 DEF CloseMenu
  <2>2. UIWhere'
    BY <1>12 DEF CloseMenu
  <2>3. GLWhere' /\ TeardownQuiet'
    BY <1>12 DEF CloseMenu
  <2>4. Events'
    BY <1>12 DEF CloseMenu
  <2>5. PauseProtocol' /\ Playing' /\ InFront'
    BY <1>12 DEF CloseMenu
  <2>6. Built'
    BY <1>12 DEF CloseMenu
  <2> QED BY <1>0, <2>1, <2>2, <2>3, <2>4, <2>5, <2>6
<1>13. CASE PowerOff
  BY <1>0, <1>13 DEF PowerOff, RunOnGLThread
<1> QED
  BY <1>1, <1>2, <1>3, <1>4, <1>5, <1>6, <1>7, <1>8, <1>9, <1>10, <1>11, <1>12, <1>13 DEF Started

\* What the main thread goes on to do keeps it.
LEMMA UIContinueIInv == IInv /\ proc = "running" /\ UIContinue => IInv'
<1> SUFFICES ASSUME IInv, proc = "running", UIContinue PROVE IInv'
  OBVIOUS
<1>0. TypeOK'
  BY UIContinueTypeOK DEF IInv
<1> USE MaxKeysAssumption
    DEF IInv, TypeOK, NoNullEngine, UIWhere, GLWhere, TeardownQuiet, Events,
        PauseProtocol, Playing, InFront, Built, Torn, EngineUp, NoOps, NoKeys,
        UIStates, Waiting, GLStates, DrawPass,
        looper, flags, glsv, engine, UIThread, GLThread
<1>1. CASE ResumeNative
  <2>1. NoNullEngine'
    BY <1>1 DEF ResumeNative
  <2>2. UIWhere'
    BY <1>1 DEF ResumeNative
  <2>3. GLWhere' /\ TeardownQuiet'
    BY <1>1 DEF ResumeNative
  <2>4. Events'
    BY <1>1 DEF ResumeNative
  <2>5. PauseProtocol' /\ Playing' /\ InFront'
    BY <1>1 DEF ResumeNative
  <2>6. Built'
    BY <1>1 DEF ResumeNative
  <2> QED BY <1>0, <2>1, <2>2, <2>3, <2>4, <2>5, <2>6
<1>2. CASE ResumeDone
  BY <1>0, <1>2 DEF ResumeDone
<1>3. CASE PauseAcked
  BY <1>0, <1>3 DEF PauseAcked
<1>4. CASE PauseNative
  <2>1. NoNullEngine'
    BY <1>4 DEF PauseNative
  <2>2. UIWhere'
    BY <1>4 DEF PauseNative
  <2>3. GLWhere' /\ TeardownQuiet'
    BY <1>4 DEF PauseNative
  <2>4. Events'
    BY <1>4 DEF PauseNative
  <2>5. PauseProtocol' /\ Playing' /\ InFront'
    BY <1>4 DEF PauseNative
  <2>6. Built'
    BY <1>4 DEF PauseNative
  <2> QED BY <1>0, <2>1, <2>2, <2>3, <2>4, <2>5, <2>6
<1>5. CASE SurfaceGone
  BY <1>0, <1>5 DEF SurfaceGone
<1>6. CASE SurfaceNoticed
  BY <1>0, <1>6 DEF SurfaceNoticed
<1>7. CASE DestroyNative
  <2>1. NoNullEngine'
    BY <1>7 DEF DestroyNative, DropEngine
  <2>2. UIWhere'
    BY <1>7 DEF DestroyNative, DropEngine
  <2>3. GLWhere' /\ TeardownQuiet'
    BY <1>7 DEF DestroyNative, DropEngine
  <2>4. Events'
    BY <1>7 DEF DestroyNative, DropEngine
  <2>5. PauseProtocol' /\ Playing' /\ InFront'
    BY <1>7 DEF DestroyNative, DropEngine
  <2>6. Built'
    BY <1>7 DEF DestroyNative, DropEngine
  <2> QED BY <1>0, <2>1, <2>2, <2>3, <2>4, <2>5, <2>6
<1>8. CASE Detached
  <2>1. NoNullEngine'
    BY <1>8 DEF Detached
  <2>2. UIWhere'
    BY <1>8 DEF Detached
  <2>3. GLWhere' /\ TeardownQuiet'
    BY <1>8 DEF Detached
  <2>4. Events'
    BY <1>8 DEF Detached
  <2>5. PauseProtocol' /\ Playing' /\ InFront'
    BY <1>8 DEF Detached
  <2>6. Built'
    BY <1>8 DEF Detached
  <2> QED BY <1>0, <2>1, <2>2, <2>3, <2>4, <2>5, <2>6
<1>9. CASE AddObserver
  <2>1. NoNullEngine'
    BY <1>9 DEF AddObserver
  <2>2. UIWhere'
    BY <1>9 DEF AddObserver
  <2>3. GLWhere' /\ TeardownQuiet'
    BY <1>9 DEF AddObserver
  <2>4. Events'
    BY <1>9 DEF AddObserver
  <2>5. PauseProtocol' /\ Playing' /\ InFront'
    BY <1>9 DEF AddObserver
  <2>6. Built'
    BY <1>9 DEF AddObserver
  <2> QED BY <1>0, <2>1, <2>2, <2>3, <2>4, <2>5, <2>6
<1>10. CASE Autosave
  BY <1>0, <1>10 DEF Autosave, RunOnGLThread
<1>11. CASE LatchOpen
  BY <1>0, <1>11 DEF LatchOpen
<1>12. CASE TouchDone
  BY <1>0, <1>12 DEF TouchDone
<1>13. CASE MenuPaused
  <2>1. NoNullEngine'
    BY <1>13 DEF MenuPaused
  <2>2. UIWhere'
    BY <1>13 DEF MenuPaused
  <2>3. GLWhere' /\ TeardownQuiet'
    BY <1>13 DEF MenuPaused
  <2>4. Events'
    BY <1>13 DEF MenuPaused
  <2>5. PauseProtocol' /\ Playing' /\ InFront'
    BY <1>13 DEF MenuPaused
  <2>6. Built'
    BY <1>13 DEF MenuPaused
  <2> QED BY <1>0, <2>1, <2>2, <2>3, <2>4, <2>5, <2>6
<1>14. CASE MenuResumed
  BY <1>0, <1>14 DEF MenuResumed
<1>15. CASE PowerOffSaved
  BY <1>0, <1>15 DEF PowerOffSaved
<1>16. CASE PowerOffPaused
  <2>1. NoNullEngine'
    BY <1>16 DEF PowerOffPaused
  <2>2. UIWhere'
    BY <1>16 DEF PowerOffPaused
  <2>3. GLWhere' /\ TeardownQuiet'
    BY <1>16 DEF PowerOffPaused
  <2>4. Events'
    BY <1>16 DEF PowerOffPaused
  <2>5. PauseProtocol' /\ Playing' /\ InFront'
    BY <1>16 DEF PowerOffPaused
  <2>6. Built'
    BY <1>16 DEF PowerOffPaused
  <2> QED BY <1>0, <2>1, <2>2, <2>3, <2>4, <2>5, <2>6
<1>17. CASE PowerOffDestroy
  <2>1. NoNullEngine'
    BY <1>17 DEF PowerOffDestroy, DropEngine
  <2>2. UIWhere'
    BY <1>17 DEF PowerOffDestroy, DropEngine
  <2>3. GLWhere' /\ TeardownQuiet'
    BY <1>17 DEF PowerOffDestroy, DropEngine
  <2>4. Events'
    BY <1>17 DEF PowerOffDestroy, DropEngine
  <2>5. PauseProtocol' /\ Playing' /\ InFront'
    BY <1>17 DEF PowerOffDestroy, DropEngine
  <2>6. Built'
    BY <1>17 DEF PowerOffDestroy, DropEngine
  <2> QED BY <1>0, <2>1, <2>2, <2>3, <2>4, <2>5, <2>6
<1>18. CASE PowerOffExit
  BY <1>0, <1>18 DEF PowerOffExit
<1> QED
  BY <1>1, <1>2, <1>3, <1>4, <1>5, <1>6, <1>7, <1>8, <1>9, <1>10, <1>11, <1>12, <1>13, <1>14, <1>15, <1>16, <1>17, <1>18 DEF UIContinue

\* What the GL thread goes on to do keeps it.
LEMMA GLContinueIInv == IInv /\ proc = "running" /\ GLContinue => IInv'
<1> SUFFICES ASSUME IInv, proc = "running", GLContinue PROVE IInv'
  OBVIOUS
<1>0. TypeOK'
  BY GLContinueTypeOK DEF IInv
<1> USE MaxKeysAssumption
    DEF IInv, TypeOK, NoNullEngine, UIWhere, GLWhere, TeardownQuiet, Events,
        PauseProtocol, Playing, InFront, Built, Torn, EngineUp, NoOps, NoKeys,
        UIStates, Waiting, GLStates, DrawPass,
        looper, flags, glsv, engine, UIThread, GLThread
<1>1. CASE GLTakeEvent
  <2>1. /\ evq # <<>> /\ gl' = evq[1] /\ Len(evq') = Len(evq) - 1
        /\ \A k \in DOMAIN evq' : k + 1 \in DOMAIN evq /\ evq'[k] = evq[k + 1]
        /\ evq' \in Seq({"op", "key"}) /\ 1 \in DOMAIN evq
        /\ evq[1] \in {"op", "key"}
    BY <1>1 DEF GLTakeEvent
  <2>2. NoNullEngine' /\ UIWhere'
    BY <1>1, <2>1 DEF GLTakeEvent
  <2>3. GLWhere' /\ TeardownQuiet'
    BY <1>1, <2>1 DEF GLTakeEvent
  <2>4. Events'
    BY <1>1, <2>1 DEF GLTakeEvent
  <2>5. PauseProtocol' /\ Playing' /\ InFront' /\ Built'
    BY <1>1, <2>1 DEF GLTakeEvent
  <2> QED BY <1>0, <2>2, <2>3, <2>4, <2>5
<1>2. CASE GLRunBlock
  <2>1. NoNullEngine'
    BY <1>2 DEF GLRunBlock
  <2>2. UIWhere'
    BY <1>2 DEF GLRunBlock
  <2>3. GLWhere' /\ TeardownQuiet'
    BY <1>2 DEF GLRunBlock
  <2>4. Events'
    BY <1>2 DEF GLRunBlock
  <2>5. PauseProtocol' /\ Playing' /\ InFront'
    BY <1>2 DEF GLRunBlock
  <2>6. Built'
    BY <1>2 DEF GLRunBlock
  <2> QED BY <1>0, <2>1, <2>2, <2>3, <2>4, <2>5, <2>6
<1>3. CASE GLRunKey
  BY <1>0, <1>3 DEF GLRunKey
<1>4. CASE GLPause
  <2>1. NoNullEngine'
    BY <1>4 DEF GLPause, GLIdle
  <2>2. UIWhere'
    BY <1>4 DEF GLPause, GLIdle
  <2>3. GLWhere' /\ TeardownQuiet'
    BY <1>4 DEF GLPause, GLIdle
  <2>4. Events'
    BY <1>4 DEF GLPause, GLIdle
  <2>5. PauseProtocol' /\ Playing' /\ InFront'
    BY <1>4 DEF GLPause, GLIdle
  <2>6. Built'
    BY <1>4 DEF GLPause, GLIdle
  <2> QED BY <1>0, <2>1, <2>2, <2>3, <2>4, <2>5, <2>6
<1>5. CASE GLSurface
  BY <1>0, <1>5 DEF GLSurface, GLIdle
<1>6. CASE GLExit
  BY <1>0, <1>6 DEF GLExit
<1>7. CASE OnSurfaceCreated
  BY <1>0, <1>7 DEF OnSurfaceCreated
<1>8. CASE LoadGame
  <2>1. NoNullEngine'
    BY <1>8 DEF LoadGame
  <2>2. UIWhere'
    BY <1>8 DEF LoadGame
  <2>3. GLWhere' /\ TeardownQuiet'
    BY <1>8 DEF LoadGame
  <2>4. Events'
    BY <1>8 DEF LoadGame
  <2>5. PauseProtocol' /\ Playing' /\ InFront'
    BY <1>8 DEF LoadGame
  <2>6. Built'
    BY <1>8 DEF LoadGame
  <2> QED BY <1>0, <2>1, <2>2, <2>3, <2>4, <2>5, <2>6
<1>9. CASE SurfaceCreatedNative
  BY <1>0, <1>9 DEF SurfaceCreatedNative
<1>10. CASE PostObserver
  BY <1>0, <1>10 DEF PostObserver
<1>11. CASE OnSurfaceChanged
  BY <1>0, <1>11 DEF OnSurfaceChanged
<1>12. CASE OnDrawFrame
  BY <1>0, <1>12 DEF OnDrawFrame
<1>13. CASE Step
  BY <1>0, <1>13 DEF Step
<1> QED
  BY <1>1, <1>2, <1>3, <1>4, <1>5, <1>6, <1>7, <1>8, <1>9, <1>10, <1>11, <1>12, <1>13 DEF GLContinue

\* A pass that begins, or a context that is lost between two, keeps it.
LEMMA GLBetweenPassesIInv == IInv /\ proc = "running" /\ (GLBeginPass \/ GLLoseContext) => IInv'
<1> SUFFICES ASSUME IInv, proc = "running", GLBeginPass \/ GLLoseContext PROVE IInv'
  OBVIOUS
<1>0. TypeOK'
  BY GLBetweenPassesTypeOK DEF IInv
<1> USE MaxKeysAssumption
    DEF IInv, TypeOK, NoNullEngine, UIWhere, GLWhere, TeardownQuiet, Events,
        PauseProtocol, Playing, InFront, Built, Torn, EngineUp, NoOps, NoKeys,
        UIStates, Waiting, GLStates, DrawPass,
        looper, flags, glsv, engine, UIThread, GLThread
<1>1. CASE GLBeginPass
  BY <1>0, <1>1 DEF GLBeginPass, GLIdle
<1>2. CASE GLLoseContext
  <2>1. NoNullEngine'
    BY <1>2 DEF GLLoseContext, GLIdle
  <2>2. UIWhere'
    BY <1>2 DEF GLLoseContext, GLIdle
  <2>3. GLWhere' /\ TeardownQuiet'
    BY <1>2 DEF GLLoseContext, GLIdle
  <2>4. Events'
    BY <1>2 DEF GLLoseContext, GLIdle
  <2>5. PauseProtocol' /\ Playing' /\ InFront'
    BY <1>2 DEF GLLoseContext, GLIdle
  <2>6. Built'
    BY <1>2 DEF GLLoseContext, GLIdle
  <2> QED BY <1>0, <2>1, <2>2, <2>3, <2>4, <2>5, <2>6
<1> QED
  BY <1>1, <1>2

\* Every step keeps the inductive invariant.
LEMMA NextIInv == IInv /\ [Next]_vars => IInv'
  BY StutterIInv, StartedIInv, UIContinueIInv, GLContinueIInv, GLBetweenPassesIInv
  DEF Next, Halted

\* IInv holds in every reachable state.
THEOREM Invariance == Spec => []IInv
<1>1. Init => IInv
  BY InitIInv
<1>2. IInv /\ [Next]_vars => IInv'
  BY NextIInv
<1> QED
  BY <1>1, <1>2, PTL DEF Spec

\* Type correctness, with the bound on the GL event queue: blocks are queued
\* one at a time because runOnGLThread waits.
THEOREM TypeCorrect == Spec => []TypeOK
<1>1. IInv => TypeOK
  BY DEF IInv
<1> QED
  BY <1>1, Invariance, PTL

\* No engine object that is missing is ever called into unless create() failed.
THEOREM EngineNeverNull == Spec => []NoNullEngine
<1>1. IInv => NoNullEngine
  BY DEF IInv
<1> QED
  BY <1>1, Invariance, PTL

\* The main thread frees no engine object that the GL thread is using.
THEOREM EngineExclusion == Spec => []EngineExclusive
<1>1. IInv => EngineExclusive
  <2> SUFFICES ASSUME IInv PROVE EngineExclusive
    OBVIOUS
  <2>1. ui \in {"destroy", "offDestroy"} => gl \in {"loop", "none"} /\ evq = <<>>
    <3>1. CASE ui = "destroy"
      BY <3>1 DEF IInv, UIWhere, GLWhere, TeardownQuiet
    <3>2. CASE ui = "offDestroy"
      BY <3>2 DEF IInv, TeardownQuiet
    <3> QED BY <3>1, <3>2
  <2>2. ui = "pauseNative" => gl # "step" /\ (gl = "key" => menu)
    BY DEF IInv, GLWhere, PauseProtocol, DrawPass
  <2>3. ui = "touch" /\ input => gl # "surfNative"
    BY DEF IInv, Built
  <2> QED BY <2>1, <2>2, <2>3 DEF EngineExclusive
<1> QED
  BY <1>1, Invariance, PTL

\* No frame is run and no sound is played for an activity that is not in front.
THEOREM PausedIsQuiet == Spec => []QuietWhenPaused
<1>1. IInv => QuietWhenPaused
  BY DEF IInv, Playing, UIWhere, QuietWhenPaused, Torn, Built, GLWhere,
         TeardownQuiet, TypeOK
<1> QED
  BY <1>1, Invariance, PTL

\* A core that runs a game is never told to load it again.
THEOREM LoadsOnce == Spec => []LoadOnce
<1>1. IInv => LoadOnce
  BY DEF IInv, Built, LoadOnce
<1> QED
  BY <1>1, Invariance, PTL

\* In front, a loaded game plays.
THEOREM FrontPlays == Spec => []PlaysInFront
<1>1. IInv => PlaysInFront
  BY DEF IInv, InFront, PlaysInFront
<1> QED
  BY <1>1, Invariance, PTL

\* The two threads never wait for each other.
THEOREM WaitsForWorker == Spec => []NoMutualWait
<1>1. IInv => NoMutualWait
  <2> SUFFICES ASSUME IInv, InVain
               PROVE \/ gl \in DrawPass \cup {"op", "key"}
                     \/ gl = "loop" /\ \/ shouldExit \/ evq # <<>>
                                       \/ paused # requestPaused
                                       \/ hasSurface = waitingForSurface
    BY DEF NoMutualWait
  <2>1. gl # "none"
    BY DEF IInv, GLWhere, UIWhere, InVain, Waiting
  <2>2. gl # "exited"
    BY DEF IInv, GLWhere, UIWhere, InVain, Waiting, WaitOver
  <2>3. gl \in DrawPass \cup {"loop", "op", "key"}
    BY <2>1, <2>2 DEF IInv, TypeOK, GLStates
  <2>4. ASSUME gl = "loop"
        PROVE  \/ shouldExit \/ evq # <<>>
               \/ paused # requestPaused \/ hasSurface = waitingForSurface
    <3>1. CASE ui \in {"latch", "offLatch"}
      BY <2>4, <3>1 DEF IInv, Events, InVain, WaitOver
    <3>2. CASE ui = "exitWait"
      BY <3>2 DEF IInv, GLWhere
    <3>3. CASE ui \in {"surfNew", "surfGone"}
      BY <3>3 DEF IInv, UIWhere, TypeOK, InVain, WaitOver
    <3>4. CASE ui \in {"resumeWait", "menuResume"}
      BY <3>4 DEF IInv, PauseProtocol, TypeOK, InVain, WaitOver
    <3>5. CASE ui \in {"pauseWait", "menuPause", "offPause"}
      BY <3>5 DEF IInv, PauseProtocol, TypeOK, InVain, WaitOver
    <3> QED
      BY <3>1, <3>2, <3>3, <3>4, <3>5 DEF InVain, Waiting
  <2> QED
    BY <2>3, <2>4
<1> QED
  BY <1>1, Invariance, PTL

-----------------------------------------------------------------------------
(* The main thread's waits: the measure Work goes down.                    *)

\* No call of the main thread goes on while it waits in vain.
LEMMA MainIsHeld == InVain => ~Started /\ ~UIContinue
<1> SUFFICES ASSUME InVain PROVE ~Started /\ ~UIContinue
  OBVIOUS
<1>1. ui # "idle"
  BY DEF InVain, Waiting
<1>2. ~Started
  BY <1>1 DEF Started, Create, Resume, Pause, Stop, Restart, SurfaceNew, Destroy,
     EngineCall, SendKeyEvent, Touch, OpenMenu, CloseMenu, PowerOff
<1>3. ~(ResumeNative \/ PauseNative \/ DestroyNative \/ AddObserver \/ Autosave
        \/ TouchDone \/ PowerOffDestroy \/ PowerOffExit)
  BY DEF InVain, Waiting, ResumeNative, PauseNative, DestroyNative, AddObserver,
     Autosave, TouchDone, PowerOffDestroy, PowerOffExit
<1>4. ~(ResumeDone \/ PauseAcked \/ SurfaceGone \/ SurfaceNoticed \/ Detached
        \/ LatchOpen \/ MenuPaused \/ MenuResumed \/ PowerOffSaved \/ PowerOffPaused)
  BY DEF InVain, WaitOver, ResumeDone, PauseAcked, SurfaceGone, SurfaceNoticed,
     Detached, LatchOpen, MenuPaused, MenuResumed, PowerOffSaved, PowerOffPaused
<1> QED
  BY <1>2, <1>3, <1>4 DEF UIContinue

\* Nor does a pass of the drawing loop begin.
LEMMA NoPassBegins == IInv /\ InVain => ~GLBeginPass
<1> SUFFICES ASSUME IInv, InVain, GLBeginPass PROVE FALSE
  OBVIOUS
<1>1. /\ gl = "loop" /\ ~shouldExit /\ evq = <<>>
      /\ ~paused /\ ~requestPaused /\ hasSurface /\ ~waitingForSurface
  BY DEF GLBeginPass, GLIdle
<1>2. CASE ui \in {"latch", "offLatch"}
  BY <1>1, <1>2 DEF IInv, Events, InVain, WaitOver
<1>3. CASE ui \in {"exitWait", "surfGone"}
  BY <1>1, <1>3 DEF IInv, GLWhere, UIWhere
<1>4. CASE ui \in {"resumeWait", "menuResume", "surfNew"}
  BY <1>1, <1>4 DEF InVain, WaitOver
<1>5. CASE ui \in {"pauseWait", "menuPause", "offPause"}
  BY <1>1, <1>5 DEF IInv, PauseProtocol
<1> QED
  BY <1>2, <1>3, <1>4, <1>5 DEF InVain, Waiting

\* The parts of Work are natural numbers.
LEMMA WorkParts ==
  /\ PauseDue \in Nat /\ SurfaceDue \in Nat /\ ContextUp \in Nat
  /\ TypeOK => PassSteps[gl] \in Nat /\ Len(evq) \in Nat
<1>1. PauseDue \in Nat /\ SurfaceDue \in Nat /\ ContextUp \in Nat
  BY DEF PauseDue, SurfaceDue, ContextUp
<1>2. ASSUME TypeOK PROVE PassSteps[gl] \in Nat
  BY <1>2 DEF TypeOK, GLStates, DrawPass, PassSteps
<1>3. ASSUME TypeOK PROVE Len(evq) \in Nat
  BY <1>3 DEF TypeOK
<1> QED
  BY <1>1, <1>2, <1>3

LEMMA WorkIsNat == TypeOK => Work \in Nat
<1> SUFFICES ASSUME TypeOK PROVE Work \in Nat
  OBVIOUS
<1> DEFINE p == PassSteps[gl]
           q == Len(evq)
<1>1. p \in Nat /\ q \in Nat /\ PauseDue \in Nat /\ SurfaceDue \in Nat /\ ContextUp \in Nat
  BY WorkParts
<1>2. Work = p + 2 * q + PauseDue + SurfaceDue + ContextUp
  BY DEF Work
<1> HIDE DEF p, q
<1> QED
  BY <1>1, <1>2

\* A step that leaves the queue alone and lowers one of the other parts, raising
\* none, lowers Work.
LEMMA LessWork ==
  ASSUME TypeOK, TypeOK', UNCHANGED evq,
         PauseDue' <= PauseDue, SurfaceDue' <= SurfaceDue, ContextUp' <= ContextUp,
         PassSteps[gl]' <= PassSteps[gl],
         \/ PassSteps[gl]' < PassSteps[gl] \/ PauseDue' < PauseDue
         \/ SurfaceDue' < SurfaceDue \/ ContextUp' < ContextUp
  PROVE  Work' < Work
<1>1. /\ PauseDue \in Nat /\ SurfaceDue \in Nat /\ ContextUp \in Nat
      /\ PassSteps[gl] \in Nat /\ Len(evq) \in Nat
  BY WorkParts
<1>2. /\ PauseDue' \in Nat /\ SurfaceDue' \in Nat /\ ContextUp' \in Nat
      /\ PassSteps[gl]' \in Nat
  <2>1. PauseDue' \in Nat /\ SurfaceDue' \in Nat /\ ContextUp' \in Nat
    BY DEF PauseDue, SurfaceDue, ContextUp
  <2>2. PassSteps[gl]' \in Nat
    BY DEF TypeOK, GLStates, DrawPass, PassSteps
  <2> QED BY <2>1, <2>2
<1> DEFINE q == 2 * Len(evq)
<1>3. q \in Nat
  BY <1>1
<1>4. Work = PassSteps[gl] + q + PauseDue + SurfaceDue + ContextUp
  BY DEF Work
<1>5. Work' = PassSteps[gl]' + q + PauseDue' + SurfaceDue' + ContextUp'
  BY DEF Work
<1> HIDE DEF q
<1>6. ASSUME NEW p \in Nat, NEW a \in Nat, NEW b \in Nat, NEW c \in Nat,
             NEW p1 \in Nat, NEW a1 \in Nat, NEW b1 \in Nat, NEW c1 \in Nat,
             NEW r \in Nat,
             p1 <= p, a1 <= a, b1 <= b, c1 <= c,
             p1 < p \/ a1 < a \/ b1 < b \/ c1 < c
      PROVE  p1 + r + a1 + b1 + c1 < p + r + a + b + c
  BY <1>6
<1> QED
  BY <1>1, <1>2, <1>3, <1>4, <1>5, <1>6

\* The steps inside a call of the GL thread only go on with it.
LEMMA PassGoesOn ==
  ASSUME TypeOK, TypeOK', PassSteps[gl]' < PassSteps[gl],
         UNCHANGED <<evq, requestPaused, paused, hasSurface, waitingForSurface, context>>
  PROVE  Work' < Work
<1>1. PauseDue' = PauseDue /\ SurfaceDue' = SurfaceDue /\ ContextUp' = ContextUp
  BY DEF PauseDue, SurfaceDue, ContextUp
<1>2. PauseDue' <= PauseDue /\ SurfaceDue' <= SurfaceDue /\ ContextUp' <= ContextUp
  BY <1>1, WorkParts
<1>3. PassSteps[gl]' <= PassSteps[gl]
  BY DEF TypeOK, GLStates, DrawPass, PassSteps
<1> QED
  BY <1>2, <1>3, LessWork

\* Every step of the GL thread is one of the steps left to it.
LEMMA GLWorkShrinks ==
  IInv /\ TypeOK' /\ proc' = "running" /\ (GLContinue \/ GLLoseContext) => Work' < Work
<1> SUFFICES ASSUME IInv, TypeOK', proc' = "running", GLContinue \/ GLLoseContext
             PROVE  Work' < Work
  OBVIOUS
<1>0. TypeOK
  BY DEF IInv
<1>1. CASE GLTakeEvent
  <2>1. /\ gl = "loop" /\ gl' \in {"op", "key"} /\ Len(evq') = Len(evq) - 1
        /\ Len(evq) \in Nat
    BY <1>0, <1>1 DEF GLTakeEvent, TypeOK
  <2>2. PassSteps[gl] = 1 /\ PassSteps[gl]' = 2
    BY <2>1 DEF PassSteps
  <2>3. PauseDue' = PauseDue /\ SurfaceDue' = SurfaceDue /\ ContextUp' = ContextUp
    BY <1>1 DEF GLTakeEvent, glsv, PauseDue, SurfaceDue, ContextUp
  <2> QED BY <2>1, <2>2, <2>3, WorkParts DEF Work
<1>2. CASE GLPause
  <2>1. /\ PauseDue' < PauseDue /\ PauseDue' <= PauseDue
        /\ SurfaceDue' <= SurfaceDue /\ ContextUp' <= ContextUp
    BY <1>2 DEF GLPause, PauseDue, SurfaceDue, ContextUp
  <2>2. PassSteps[gl]' <= PassSteps[gl] /\ UNCHANGED evq
    BY <1>2 DEF GLPause, GLIdle, PassSteps
  <2> QED BY <1>0, <2>1, <2>2, LessWork
<1>3. CASE GLSurface
  <2>1. /\ SurfaceDue' < SurfaceDue /\ SurfaceDue' <= SurfaceDue
        /\ PauseDue' <= PauseDue /\ ContextUp' <= ContextUp
    BY <1>0, <1>3 DEF GLSurface, PauseDue, SurfaceDue, ContextUp, TypeOK
  <2>2. PassSteps[gl]' <= PassSteps[gl] /\ UNCHANGED evq
    BY <1>3 DEF GLSurface, GLIdle, PassSteps
  <2> QED BY <1>0, <2>1, <2>2, LessWork
<1>4. CASE GLLoseContext
  <2>1. /\ ContextUp' < ContextUp /\ ContextUp' <= ContextUp
        /\ PauseDue' <= PauseDue /\ SurfaceDue' <= SurfaceDue
    BY <1>4 DEF GLLoseContext, PauseDue, SurfaceDue, ContextUp
  <2>2. PassSteps[gl]' <= PassSteps[gl] /\ UNCHANGED evq
    BY <1>4 DEF GLLoseContext, GLIdle, PassSteps
  <2> QED BY <1>0, <2>1, <2>2, LessWork
<1>5. CASE GLRunBlock \/ GLRunKey \/ GLExit
  <2>1. PassSteps[gl]' < PassSteps[gl]
    BY <1>5 DEF GLRunBlock, GLRunKey, GLExit, PassSteps
  <2> QED BY <1>0, <1>5, <2>1, PassGoesOn DEF GLRunBlock, GLRunKey, GLExit, glsv
<1>6. CASE OnSurfaceCreated \/ LoadGame \/ SurfaceCreatedNative \/ PostObserver
  <2>1. PassSteps[gl]' < PassSteps[gl]
    BY <1>6 DEF OnSurfaceCreated, LoadGame, SurfaceCreatedNative, PostObserver, PassSteps
  <2> QED BY <1>0, <1>6, <2>1, PassGoesOn
          DEF OnSurfaceCreated, LoadGame, SurfaceCreatedNative, PostObserver, glsv
<1>7. CASE OnSurfaceChanged \/ OnDrawFrame \/ Step
  <2>1. PassSteps[gl]' < PassSteps[gl]
    BY <1>7 DEF OnSurfaceChanged, OnDrawFrame, Step, PassSteps
  <2> QED BY <1>0, <1>7, <2>1, PassGoesOn DEF OnSurfaceChanged, OnDrawFrame, Step, glsv
<1> QED
  BY <1>1, <1>2, <1>3, <1>4, <1>5, <1>6, <1>7 DEF GLContinue

\* A wait of the main thread is over after at most Work steps of anybody.
THEOREM WaitsShrink == Spec => WaitShrinks
<1>1. IInv /\ IInv' /\ [Next]_vars => [InVain /\ proc' = "running" => Work' < Work]_vars
  <2> SUFFICES ASSUME IInv, IInv', Next, InVain, proc' = "running"
               PROVE  Work' < Work \/ UNCHANGED vars
    OBVIOUS
  <2>1. ~Started /\ ~UIContinue
    BY MainIsHeld
  <2>2. ~GLBeginPass
    BY NoPassBegins
  <2>3. TypeOK'
    BY DEF IInv
  <2>4. Started \/ UIContinue \/ GLContinue \/ GLBeginPass \/ GLLoseContext
        \/ UNCHANGED vars
    BY Zenon DEF Next, Halted
  <2> QED BY <2>1, <2>2, <2>3, <2>4, GLWorkShrinks
<1> QED
  BY <1>1, Invariance, PTL DEF Spec, WaitShrinks

-----------------------------------------------------------------------------
(* The core's contract: each step of the session is a step of CoreContract *)
(* or leaves it alone.                                                     *)

Closing == {"destroy", "offDestroy"}
InCore == {"loading", "surfNative", "step", "op"}

\* While the core is being closed the GL thread is out of it; a load finds it open.
LEMMA CoreApart ==
  IInv => /\ ui \in Closing => gl \notin InCore
          /\ gl = "loading" => core = "init"
<1> SUFFICES ASSUME IInv
             PROVE  /\ ui \in Closing => gl \notin InCore
                    /\ gl = "loading" => core = "init"
  OBVIOUS
<1>1. ui \in Closing => gl \notin InCore
  BY DEF IInv, TeardownQuiet, Closing, InCore
<1>2. ASSUME gl = "loading" PROVE core = "init"
  <2>1. ~Torn /\ act # "new"
    BY <1>2 DEF IInv, TeardownQuiet, GLWhere, Torn, UIWhere
  <2>2. core # "null" /\ core # "game"
    BY <1>2, <2>1 DEF IInv, Built
  <2> QED BY <2>2 DEF IInv, TypeOK
<1> QED
  BY <1>1, <1>2

\* The one call in progress, by where the two threads are.
OneCall ==
  /\ ui \in Closing => CoreCalls = {"close"}
  /\ gl = "loading" => CoreCalls = {"load"}
  /\ gl = "surfNative" => CoreCalls = {"avInfo"}
  /\ gl = "step" => CoreCalls = {"run"}
  /\ gl = "op" /\ core # "null" => CoreCalls = {"state"}
  /\ gl = "op" /\ core = "null" => CoreCalls = {}
  /\ gl \notin InCore /\ ui \notin Closing => CoreCalls = {}

LEMMA CallNow == IInv => OneCall
<1> SUFFICES ASSUME IInv PROVE OneCall
  OBVIOUS
<1> USE CoreApart DEF OneCall, Closing, InCore, CoreCalls
<1>1. CASE ui \in Closing
  BY <1>1
<1>2. CASE ui \notin Closing
  BY <1>2
<1> QED
  BY <1>1, <1>2

LEMMA CallNext == IInv' => OneCall'
  BY CallNow, PTL

\* A step outside the core changes nothing for it.
LEMMA OutsideCore ==
  ASSUME core' = core,
         gl' = gl \/ {gl, gl'} \cap InCore = {},
         ui' = ui \/ {ui, ui'} \cap Closing = {}
  PROVE  UNCHANGED Contract!vars
<1>1. CorePhase' = CorePhase
  BY DEF CorePhase
<1>2. CoreCalls' = CoreCalls
  BY DEF CoreCalls, InCore, Closing
<1> QED
  BY <1>1, <1>2 DEF Contract!vars

LEMMA ContractInit == Init => Contract!Init
<1> SUFFICES ASSUME Init PROVE Contract!Init
  OBVIOUS
<1>1. CorePhase = "closed"
  BY DEF Init, CorePhase
<1>2. CoreCalls = {}
  BY DEF Init, CoreCalls
<1> QED
  BY <1>1, <1>2 DEF Contract!Init

\* What the main thread does to the core: a new session opens one, the two ways
\* out of a session close it.
LEMMA ContractMain ==
  IInv /\ IInv' /\ proc = "running" /\ (Started \/ UIContinue) => [Contract!Next]_Contract!vars
<1> SUFFICES ASSUME IInv, IInv', proc = "running", Started \/ UIContinue
             PROVE  [Contract!Next]_Contract!vars
  OBVIOUS
<1> USE DEF UIThread, GLThread, engine, looper, flags, glsv, Closing, InCore
<1>1. CASE Create
  <2>1. gl \notin InCore /\ ui \notin Closing /\ gl' \notin InCore /\ ui' \notin Closing
    BY <1>1 DEF IInv, GLWhere, Create
  <2>2. CoreCalls = {} /\ CoreCalls' = {}
    BY <2>1, CallNow, CallNext DEF OneCall
  <2>3. CorePhase' \in {"open", "closed"}
    BY <1>1 DEF Create, CorePhase
  <2>4. Contract!Open
    BY <2>2, <2>3 DEF Contract!Open
  <2> QED BY <2>4 DEF Contract!Next
<1>2. CASE Destroy
  <2>1. gl \notin InCore /\ gl' = gl /\ core' = core /\ ui \notin Closing
    BY <1>2 DEF IInv, UIWhere, GLWhere, Events, TeardownQuiet, Destroy, TypeOK
  <2>2. CASE isAborted
    BY <1>2, <2>1, <2>2, OutsideCore DEF Destroy
  <2>3. CASE ~isAborted
    <3>1. CoreCalls = {} /\ CoreCalls' = {"close"}
      BY <1>2, <2>1, <2>3, CallNow, CallNext DEF OneCall, Destroy
    <3>2. core # "null"
      BY <1>2, <2>3 DEF Destroy, IInv, Built, Torn
    <3>3. CorePhase' = CorePhase /\ CorePhase \in {"open", "game"}
      BY <2>1, <3>2 DEF CorePhase, IInv, TypeOK
    <3>4. Contract!Enter("close")
      BY <3>1, <3>3 DEF Contract!Enter, Contract!Phases
    <3> QED BY <3>4 DEF Contract!Next, Contract!Calls, Contract!Phases
  <2> QED BY <2>2, <2>3
<1>3. CASE PowerOffPaused
  <2>1. gl' = gl /\ core' = core /\ ui \notin Closing
    BY <1>3 DEF PowerOffPaused
  <2>2. CASE isAborted
    BY <1>3, <2>1, <2>2, OutsideCore DEF PowerOffPaused
  <2>3. CASE ~isAborted
    <3>1. ui' = "offDestroy" /\ gl \notin InCore
      BY <1>3, <2>1, <2>3 DEF PowerOffPaused, IInv, TeardownQuiet
    <3>2. CoreCalls = {} /\ CoreCalls' = {"close"}
      BY <2>1, <3>1, CallNow, CallNext DEF OneCall
    <3>3. core # "null"
      BY <1>3, <2>3 DEF PowerOffPaused, IInv, Built, Torn, UIWhere
    <3>4. CorePhase' = CorePhase /\ CorePhase \in {"open", "game"}
      BY <2>1, <3>3 DEF CorePhase, IInv, TypeOK
    <3>5. Contract!Enter("close")
      BY <3>2, <3>4 DEF Contract!Enter, Contract!Phases
    <3> QED BY <3>5 DEF Contract!Next, Contract!Calls, Contract!Phases
  <2> QED BY <2>2, <2>3
<1>4. CASE DestroyNative \/ PowerOffDestroy
  <2>1. ui \in Closing /\ gl' = gl /\ gl \notin InCore
    BY <1>4, CoreApart DEF DestroyNative, PowerOffDestroy
  <2>2. CASE core = "null"
    BY <1>4, <2>1, <2>2, OutsideCore DEF DestroyNative, PowerOffDestroy
  <2>3. CASE core # "null"
    <3>1. ui' \notin Closing /\ core' = "null"
      BY <1>4, <2>3 DEF DestroyNative, PowerOffDestroy, DropEngine
    <3>2. CoreCalls = {"close"} /\ CoreCalls' = {}
      BY <2>1, <3>1, CallNow, CallNext DEF OneCall
    <3>3. CorePhase' = "closed"
      BY <3>1 DEF CorePhase
    <3>4. Contract!Leave("close")
      BY <3>2, <3>3 DEF Contract!Leave
    <3> QED BY <3>4 DEF Contract!Next, Contract!Calls, Contract!Phases
  <2> QED BY <2>2, <2>3
<1>5. CASE \/ Resume \/ Pause \/ Stop \/ Restart \/ SurfaceNew
           \/ EngineCall \/ SendKeyEvent \/ Touch \/ OpenMenu \/ CloseMenu \/ PowerOff
  <2>1. gl' = gl /\ core' = core /\ ui \notin Closing /\ ui' \notin Closing
    BY <1>5 DEF Resume, Pause, Stop, Restart, SurfaceNew, EngineCall, SendKeyEvent,
       Touch, OpenMenu, CloseMenu, PowerOff, RunOnGLThread
  <2> QED BY <2>1, OutsideCore
<1>6. CASE \/ ResumeNative \/ ResumeDone \/ PauseAcked \/ PauseNative
           \/ SurfaceGone \/ SurfaceNoticed \/ Detached
           \/ AddObserver \/ Autosave \/ LatchOpen \/ TouchDone
           \/ MenuPaused \/ MenuResumed \/ PowerOffSaved \/ PowerOffExit
  <2>1. gl' = gl /\ core' = core /\ ui \notin Closing /\ ui' \notin Closing
    BY <1>6 DEF ResumeNative, ResumeDone, PauseAcked, PauseNative, SurfaceGone,
       SurfaceNoticed, Detached, AddObserver, Autosave, LatchOpen, TouchDone,
       MenuPaused, MenuResumed, PowerOffSaved, PowerOffExit, RunOnGLThread
  <2> QED BY <2>1, OutsideCore
<1> QED
  BY <1>1, <1>2, <1>3, <1>4, <1>5, <1>6 DEF Started, UIContinue

\* What the GL thread does to it: it loads the game, runs it and serves the
\* blocks that ask for states.
LEMMA ContractGL ==
  IInv /\ IInv' /\ proc = "running" /\ (GLContinue \/ GLBeginPass \/ GLLoseContext)
    => [Contract!Next]_Contract!vars
<1> SUFFICES ASSUME IInv, IInv', proc = "running",
                    GLContinue \/ GLBeginPass \/ GLLoseContext
             PROVE  [Contract!Next]_Contract!vars
  OBVIOUS
<1> USE DEF UIThread, GLThread, engine, looper, flags, glsv, Closing, InCore
<1>1. CASE GLTakeEvent
  <2>1. /\ gl = "loop" /\ gl' \in {"op", "key"} /\ core' = core /\ ui' = ui
        /\ ui \notin Closing
    BY <1>1 DEF GLTakeEvent, IInv, TypeOK, TeardownQuiet
  <2>2. CASE gl' = "op" /\ core # "null"
    <3>1. CoreCalls = {} /\ CoreCalls' = {"state"}
      BY <2>1, <2>2, CallNow, CallNext DEF OneCall
    <3>2. CorePhase' = CorePhase /\ CorePhase \in {"open", "game"}
      BY <2>1, <2>2 DEF CorePhase, IInv, TypeOK
    <3>3. Contract!Enter("state")
      BY <3>1, <3>2 DEF Contract!Enter, Contract!Phases
    <3> QED BY <3>3 DEF Contract!Next, Contract!Calls, Contract!Phases
  <2>3. CASE gl' = "op" /\ core = "null"
    <3>1. CoreCalls = {} /\ CoreCalls' = {}
      BY <2>1, <2>3, CallNow, CallNext DEF OneCall
    <3>2. CorePhase' = CorePhase
      BY <2>1 DEF CorePhase
    <3> QED BY <3>1, <3>2 DEF Contract!vars
  <2>4. CASE gl' = "key"
    BY <2>1, <2>4, OutsideCore
  <2> QED BY <2>1, <2>2, <2>3, <2>4
<1>2. CASE GLRunBlock
  <2>1. gl = "op" /\ core' = core /\ ui' = ui /\ ui \notin Closing
    BY <1>2, CoreApart DEF GLRunBlock
  <2>2. CASE core = "null"
    BY <1>2, <2>1, <2>2, OutsideCore DEF GLRunBlock
  <2>3. CASE core # "null"
    <3>1. CoreCalls = {"state"} /\ CoreCalls' = {}
      BY <1>2, <2>1, <2>3, CallNow, CallNext DEF OneCall, GLRunBlock
    <3>2. CorePhase' = CorePhase
      BY <2>1 DEF CorePhase
    <3>3. Contract!Leave("state")
      BY <3>1, <3>2 DEF Contract!Leave
    <3> QED BY <3>3 DEF Contract!Next, Contract!Calls, Contract!Phases
  <2> QED BY <2>2, <2>3
<1>3. CASE OnSurfaceCreated
  <2>1. gl = "surfaceCreated" /\ core' = core /\ ui' = ui /\ gl' \in {"surfaceChanged", "loading"}
    BY <1>3 DEF OnSurfaceCreated
  <2>2. CASE gl' = "loading"
    <3>1. core = "init" /\ ui \notin Closing
      <4>1. (ui \in Closing => gl \notin InCore)' /\ (gl = "loading" => core = "init")'
        BY CoreApart, PTL
      <4> QED BY <2>1, <2>2, <4>1
    <3>2. CoreCalls = {} /\ CoreCalls' = {"load"}
      BY <2>1, <2>2, <3>1, CallNow, CallNext DEF OneCall
    <3>3. CorePhase' = CorePhase /\ CorePhase = "open"
      BY <2>1, <3>1 DEF CorePhase
    <3>4. Contract!Enter("load")
      BY <3>2, <3>3 DEF Contract!Enter, Contract!Phases
    <3> QED BY <3>4 DEF Contract!Next, Contract!Calls, Contract!Phases
  <2>3. CASE gl' = "surfaceChanged"
    BY <2>1, <2>3, OutsideCore
  <2> QED BY <2>1, <2>2, <2>3
<1>4. CASE LoadGame
  <2>1. gl = "loading" /\ core = "init" /\ ui' = ui /\ ui \notin Closing
    BY <1>4, CoreApart DEF LoadGame
  <2>2. CoreCalls = {"load"}
    BY <2>1, CallNow DEF OneCall
  <2>3. CASE gl' = "surfNative" /\ core' = "game"
    <3>1. CoreCalls' = {"avInfo"}
      BY <2>3, CallNext DEF OneCall
    <3>2. CorePhase' = "game"
      BY <2>3 DEF CorePhase
    <3>3. Contract!Accept
      BY <2>2, <3>1, <3>2 DEF Contract!Accept
    <3> QED BY <3>3 DEF Contract!Next
  <2>4. CASE gl' = "surfaceChanged" /\ core' = core
    <3>1. CoreCalls' = {}
      BY <2>1, <2>4, CallNext DEF OneCall
    <3>2. CorePhase' = CorePhase
      BY <2>4 DEF CorePhase
    <3>3. Contract!Leave("load")
      BY <2>2, <3>1, <3>2 DEF Contract!Leave
    <3> QED BY <3>3 DEF Contract!Next, Contract!Calls, Contract!Phases
  <2> QED BY <1>4, <2>1, <2>3, <2>4 DEF LoadGame
<1>5. CASE SurfaceCreatedNative
  <2>1. /\ gl = "surfNative" /\ gl' = "post" /\ core' = core /\ ui' = ui
        /\ ui \notin Closing
    BY <1>5, CoreApart DEF SurfaceCreatedNative
  <2>2. CoreCalls = {"avInfo"} /\ CoreCalls' = {} /\ CorePhase' = CorePhase
    BY <2>1, CallNow, CallNext DEF OneCall, CorePhase
  <2>3. Contract!Leave("avInfo")
    BY <2>2 DEF Contract!Leave
  <2> QED BY <2>3 DEF Contract!Next, Contract!Calls, Contract!Phases
<1>6. CASE OnDrawFrame
  <2>1. gl = "drawFrame" /\ core' = core /\ ui' = ui /\ gl' \in {"loop", "step"}
    BY <1>6 DEF OnDrawFrame
  <2>2. CASE gl' = "step"
    <3>1. core = "game" /\ ui \notin Closing
      <4>1. isEmulationReady /\ isGameLoaded /\ ~Torn /\ ui \notin Closing
        BY <1>6, <2>1, <2>2
           DEF OnDrawFrame, IInv, Playing, Built, Torn, UIWhere, GLWhere, TeardownQuiet
      <4> QED BY <4>1 DEF IInv, Built, EngineUp
    <3>2. CoreCalls = {} /\ CoreCalls' = {"run"}
      BY <2>1, <2>2, <3>1, CallNow, CallNext DEF OneCall
    <3>3. CorePhase' = CorePhase /\ CorePhase = "game"
      BY <2>1, <3>1 DEF CorePhase
    <3>4. Contract!Enter("run")
      BY <3>2, <3>3 DEF Contract!Enter, Contract!Phases
    <3> QED BY <3>4 DEF Contract!Next, Contract!Calls, Contract!Phases
  <2>3. CASE gl' = "loop"
    BY <2>1, <2>3, OutsideCore
  <2> QED BY <2>1, <2>2, <2>3
<1>7. CASE Step
  <2>1. gl = "step" /\ core' = core /\ ui' = ui /\ ui \notin Closing
    BY <1>7, CoreApart DEF Step
  <2>2. CASE core = "null"
    BY <1>7, <2>1, <2>2, OutsideCore DEF Step
  <2>3. CASE core # "null"
    <3>1. CoreCalls = {"run"} /\ CoreCalls' = {} /\ CorePhase' = CorePhase
      BY <1>7, <2>1, <2>3, CallNow, CallNext DEF OneCall, CorePhase, Step
    <3>2. Contract!Leave("run")
      BY <3>1 DEF Contract!Leave
    <3> QED BY <3>2 DEF Contract!Next, Contract!Calls, Contract!Phases
  <2> QED BY <2>2, <2>3
<1>8. CASE \/ GLRunKey \/ GLPause \/ GLSurface \/ GLExit \/ PostObserver
           \/ OnSurfaceChanged \/ GLBeginPass \/ GLLoseContext
  <2>1. /\ core' = core /\ ui' = ui
        /\ gl' = gl \/ {gl, gl'} \cap InCore = {}
    BY <1>8 DEF GLRunKey, GLPause, GLSurface, GLExit, PostObserver, OnSurfaceChanged,
       GLBeginPass, GLLoseContext, GLIdle
  <2> QED BY <2>1, OutsideCore
<1> QED
  BY <1>1, <1>2, <1>3, <1>4, <1>5, <1>6, <1>7, <1>8 DEF GLContinue

\* The session keeps the contract of the core, as a refinement of CoreContract.
THEOREM KeepsContract == Spec => ImplementsContract
<1>1. Init => Contract!Init
  BY ContractInit
<1>2. IInv /\ IInv' /\ [Next]_vars => [Contract!Next]_Contract!vars
  <2> SUFFICES ASSUME IInv, IInv', [Next]_vars PROVE [Contract!Next]_Contract!vars
    OBVIOUS
  <2>1. CASE UNCHANGED vars
    BY <2>1, OutsideCore DEF vars, engine
  <2>2. CASE proc = "running" /\ Next
    BY <2>2, ContractMain, ContractGL, Zenon DEF Next, Halted
  <2>3. CASE proc # "running" /\ Next
    BY <2>3, <2>1 DEF Next, Halted
  <2> QED BY <2>1, <2>2, <2>3
<1> QED
  BY <1>1, <1>2, Invariance, PTL DEF Spec, ImplementsContract, Contract!Spec

\* Whatever the contract promises holds of the session: one call at a time, each
\* in a phase of the core that allows it.
THEOREM CoreServedInTurn == Spec => []Contract!InTurn
<1> USE DEF Contract!InTurn, Contract!Calls, Contract!Phases
<1>1. Contract!Init => Contract!InTurn
  BY DEF Contract!Init
<1>2. Contract!InTurn /\ [Contract!Next]_Contract!vars => Contract!InTurn'
  BY DEF Contract!Next, Contract!vars, Contract!Open, Contract!Accept, Contract!Enter,
         Contract!Leave
<1> QED
  BY <1>1, <1>2, KeepsContract, PTL DEF ImplementsContract, Contract!Spec

=============================================================================
