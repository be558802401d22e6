----------------------------- MODULE FrameEvents -----------------------------
(***************************************************************************)
(* What the core asks for during a frame and who hears of it: the strength *)
(* of rumble per port, the rotation of the screen and the geometry of the  *)
(* picture.  The core leaves them in class Environment; LibretroDroid::step *)
(* and the JNI function around it carry them on, on the GL thread, while   *)
(* the main thread may switch the rumble.                                  *)
(*                                                                         *)
(* The engine has its video and rumble objects: a step before that draws   *)
(* nothing.  A geometry is its aspect ratio, 0 when the core gave none.    *)
(***************************************************************************)
EXTENDS Integers

CONSTANTS
  Ports, Strengths,   \* rumble
  Rotations, Aspects  \* positive numbers for the aspect ratios

ASSUME EventsAssumption ==
  /\ 0 \in Strengths /\ 0 \in Rotations
  /\ Aspects \subseteq Nat \ {0} /\ 1 \in Aspects

VARIABLES
  strength,           \* Environment::rumbleStates
  rumbleStates, dirtyStates, rumbleEnabled,    \* class Rumble
  toldStrength,       \* the last strength told to the view
  screenRotation, screenRotationUpdated, layoutRotation,
  gameAspect, gameGeometryUpdated, dirtyVideo, layoutAspect,
  frame,              \* how far the step is
  heard               \* history: rumble was enabled in the step, so far

rumbleVars == <<strength, rumbleStates, dirtyStates, toldStrength>>
shapeVars == <<screenRotation, screenRotationUpdated, layoutRotation,
               gameAspect, gameGeometryUpdated, dirtyVideo, layoutAspect>>
eventVars == <<rumbleVars, rumbleEnabled, shapeVars, frame, heard>>

EventsTypeOK ==
  /\ strength \in [Ports -> Strengths] /\ rumbleStates \in [Ports -> Strengths]
  /\ toldStrength \in [Ports -> Strengths] /\ dirtyStates \in [Ports -> BOOLEAN]
  /\ rumbleEnabled \in BOOLEAN /\ heard \in BOOLEAN
  /\ screenRotation \in Rotations /\ layoutRotation \in Rotations
  /\ gameAspect \in Aspects \cup {0} /\ layoutAspect \in Aspects
  /\ screenRotationUpdated \in BOOLEAN /\ gameGeometryUpdated \in BOOLEAN
  /\ dirtyVideo \in BOOLEAN
  /\ frame \in {"paused", "idle", "run", "ran", "shape", "refresh", "handle"}

\* The surface has been created with the rotation of the moment.
EventsInit ==
  /\ strength = [p \in Ports |-> 0] /\ rumbleStates = strength
  /\ toldStrength = strength /\ dirtyStates = [p \in Ports |-> FALSE]
  /\ rumbleEnabled \in BOOLEAN /\ heard = FALSE
  /\ screenRotation \in Rotations /\ screenRotationUpdated \in BOOLEAN
  /\ layoutRotation = screenRotation
  /\ gameAspect \in Aspects \cup {0} /\ gameGeometryUpdated = (gameAspect # 0)
  /\ dirtyVideo = FALSE /\ layoutAspect = 1
  /\ frame = "paused"

-----------------------------------------------------------------------------
(* Variants of the definitions below with one fault each.                  *)

\* A fetch that forgets what was not handled.
FetchAnew ==
  /\ rumbleStates' = strength
  /\ dirtyStates' = [p \in Ports |-> rumbleStates[p] # strength[p]]

\* A rotation that is looked at only when the geometry has not changed.
RotateElse ==
  \/ gameGeometryUpdated
     /\ gameGeometryUpdated' = FALSE /\ dirtyVideo' = TRUE
     /\ UNCHANGED <<screenRotationUpdated, layoutRotation>>
  \/ ~gameGeometryUpdated /\ screenRotationUpdated
     /\ screenRotationUpdated' = FALSE /\ layoutRotation' = screenRotation
     /\ UNCHANGED <<gameGeometryUpdated, dirtyVideo>>
  \/ ~gameGeometryUpdated /\ ~screenRotationUpdated
     /\ UNCHANGED <<gameGeometryUpdated, dirtyVideo, screenRotationUpdated, layoutRotation>>

-----------------------------------------------------------------------------
\* getAspectRatio: that of the geometry, or else the default of the game.
AspectRatio == IF gameAspect > 0 THEN gameAspect ELSE 1

BeginFrame ==
  /\ frame = "idle" /\ frame' = "run"
  /\ UNCHANGED <<rumbleVars, rumbleEnabled, shapeVars, heard>>

(* The callbacks of the core during retro_run.                             *)

SetRumbleState(p, s) ==
  /\ frame = "run"
  /\ strength' = [strength EXCEPT ![p] = s]
  /\ UNCHANGED <<rumbleStates, dirtyStates, toldStrength, rumbleEnabled, shapeVars,
                 frame, heard>>

SetRotation(r) ==
  /\ frame = "run"
  /\ screenRotation' = r /\ screenRotationUpdated' = TRUE
  /\ UNCHANGED <<rumbleVars, rumbleEnabled, layoutRotation, gameAspect,
                 gameGeometryUpdated, dirtyVideo, layoutAspect, frame, heard>>

SetGeometry(a) ==
  /\ frame = "run"
  /\ gameAspect' = a /\ gameGeometryUpdated' = TRUE
  /\ UNCHANGED <<rumbleVars, rumbleEnabled, screenRotation, screenRotationUpdated,
                 layoutRotation, dirtyVideo, layoutAspect, frame, heard>>

CoreRan ==
  /\ frame = "run" /\ frame' = "ran"
  /\ UNCHANGED <<rumbleVars, rumbleEnabled, shapeVars, heard>>

(* The rest of step().                                                     *)

\* fetchFromEnvironment: what has changed is dirty until it is handled.
Fetch ==
  /\ rumbleStates' = strength
  /\ dirtyStates' = [p \in Ports |-> dirtyStates[p] \/ rumbleStates[p] # strength[p]]

FetchRumble ==
  /\ frame = "ran" /\ frame' = "shape"
  /\ heard' = rumbleEnabled
  /\ \/ rumbleEnabled /\ Fetch
     \/ ~rumbleEnabled /\ UNCHANGED <<rumbleStates, dirtyStates>>
  /\ UNCHANGED <<strength, toldStrength, rumbleEnabled, shapeVars>>

Reshape ==
  /\ \/ gameGeometryUpdated /\ gameGeometryUpdated' = FALSE /\ dirtyVideo' = TRUE
     \/ ~gameGeometryUpdated /\ UNCHANGED <<gameGeometryUpdated, dirtyVideo>>
  /\ \/ screenRotationUpdated
        /\ screenRotationUpdated' = FALSE /\ layoutRotation' = screenRotation
     \/ ~screenRotationUpdated /\ UNCHANGED <<screenRotationUpdated, layoutRotation>>

UpdateShape ==
  /\ frame = "shape" /\ frame' = "refresh"
  /\ Reshape
  /\ UNCHANGED <<rumbleVars, rumbleEnabled, screenRotation, gameAspect, layoutAspect, heard>>

(* The JNI function after step().                                          *)

\* The call to the view's refreshAspectRatio comes back on the same thread.
RefreshVideo ==
  /\ frame = "refresh" /\ frame' = "handle"
  /\ \/ dirtyVideo /\ dirtyVideo' = FALSE /\ layoutAspect' = AspectRatio
     \/ ~dirtyVideo /\ UNCHANGED <<dirtyVideo, layoutAspect>>
  /\ UNCHANGED <<rumbleVars, rumbleEnabled, screenRotation, screenRotationUpdated,
                 layoutRotation, gameAspect, gameGeometryUpdated, heard>>

HandleRumble ==
  /\ frame = "handle" /\ frame' = "idle"
  /\ \/ rumbleEnabled
        /\ toldStrength' =
             [p \in Ports |-> IF dirtyStates[p] THEN rumbleStates[p] ELSE toldStrength[p]]
        /\ dirtyStates' = [p \in Ports |-> FALSE]
        /\ heard' = heard
     \/ ~rumbleEnabled /\ heard' = FALSE /\ UNCHANGED <<toldStrength, dirtyStates>>
  /\ UNCHANGED <<strength, rumbleStates, rumbleEnabled, shapeVars>>

(* The main thread.                                                        *)

SetRumbleEnabled ==
  /\ rumbleEnabled' = ~rumbleEnabled
  /\ UNCHANGED <<rumbleVars, shapeVars, frame, heard>>

ResumeFrames ==
  /\ frame = "paused" /\ frame' = "idle"
  /\ layoutAspect' = AspectRatio
  /\ UNCHANGED <<rumbleVars, rumbleEnabled, screenRotation, screenRotationUpdated,
                 layoutRotation, gameAspect, gameGeometryUpdated, dirtyVideo, heard>>

PauseFrames ==
  /\ frame = "idle" /\ frame' = "paused"
  /\ UNCHANGED <<rumbleVars, rumbleEnabled, shapeVars, heard>>

EventsNext ==
  \/ BeginFrame \/ CoreRan
  \/ \E p \in Ports, s \in Strengths : SetRumbleState(p, s)
  \/ \E r \in Rotations : SetRotation(r)
  \/ \E a \in Aspects : SetGeometry(a)
  \/ FetchRumble \/ UpdateShape \/ RefreshVideo \/ HandleRumble
  \/ SetRumbleEnabled \/ ResumeFrames \/ PauseFrames

EventsSpec == EventsInit /\ [][EventsNext]_eventVars

-----------------------------------------------------------------------------
\* After a step in which rumble was enabled both times that it is asked for,
\* the view has been told the strength that the core wants on every port, also
\* when earlier changes fell into steps during which rumble was switched.
RumbleTold == frame = "idle" /\ heard => toldStrength = strength

\* After every step and every resume the layout has the rotation and the aspect
\* ratio that the core asked for last, before the surface existed or since.
FrameShapeFollows ==
  frame = "idle" => layoutRotation = screenRotation /\ layoutAspect = AspectRatio
=============================================================================
