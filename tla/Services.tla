------------------------------- MODULE Services -------------------------------
(***************************************************************************)
(* The small parts of the engine, side by side.  They share no state with  *)
(* each other, so that nothing is lost when one of them moves at a time:   *)
(* "focus" is chosen at the start, and only the part that it names leaves  *)
(* its initial state.  Every property below speaks of a single part, and a *)
(* behaviour of that part alone is what the focus on it allows.            *)
(***************************************************************************)
EXTENDS FrameSync, CoreOptions, FrameEvents, Controls, Vfs, ShaderChain

VARIABLE focus

Parts == {"pace", "options", "events", "controls", "vfs", "chain"}

vars == <<focus, paceVars, optionVars, eventVars, controlVars, vfsVars, chainVars>>

TypeOK ==
  /\ focus \in Parts
  /\ PaceTypeOK /\ OptionsTypeOK /\ EventsTypeOK
  /\ ControlsTypeOK /\ VfsTypeOK /\ ChainTypeOK

\* A part that is not in focus stays in one of its initial states, a quiet one.
Still(part, quiet) == focus = part \/ quiet

Init ==
  /\ focus \in Parts
  /\ PaceInit /\ OptionsInit /\ EventsInit /\ ControlsInit /\ VfsInit /\ ChainInit
  /\ Still("pace", ~useVSync)
  /\ Still("events", ~rumbleEnabled /\ screenRotation = 0
                     /\ ~screenRotationUpdated /\ gameAspect = 0)
  /\ Still("vfs", loadUsingVFS)
  /\ Still("chain", ~hardwareAccelerated /\ ~skipDuplicateFrames
                    /\ fragmentShaderConfig = CHOOSE s \in Shaders : TRUE)

Next ==
  \/ /\ focus = "pace" /\ PaceNext
     /\ UNCHANGED <<focus, optionVars, eventVars, controlVars, vfsVars, chainVars>>
  \/ /\ focus = "options" /\ OptionsNext
     /\ UNCHANGED <<focus, paceVars, eventVars, controlVars, vfsVars, chainVars>>
  \/ /\ focus = "events" /\ EventsNext
     /\ UNCHANGED <<focus, paceVars, optionVars, controlVars, vfsVars, chainVars>>
  \/ /\ focus = "controls" /\ ControlsNext
     /\ UNCHANGED <<focus, paceVars, optionVars, eventVars, vfsVars, chainVars>>
  \/ /\ focus = "vfs" /\ VfsNext
     /\ UNCHANGED <<focus, paceVars, optionVars, eventVars, controlVars, chainVars>>
  \/ /\ focus = "chain" /\ ChainNext
     /\ UNCHANGED <<focus, paceVars, optionVars, eventVars, controlVars, vfsVars>>

Spec == Init /\ [][Next]_vars
=============================================================================
