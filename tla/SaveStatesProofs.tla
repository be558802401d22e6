-------------------------- MODULE SaveStatesProofs --------------------------
(***************************************************************************)
(* Proofs about SaveStates, for any number of slots and any length of play.*)
(* ResumesWhereLeft rests on an invariant that follows the state that was  *)
(* left from the autosave or the bundle, through the closure posted by     *)
(* onCreate, to the core.                                                  *)
(***************************************************************************)
EXTENDS SaveStates, TLAPS

\* Nothing is posted, no dialog is open and nothing runs behind the title.
TitleIsIdle ==
  screen = "title" =>
    /\ act = "stopped" /\ ~rewinding
    /\ game = NoGame /\ posted = <<>> /\ dialog = "none"

\* What was left whole is in the autosave.
LeftIsFiled == left # Unknown => autosave = left

\* In the background the game stands still and nothing is posted; the game and
\* the bundle are what was left, as far as no coroutine has moved the game.
LeftIsBundled ==
  screen = "game" /\ act # "resumed" /\ left # Unknown =>
    /\ game # NoGame /\ posted = <<>> /\ viewPaused
    /\ strayed = "no" => game = left
    /\ act = "paused" => strayed # "stopped"
    /\ act = "stopped" /\ strayed # "paused" => bundle = left

\* A continued game that is not in the core yet is the one restoration posted,
\* and nothing else is ever posted for it.
LeftIsPosted ==
  screen = "game" /\ intent = "load_auto_save" /\ left # Unknown /\ strayed # "paused" =>
    /\ game = NoGame => posted = <<left>>
    /\ posted # <<>> => posted = <<left>>

IInv == TypeOK /\ TitleIsIdle /\ LeftIsFiled /\ LeftIsBundled /\ LeftIsPosted

-----------------------------------------------------------------------------
\* A slot that is written keeps the ranks numbers.
LEMMA WrittenType ==
  ASSUME TypeOK, NEW s \in Slots
  PROVE  Written(s) \in [Slots -> Nat]
BY DEF Written, TypeOK, Slots

\* What onCreate posts is made of files that exist.
LEMMA ToRestoreType ==
  ASSUME TypeOK, NEW i \in Intents, NEW saved \in File
  PROVE  ToRestore(i, saved) \in Seq(Nat \cup {Torn})
<1> DEFINE S == Seq(Nat \cup {Torn})
           A == IF i = "new_game" THEN <<>>
                ELSE IF saved # Absent THEN <<saved>>
                ELSE IF autosave # Absent THEN <<autosave>> ELSE <<>>
           B == IF i = "load_last_manual_save" /\ slots[0] # Absent
                THEN <<slots[0]>> ELSE <<>>
<1>a. <<>> \in S /\ \A x \in Nat \cup {Torn} : <<x>> \in S
  OBVIOUS
<1>b. \A f \in File : f # Absent => f \in Nat \cup {Torn}
  BY DEF File
<1>1. A \in S
  <2>1. autosave \in File
    BY DEF TypeOK
  <2>. QED BY <1>a, <1>b, <2>1
<1>2. slots[0] \in File
  BY SavesAssumption DEF Slots, TypeOK
<1>3. B \in S
  BY <1>a, <1>b, <1>2
<1>4. A \o B \in S
  BY <1>1, <1>3
<1>. QED
  BY <1>4 DEF ToRestore

\* For a continued game it is the bundle, or else the autosave.
LEMMA ToRestoreContinued ==
  ASSUME NEW saved, saved # Absent \/ autosave # Absent
  PROVE  ToRestore("load_auto_save", saved)
           = <<IF saved # Absent THEN saved ELSE autosave>>
BY DEF ToRestore

\* The core keeps a state or no game, and knows only whole ones.
LEMMA RestoredType ==
  ASSUME TypeOK, NEW state \in Nat \cup {Torn}
  PROVE  Restored(state) \in Nat \cup {NoGame}
BY DEF Restored, TypeOK

\* Nor does a restoration or a reset take its game from a core.
LEMMA StillLoaded ==
  ASSUME NEW state, state # NoGame \/ state = Torn
  PROVE  /\ Restored(state) = NoGame => game = NoGame
         /\ ResetGame = NoGame => game = NoGame
BY SavesAssumption DEF Restored, ResetGame

-----------------------------------------------------------------------------
LEMMA InitIInv == Init => IInv
BY SavesAssumption
   DEF Init, IInv, TypeOK, TitleIsIdle, LeftIsFiled, LeftIsBundled, LeftIsPosted,
       Slots, Intents, File

LEMMA TypeStep == TypeOK /\ [Next]_vars => TypeOK'
<1> SUFFICES ASSUME TypeOK, [Next]_vars PROVE TypeOK'
  OBVIOUS
<1> USE SavesAssumption
<1>0. 0 \in Slots
  BY DEF Slots
<1> DEFINE Whole == Nat \cup {NoGame}
<1>A. Serialized \in Nat \cup {Torn} /\ LeftNow \in Nat \cup {Unknown}
  BY DEF Serialized, LeftNow, TypeOK
<1>B. ASSUME NEW i \in Intents, NEW saved \in File, OnCreate(i, saved)
      PROVE  /\ screen' = "game" /\ intent' \in Intents /\ bundle' \in File
             /\ act' \in {"resumed", "paused", "stopped"} /\ viewPaused' \in BOOLEAN
             /\ menuDue' \in BOOLEAN /\ rewinding' \in BOOLEAN
             /\ game' \in Whole /\ posted' \in Seq(Nat \cup {Torn})
             /\ dialog' = "none" /\ recent' = NoSlot
  BY <1>B, ToRestoreType DEF OnCreate
<1>C. ASSUME Gone
      PROVE  /\ screen' = "title" /\ intent' \in Intents /\ bundle' \in File
             /\ act' \in {"resumed", "paused", "stopped"} /\ viewPaused' \in BOOLEAN
             /\ menuDue' \in BOOLEAN /\ rewinding' \in BOOLEAN
             /\ game' \in Whole /\ posted' \in Seq(Nat \cup {Torn})
             /\ dialog' = "none" /\ recent' = NoSlot /\ play' \in Nat
             /\ strayed' = "no"
  <2>1. <<>> \in Seq(Nat \cup {Torn})
    OBVIOUS
  <2>. QED
    BY <1>C, <2>1 DEF Gone, TypeOK, File
<1>D. ASSUME NEW i \in Intents, Launch(i) PROVE TypeOK'
  <2>1. Absent \in File
    BY DEF File
  <2>2. OnCreate(i, Absent) /\ UNCHANGED <<play, fading, files, history>>
    BY <1>D DEF Launch
  <2>. QED
    BY <1>B, <2>1, <2>2 DEF TypeOK, files, history
<1>E. ASSUME WriteAutosave
      PROVE  autosave' \in File /\ left' \in Nat \cup {Unknown} /\ strayed' = "no"
  BY <1>A, <1>E DEF WriteAutosave, File
<1>F. ASSUME NEW s \in Slots, NEW f \in File
      PROVE  [slots EXCEPT ![s] = f] \in [Slots -> File]
  BY DEF TypeOK
<1>G. Serialized \in File /\ bundle \in File /\ intent \in Intents
  BY <1>A DEF File, TypeOK
<1>H. Stray => strayed' \in {"no", "paused", "stopped"}
  BY DEF Stray, TypeOK
<1>1. CASE Lifecycle
  <2>1. CASE NewGame
    BY <1>D, <2>1 DEF NewGame, Intents
  <2>2. CASE LoadMenu
    BY <1>D, <2>2 DEF LoadMenu, Intents
  <2>3. CASE Continue
    BY <1>D, <2>3 DEF Continue, Intents
  <2>4. CASE Pause
    BY <1>E, <2>4 DEF Pause, TypeOK
  <2>5. CASE Back
    BY <2>5 DEF Back, TypeOK, files
  <2>6. CASE Finish
    BY <1>C, <1>E, <2>6 DEF Finish, TypeOK
  <2>7. CASE PowerOff
    BY <1>C, <1>E, <2>7 DEF PowerOff, TypeOK
  <2>8. CASE Rotate
    BY <1>B, <1>E, <1>G, <2>8 DEF Rotate, TypeOK
  <2>9. CASE KilledAndBack
    BY <1>B, <1>G, <2>9 DEF KilledAndBack, TypeOK, files, history
  <2>10. CASE Killed
    BY <1>C, <2>10 DEF Killed, TypeOK, files
  <2>11. CASE KilledPausing
    BY <1>C, <2>11 DEF KilledPausing, TypeOK, File
  <2>12. CASE Stop
    BY <1>G, <2>12 DEF Stop, TypeOK, ui, files, history
  <2>. QED
    BY <1>1, <2>1, <2>2, <2>3, <2>4, <2>5, <2>6, <2>7, <2>8, <2>9, <2>10, <2>11, <2>12
       DEF Lifecycle
<1>2. CASE Engine
  <2>1. CASE GameLoaded
    BY <2>1 DEF GameLoaded, TypeOK, ui, files, history
  <2>2. CASE Restore
    <3>1. Head(posted) \in Nat \cup {Torn} /\ Tail(posted) \in Seq(Nat \cup {Torn})
      BY <2>2 DEF Restore, TypeOK
    <3>. QED
      BY <2>2, <3>1, RestoredType DEF Restore, TypeOK, ui, files
  <2>3. CASE Play
    BY <2>3 DEF Play, TypeOK, ui, files, history
  <2>4. CASE RewindTurn
    <3>1. PICK record \in 0..play : game' = Restored(record)
      BY <2>4 DEF RewindTurn
    <3>2. record \in Nat
      BY DEF TypeOK
    <3>. QED
      BY <2>4, <3>1, <3>2, RestoredType, <1>H DEF RewindTurn, TypeOK, ui, files
  <2>. QED
    BY <1>2, <2>1, <2>2, <2>3, <2>4 DEF Engine
<1>3. CASE Buttons
  <2> DEFINE Kept == /\ UNCHANGED <<screen, intent, bundle, act, play, posted, files, left>>
                     /\ strayed' \in {"no", "paused", "stopped"}
             Loads == game' \in Whole /\ viewPaused' \in BOOLEAN /\ menuDue' \in BOOLEAN
                      /\ rewinding' \in BOOLEAN
             Shows == dialog' \in {"none", "save", "load"}
                      /\ recent' \in Slots \cup {NoSlot} /\ fading' \subseteq Slots
  <2>A. ASSUME NEW s \in Slots, Exists(s) PROVE Restored(slots[s]) \in Whole
    BY <2>A, RestoredType DEF Exists, TypeOK, File
  <2>B. ASSUME Kept, Loads, Shows PROVE TypeOK'
    BY <2>B DEF TypeOK, files
  <2>C. ASSUME Dismiss PROVE dialog' = "none" /\ recent' = NoSlot /\ viewPaused' = FALSE
    BY <2>C DEF Dismiss
  <2>1. CASE FirstFrameMenu
    <3>1. Kept /\ Loads /\ Shows
      BY <2>1, <1>H DEF FirstFrameMenu, ResetGame, TypeOK
    <3>. QED BY <2>B, <3>1
  <2>2. CASE HardwareReset
    <3>1. Kept /\ Loads /\ Shows
      BY <2>2 DEF HardwareReset, ResetGame, TypeOK, ui, history
    <3>. QED BY <2>B, <3>1
  <2>3. CASE ShowSaveDialog
    <3>1. Kept /\ Loads /\ Shows
      BY <2>3 DEF ShowSaveDialog, TypeOK, history
    <3>. QED BY <2>B, <3>1
  <2>4. CASE ShowLoadDialog
    <3>1. Kept /\ Loads /\ Shows
      BY <2>4 DEF ShowLoadDialog, TypeOK, history
    <3>. QED BY <2>B, <3>1
  <2>5. CASE Cancel
    <3>1. Kept /\ Loads /\ Shows
      BY <2>5, <2>C DEF Cancel, TypeOK, history
    <3>. QED BY <2>B, <3>1
  <2>6. CASE QuickLoad
    <3>1. PICK s \in Slots : /\ IF Exists(0) THEN s = 0 ELSE IsNewest(s)
                             /\ game' = Restored(slots[s])
      BY <2>6 DEF QuickLoad
    <3>2. Exists(s)
      BY <3>1 DEF IsNewest
    <3>3. Kept /\ Loads /\ Shows
      BY <2>6, <2>A, <3>1, <3>2 DEF QuickLoad, TypeOK, ui, history
    <3>. QED BY <2>B, <3>3
  <2>7. CASE LoadRecent
    <3>1. recent \in Slots /\ Exists(recent)
      BY <2>7 DEF LoadRecent, TypeOK, history
    <3>2. Kept /\ Loads /\ Shows
      BY <2>7, <2>A, <2>C, <3>1 DEF LoadRecent, TypeOK, history
    <3>. QED BY <2>B, <3>2
  <2>8. CASE LoadRecentThrows
    BY <1>C, <2>8 DEF LoadRecentThrows, TypeOK, files
  <2>9. CASE DeleteQuicksave
    <3>1. [slots EXCEPT ![0] = Absent] \in [Slots -> File]
      BY <1>0, <1>F DEF File
    <3>. QED
      BY <2>9, <3>1 DEF DeleteQuicksave, TypeOK, ui, history
  <2>10. ASSUME NEW s \in Slots, Save(s) PROVE TypeOK'
    <3>1. [slots EXCEPT ![s] = Serialized] \in [Slots -> File]
      BY <1>F, <1>G
    <3>2. Shows /\ viewPaused' \in BOOLEAN
      BY <2>10, <2>C DEF Save, TypeOK
    <3>. QED
      BY <2>10, <3>1, <3>2, WrittenType DEF Save, TypeOK, history
  <2>11. ASSUME NEW s \in Slots, KilledSaving(s) PROVE TypeOK'
    <3>1. [slots EXCEPT ![s] = Torn] \in [Slots -> File]
      BY <1>F DEF File
    <3>. QED
      BY <1>C, <2>11, <3>1, WrittenType DEF KilledSaving, TypeOK
  <2>12. ASSUME NEW s \in Slots, LoadFromSlot(s) PROVE TypeOK'
    <3>1. Kept /\ Loads /\ Shows
      BY <2>12, <2>A, <2>C DEF LoadFromSlot, TypeOK, history
    <3>. QED BY <2>B, <3>1
  <2>13. ASSUME NEW s \in Slots, ConfirmDelete(s) PROVE TypeOK'
    <3>1. Kept /\ Loads /\ Shows
      BY <2>13 DEF ConfirmDelete, TypeOK, history
    <3>. QED BY <2>B, <3>1
  <2>14. ASSUME NEW s \in Slots, FadeEnds(s) PROVE TypeOK'
    <3>1. [slots EXCEPT ![s] = Absent] \in [Slots -> File]
      BY <1>F DEF File
    <3>. QED
      BY <2>14, <3>1 DEF FadeEnds, TypeOK, history
  <2>15. CASE RewindEnds
    <3>1. Kept /\ Loads /\ Shows
      BY <2>15 DEF RewindEnds, TypeOK, history
    <3>. QED BY <2>B, <3>1
  <2>. QED
    BY <1>3, <2>1, <2>2, <2>3, <2>4, <2>5, <2>6, <2>7, <2>8, <2>9, <2>10, <2>11,
       <2>12, <2>13, <2>14, <2>15 DEF Buttons
<1>4. CASE UNCHANGED vars
  BY <1>4 DEF vars, ui, files, history, TypeOK
<1>. QED
  BY <1>1, <1>2, <1>3, <1>4 DEF Next

-----------------------------------------------------------------------------
\* Where the state that was left is after each step.
LEMMA LeftStep ==
  IInv /\ [Next]_vars => TitleIsIdle' /\ LeftIsFiled' /\ LeftIsBundled' /\ LeftIsPosted'
<1> DEFINE Goal == TitleIsIdle' /\ LeftIsFiled' /\ LeftIsBundled' /\ LeftIsPosted'
           Where == UNCHANGED <<screen, act, intent, bundle, posted, autosave, left>>
           Loaded == game' = NoGame => game = NoGame
<1> SUFFICES ASSUME IInv, [Next]_vars PROVE Goal
  OBVIOUS
<1> USE SavesAssumption
\* A step in the foreground that posts nothing and keeps the core loaded.
<1>A. ASSUME InFront, Where, strayed' = strayed, Loaded PROVE Goal
  BY <1>A DEF IInv, InFront, TitleIsIdle, LeftIsFiled, LeftIsBundled, LeftIsPosted
<1>B. ASSUME Gone, left' # Unknown => autosave' = left' PROVE Goal
  BY <1>B DEF Gone, TitleIsIdle, LeftIsFiled, LeftIsBundled, LeftIsPosted
<1>C. WriteAutosave => /\ strayed' = "no"
                       /\ left' # Unknown =>
                            /\ autosave' = left' /\ left' = game
                            /\ game # NoGame /\ posted = <<>>
  BY DEF WriteAutosave, Serialized, LeftNow
<1>D. (left # Unknown => autosave = left) /\ left \in Nat \cup {Unknown}
  BY DEF IInv, LeftIsFiled, TypeOK
<1>E. ASSUME NEW i, NEW saved, OnCreate(i, saved),
             left' # Unknown => autosave' = left',
             i = "load_auto_save" /\ left' # Unknown /\ strayed' # "paused" =>
               ToRestore("load_auto_save", saved) = <<left'>>
      PROVE  Goal
  BY <1>E DEF OnCreate, TitleIsIdle, LeftIsFiled, LeftIsBundled, LeftIsPosted
\* A coroutine that moves the game in the background.
<1>F. ASSUME screen = "game", act # "resumed", Where, Stray, Loaded,
             viewPaused => viewPaused'
      PROVE  Goal
  <2>1. strayed' = IF strayed = "paused" THEN "paused" ELSE act
    BY <1>F DEF Stray
  <2>. QED
    BY <1>F, <2>1 DEF IInv, TypeOK, TitleIsIdle, LeftIsFiled, LeftIsBundled, LeftIsPosted
<1>G. ASSUME NEW f \in File, f # Absent PROVE f # NoGame \/ f = Torn
  BY <1>G DEF File
<1>H. act = "resumed" /\ Stray => strayed' = strayed
  BY DEF Stray
<1>1. CASE Lifecycle
  <2>1. CASE NewGame
    BY <1>D, <1>E, <2>1 DEF NewGame, Launch, files, history
  <2>2. CASE LoadMenu
    BY <1>D, <1>E, <2>2 DEF LoadMenu, Launch, files, history
  <2>3. CASE Continue
    <3>1. CASE autosave # Absent /\ Launch("load_auto_save")
      <4>1. left # Unknown => ToRestore("load_auto_save", Absent) = <<left>>
        BY <1>D, <3>1, ToRestoreContinued
      <4>. QED
        BY <1>D, <1>E, <3>1, <4>1 DEF Launch, files, history
    <3>2. CASE Launch("load_last_manual_save")
      BY <1>D, <1>E, <3>2 DEF Launch, files, history
    <3>. QED
      BY <2>3, <3>1, <3>2 DEF Continue
  <2>4. CASE Pause
    BY <1>C, <2>4
       DEF Pause, InFront, TitleIsIdle, LeftIsFiled, LeftIsBundled, LeftIsPosted
  <2>5. CASE Back
    <3>1. left # Unknown => game # NoGame /\ posted = <<>>
      BY <2>5 DEF Back, IInv, LeftIsBundled
    <3>. QED
      BY <1>D, <2>5, <3>1
         DEF Back, files, TitleIsIdle, LeftIsFiled, LeftIsBundled, LeftIsPosted
  <2>6. CASE Finish
    BY <1>B, <1>C, <2>6 DEF Finish
  <2>7. CASE PowerOff
    BY <1>B, <1>C, <2>7 DEF PowerOff
  <2>8. CASE Rotate
    <3>1. OnCreate(intent, Serialized) /\ WriteAutosave
      BY <2>8 DEF Rotate
    <3>2. left' # Unknown =>
            Serialized = left' /\ ToRestore("load_auto_save", Serialized) = <<left'>>
      <4>1. left' # Unknown => Serialized = left' /\ left' \in Nat
        BY <1>C, <3>1 DEF Serialized, IInv, TypeOK
      <4>. QED
        BY <4>1, ToRestoreContinued
    <3>. QED
      BY <1>C, <1>E, <3>1, <3>2
  <2>9. CASE KilledAndBack
    <3>1. left # Unknown /\ strayed # "paused" => bundle = left /\ left \in Nat
      BY <1>D, <2>9 DEF KilledAndBack, IInv, LeftIsBundled
    <3>2. left # Unknown /\ strayed # "paused" =>
            ToRestore("load_auto_save", bundle) = <<left>>
      BY <3>1, ToRestoreContinued
    <3>. QED
      BY <1>D, <1>E, <2>9, <3>2 DEF KilledAndBack, files, history
  <2>10. CASE Killed
    BY <1>B, <1>D, <2>10 DEF Killed, files
  <2>11. CASE KilledPausing
    BY <1>B, <2>11 DEF KilledPausing
  <2>12. CASE Stop
    <3>1. screen = "game" /\ act = "paused" /\ act' = "stopped" /\ bundle' = Serialized
      BY <2>12 DEF Stop
    <3>2. UNCHANGED <<screen, intent, viewPaused, game, posted, autosave, left, strayed>>
      BY <2>12 DEF Stop, files, history
    <3>3. left # Unknown /\ strayed # "paused" => bundle' = left
      BY <3>1 DEF IInv, TypeOK, LeftIsBundled, Serialized
    <3>. QED
      BY <3>1, <3>2, <3>3
         DEF IInv, TitleIsIdle, LeftIsFiled, LeftIsBundled, LeftIsPosted
  <2>. QED
    BY <1>1, <2>1, <2>2, <2>3, <2>4, <2>5, <2>6, <2>7, <2>8, <2>9, <2>10, <2>11, <2>12
       DEF Lifecycle
<1>2. CASE Engine
  <2>1. CASE GameLoaded
    <3>1. /\ screen = "game" /\ game = NoGame /\ game' = 0
          /\ UNCHANGED <<screen, act, intent, bundle, posted, autosave, left, strayed>>
      BY <2>1 DEF GameLoaded, files, history
    <3>. QED
      BY <3>1 DEF IInv, TitleIsIdle, LeftIsFiled, LeftIsBundled, LeftIsPosted
  <2>2. CASE Restore
    <3>1. UNCHANGED <<screen, act, intent, bundle, viewPaused, autosave, strayed>>
      BY <2>2 DEF Restore, files
    <3>2. CASE game = NoGame
      BY <2>2, <3>1, <3>2
         DEF Restore, IInv, TitleIsIdle, LeftIsFiled, LeftIsBundled, LeftIsPosted
    <3>3. CASE game # NoGame
      <4>1. Head(posted) \in Nat \cup {Torn}
        BY <2>2 DEF Restore, IInv, TypeOK
      <4>2. game' # NoGame /\ left' = left /\ posted # <<>>
        BY <2>2, <3>3, <4>1 DEF Restore, Restored, IInv, TypeOK
      <4>3. intent = "load_auto_save" /\ left # Unknown /\ strayed # "paused"
              => posted' = <<>>
        BY <2>2 DEF Restore, IInv, LeftIsPosted
      <4>4. act = "resumed" \/ left = Unknown
        BY <2>2, <4>2 DEF Restore, IInv, LeftIsBundled
      <4>. QED
        BY <2>2, <3>1, <4>2, <4>3, <4>4
           DEF Restore, IInv, TitleIsIdle, LeftIsFiled, LeftIsBundled, LeftIsPosted
    <3>. QED BY <3>2, <3>3
  <2>3. CASE Play
    <3>1. screen = "game" /\ Where /\ strayed' = strayed /\ ~viewPaused /\ Loaded
      BY <2>3 DEF Play, files, history, IInv, TypeOK
    <3>2. CASE act = "resumed"
      BY <1>A, <3>1, <3>2 DEF InFront
    <3>3. CASE act # "resumed"
      <4>1. left = Unknown
        BY <3>1, <3>3 DEF IInv, LeftIsBundled
      <4>. QED
        BY <3>1, <4>1 DEF TitleIsIdle, LeftIsFiled, LeftIsBundled, LeftIsPosted
    <3>. QED BY <3>2, <3>3
  <2>4. CASE RewindTurn
    <3>1. PICK record \in 0..play : game' = Restored(record)
      BY <2>4 DEF RewindTurn
    <3>2. record \in Nat
      BY DEF IInv, TypeOK
    <3>3. Loaded
      BY <3>1, <3>2, StillLoaded
    <3>4. Where /\ Stray /\ viewPaused' = viewPaused
      BY <2>4 DEF RewindTurn, files
    <3>5. screen = "game"
      BY <2>4 DEF RewindTurn, InFront, IInv, TypeOK, TitleIsIdle
    <3>. QED
      BY <1>A, <1>F, <1>H, <3>3, <3>4, <3>5 DEF InFront
  <2>. QED
    BY <1>2, <2>1, <2>2, <2>3, <2>4 DEF Engine
<1>3. CASE Buttons
  <2>A. ASSUME NEW s \in Slots, Exists(s), game' = Restored(slots[s]) PROVE Loaded
    <3>1. slots[s] # NoGame \/ slots[s] = Torn
      BY <1>G, <2>A DEF Exists, IInv, TypeOK
    <3>. QED
      BY <2>A, <3>1, StillLoaded
  <2>1. CASE FirstFrameMenu
    <3>1. /\ screen = "game" /\ Where /\ Stray /\ viewPaused'
          /\ Loaded
      BY <2>1 DEF FirstFrameMenu, ResetGame, files
    <3>. QED
      BY <1>A, <1>F, <1>H, <3>1 DEF InFront
  <2>2. CASE HardwareReset
    BY <1>A, <2>2 DEF HardwareReset, ResetGame, files, history
  <2>3. CASE ShowSaveDialog
    BY <1>A, <2>3 DEF ShowSaveDialog, files, history
  <2>4. CASE ShowLoadDialog
    BY <1>A, <2>4 DEF ShowLoadDialog, files, history
  <2>5. CASE Cancel
    BY <1>A, <2>5 DEF Cancel, files, history
  <2>6. CASE QuickLoad
    <3>1. Loaded
      BY <2>6, <2>A DEF QuickLoad, IsNewest
    <3>. QED
      BY <1>A, <2>6, <3>1 DEF QuickLoad, files, history
  <2>7. CASE LoadRecent
    <3>1. recent \in Slots
      BY <2>7 DEF LoadRecent, IInv, TypeOK
    <3>2. Loaded
      BY <2>7, <2>A, <3>1 DEF LoadRecent
    <3>. QED
      BY <1>A, <2>7, <3>2 DEF LoadRecent, files, history
  <2>8. CASE LoadRecentThrows
    BY <1>B, <1>D, <2>8 DEF LoadRecentThrows, files
  <2>9. CASE DeleteQuicksave
    BY <1>A, <2>9 DEF DeleteQuicksave, history
  <2>10. ASSUME NEW s \in Slots, Save(s) PROVE Goal
    BY <1>A, <2>10 DEF Save, history
  <2>11. ASSUME NEW s \in Slots, KilledSaving(s) PROVE Goal
    BY <1>B, <1>D, <2>11 DEF KilledSaving
  <2>12. ASSUME NEW s \in Slots, LoadFromSlot(s) PROVE Goal
    <3>1. Loaded
      BY <2>12, <2>A DEF LoadFromSlot
    <3>. QED
      BY <1>A, <2>12, <3>1 DEF LoadFromSlot, files, history
  <2>13. ASSUME NEW s \in Slots, ConfirmDelete(s) PROVE Goal
    BY <1>A, <2>13 DEF ConfirmDelete, files, history
  <2>14. ASSUME NEW s \in Slots, FadeEnds(s) PROVE Goal
    BY <2>14
       DEF FadeEnds, history, IInv, TitleIsIdle, LeftIsFiled, LeftIsBundled, LeftIsPosted
  <2>15. CASE RewindEnds
    BY <2>15
       DEF RewindEnds, files, history, IInv, TitleIsIdle, LeftIsFiled, LeftIsBundled,
           LeftIsPosted
  <2>. QED
    BY <1>3, <2>1, <2>2, <2>3, <2>4, <2>5, <2>6, <2>7, <2>8, <2>9, <2>10, <2>11,
       <2>12, <2>13, <2>14, <2>15 DEF Buttons
<1>4. CASE UNCHANGED vars
  <2>1. UNCHANGED <<screen, intent, bundle, act, viewPaused, game, posted, dialog,
                    rewinding, autosave, left, strayed>>
    BY <1>4 DEF vars, files, ui, history
  <2>. QED
    BY <2>1 DEF IInv, TitleIsIdle, LeftIsFiled, LeftIsBundled, LeftIsPosted
<1>. QED
  BY <1>1, <1>2, <1>3, <1>4 DEF Next

LEMMA IInvStep == IInv /\ [Next]_vars => IInv'
BY TypeStep, LeftStep DEF IInv

LEMMA IInvAlways == Spec => []IInv
BY InitIInv, IInvStep, PTL DEF Spec

\* Settling a continued game installs the state that was left.
LEMMA SettlesWhereLeft ==
  ASSUME IInv, [Next]_vars, Settles, intent = "load_auto_save",
         left' # Unknown, strayed # "paused"
  PROVE  game' = left
<1> USE SavesAssumption
<1>A. ASSUME Gone PROVE FALSE
  BY <1>A DEF Gone, Settles
\* Nothing settles but a load or the last restoration.
<1>B. ASSUME posted' = posted, game = NoGame => game' = NoGame PROVE FALSE
  BY <1>B DEF Settles
<1>1. Next
  BY DEF Settles, vars
<1>2. CASE Lifecycle
  <2>1. ASSUME NEW i, NEW saved, OnCreate(i, saved) PROVE FALSE
    BY <2>1 DEF OnCreate, Settles
  <2>. QED
    BY <1>2, <1>A, <1>B, <2>1
       DEF Lifecycle, NewGame, Continue, LoadMenu, Launch, Pause, Stop, Back, Finish,
           PowerOff, Rotate, KilledAndBack, Killed, KilledPausing
<1>3. CASE Engine
  <2>1. CASE GameLoaded
    <3>1. screen = "game" /\ game = NoGame /\ posted = <<>> /\ left # Unknown
      BY <2>1 DEF GameLoaded, Settles, history
    <3>. QED
      BY <3>1 DEF IInv, LeftIsPosted
  <2>2. CASE Restore
    <3>1. game # NoGame /\ left # Unknown /\ posted = <<left>>
      BY <2>2 DEF Restore, IInv, LeftIsPosted
    <3>2. Head(posted) = left /\ left \in Nat
      BY <3>1 DEF IInv, TypeOK
    <3>. QED
      BY <2>2, <3>1, <3>2 DEF Restore, Restored
  <2>3. CASE Play
    BY <1>B, <2>3 DEF Play
  <2>4. CASE RewindTurn
    BY <1>B, <2>4 DEF RewindTurn, Restored
  <2>. QED
    BY <1>3, <2>1, <2>2, <2>3, <2>4 DEF Engine
<1>4. CASE Buttons
  BY <1>4, <1>A, <1>B
     DEF Buttons, FirstFrameMenu, RewindEnds, HardwareReset, ShowSaveDialog,
         ShowLoadDialog, Cancel, QuickLoad, LoadRecent, LoadRecentThrows,
         DeleteQuicksave, Save, KilledSaving, LoadFromSlot, ConfirmDelete, FadeEnds,
         ResetGame, Restored
<1>. QED
  BY <1>1, <1>2, <1>3, <1>4 DEF Next

-----------------------------------------------------------------------------
\* Every variable keeps its type.
THEOREM TypeCorrect == Spec => []TypeOK
BY IInvAlways, PTL DEF IInv

\* In the background the autosave is the game that was left, and so are the
\* game and the bundle unless a coroutine has moved the game since.
THEOREM BackgroundIsSaved == Spec => []PausedMeansSaved
<1>1. IInv => PausedMeansSaved
  BY DEF IInv, LeftIsFiled, LeftIsBundled, PausedMeansSaved
<1>. QED
  BY <1>1, IInvAlways, PTL

\* "Continue" resumes where the player left, however the game was left and
\* whatever became of the process, when the restoration finds the game loaded
\* and no coroutine moved the game before the bundle was made.
THEOREM ContinueResumes == Spec => ResumesWhereLeft
<1>1. IInv /\ [Next]_vars =>
        [Settles /\ intent = "load_auto_save" /\ left' # Unknown /\ strayed # "paused"
           => game' = left]_vars
  BY SettlesWhereLeft
<1>. QED
  BY <1>1, IInvAlways, PTL DEF Spec, ResumesWhereLeft
=============================================================================
