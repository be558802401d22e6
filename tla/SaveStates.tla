----------------------------- MODULE SaveStates -----------------------------
(***************************************************************************)
(* What becomes of a game between two sittings at the console: the         *)
(* autosave written when GameActivity pauses, the restorations its         *)
(* onCreate posts to the view, the slots of the save and load dialogs, the *)
(* title screen of MainActivity, and the deaths of the process in between. *)
(*                                                                         *)
(* A state of the game is a number: 0 is the console just switched on, and *)
(* every stretch of play makes a new one.  A file is written in place, so  *)
(* a process killed while it writes leaves it torn; the core refuses a     *)
(* state of the wrong size.  The calls into the engine are atomic here:    *)
(* RetroSession models how they reach the GL thread.                       *)
(***************************************************************************)
EXTENDS Integers, Sequences

CONSTANTS
  LastSlot,           \* slots are 0 (the quicksave) to 5 in the code
  MaxPlay,            \* bound on the states made
  Absent, Torn,       \* no such file; a file cut short
  NoGame,             \* the core has not loaded the game
  NoSlot, Unknown

ASSUME SavesAssumption ==
  /\ LastSlot \in Nat /\ MaxPlay \in Nat
  /\ Absent \notin Nat /\ Torn \notin Nat /\ Unknown \notin Nat
  /\ NoGame \notin Nat /\ NoSlot \notin Nat
  /\ Absent # Torn /\ Unknown # Absent /\ Unknown # Torn

VARIABLES
  screen,             \* the activity in front
  intent,             \* the extra GameActivity was started with
  bundle,             \* savedInstanceState: of this instance, or of its successor
  act,                \* where the activity is in its lifecycle
  viewPaused,         \* the game stands still: a menu, or the pause of the
                      \* activity, has paused the view
  game,               \* the state in the core
  play,               \* the number of states made
  posted,             \* restorations waiting in retroView.post
  menuDue,            \* open_load_menu waits for the first frame
  dialog,             \* the dialog on screen
  recent,             \* lastFile of the load dialog
  fading,             \* slots whose deletion waits for an animation
  rewinding,          \* the activity was paused with the rewind button held,
                      \* and its job still runs
  autosave, slots, rank,  \* the files, and the slots' order of modification
  left,               \* history: the state the player last left, when the
                      \* program had it whole in its hands
  strayed             \* history: where the activity was when a coroutine
                      \* first moved the game behind the back of a pause

files == <<autosave, slots, rank>>
ui    == <<dialog, recent, fading, rewinding>>
history == <<left, strayed>>
vars  == <<screen, intent, bundle, act, viewPaused, game, play, posted,
           menuDue, ui, files, history>>

Slots   == 0..LastSlot
Intents == {"new_game", "load_auto_save", "load_last_manual_save", "open_load_menu"}
File    == Nat \cup {Absent, Torn}

TypeOK ==
  /\ screen \in {"title", "game"} /\ intent \in Intents
  /\ bundle \in File /\ left \in Nat \cup {Unknown}
  /\ strayed \in {"no", "paused", "stopped"}
  /\ act \in {"resumed", "paused", "stopped"}
  /\ viewPaused \in BOOLEAN /\ menuDue \in BOOLEAN /\ rewinding \in BOOLEAN
  /\ game \in Nat \cup {NoGame} /\ play \in Nat
  /\ posted \in Seq(Nat \cup {Torn})
  /\ dialog \in {"none", "save", "load"}
  /\ recent \in Slots \cup {NoSlot} /\ fading \subseteq Slots
  /\ autosave \in File /\ slots \in [Slots -> File] /\ rank \in [Slots -> Nat]

Init ==
  /\ screen = "title" /\ intent = "new_game" /\ bundle = Absent
  /\ act = "stopped" /\ viewPaused = FALSE /\ menuDue = FALSE /\ rewinding = FALSE
  /\ game = NoGame /\ play = 0 /\ posted = <<>>
  /\ dialog = "none" /\ recent = NoSlot /\ fading = {}
  /\ autosave = Absent /\ slots = [s \in Slots |-> Absent]
  /\ rank = [s \in Slots |-> s]
  /\ left = Unknown /\ strayed = "no"

-----------------------------------------------------------------------------
(* Variants of the definitions below with one fault each.                  *)

\* A restoration posted twice over: the manual save after every restoration.
ManualAlways(i, saved) ==
  (IF i = "new_game" THEN <<>>
   ELSE IF saved # Absent THEN <<saved>>
   ELSE IF autosave # Absent THEN <<autosave>> ELSE <<>>)
  \o (IF slots[0] # Absent THEN <<slots[0]>> ELSE <<>>)

\* A core that takes a state cut short.
RestoredUnchecked(state) == IF game = NoGame THEN game ELSE state

-----------------------------------------------------------------------------
(* Files, states and the core.                                             *)

Exists(s)   == slots[s] # Absent
IsNewest(s) == Exists(s) /\ \A x \in Slots : Exists(x) => rank[s] <= rank[x]

\* A slot that is written becomes the most recent one.
Written(s) ==
  [x \in Slots |-> IF x = s THEN 0
                   ELSE IF rank[x] < rank[s] THEN rank[x] + 1 ELSE rank[x]]

\* retro_unserialize: the game takes a whole state, and refuses a torn one.
Restored(state) == IF state = Torn \/ game = NoGame THEN game ELSE state

\* What serializeState returns: nothing worth keeping before the game is loaded.
Serialized == IF game = NoGame THEN Torn ELSE game

\* The state is whole when the game is loaded and its restoration is over.
LeftNow == IF game = NoGame \/ posted # <<>> THEN Unknown ELSE game

\* Buttons and dialogs are touched only in front; an engine that has no game
\* yet takes their calls all the same.
InFront == screen = "game" /\ act = "resumed"

\* retro_reset: the console switched on again.
ResetGame == IF game = NoGame THEN NoGame ELSE 0

\* A coroutine of mainScope, which lives until onDestroy, moves the game.
Stray ==
  strayed' = IF act = "resumed" \/ strayed = "paused" THEN strayed ELSE act

-----------------------------------------------------------------------------
(* GameActivity comes and goes.                                            *)

\* The restorations of onCreate, in the order in which they are posted.
ToRestore(i, saved) ==
  (IF i = "new_game" THEN <<>>
   ELSE IF saved # Absent THEN <<saved>>
   ELSE IF autosave # Absent THEN <<autosave>> ELSE <<>>)
  \o (IF i = "load_last_manual_save" /\ slots[0] # Absent THEN <<slots[0]>>
      ELSE <<>>)

OnCreate(i, saved) ==
  /\ screen' = "game" /\ intent' = i /\ bundle' = saved
  /\ act' = "resumed" /\ viewPaused' = FALSE
  /\ game' = NoGame /\ posted' = ToRestore(i, saved)
  /\ menuDue' = (i = "open_load_menu")
  /\ dialog' = "none" /\ recent' = NoSlot /\ rewinding' = FALSE

\* Nothing is left on screen but the title, nor of the process when it died.
Gone ==
  /\ screen' = "title" /\ act' = "stopped" /\ viewPaused' = FALSE
  /\ game' = NoGame /\ posted' = <<>> /\ menuDue' = FALSE /\ bundle' = Absent
  /\ dialog' = "none" /\ recent' = NoSlot /\ rewinding' = FALSE
  /\ strayed' = "no"
  /\ UNCHANGED <<intent, play>>

Launch(i) ==
  /\ screen = "title"
  /\ OnCreate(i, Absent)
  /\ UNCHANGED <<play, fading, files, history>>

NewGame  == Launch("new_game")
LoadMenu == Launch("open_load_menu")

\* Continue: the autosave, or else the quicksave.  The name of the other
\* slots is misspelt ("save_slot_$it.sav"), so that none of them is found.
Continue ==
  \/ autosave # Absent /\ Launch("load_auto_save")
  \/ autosave = Absent /\ Exists(0) /\ Launch("load_last_manual_save")

\* onPause: the autosave is written over the one before.
WriteAutosave ==
  /\ autosave' = Serialized
  /\ left' = LeftNow /\ strayed' = "no"

\* A pause (a variant with a fault) that leaves the view running.
PauseUnnoticed ==
  /\ InFront /\ act' = "paused"
  /\ WriteAutosave /\ rewinding' \in BOOLEAN
  /\ UNCHANGED <<screen, intent, bundle, viewPaused, game, play, posted, menuDue,
                 dialog, recent, fading, slots, rank>>

\* The player goes elsewhere: ON_PAUSE pauses the view before onPause saves.
Pause ==
  /\ InFront /\ act' = "paused" /\ viewPaused' = TRUE
  /\ WriteAutosave /\ rewinding' \in BOOLEAN
  /\ UNCHANGED <<screen, intent, bundle, game, play, posted, menuDue, dialog, recent,
                 fading, slots, rank>>

\* onStop and onSaveInstanceState, later: the looper has run in between.
Stop ==
  /\ screen = "game" /\ act = "paused" /\ act' = "stopped"
  /\ bundle' = Serialized
  /\ UNCHANGED <<screen, intent, viewPaused, game, play, posted, menuDue, ui,
                 files, history>>

\* onResume resumes the view too, whatever menu is open.
Back ==
  /\ screen = "game" /\ act # "resumed"
  /\ act' = "resumed" /\ viewPaused' = FALSE /\ strayed' = "no" /\ rewinding' = FALSE
  /\ UNCHANGED <<screen, intent, bundle, game, play, posted, menuDue, dialog, recent,
                 fading, files, left>>

\* Back key or return to the title: the activity is finished.
Finish ==
  /\ InFront
  /\ WriteAutosave /\ Gone
  /\ UNCHANGED <<fading, slots, rank>>

\* Power-off: the same autosave, then the process exits.
PowerOff ==
  /\ InFront
  /\ WriteAutosave /\ Gone /\ fading' = {}
  /\ UNCHANGED <<slots, rank>>

\* A change of orientation: onPause, onSaveInstanceState and a new instance.
\* (When a restoration is still posted, it goes to a view that is no more.)
Rotate ==
  /\ InFront /\ posted = <<>>
  /\ WriteAutosave
  /\ OnCreate(intent, Serialized)
  /\ UNCHANGED <<play, fading, slots, rank>>

\* The system reclaims the process in the background; the player returns.
KilledAndBack ==
  /\ screen = "game" /\ act = "stopped"
  /\ OnCreate(intent, bundle)
  /\ fading' = {}
  /\ UNCHANGED <<play, files, history>>

\* The process dies in the foreground, or is swept away in the background.
Killed ==
  /\ screen = "game" /\ Gone /\ fading' = {}
  /\ UNCHANGED <<files, left>>

\* It dies in the middle of onPause.
KilledPausing ==
  /\ InFront
  /\ autosave' = Torn /\ left' = Unknown
  /\ Gone /\ fading' = {}
  /\ UNCHANGED <<slots, rank>>

-----------------------------------------------------------------------------
(* The engine.                                                             *)

\* The load ends while there is a surface, in the background too; its message
\* then adds the observer, which resumes the view if the activity is in front.
GameLoaded ==
  /\ screen = "game" /\ act # "stopped" /\ game = NoGame
  /\ game' = 0
  /\ viewPaused' = (viewPaused /\ act # "resumed")
  /\ UNCHANGED <<screen, intent, bundle, act, play, posted, menuDue, ui, files,
                 history>>

\* A posted restoration runs; a core without a game ignores it.
Restore ==
  /\ screen = "game" /\ posted # <<>>
  /\ posted' = Tail(posted) /\ game' = Restored(Head(posted))
  /\ left' = IF game = NoGame THEN Unknown ELSE left
  /\ UNCHANGED <<screen, intent, bundle, act, viewPaused, play, menuDue, ui, files,
                 strayed>>

Play ==
  /\ screen = "game" /\ game # NoGame /\ ~viewPaused /\ play < MaxPlay
  /\ play' = play + 1 /\ game' = play + 1
  /\ UNCHANGED <<screen, intent, bundle, act, viewPaused, posted, menuDue,
                 ui, files, history>>

-----------------------------------------------------------------------------
(* The buttons of the game screen and the dialogs.                         *)

\* open_load_menu: on the first frame the console is reset and paused.  The
\* news of the frame may reach the collector after onPause.
FirstFrameMenu ==
  /\ screen = "game" /\ game # NoGame /\ menuDue /\ menuDue' = FALSE
  /\ game' = ResetGame /\ viewPaused' = TRUE /\ dialog' = "load" /\ Stray
  /\ \/ \E s \in Slots : IsNewest(s) /\ recent' = s
     \/ (\A s \in Slots : ~Exists(s)) /\ recent' = NoSlot
  /\ UNCHANGED <<screen, intent, bundle, act, play, posted, fading, rewinding, files,
                 left>>

\* A turn of the rewind button's job, whose buffer is the matter of Rewind: it
\* takes some record of the game.  A job that nobody has cancelled yet still
\* does so after a pause.
RewindTurn ==
  /\ InFront \/ rewinding
  /\ \E record \in 0..play : game' = Restored(record)
  /\ Stray
  /\ UNCHANGED <<screen, intent, bundle, act, viewPaused, play, posted, menuDue,
                 ui, files, left>>

\* ACTION_UP or ACTION_CANCEL reaches the button, or its buffer is empty.
RewindEnds ==
  /\ rewinding /\ rewinding' = FALSE
  /\ UNCHANGED <<screen, intent, bundle, act, viewPaused, game, play, posted,
                 menuDue, dialog, recent, fading, files, history>>

HardwareReset ==
  /\ InFront /\ dialog = "none"
  /\ game' = ResetGame
  /\ UNCHANGED <<screen, intent, bundle, act, viewPaused, play, posted,
                 menuDue, ui, files, history>>

ShowSaveDialog ==
  /\ InFront /\ dialog = "none"
  /\ dialog' = "save" /\ viewPaused' = TRUE
  /\ UNCHANGED <<screen, intent, bundle, act, game, play, posted, menuDue,
                 recent, fading, rewinding, files, history>>

\* lastFile is settled when the dialog opens.
ShowLoadDialog ==
  /\ InFront /\ dialog = "none"
  /\ dialog' = "load" /\ viewPaused' = TRUE
  /\ \/ \E s \in Slots : IsNewest(s) /\ recent' = s
     \/ (\A s \in Slots : ~Exists(s)) /\ recent' = NoSlot
  /\ UNCHANGED <<screen, intent, bundle, act, game, play, posted, menuDue,
                 fading, rewinding, files, history>>

Dismiss == dialog' = "none" /\ recent' = NoSlot /\ viewPaused' = FALSE

Cancel ==
  /\ InFront /\ dialog # "none" /\ Dismiss
  /\ UNCHANGED <<screen, intent, bundle, act, game, play, posted, menuDue,
                 fading, rewinding, files, history>>

\* The quicksave button, or a slot of the save dialog.
Save(s) ==
  /\ InFront /\ (dialog = "save" \/ (dialog = "none" /\ s = 0))
  /\ slots' = [slots EXCEPT ![s] = Serialized] /\ rank' = Written(s)
  /\ IF dialog = "save" THEN Dismiss ELSE UNCHANGED <<dialog, recent, viewPaused>>
  /\ UNCHANGED <<screen, intent, bundle, act, game, play, posted, menuDue,
                 fading, rewinding, autosave, history>>

KilledSaving(s) ==
  /\ InFront /\ (dialog = "save" \/ (dialog = "none" /\ s = 0))
  /\ slots' = [slots EXCEPT ![s] = Torn] /\ rank' = Written(s)
  /\ Gone /\ fading' = {}
  /\ UNCHANGED <<autosave, left>>

\* The quickload button: the quicksave, or else the most recent slot.
QuickLoad ==
  /\ InFront /\ dialog = "none"
  /\ \E s \in Slots :
       /\ IF Exists(0) THEN s = 0 ELSE IsNewest(s)
       /\ game' = Restored(slots[s])
  /\ UNCHANGED <<screen, intent, bundle, act, viewPaused, play, posted,
                 menuDue, ui, files, history>>

LoadFromSlot(s) ==
  /\ InFront /\ dialog = "load" /\ s # 0 /\ Exists(s)
  /\ game' = Restored(slots[s]) /\ Dismiss
  /\ UNCHANGED <<screen, intent, bundle, act, play, posted, menuDue, fading,
                 rewinding, files, history>>

\* The quick_load button of the load dialog reads lastFile.
LoadRecent ==
  /\ InFront /\ dialog = "load" /\ recent # NoSlot /\ Exists(recent)
  /\ game' = Restored(slots[recent]) /\ Dismiss
  /\ UNCHANGED <<screen, intent, bundle, act, play, posted, menuDue, fading,
                 rewinding, files, history>>

\* The file is gone by now: readBytes throws, and nothing catches it.
LoadRecentThrows ==
  /\ InFront /\ dialog = "load" /\ recent # NoSlot /\ ~Exists(recent)
  /\ Gone /\ fading' = {}
  /\ UNCHANGED <<files, left>>

\* Either dialog deletes the quicksave at once.
DeleteQuicksave ==
  /\ InFront /\ dialog # "none"
  /\ slots' = [slots EXCEPT ![0] = Absent]
  /\ UNCHANGED <<screen, intent, bundle, act, viewPaused, game, play, posted,
                 menuDue, ui, autosave, rank, history>>

\* The load dialog fades the other slots out before it deletes them.
ConfirmDelete(s) ==
  /\ InFront /\ dialog = "load" /\ s # 0 /\ Exists(s)
  /\ fading' = fading \cup {s}
  /\ UNCHANGED <<screen, intent, bundle, act, viewPaused, game, play, posted,
                 menuDue, dialog, recent, rewinding, files, history>>

FadeEnds(s) ==
  /\ s \in fading /\ fading' = fading \ {s}
  /\ slots' = [slots EXCEPT ![s] = Absent]
  /\ UNCHANGED <<screen, intent, bundle, act, viewPaused, game, play, posted,
                 menuDue, dialog, recent, rewinding, autosave, rank,
                 history>>

Lifecycle ==
  \/ NewGame \/ Continue \/ LoadMenu
  \/ Pause \/ Stop \/ Back \/ Finish \/ PowerOff \/ Rotate
  \/ KilledAndBack \/ Killed \/ KilledPausing

Engine == GameLoaded \/ Restore \/ Play \/ RewindTurn

Buttons ==
  \/ FirstFrameMenu \/ RewindEnds \/ HardwareReset \/ ShowSaveDialog \/ ShowLoadDialog
  \/ Cancel \/ QuickLoad \/ LoadRecent \/ LoadRecentThrows \/ DeleteQuicksave
  \/ \E s \in Slots : \/ Save(s) \/ KilledSaving(s) \/ LoadFromSlot(s)
                      \/ ConfirmDelete(s) \/ FadeEnds(s)

Next == Lifecycle \/ Engine \/ Buttons

Spec == Init /\ [][Next]_vars

-----------------------------------------------------------------------------
(* Properties.                                                             *)

\* While the activity is in the background the files follow the game that the
\* player left (GameActivity.onPause, onSaveInstanceState): the autosave is that
\* game whatever coroutines still run, and so is the game itself, with the
\* bundle, unless one of them has moved it in the meantime.  It does not speak
\* of an activity that was left before its own restoration was over.
PausedMeansSaved ==
  screen = "game" /\ act # "resumed" /\ left # Unknown =>
    /\ autosave = left
    /\ strayed = "no" => game = left
    /\ act = "stopped" /\ strayed # "paused" => bundle = left

\* The step by which a new instance has its game loaded and restored.
Settles ==
  /\ screen' = "game" /\ game' # NoGame /\ posted' = <<>>
  /\ game = NoGame \/ posted # <<>>

\* "Continue" brings back the very state that the player left, through a
\* return to the title, a power-off, a rotation or the death of the process,
\* unless the autosave was torn, a restoration came before the game was loaded,
\* or a coroutine moved the game between onPause and onSaveInstanceState
\* (MainActivity's btnContinue, GameActivity.onCreate).
ResumesWhereLeft ==
  [][Settles /\ intent = "load_auto_save" /\ left' # Unknown /\ strayed # "paused"
       => game' = left]_vars

\* "Chargement automatique de l'etat du jeu apres un changement d'orientation":
\* an instance recreated from its bundle has the game of the one before it.
RotationKeepsGame ==
  [][Settles /\ bundle # Absent /\ left' # Unknown => game' = left]_vars

\* The quick_load button of the load dialog is for the most recent save.
RecentIsNewest ==
  dialog = "load" /\ recent # NoSlot => IsNewest(recent)
=============================================================================
