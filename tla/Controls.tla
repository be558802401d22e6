------------------------------- MODULE Controls -------------------------------
(***************************************************************************)
(* The buttons on the screen: GameActivity.handleKeyEvent watches for the  *)
(* Konami code and queues every press and release for the GL thread, where *)
(* class Input keeps the set of pressed keys.  A resume makes a new Input, *)
(* a pause drops it, and the queue is served all the same.                 *)
(***************************************************************************)
EXTENDS Sequences, Integers

CONSTANTS
  Keys,
  KonamiSequence,     \* the code, a sequence of keys
  MaxEvents,          \* bound on the queue
  MaxPresses          \* bound on the presses

ASSUME ControlsAssumption ==
  /\ KonamiSequence \in Seq(Keys) /\ Len(KonamiSequence) > 0
  /\ MaxEvents \in Nat /\ MaxPresses \in Nat

VARIABLES
  held,               \* the keys under a finger
  events,             \* the queue of the view, a sequence of records [key, down]
  input,              \* whether there is an Input
  pressedKeys,
  konamiBuffer, konamiActivated,
  egg,                \* the dialog is open
  finishing,          \* the activity is on its way out
  early,              \* history: keys held since before the last resume
  dismissed,          \* history: a dialog was left with the back button
  thrown,             \* history: the dialog of the last press could not be shown
  typed               \* history: all keys pressed

controlVars == <<held, events, input, pressedKeys, konamiBuffer, konamiActivated,
                 egg, finishing, early, dismissed, thrown, typed>>

KeyEvent == [key: Keys, down: BOOLEAN]

ControlsTypeOK ==
  /\ held \subseteq Keys /\ pressedKeys \subseteq Keys /\ early \subseteq Keys
  /\ events \in Seq(KeyEvent)
  /\ input \in BOOLEAN /\ konamiActivated \in BOOLEAN
  /\ egg \in BOOLEAN /\ finishing \in BOOLEAN /\ dismissed \in BOOLEAN
  /\ thrown \in BOOLEAN
  /\ konamiBuffer \in Seq(Keys) /\ Len(konamiBuffer) <= Len(KonamiSequence)
  /\ typed \in Seq(Keys)

ControlsInit ==
  /\ held = {} /\ events = <<>>
  /\ input = FALSE /\ pressedKeys = {}
  /\ konamiBuffer = <<>> /\ konamiActivated = FALSE
  /\ egg = FALSE /\ finishing = FALSE
  /\ early = {} /\ dismissed = FALSE /\ thrown = FALSE /\ typed = <<>>

-----------------------------------------------------------------------------
(* Variants of the definitions below with one fault each.                  *)

\* A buffer that starts anew when it is full.
StartAnew(buffer, k) ==
  IF Len(buffer) = Len(KonamiSequence) THEN <<k>> ELSE Append(buffer, k)

\* A finger that leaves the button without a release.
Cancelled(k) ==
  /\ k \in held
  /\ held' = held \ {k}
  /\ UNCHANGED <<events, input, pressedKeys, konamiBuffer, konamiActivated, egg,
                 finishing, early, dismissed, thrown, typed>>

\* A release that clears every key.
ServeReleasingAll ==
  /\ events # <<>>
  /\ events' = Tail(events)
  /\ pressedKeys' = IF input /\ Head(events).down THEN pressedKeys \cup {Head(events).key} ELSE {}
  /\ UNCHANGED <<held, input, konamiBuffer, konamiActivated, egg,
                 finishing, early, dismissed, thrown, typed>>

-----------------------------------------------------------------------------
\* The buffer with one more key, the oldest one dropped when it is too long.
Slide(buffer, k) ==
  IF Len(buffer) = Len(KonamiSequence)
  THEN Tail(Append(buffer, k)) ELSE Append(buffer, k)

\* ACTION_DOWN.  showYoshiEggDialog may throw, which is caught and undone.
Press(k) ==
  /\ k \notin held /\ ~egg
  /\ Len(events) < MaxEvents /\ Len(typed) < MaxPresses
  /\ held' = held \cup {k}
  /\ events' = Append(events, [key |-> k, down |-> TRUE])
  /\ konamiBuffer' = Slide(konamiBuffer, k)
  /\ \/ ~konamiActivated /\ Slide(konamiBuffer, k) = KonamiSequence /\ ~finishing
        /\ \/ konamiActivated' = TRUE /\ egg' = TRUE /\ thrown' = FALSE
           \/ konamiActivated' = FALSE /\ egg' = FALSE /\ thrown' = TRUE
     \/ (konamiActivated \/ Slide(konamiBuffer, k) # KonamiSequence \/ finishing)
        /\ thrown' = FALSE /\ UNCHANGED <<konamiActivated, egg>>
  /\ typed' = Append(typed, k)
  /\ early' = early \ {k}
  /\ UNCHANGED <<input, pressedKeys, finishing, dismissed>>

\* ACTION_UP and ACTION_CANCEL.
Lift(k) ==
  /\ k \in held
  /\ Len(events) < MaxEvents
  /\ held' = held \ {k}
  /\ events' = Append(events, [key |-> k, down |-> FALSE])
  /\ UNCHANGED <<input, pressedKeys, konamiBuffer, konamiActivated, egg,
                 finishing, early, dismissed, thrown, typed>>

\* The button of the dialog, or the back button, which has no listener.
CloseEgg ==
  /\ egg /\ egg' = FALSE
  /\ \/ konamiActivated' = FALSE /\ dismissed' = dismissed
     \/ konamiActivated' = konamiActivated /\ dismissed' = TRUE
  /\ UNCHANGED <<held, events, input, pressedKeys, konamiBuffer, finishing, early,
                 thrown, typed>>

\* finish(); the looper may still deliver touches.
Finish ==
  /\ ~finishing /\ ~egg /\ finishing' = TRUE
  /\ UNCHANGED <<held, events, input, pressedKeys, konamiBuffer, konamiActivated, egg,
                 early, dismissed, thrown, typed>>

\* LibretroDroid::onKeyEvent on the GL thread.
ServeKey ==
  /\ events # <<>>
  /\ events' = Tail(events)
  /\ pressedKeys' =
       IF ~input THEN pressedKeys
       ELSE IF Head(events).down THEN pressedKeys \cup {Head(events).key}
       ELSE pressedKeys \ {Head(events).key}
  /\ UNCHANGED <<held, input, konamiBuffer, konamiActivated, egg,
                 finishing, early, dismissed, thrown, typed>>

ResumeInput ==
  /\ ~input /\ input' = TRUE /\ pressedKeys' = {} /\ early' = held
  /\ UNCHANGED <<held, events, konamiBuffer, konamiActivated, egg,
                 finishing, dismissed, thrown, typed>>

PauseInput ==
  /\ input /\ input' = FALSE /\ pressedKeys' = {}
  /\ UNCHANGED <<held, events, konamiBuffer, konamiActivated, egg,
                 finishing, early, dismissed, thrown, typed>>

ControlsNext ==
  \/ \E k \in Keys : Press(k) \/ Lift(k)
  \/ CloseEgg \/ Finish \/ ServeKey \/ ResumeInput \/ PauseInput

ControlsSpec == ControlsInit /\ [][ControlsNext]_controlVars

-----------------------------------------------------------------------------
\* Once the queue is served, the keys pressed for the game are the keys under a
\* finger: none sticks and none is lost, whatever pauses and resumes fell between
\* a press and its release, but for a key that was held before the last resume,
\* which the new Input knows nothing of until it is pressed again.
KeysAsHeld ==
  input /\ events = <<>> => held \ early \subseteq pressedKeys /\ pressedKeys \subseteq held

\* The last keys of a sequence.
LastKeys(s, n) == IF Len(s) < n THEN s ELSE SubSeq(s, Len(s) - n + 1, Len(s))

\* A key press opens the dialog, or fails to show it, exactly when the last keys
\* pressed are the code, however many wrong or overlapping attempts and failures
\* came before, unless the activity is finishing, or an earlier dialog was left
\* with the back button: after that the code is never recognised again
\* (GameActivity.handleKeyEvent, showYoshiEggDialog).
EggOnCode ==
  [][typed' # typed =>
       (egg' \/ thrown' <=> LastKeys(typed', Len(KonamiSequence)) = KonamiSequence
                            /\ ~finishing /\ ~dismissed)]_controlVars
=============================================================================
