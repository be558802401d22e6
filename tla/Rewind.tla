------------------------------- MODULE Rewind -------------------------------
(***************************************************************************)
(* The rewind of GameActivity: a job that records the state of the game    *)
(* twice a second, a job that plays the records backwards while the button *)
(* is held, the switch, the spinner of durations, and the restorations     *)
(* that share the buffer with them.  All of it runs on the main thread:    *)
(* the jobs interleave at their delay() calls.                             *)
(*                                                                         *)
(* A state of the game is [era, at]: the restorations and resets before it *)
(* and the moment of the game.  unserializeState may fail, and the code    *)
(* plays on with the state it had.                                         *)
(***************************************************************************)
EXTENDS Naturals, Sequences

CONSTANTS
  Durations,          \* entries of the spinner, in seconds
  DefaultDuration,    \* rewindBufferMaxDurationSec as initialised
  PerSecond,          \* records a second: 1000 / rewindIntervalMs
  MaxAt, MaxEra       \* bounds on the moments and on the restorations

ASSUME RewindAssumption ==
  /\ Durations \subseteq Nat \ {0} /\ DefaultDuration \in Durations
  /\ PerSecond \in Nat \ {0}
  /\ MaxAt \in Nat /\ MaxEra \in Nat

VARIABLES
  now,                \* state of the game
  rewindBuffer,
  rewindEnabled,
  rewindBufferMaxDurationSec,
  pressed,            \* the button is held
  job,                \* rewindProgressiveJob: "idle" or "active"
  restoring,          \* the activity still has a state to restore
  saved,              \* the states in save files
  era,                \* restorations and resets so far (history)
  restored            \* the era that the last restoration began (history)

vars == <<now, rewindBuffer, rewindEnabled, rewindBufferMaxDurationSec, pressed,
          job, restoring, saved, era, restored>>
history == <<era, restored>>
switches == <<rewindEnabled, rewindBufferMaxDurationSec, pressed, job, restoring>>

\* rewindBufferMaxSize is a val: computed once, from the initial duration.
rewindBufferMaxSize == DefaultDuration * PerSecond

State == [era : 0..MaxEra, at : 0..MaxAt]

TypeOK ==
  /\ now \in State /\ era \in 0..MaxEra /\ restored \in 0..MaxEra
  /\ rewindBuffer \in Seq(State)
  /\ Len(rewindBuffer) <= rewindBufferMaxSize
  /\ rewindEnabled \in BOOLEAN /\ pressed \in BOOLEAN
  /\ rewindBufferMaxDurationSec \in Durations
  /\ job \in {"idle", "active"} /\ restoring \in BOOLEAN
  /\ saved \subseteq State

\* Earlier(s, t): the player met state s no later than state t.
Earlier(s, t) == s.era < t.era \/ (s.era = t.era /\ s.at <= t.at)

Init ==
  /\ now = [era |-> 0, at |-> 0] /\ era = 0 /\ restored = 0
  /\ rewindBuffer = <<>> /\ rewindEnabled \in BOOLEAN
  /\ rewindBufferMaxDurationSec = DefaultDuration
  /\ pressed = FALSE /\ job = "idle"
  /\ restoring \in BOOLEAN
  /\ saved \in {{}, {[era |-> 0, at |-> MaxAt]}}

-----------------------------------------------------------------------------
(* Variants of the actions below with one fault each.                      *)

\* A recorder that adds and removes at the same end.
RecordAtFront ==
  /\ rewindBuffer' =
       LET buffer == <<now>> \o rewindBuffer
       IN  IF Len(buffer) > rewindBufferMaxSize
           THEN SubSeq(buffer, 1, Len(buffer) - 1) ELSE buffer
  /\ UNCHANGED <<now, switches, saved, history>>

\* A recorder that lets the buffer grow one too far.
RecordOneMore ==
  /\ rewindBuffer' =
       LET buffer == Append(rewindBuffer, now)
       IN  IF Len(buffer) > rewindBufferMaxSize + 1 THEN Tail(buffer) ELSE buffer
  /\ UNCHANGED <<now, switches, saved, history>>

\* A rewind that plays the records from the oldest on.
RewindFromOldest ==
  /\ job = "active"
  /\ IF rewindBuffer # <<>>
     THEN /\ rewindBuffer' = Tail(rewindBuffer)
          /\ now' \in {Head(rewindBuffer), now}
          /\ UNCHANGED job
     ELSE job' = "idle" /\ UNCHANGED <<now, rewindBuffer>>
  /\ UNCHANGED <<rewindEnabled, rewindBufferMaxDurationSec, pressed, restoring, saved, history>>

\* A button whose release leaves the job running.
ReleaseWithoutCancel ==
  /\ pressed /\ pressed' = FALSE
  /\ UNCHANGED <<now, rewindBuffer, rewindEnabled, rewindBufferMaxDurationSec,
                 job, restoring, saved, history>>

-----------------------------------------------------------------------------
(* The game and the two jobs.                                              *)

\* Frames go by; not while the view is paused, so this need not happen.
Play ==
  /\ now.at < MaxAt
  /\ now' = [now EXCEPT !.at = @ + 1]
  /\ UNCHANGED <<rewindBuffer, switches, saved, history>>

\* One turn of rewindJob, whether rewinding is enabled or not.
Record ==
  /\ rewindBuffer' =
       LET buffer == Append(rewindBuffer, now)
       IN  IF Len(buffer) > rewindBufferMaxSize THEN Tail(buffer) ELSE buffer
  /\ UNCHANGED <<now, switches, saved, history>>

\* One turn of rewindProgressiveJob, up to its next delay or its end.
RewindStep ==
  /\ job = "active"
  /\ IF rewindBuffer # <<>>
     THEN LET last == Len(rewindBuffer)
          IN  /\ rewindBuffer' = SubSeq(rewindBuffer, 1, last - 1)
              /\ now' \in {rewindBuffer[last], now}
              /\ UNCHANGED job
     ELSE job' = "idle" /\ UNCHANGED <<now, rewindBuffer>>
  /\ UNCHANGED <<rewindEnabled, rewindBufferMaxDurationSec, pressed, restoring, saved, history>>

-----------------------------------------------------------------------------
(* The player.                                                             *)

\* ACTION_DOWN: with rewinding enabled, a new job.
Press ==
  /\ ~pressed /\ pressed' = TRUE
  /\ job' = IF rewindEnabled THEN "active" ELSE job
  /\ UNCHANGED <<now, rewindBuffer, rewindEnabled, rewindBufferMaxDurationSec,
                 restoring, saved, history>>

\* ACTION_UP or ACTION_CANCEL cancels the job.
Release ==
  /\ pressed /\ pressed' = FALSE
  /\ job' = "idle"
  /\ UNCHANGED <<now, rewindBuffer, rewindEnabled, rewindBufferMaxDurationSec,
                 restoring, saved, history>>

\* The switch: turning rewinding off empties the buffer.
SetRewindEnabled(isChecked) ==
  /\ isChecked # rewindEnabled
  /\ rewindEnabled' = isChecked
  /\ rewindBuffer' = IF isChecked THEN rewindBuffer ELSE <<>>
  /\ UNCHANGED <<now, rewindBufferMaxDurationSec, pressed, job, restoring, saved, history>>

\* The spinner.
SelectDuration(d) ==
  /\ rewindBufferMaxDurationSec' = d
  /\ UNCHANGED <<now, rewindBuffer, rewindEnabled, pressed, job, restoring, saved, history>>

\* A quicksave, a slot, an autosave: any file the game can be restored from.
Save ==
  /\ saved' = saved \cup {now}
  /\ UNCHANGED <<now, rewindBuffer, switches, history>>

\* unserializeState of a save: a new era of the game, unless it fails.
Unserialize(s) ==
  \/ /\ era < MaxEra
     /\ era' = era + 1 /\ restored' = era + 1
     /\ now' = [era |-> era + 1, at |-> s.at]
  \/ UNCHANGED <<history, now>>

\* The one restoration of a new activity (saved instance state, autosave or
\* save_file of the intent), posted while the recorder already runs.
Restore(s) ==
  /\ restoring /\ restoring' = FALSE
  /\ Unserialize(s)
  /\ rewindBuffer' = <<>>
  /\ UNCHANGED <<rewindEnabled, rewindBufferMaxDurationSec, pressed, job, saved>>

\* Quickload, the load dialog and load_last_manual_save leave it as it is.
QuickLoad(s) ==
  /\ Unserialize(s)
  /\ UNCHANGED <<rewindBuffer, switches, saved>>

\* Hardware reset: the game starts again, the buffer stays.
HardwareReset ==
  /\ era < MaxEra
  /\ era' = era + 1 /\ now' = [era |-> era + 1, at |-> 0]
  /\ UNCHANGED <<rewindBuffer, switches, saved, restored>>

Next ==
  \/ Play \/ Record \/ RewindStep
  \/ Press \/ Release \/ Save \/ HardwareReset
  \/ \E isChecked \in BOOLEAN : SetRewindEnabled(isChecked)
  \/ \E d \in Durations : SelectDuration(d)
  \/ \E s \in saved : Restore(s) \/ QuickLoad(s)

Spec == Init /\ [][Next]_vars

-----------------------------------------------------------------------------
(* Properties.                                                             *)

\* The records are in the order in which the player met them, and none is
\* ahead of the game: recording during a rewind, restorations and resets
\* never make a later rewind jump forward (addLast, removeLast and
\* removeFirst of the two jobs on the one buffer).
Chronological ==
  /\ \A i, j \in DOMAIN rewindBuffer :
        i <= j => Earlier(rewindBuffer[i], rewindBuffer[j])
  /\ \A i \in DOMAIN rewindBuffer : Earlier(rewindBuffer[i], now)

\* While the button is held, the game only goes back: between two frames
\* every turn of the rewind shows an earlier moment or the same one.
RewindGoesBack == [][RewindStep => Earlier(now', now)]_vars

\* A rewind ends with the button: nobody but a held button rewinds the game
\* (the cancel in ACTION_UP, and the job of an earlier press).
RewindOnlyWhenHeld == job = "active" => pressed

\* "On vide le buffer de rewind après restauration": no record is of the
\* game as it was before the last restoration.
RecordsSinceRestore ==
  \A i \in DOMAIN rewindBuffer : rewindBuffer[i].era >= restored

\* "Spinner pour choisir la durée max": the recorder drops its oldest record
\* only when the buffer spans the duration that was chosen.
DropsBeyondDuration ==
  [][Record /\ Len(rewindBuffer') = Len(rewindBuffer)
       => Len(rewindBuffer) >= rewindBufferMaxDurationSec * PerSecond]_vars
=============================================================================
