------------------------------ MODULE FrameSync ------------------------------
(***************************************************************************)
(* Frame pacing: FPSSync and the part of LibretroDroid::step that uses it. *)
(* When the game and the screen have different rates, every step asks how  *)
(* many frames are due, runs at most two of them, and sleeps until the     *)
(* moment up to which frames were granted.                                 *)
(*                                                                         *)
(* Time is a natural number of ticks; one read of the clock is one value   *)
(* (start() and advanceFrames() read it twice in a row).                   *)
(***************************************************************************)
EXTENDS Integers

CONSTANTS
  Interval,           \* sampleInterval
  MaxTime,            \* bound on the clock
  Speeds              \* the values of setFrameSpeed

ASSUME PaceAssumption ==
  /\ Interval \in Nat \ {0} /\ MaxTime \in Nat
  /\ Speeds \subseteq Nat /\ 1 \in Speeds

VARIABLES
  now,                \* std::chrono::steady_clock
  lastFrame,          \* up to when frames were granted
  useVSync,
  pacing,             \* the engine: "paused", "idle", or "running" a step
  frames,             \* what the step may run of what was requested
  frameSpeed,
  ran,                \* the calls of retro_run of this step
  origin,             \* history: when the first step after a resume began
  granted,            \* history: the frames requested since
  steppedAt           \* history: when the last step began

paceVars == <<now, lastFrame, useVSync, pacing, frames, frameSpeed, ran,
              origin, granted, steppedAt>>

Unset == -1           \* MIN_TIME

PaceTypeOK ==
  /\ now \in Nat /\ lastFrame \in Nat \cup {Unset}
  /\ useVSync \in BOOLEAN
  /\ pacing \in {"paused", "idle", "running"}
  /\ frames \in {1, 2} /\ frameSpeed \in Speeds /\ ran \in Nat
  /\ origin \in Nat \cup {Unset} /\ granted \in Nat /\ steppedAt \in Nat

PaceInit ==
  /\ now = 0 /\ lastFrame = Unset
  /\ useVSync \in BOOLEAN
  /\ pacing = "paused" /\ frames = 1 /\ frameSpeed = 1 /\ ran = 0
  /\ origin = Unset /\ granted = 0 /\ steppedAt = 0

-----------------------------------------------------------------------------
(* Variants of the definitions below with one fault each.                  *)

\* A step that asks for nothing when it is early.
NoneWhenEarly ==
  LET base == IF lastFrame = Unset THEN now ELSE lastFrame
  IN (now - base) \div Interval

\* A resume that does not forget the time before the pause.
ResumeLate ==
  /\ pacing = "paused"
  /\ pacing' = "idle" /\ origin' = Unset /\ granted' = 0
  /\ UNCHANGED <<now, lastFrame, useVSync, frames, frameSpeed, ran, steppedAt>>

-----------------------------------------------------------------------------
\* advanceFrames: from where it counts, and how many frames are due.
Base == IF lastFrame = Unset THEN now ELSE lastFrame

Requested ==
  LET due == (now - Base) \div Interval
  IN IF due > 1 THEN due ELSE 1

Elapse ==
  /\ now < MaxTime
  /\ now' = now + 1
  /\ UNCHANGED <<lastFrame, useVSync, pacing, frames, frameSpeed, ran, origin,
                 granted, steppedAt>>

ResumePace ==
  /\ pacing = "paused"
  /\ pacing' = "idle"
  /\ lastFrame' = Unset
  /\ origin' = Unset /\ granted' = 0
  /\ UNCHANGED <<now, useVSync, frames, frameSpeed, ran, steppedAt>>

PausePace ==
  /\ pacing = "idle"
  /\ pacing' = "paused"
  /\ UNCHANGED <<now, lastFrame, useVSync, frames, frameSpeed, ran, origin,
                 granted, steppedAt>>

\* A step of a game in the rhythm of the screen runs one frame.
AdvanceVSync ==
  /\ pacing = "idle" /\ useVSync
  /\ pacing' = "running" /\ frames' = 1 /\ ran' = 0
  /\ UNCHANGED <<now, lastFrame, useVSync, frameSpeed, origin, granted, steppedAt>>

\* The bound on the clock leaves the time that the sleep may need.
Advance ==
  /\ pacing = "idle" /\ ~useVSync
  /\ now + Interval <= MaxTime
  /\ pacing' = "running" /\ ran' = 0
  /\ lastFrame' = Base + Interval * Requested
  /\ frames' = IF Requested < 2 THEN Requested ELSE 2
  /\ origin' = IF origin = Unset THEN now ELSE origin
  /\ granted' = granted + Requested
  /\ steppedAt' = now
  /\ UNCHANGED <<now, useVSync, frameSpeed>>

\* The loop reads frameSpeed before every frame.
RunFrame ==
  /\ pacing = "running" /\ ran < frames * frameSpeed
  /\ ran' = ran + 1
  /\ UNCHANGED <<now, lastFrame, useVSync, pacing, frames, frameSpeed, origin,
                 granted, steppedAt>>

\* The end of wait().
WaitOver ==
  /\ pacing = "running" /\ ran >= frames * frameSpeed
  /\ useVSync \/ now >= lastFrame
  /\ pacing' = "idle"
  /\ UNCHANGED <<now, lastFrame, useVSync, frames, frameSpeed, ran, origin,
                 granted, steppedAt>>

SetFrameSpeed ==
  /\ frameSpeed' \in Speeds
  /\ UNCHANGED <<now, lastFrame, useVSync, pacing, frames, ran, origin, granted,
                 steppedAt>>

PaceNext ==
  \/ Elapse \/ ResumePace \/ PausePace \/ AdvanceVSync \/ Advance
  \/ RunFrame \/ WaitOver \/ SetFrameSpeed

PaceSpec == PaceInit /\ [][PaceNext]_paceVars

-----------------------------------------------------------------------------
\* Over a whole stay in front, however long single frames take, the frames
\* granted by advanceFrames follow the clock: a step starts less than one
\* interval behind it, is never more than one interval ahead of it, and does
\* not end before the clock has caught up.  Nothing is caught up for a pause.
PaceKept ==
  origin # Unset =>
    /\ Interval * granted <= now - origin + Interval
    /\ pacing = "idle" => Interval * granted <= now - origin
    /\ Interval * granted > steppedAt - origin - Interval
=============================================================================
