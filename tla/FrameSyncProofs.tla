--------------------------- MODULE FrameSyncProofs ---------------------------
(***************************************************************************)
(* The pace of the game, for every frame interval, every length of the     *)
(* frames and every speed.                                                 *)
(***************************************************************************)
EXTENDS FrameSync, TLAPS

\* lastFrame is where the granted frames end, counted from the first step, and
\* no more than a frame ahead of the clock, and that only until wait() returns.
PaceInv ==
  /\ PaceTypeOK
  /\ useVSync => origin = Unset
  /\ (origin = Unset) <=> (lastFrame = Unset)
  /\ origin = Unset => granted = 0
  /\ origin # Unset =>
       /\ lastFrame = origin + Interval * granted
       /\ lastFrame <= now + Interval
       /\ pacing # "running" => lastFrame <= now
       /\ lastFrame > steppedAt - Interval

-----------------------------------------------------------------------------
\* Division, as advanceFrames uses it: whole intervals, and less than one left.
LEMMA WholeIntervals ==
  ASSUME NEW d \in Nat, NEW i \in Nat \ {0}
  PROVE  d \div i \in Nat /\ i * (d \div i) <= d /\ d < i * (d \div i) + i
<1>1. d = i * (d \div i) + (d % i) /\ d % i \in 0..(i - 1) /\ d \div i \in Int
  OBVIOUS
<1>2. d \div i >= 0
  BY <1>1
<1> QED
  BY <1>1, <1>2

\* advanceFrames grants at least one frame, and whatever it grants ends less
\* than an interval before now and at most one interval after it.
LEMMA RequestedFits ==
  ASSUME PaceAssumption, PaceInv, pacing # "running"
  PROVE  /\ Base \in Nat /\ Requested \in Nat /\ Requested >= 1
         /\ Base + Interval * Requested \in Nat
         /\ Base + Interval * Requested <= now + Interval
         /\ Base + Interval * Requested > now - Interval
         /\ Interval * (granted + Requested) = Interval * granted + Interval * Requested
<1> DEFINE d == now - Base
           due == d \div Interval
<1>1. Base \in Nat /\ Base <= now /\ d \in Nat /\ Interval \in Nat \ {0}
  BY DEF Base, PaceInv, PaceTypeOK, PaceAssumption, Unset
<1>2. due \in Nat /\ Interval * due <= d /\ d < Interval * due + Interval
  BY <1>1, WholeIntervals
<1>3. Requested = IF due > 1 THEN due ELSE 1
  BY DEF Requested
<1> HIDE DEF due, d
<1>4. CASE due > 1
  <2>1. Requested = due /\ now = Base + d
    BY <1>1, <1>3, <1>4 DEF d, PaceInv, PaceTypeOK
  <2>2. Interval * (granted + due) = Interval * granted + Interval * due
    BY <1>1, <1>2 DEF PaceInv, PaceTypeOK
  <2>3. Interval * due \in Nat
    BY <1>1, <1>2
  <2> QED
    BY <1>1, <1>2, <1>4, <2>1, <2>2, <2>3 DEF PaceInv, PaceTypeOK
<1>5. CASE ~(due > 1)
  <2>1. Requested = 1 /\ now = Base + d
    BY <1>1, <1>3, <1>5 DEF d, PaceInv, PaceTypeOK
  <2>2. due = 0 \/ due = 1
    BY <1>2, <1>5
  <2>3. d < Interval + Interval
    BY <1>1, <1>2, <2>2
  <2>4. Interval * (granted + 1) = Interval * granted + Interval * 1
    BY <1>1 DEF PaceInv, PaceTypeOK
  <2> QED
    BY <1>1, <2>1, <2>3, <2>4 DEF PaceInv, PaceTypeOK
<1> QED
  BY <1>4, <1>5

-----------------------------------------------------------------------------
LEMMA PaceStarts ==
  ASSUME PaceAssumption, PaceInit
  PROVE  PaceInv
BY DEF PaceAssumption, PaceInit, PaceInv, PaceTypeOK, Unset

LEMMA PaceStep ==
  ASSUME PaceAssumption, PaceInv, [PaceNext]_paceVars
  PROVE  PaceInv'
<1> USE DEF PaceInv
<1>1. CASE Elapse
  BY <1>1 DEF Elapse, PaceTypeOK, PaceAssumption, Unset
<1>2. CASE ResumePace
  BY <1>2 DEF ResumePace, PaceTypeOK, Unset
<1>3. CASE PausePace
  BY <1>3 DEF PausePace, PaceTypeOK
<1>4. CASE AdvanceVSync
  BY <1>4 DEF AdvanceVSync, PaceTypeOK
<1>5. CASE Advance
  <2> DEFINE step == Interval * Requested
  <2>1. /\ Base \in Nat /\ Requested \in Nat /\ Requested >= 1
        /\ Base + step \in Nat /\ Base + step <= now + Interval
        /\ Base + step > now - Interval
        /\ Interval * (granted + Requested) = Interval * granted + step
    BY <1>5, RequestedFits DEF Advance
  <2>2. lastFrame' = Base + step /\ granted' = granted + Requested
    BY <1>5 DEF Advance
  <2>3. CASE origin = Unset
    <3>1. Base = now /\ origin' = now /\ granted = 0
      BY <1>5, <2>3 DEF Advance, Base
    <3>2. Interval * granted = 0
      BY <3>1 DEF PaceAssumption
    <3>3. step \in Nat
      BY <2>1 DEF PaceAssumption
    <3> HIDE DEF step
    <3>4. lastFrame' = origin' + Interval * granted'
      BY <2>1, <2>2, <3>1, <3>2, <3>3 DEF PaceTypeOK
    <3> QED
      BY <1>5, <2>1, <2>2, <2>3, <3>1, <3>4 DEF Advance, PaceTypeOK, Unset
  <2>4. CASE origin # Unset
    <3>1. Base = lastFrame /\ origin' = origin
      BY <1>5, <2>4 DEF Advance, Base
    <3>2. Interval * granted \in Nat
      BY DEF PaceAssumption, PaceTypeOK
    <3>3. step \in Nat
      BY <2>1 DEF PaceAssumption
    <3> HIDE DEF step
    <3>4. lastFrame' = origin' + Interval * granted'
      BY <2>1, <2>2, <2>4, <3>1, <3>2, <3>3 DEF PaceTypeOK, Unset
    <3> QED
      BY <1>5, <2>1, <2>2, <2>4, <3>1, <3>4 DEF Advance, PaceTypeOK, Unset
  <2> QED
    BY <2>3, <2>4
<1>6. CASE RunFrame
  BY <1>6 DEF RunFrame, PaceTypeOK
<1>7. CASE WaitOver
  BY <1>7 DEF WaitOver, PaceTypeOK
<1>8. CASE SetFrameSpeed
  BY <1>8 DEF SetFrameSpeed, PaceTypeOK
<1>9. CASE UNCHANGED paceVars
  BY <1>9 DEF paceVars, PaceTypeOK
<1> QED
  BY <1>1, <1>2, <1>3, <1>4, <1>5, <1>6, <1>7, <1>8, <1>9 DEF PaceNext

LEMMA PaceInvariance ==
  ASSUME PaceAssumption
  PROVE  PaceSpec => []PaceInv
<1>1. PaceInit => PaceInv
  BY PaceStarts
<1>2. PaceInv /\ [PaceNext]_paceVars => PaceInv'
  BY PaceStep
<1> QED
  BY <1>1, <1>2, PTL DEF PaceSpec

-----------------------------------------------------------------------------
\* The types of the pacing state of FPSSync and step(); above all, a step never
\* runs no frame.
THEOREM PaceTypeCorrect ==
  ASSUME PaceAssumption
  PROVE  PaceSpec => []PaceTypeOK
<1>1. PaceInv => PaceTypeOK
  BY DEF PaceInv
<1> QED
  BY <1>1, PaceInvariance, PTL

\* The frames that advanceFrames grants follow the clock over a whole stay in
\* front, without drift, for every interval and every duration of a frame.
THEOREM PaceFollowsClock ==
  ASSUME PaceAssumption
  PROVE  PaceSpec => []PaceKept
<1>1. ASSUME PaceInv
      PROVE  PaceKept
  <2>1. SUFFICES ASSUME origin # Unset PROVE
           /\ Interval * granted <= now - origin + Interval
           /\ pacing = "idle" => Interval * granted <= now - origin
           /\ Interval * granted > steppedAt - origin - Interval
    BY DEF PaceKept
  <2>2. Interval * granted \in Nat
    BY <1>1 DEF PaceAssumption, PaceInv, PaceTypeOK
  <2> QED
    BY <1>1, <2>1, <2>2 DEF PaceInv, PaceTypeOK, PaceAssumption, Unset
<1> QED
  BY <1>1, PaceInvariance, PTL
=============================================================================
