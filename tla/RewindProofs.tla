---------------------------- MODULE RewindProofs ----------------------------
(***************************************************************************)
(* Proofs about Rewind, for every choice of durations, recording rate and  *)
(* bounds.  RewindInv adds to the types and to the order of the records    *)
(* that the game is never in an era that has not begun.                    *)
(***************************************************************************)
EXTENDS Rewind, SequenceTheorems, TLAPS

RewindInv == TypeOK /\ Chronological /\ RewindOnlyWhenHeld /\ now.era <= era

\* The buffer has a size.
LEMMA MaxSizeType == rewindBufferMaxSize \in Nat
  BY RewindAssumption DEF rewindBufferMaxSize

\* The order of states is reflexive and transitive.
LEMMA EarlierOrder ==
  ASSUME NEW r \in State, NEW s \in State, NEW t \in State
  PROVE  /\ Earlier(s, s)
         /\ Earlier(r, s) /\ Earlier(s, t) => Earlier(r, t)
  BY RewindAssumption DEF State, Earlier

\* Recording the present keeps the bound and the order (Record).
LEMMA RecordKeeps == RewindInv /\ Record => RewindInv'
<1> SUFFICES ASSUME RewindInv, Record PROVE RewindInv'
  OBVIOUS
<1> DEFINE buffer == Append(rewindBuffer, now)
<1>1. /\ rewindBuffer \in Seq(State) /\ now \in State
      /\ Len(rewindBuffer) <= rewindBufferMaxSize
      /\ rewindBufferMaxSize \in Nat
  BY MaxSizeType DEF RewindInv, TypeOK
<1>2. /\ buffer \in Seq(State) /\ Len(buffer) = Len(rewindBuffer) + 1
      /\ \A i \in 1..Len(rewindBuffer) : buffer[i] = rewindBuffer[i]
      /\ buffer[Len(rewindBuffer) + 1] = now
  BY <1>1
<1>3. \A i, j \in 1..Len(buffer) :
         /\ Earlier(buffer[i], now)
         /\ i <= j => Earlier(buffer[i], buffer[j])
  <2> SUFFICES ASSUME NEW i \in 1..Len(buffer), NEW j \in 1..Len(buffer)
               PROVE  /\ Earlier(buffer[i], now)
                      /\ i <= j => Earlier(buffer[i], buffer[j])
    OBVIOUS
  <2>1. Earlier(now, now)
    BY <1>1, EarlierOrder
  <2>2. \A k \in 1..Len(rewindBuffer) : Earlier(rewindBuffer[k], now)
    BY <1>1 DEF RewindInv, Chronological
  <2>3. \A k, l \in 1..Len(rewindBuffer) :
           k <= l => Earlier(rewindBuffer[k], rewindBuffer[l])
    BY <1>1 DEF RewindInv, Chronological
  <2>4. CASE i = Len(rewindBuffer) + 1
    BY <1>1, <1>2, <2>1, <2>4
  <2>5. CASE i # Len(rewindBuffer) + 1
    <3>1. i \in 1..Len(rewindBuffer) /\ buffer[i] = rewindBuffer[i]
      BY <1>1, <1>2, <2>5
    <3>2. CASE j = Len(rewindBuffer) + 1
      BY <1>2, <2>2, <3>1, <3>2
    <3>3. CASE j # Len(rewindBuffer) + 1
      <4>1. j \in 1..Len(rewindBuffer) /\ buffer[j] = rewindBuffer[j]
        BY <1>1, <1>2, <3>3
      <4> QED BY <2>2, <2>3, <3>1, <4>1
    <3> QED BY <3>2, <3>3
  <2> QED BY <2>4, <2>5
<1>4. /\ now' = now /\ UNCHANGED <<switches, saved, history>>
      /\ rewindBuffer' = IF Len(buffer) > rewindBufferMaxSize
                         THEN Tail(buffer) ELSE buffer
  BY DEF Record
<1>5. /\ rewindBuffer' \in Seq(State) /\ Len(rewindBuffer') <= rewindBufferMaxSize
      /\ \E shift \in {0, 1} : \A i \in 1..Len(rewindBuffer') :
            i + shift \in 1..Len(buffer) /\ rewindBuffer'[i] = buffer[i + shift]
  <2>1. CASE Len(buffer) > rewindBufferMaxSize
    <3>1. buffer # <<>> /\ rewindBuffer' = Tail(buffer)
      BY <1>1, <1>2, <1>4, <2>1
    <3>2. /\ Len(rewindBuffer') = Len(buffer) - 1 /\ rewindBuffer' \in Seq(State)
          /\ \A i \in 1..(Len(buffer) - 1) : rewindBuffer'[i] = buffer[i + 1]
      BY <1>2, <3>1, HeadTailProperties
    <3> QED BY <1>1, <1>2, <3>2
  <2>2. CASE ~(Len(buffer) > rewindBufferMaxSize)
    <3>1. rewindBuffer' = buffer
      BY <1>4, <2>2
    <3> QED BY <1>1, <1>2, <2>2, <3>1
  <2> QED BY <2>1, <2>2
<1>6. Chronological'
  <2>1. PICK shift \in {0, 1} : \A i \in 1..Len(rewindBuffer') :
           i + shift \in 1..Len(buffer) /\ rewindBuffer'[i] = buffer[i + shift]
    BY <1>5
  <2>2. DOMAIN rewindBuffer' = 1..Len(rewindBuffer')
    BY <1>5
  <2>3. \A i, j \in 1..Len(rewindBuffer') :
           i <= j => Earlier(rewindBuffer'[i], rewindBuffer'[j])
    <3> SUFFICES ASSUME NEW i \in 1..Len(rewindBuffer'),
                        NEW j \in 1..Len(rewindBuffer'), i <= j
                 PROVE  Earlier(rewindBuffer'[i], rewindBuffer'[j])
      OBVIOUS
    <3>1. i + shift <= j + shift
      OBVIOUS
    <3> QED BY <1>3, <2>1, <3>1
  <2>4. \A i \in 1..Len(rewindBuffer') : Earlier(rewindBuffer'[i], now')
    BY <1>3, <1>4, <2>1
  <2> QED BY <2>2, <2>3, <2>4 DEF Chronological
<1>7. TypeOK' /\ RewindOnlyWhenHeld' /\ (now.era <= era)'
  BY <1>4, <1>5
  DEF RewindInv, TypeOK, RewindOnlyWhenHeld, switches, history, rewindBufferMaxSize
<1> QED BY <1>6, <1>7 DEF RewindInv

\* A turn of the rewind takes the last record off, and the game goes back to
\* it or stays (RewindStep).
LEMMA RewindStepKeeps ==
  RewindInv /\ RewindStep => RewindInv' /\ Earlier(now', now)
<1> SUFFICES ASSUME RewindInv, RewindStep PROVE RewindInv' /\ Earlier(now', now)
  OBVIOUS
<1>1. rewindBuffer \in Seq(State) /\ now \in State
  BY DEF RewindInv, TypeOK
<1>2. CASE rewindBuffer = <<>>
  <2>1. now' = now /\ rewindBuffer' = rewindBuffer
    BY <1>2 DEF RewindStep
  <2>2. Earlier(now', now)
    BY <1>1, <2>1, EarlierOrder
  <2>3. RewindInv'
    BY <1>2, <2>1 DEF RewindStep, RewindInv, TypeOK, Chronological,
                      RewindOnlyWhenHeld, history, rewindBufferMaxSize
  <2> QED BY <2>2, <2>3
<1>3. CASE rewindBuffer # <<>>
  <2> DEFINE last == Len(rewindBuffer)
  <2>1. /\ last \in Nat \ {0} /\ last \in DOMAIN rewindBuffer
        /\ rewindBuffer[last] \in State
    BY <1>1, <1>3
  <2>2. /\ rewindBuffer' = SubSeq(rewindBuffer, 1, last - 1)
        /\ now' \in {rewindBuffer[last], now}
        /\ UNCHANGED <<job, rewindEnabled, rewindBufferMaxDurationSec, pressed,
                       restoring, saved, era, restored>>
    BY <1>3 DEF RewindStep, history
  <2>3. /\ rewindBuffer' \in Seq(State) /\ Len(rewindBuffer') = last - 1
        /\ \A i \in 1..(last - 1) : rewindBuffer'[i] = rewindBuffer[i]
    <3> DEFINE front == SubSeq(rewindBuffer, 1, last - 1)
    <3>1. 1 \in Int /\ last - 1 \in Int
          /\ \A i \in 1..(last - 1) : rewindBuffer[i] \in State
      BY <1>1, <2>1
    <3>2. front \in Seq(State)
      BY ONLY <3>1, SubSeqProperties
    <3>3. Len(front) = IF 1 <= last - 1 THEN last - 1 - 1 + 1 ELSE 0
      BY ONLY <3>1, SubSeqProperties
    <3>4. \A i \in 1..(last - 1 - 1 + 1) : front[i] = rewindBuffer[1 + i - 1]
      BY ONLY <3>1, SubSeqProperties
    <3> HIDE DEF front
    <3>5. front = rewindBuffer'
      BY <2>2 DEF front
    <3> QED BY <2>1, <3>2, <3>3, <3>4, <3>5
  <2>4. \A i \in 1..last : Earlier(rewindBuffer[i], rewindBuffer[last])
    BY <1>1, <2>1 DEF RewindInv, Chronological
  <2>5. \A i \in 1..last : Earlier(rewindBuffer[i], now)
    BY <1>1 DEF RewindInv, Chronological
  <2>6. now' \in State /\ Earlier(now', now)
    BY <1>1, <2>1, <2>2, <2>5, EarlierOrder
  <2>7. Chronological'
    <3>1. DOMAIN rewindBuffer' = 1..(last - 1)
      BY <2>1, <2>3
    <3>2. \A i, j \in 1..(last - 1) :
             i <= j => Earlier(rewindBuffer[i], rewindBuffer[j])
      BY <1>1, <2>1 DEF RewindInv, Chronological
    <3>3. \A i \in 1..(last - 1) : Earlier(rewindBuffer[i], now')
      BY <2>1, <2>2, <2>4, <2>5
    <3> QED BY <2>3, <3>1, <3>2, <3>3 DEF Chronological
  <2>8. now'.era <= era
    <3>1. now'.era <= now.era
      BY <1>1, <2>6 DEF Earlier, State
    <3> QED BY <1>1, <2>6, <3>1, RewindAssumption DEF RewindInv, TypeOK, State
  <2>9. TypeOK' /\ RewindOnlyWhenHeld'
    BY <2>1, <2>2, <2>3, <2>6, MaxSizeType
    DEF RewindInv, TypeOK, RewindOnlyWhenHeld, rewindBufferMaxSize
  <2> QED BY <2>2, <2>6, <2>7, <2>8, <2>9 DEF RewindInv
<1> QED BY <1>2, <1>3

\* A restored state opens an era of its own, ahead of every record.
LEMMA UnserializeKeeps ==
  ASSUME RewindInv, NEW s \in saved, Unserialize(s)
  PROVE  /\ now' \in State /\ era' \in 0..MaxEra /\ restored' \in 0..MaxEra
         /\ now'.era <= era'
         /\ \A i \in DOMAIN rewindBuffer : Earlier(rewindBuffer[i], now')
<1>1. /\ now \in State /\ era \in 0..MaxEra /\ restored \in 0..MaxEra
      /\ s \in State /\ now.era <= era
      /\ \A i \in DOMAIN rewindBuffer : rewindBuffer[i] \in State
      /\ \A i \in DOMAIN rewindBuffer : Earlier(rewindBuffer[i], now)
  BY DEF RewindInv, TypeOK, Chronological
<1>2. CASE UNCHANGED <<history, now>>
  BY <1>1, <1>2 DEF history
<1>3. CASE /\ era < MaxEra
           /\ era' = era + 1 /\ restored' = era + 1
           /\ now' = [era |-> era + 1, at |-> s.at]
  BY <1>1, <1>3, RewindAssumption DEF State, Earlier
<1> QED BY <1>2, <1>3 DEF Unserialize

\* Every step keeps the invariant.
LEMMA NextKeeps == RewindInv /\ [Next]_vars => RewindInv'
<1> SUFFICES ASSUME RewindInv, [Next]_vars PROVE RewindInv'
  OBVIOUS
<1> USE DEF switches, history
<1>1. CASE Play
  <2>1. /\ now \in State /\ now' \in State
        /\ now'.era = now.era /\ now'.at = now.at + 1
    BY <1>1, RewindAssumption DEF Play, RewindInv, TypeOK, State
  <2>2. Earlier(now, now')
    BY <2>1, RewindAssumption DEF Earlier, State
  <2>3. Chronological'
    <3>1. \A i \in DOMAIN rewindBuffer :
             rewindBuffer[i] \in State /\ Earlier(rewindBuffer[i], now)
      BY DEF RewindInv, TypeOK, Chronological
    <3>2. \A i \in DOMAIN rewindBuffer : Earlier(rewindBuffer[i], now')
      BY <2>1, <2>2, <3>1, EarlierOrder
    <3> QED BY <1>1, <3>2 DEF Play, RewindInv, Chronological
  <2> QED BY <1>1, <2>1, <2>3
          DEF Play, RewindInv, TypeOK, RewindOnlyWhenHeld, rewindBufferMaxSize
<1>2. CASE Record
  BY <1>2, RecordKeeps
<1>3. CASE RewindStep
  BY <1>3, RewindStepKeeps
<1>4. CASE Press
  BY <1>4 DEF Press, RewindInv, TypeOK, Chronological, RewindOnlyWhenHeld,
              rewindBufferMaxSize
<1>5. CASE Release
  <2>1. pressed' \in BOOLEAN
    BY <1>5 DEF Release
  <2> QED BY <1>5, <2>1 DEF Release, RewindInv, TypeOK, Chronological,
                            RewindOnlyWhenHeld, rewindBufferMaxSize
<1>6. CASE Save
  BY <1>6 DEF Save, RewindInv, TypeOK, Chronological, RewindOnlyWhenHeld,
              rewindBufferMaxSize
<1>7. CASE HardwareReset
  <2>1. /\ now' \in State /\ era' \in 0..MaxEra /\ now'.era = era + 1
        /\ now'.era <= era'
    BY <1>7, RewindAssumption DEF HardwareReset, RewindInv, TypeOK, State
  <2>2. \A i \in DOMAIN rewindBuffer : Earlier(rewindBuffer[i], now')
    <3> SUFFICES ASSUME NEW i \in DOMAIN rewindBuffer
                 PROVE  Earlier(rewindBuffer[i], now')
      OBVIOUS
    <3>1. rewindBuffer[i] \in State /\ Earlier(rewindBuffer[i], now)
      BY DEF RewindInv, TypeOK, Chronological
    <3>2. rewindBuffer[i].era \in Nat /\ now.era \in Nat /\ era \in Nat /\ now.era <= era
      BY <3>1, RewindAssumption DEF RewindInv, TypeOK, State
    <3>3. rewindBuffer[i].era <= now.era
      BY <3>1, <3>2 DEF Earlier
    <3>4. rewindBuffer[i].era < now'.era
      BY <2>1, <3>2, <3>3
    <3> QED BY <3>4 DEF Earlier
  <2> QED BY <1>7, <2>1, <2>2 DEF HardwareReset, RewindInv, TypeOK, Chronological,
                                  RewindOnlyWhenHeld, rewindBufferMaxSize
<1>8. ASSUME NEW isChecked \in BOOLEAN, SetRewindEnabled(isChecked) PROVE RewindInv'
  <2>1. CASE isChecked
    BY <1>8, <2>1 DEF SetRewindEnabled, RewindInv, TypeOK, Chronological,
                      RewindOnlyWhenHeld, rewindBufferMaxSize
  <2>2. CASE ~isChecked
    <3>1. rewindBuffer' = <<>> /\ Len(rewindBuffer') = 0 /\ rewindEnabled' \in BOOLEAN
      BY <1>8, <2>2 DEF SetRewindEnabled
    <3> QED BY <1>8, <2>2, <3>1, MaxSizeType
            DEF SetRewindEnabled, RewindInv, TypeOK, Chronological,
                RewindOnlyWhenHeld, rewindBufferMaxSize
  <2> QED BY <2>1, <2>2
<1>9. ASSUME NEW d \in Durations, SelectDuration(d) PROVE RewindInv'
  BY <1>9 DEF SelectDuration, RewindInv, TypeOK, Chronological,
              RewindOnlyWhenHeld, rewindBufferMaxSize
<1>10. ASSUME NEW s \in saved, Restore(s) PROVE RewindInv'
  <2>1. /\ now' \in State /\ era' \in 0..MaxEra /\ restored' \in 0..MaxEra
        /\ now'.era <= era'
    BY <1>10, UnserializeKeeps DEF Restore
  <2>2. rewindBuffer' = <<>> /\ Len(rewindBuffer') = 0 /\ restoring' \in BOOLEAN
    BY <1>10 DEF Restore
  <2> QED BY <1>10, <2>1, <2>2, MaxSizeType
          DEF Restore, RewindInv, TypeOK, Chronological, RewindOnlyWhenHeld,
              rewindBufferMaxSize
<1>11. ASSUME NEW s \in saved, QuickLoad(s) PROVE RewindInv'
  <2>1. /\ now' \in State /\ era' \in 0..MaxEra /\ restored' \in 0..MaxEra
        /\ now'.era <= era'
        /\ \A i \in DOMAIN rewindBuffer : Earlier(rewindBuffer[i], now')
    BY <1>11, UnserializeKeeps DEF QuickLoad
  <2> QED BY <1>11, <2>1 DEF QuickLoad, RewindInv, TypeOK, Chronological,
                             RewindOnlyWhenHeld, rewindBufferMaxSize
<1>12. CASE UNCHANGED vars
  BY <1>12 DEF vars, RewindInv, TypeOK, Chronological, RewindOnlyWhenHeld,
               rewindBufferMaxSize
<1> QED
  BY <1>1, <1>2, <1>3, <1>4, <1>5, <1>6, <1>7, <1>8, <1>9, <1>10, <1>11, <1>12
  DEF Next

\* RewindInv holds in every reachable state.
THEOREM RewindInvariance == Spec => []RewindInv
<1>1. Init => RewindInv
  <2> SUFFICES ASSUME Init PROVE RewindInv
    OBVIOUS
  <2>1. rewindBuffer = <<>> /\ Len(rewindBuffer) = 0
    BY DEF Init
  <2>2. now \in State /\ saved \subseteq State /\ now.era = 0 /\ era = 0
    BY RewindAssumption DEF Init, State
  <2>3. TypeOK
    <3>1. /\ era \in 0..MaxEra /\ restored \in 0..MaxEra
          /\ rewindBufferMaxDurationSec \in Durations
      BY RewindAssumption DEF Init
    <3>2. /\ rewindEnabled \in BOOLEAN /\ pressed \in BOOLEAN
          /\ restoring \in BOOLEAN /\ job \in {"idle", "active"}
      BY DEF Init
    <3> QED BY <2>1, <2>2, <3>1, <3>2, MaxSizeType DEF TypeOK
  <2>4. Chronological /\ RewindOnlyWhenHeld
    BY <2>1 DEF Init, Chronological, RewindOnlyWhenHeld
  <2> QED BY <2>2, <2>3, <2>4 DEF RewindInv
<1>2. RewindInv /\ [Next]_vars => RewindInv'
  BY NextKeeps
<1> QED
  BY <1>1, <1>2, PTL DEF Spec

\* The records stay in the order in which the player met them, none ahead of
\* the game, whatever the two jobs, the restorations and the resets do.
THEOREM RecordsInOrder == Spec => []Chronological
<1>1. RewindInv => Chronological
  BY DEF RewindInv
<1> QED
  BY <1>1, RewindInvariance, PTL

\* A turn of the rewind never moves the game forward.
THEOREM OnlyBackwards == Spec => RewindGoesBack
<1>1. RewindInv /\ [Next]_vars => [RewindStep => Earlier(now', now)]_vars
  BY RewindStepKeeps
<1> QED
  BY <1>1, RewindInvariance, PTL DEF Spec, RewindGoesBack

\* The buffer never outgrows its size.
THEOREM BufferBounded == Spec => []TypeOK
<1>1. RewindInv => TypeOK
  BY DEF RewindInv
<1> QED
  BY <1>1, RewindInvariance, PTL

\* A rewind ends with its button.
THEOREM HeldOnly == Spec => []RewindOnlyWhenHeld
<1>1. RewindInv => RewindOnlyWhenHeld
  BY DEF RewindInv
<1> QED
  BY <1>1, RewindInvariance, PTL
=============================================================================
