--------------------------- MODULE AudioFifoProofs ---------------------------
(***************************************************************************)
(* Proofs about AudioFifo, for every buffer size, every set of block       *)
(* lengths and every number of samples.  The invariant says that both      *)
(* threads work inside their share of the ring, and that every counter is  *)
(* even, so that the parity of a slot is that of what it holds.  The       *)
(* second part proves that the ring implements BoundedQueue.               *)
(***************************************************************************)
EXTENDS AudioFifo, SequenceTheorems, TLAPS

\* Each thread's block fits between the two counters.
Shares ==
  /\ writing => wLen <= Capacity - (writeCounter - readCounter)
  /\ reading => rLen <= writeCounter - readCounter /\ Len(out) <= rLen

Even(x) == x % 2 = 0

AllEven ==
  /\ Even(sent) /\ Even(writeCounter) /\ Even(readCounter)
  /\ Even(wFirst) /\ Even(wLen) /\ Even(rLen)

\* A slot holds samples of its own channel.
SlotsAligned ==
  \A s \in 0..(Capacity - 1) : mStorage[s] # Silence => mStorage[s] % 2 = s % 2

FifoInv == TypeOK /\ Shares /\ AllEven /\ SlotsAligned /\ ChannelsAligned

\* Division with remainder.
LEMMA DivMod ==
  ASSUME NEW a \in Nat, NEW c \in Nat \ {0}
  PROVE  /\ a = c * (a \div c) + (a % c)
         /\ a % c \in 0..(c - 1) /\ a \div c \in Nat
  OBVIOUS

\* Two multiples of c are equal or at least c apart.
LEMMA MultiplesApart ==
  ASSUME NEW c \in Nat \ {0}, NEW q \in Nat, NEW r \in Nat, NEW d \in 1..(c - 1),
         c * r = c * q + d
  PROVE  FALSE
<1>1. CASE r <= q
  <2>1. c * r <= c * q
    BY <1>1
  <2> QED BY <2>1
<1>2. CASE r >= q + 1
  <2>1. c * r >= c * (q + 1)
    BY <1>2
  <2>2. c * (q + 1) = c * q + c
    OBVIOUS
  <2> QED BY <2>1, <2>2
<1> QED BY <1>1, <1>2

\* Positions less than c apart fall on different slots of a ring of c.
LEMMA IndexInjective ==
  ASSUME NEW c \in Nat \ {0}, NEW a \in Nat, NEW b \in Nat, a < b, b - a < c
  PROVE  a % c # b % c
<1> SUFFICES ASSUME a % c = b % c PROVE FALSE
  OBVIOUS
<1> DEFINE q == a \div c
           r == b \div c
           m == a % c
<1>1. a = c * q + m /\ b = c * r + m /\ q \in Nat /\ r \in Nat /\ m \in Nat
  <2>1. a = c * q + m /\ m \in 0..(c - 1) /\ q \in Nat
    BY DivMod, Zenon
  <2>2. b = c * r + (b % c) /\ r \in Nat
    BY DivMod, Zenon
  <2>3. m \in Nat
    <3> HIDE DEF m
    <3> QED BY <2>1
  <2> QED BY <2>1, <2>2, <2>3, Zenon
<1>2. b - a \in 1..(c - 1)
  OBVIOUS
<1> HIDE DEF q, r, m
<1>3. c * r = c * q + (b - a)
  <2>1. c * q \in Nat /\ c * r \in Nat
    BY <1>1
  <2> QED BY <1>1, <2>1
<1> QED BY <1>1, <1>2, <1>3, MultiplesApart

\* In a ring of even size a slot has the parity of its positions.
LEMMA IndexParity ==
  ASSUME NEW h \in Nat \ {0}, NEW a \in Nat
  PROVE  (a % (2 * h)) % 2 = a % 2
<1> DEFINE q == a \div (2 * h)
           m == a % (2 * h)
<1>1. 2 * h \in Nat \ {0}
  OBVIOUS
<1>2. a = (2 * h) * q + m /\ q \in Nat /\ m \in Nat
  <2>1. a = (2 * h) * q + m /\ m \in 0..((2 * h) - 1) /\ q \in Nat
    BY <1>1, DivMod, Zenon
  <2> HIDE DEF q, m
  <2> QED BY <2>1
<1> HIDE DEF q, m
<1>3. PICK k \in Nat : k = h * q
  BY <1>2
<1>4. (2 * h) * q = 2 * k
  BY <1>2, <1>3
<1>5. a = 2 * k + m
  BY <1>2, <1>4
<1>6. a % 2 = m % 2
  BY <1>2, <1>3, <1>5
<1> QED BY <1>6 DEF m

\* The ring has room for at least one stereo frame, and a whole number of them
\* (roundToEven).
LEMMA CapacityEven ==
  /\ Capacity \in Nat \ {0} /\ Even(Capacity)
  /\ \A a \in Nat : Index(a) \in 0..(Capacity - 1) /\ Index(a) % 2 = a % 2
<1> DEFINE h == BufferSize \div 2
<1>1. h \in Nat \ {0} /\ Capacity = 2 * h
  BY FifoAssumption DEF Capacity, roundToEven
<1> HIDE DEF h
<1>2. Capacity \in Nat \ {0} /\ Even(Capacity)
  BY <1>1 DEF Even
<1>3. ASSUME NEW a \in Nat
      PROVE  Index(a) \in 0..(Capacity - 1) /\ Index(a) % 2 = a % 2
  BY <1>1, <1>2, DivMod, IndexParity DEF Index
<1> QED BY <1>2, <1>3

\* The initial state.
LEMMA InitFifo == Init => FifoInv
<1> SUFFICES ASSUME Init PROVE FifoInv
  OBVIOUS
<1>1. out = <<>> /\ DOMAIN out = {} /\ Len(out) = 0 /\ out \in Seq(Nat \cup {Silence})
  BY DEF Init
<1>2. TypeOK
  <2>1. /\ writeCounter = 0 /\ readCounter = 0 /\ sent = 0
        /\ wFirst = 0 /\ wLen = 0 /\ wDone = 0 /\ writing = FALSE
        /\ rAsked = 0 /\ rLen = 0 /\ reading = FALSE
    BY DEF Init
  <2>2. mStorage \in [0..(Capacity - 1) -> Nat \cup {Silence}]
    BY DEF Init
  <2>3. writeCounter - readCounter \in 0..Capacity
    BY <2>1, CapacityEven
  <2>4. /\ sent \in Nat /\ writeCounter \in Nat /\ readCounter \in Nat
        /\ wFirst \in Nat /\ wLen \in Nat /\ wDone \in 0..wLen
        /\ rAsked \in Nat /\ rLen \in 0..rAsked
    <3>1. 0 \in Nat /\ 0 \in 0..0
      OBVIOUS
    <3> QED BY <2>1, <3>1, Zenon
  <2>5. writing \in BOOLEAN /\ reading \in BOOLEAN
    BY <2>1, Zenon
  <2> QED BY <1>1, <2>2, <2>3, <2>4, <2>5, Zenon DEF TypeOK
<1>3. Shares /\ AllEven /\ SlotsAligned /\ ChannelsAligned
  BY <1>1, CapacityEven DEF Init, Shares, AllEven, Even, SlotsAligned, ChannelsAligned
<1> QED BY <1>2, <1>3 DEF FifoInv

\* The writer settles its length (WriteBegin).
LEMMA WriteBeginKeeps ==
  ASSUME FifoInv, NEW f \in WriteFrames, WriteBegin(f * 2) PROVE FifoInv'
<1>1. f \in Nat \ {0} /\ f * 2 \in Nat /\ Even(f * 2)
  BY FifoAssumption DEF Even
<1>2. Capacity \in Nat /\ Even(Capacity)
  BY CapacityEven
<1>3. /\ sent \in Nat /\ writeCounter \in Nat /\ readCounter \in Nat
      /\ writeCounter - readCounter \in 0..Capacity
      /\ Even(sent) /\ Even(writeCounter) /\ Even(readCounter)
  BY DEF FifoInv, TypeOK, AllEven
<1>4. /\ writing' = TRUE /\ wFirst' = sent /\ sent' = sent + f * 2
      /\ wLen' = Least(f * 2, getEmptyFramesAvailable) /\ wDone' = 0
      /\ UNCHANGED <<writeCounter, readCounter, rAsked, rLen, out, reading, mStorage>>
  BY DEF WriteBegin, rvars
<1>5. getEmptyFramesAvailable = Capacity - (writeCounter - readCounter)
  BY <1>2, <1>3 DEF getEmptyFramesAvailable, getFullFramesAvailable, Least
<1>6. /\ wLen' \in Nat /\ Even(wLen')
      /\ wLen' <= Capacity - (writeCounter - readCounter)
  BY <1>1, <1>2, <1>3, <1>4, <1>5 DEF Least, Even
<1>7. sent' \in Nat /\ Even(sent')
  BY <1>1, <1>3, <1>4 DEF Even
<1>8. TypeOK'
  BY <1>3, <1>4, <1>6, <1>7 DEF FifoInv, TypeOK
<1>9. Shares' /\ AllEven'
  BY <1>3, <1>4, <1>6, <1>7 DEF FifoInv, Shares, AllEven
<1>10. SlotsAligned' /\ ChannelsAligned'
  BY <1>4 DEF FifoInv, SlotsAligned, ChannelsAligned
<1> QED BY <1>8, <1>9, <1>10 DEF FifoInv

\* One sample is copied into its slot (WriteCopy).
LEMMA WriteCopyKeeps == ASSUME FifoInv, WriteCopy PROVE FifoInv'
<1>1. /\ writing /\ wDone < wLen /\ wDone' = wDone + 1
      /\ mStorage' = [mStorage EXCEPT ![Index(writeCounter + wDone)] = wFirst + wDone]
      /\ UNCHANGED <<sent, writeCounter, wFirst, wLen, writing,
                     readCounter, rAsked, rLen, out, reading>>
  BY DEF WriteCopy, rvars
<1>2. /\ writeCounter \in Nat /\ wDone \in Nat /\ wFirst \in Nat /\ wLen \in Nat
      /\ Even(writeCounter) /\ Even(wFirst)
      /\ mStorage \in [0..(Capacity - 1) -> Nat \cup {Silence}]
  BY DEF FifoInv, TypeOK, AllEven
<1> DEFINE slot == Index(writeCounter + wDone)
           sample == wFirst + wDone
<1>3. slot \in 0..(Capacity - 1) /\ slot % 2 = (writeCounter + wDone) % 2
  <2>1. writeCounter + wDone \in Nat
    BY <1>2
  <2> QED BY <2>1, CapacityEven, Zenon
<1>4. sample \in Nat /\ sample % 2 = (writeCounter + wDone) % 2
  BY <1>2 DEF Even
<1>5. TypeOK'
  BY <1>1, <1>2, <1>3, <1>4 DEF FifoInv, TypeOK
<1>6. SlotsAligned'
  <2> HIDE DEF slot, sample
  <2>1. mStorage' = [mStorage EXCEPT ![slot] = sample]
    BY <1>1 DEF slot, sample
  <2>2. \A s \in 0..(Capacity - 1) : mStorage'[s] = IF s = slot THEN sample ELSE mStorage[s]
    BY <1>2, <2>1
  <2> QED BY <1>3, <1>4, <2>2 DEF FifoInv, SlotsAligned
<1>7. Shares' /\ AllEven' /\ ChannelsAligned'
  BY <1>1 DEF FifoInv, Shares, AllEven, ChannelsAligned
<1> QED BY <1>5, <1>6, <1>7 DEF FifoInv

\* The writer publishes its block (WriteEnd).
LEMMA WriteEndKeeps == ASSUME FifoInv, WriteEnd PROVE FifoInv'
<1>1. /\ writing /\ writeCounter' = writeCounter + wLen /\ writing' = FALSE
      /\ UNCHANGED <<sent, wFirst, wLen, wDone,
                     readCounter, rAsked, rLen, out, reading, mStorage>>
  BY DEF WriteEnd, rvars
<1>2. /\ writeCounter \in Nat /\ readCounter \in Nat /\ wLen \in Nat /\ rLen \in Nat
      /\ writeCounter - readCounter \in 0..Capacity
      /\ Even(writeCounter) /\ Even(wLen)
      /\ wLen <= Capacity - (writeCounter - readCounter)
      /\ reading => rLen <= writeCounter - readCounter
  BY <1>1 DEF FifoInv, TypeOK, AllEven, Shares
<1>3. writeCounter' \in Nat /\ writeCounter' - readCounter \in 0..Capacity
      /\ Even(writeCounter')
  BY <1>1, <1>2, CapacityEven DEF Even
<1>4. TypeOK'
  BY <1>1, <1>3 DEF FifoInv, TypeOK
<1>5. Shares' /\ AllEven'
  BY <1>1, <1>2, <1>3, CapacityEven DEF FifoInv, Shares, AllEven
<1>6. SlotsAligned' /\ ChannelsAligned'
  BY <1>1 DEF FifoInv, SlotsAligned, ChannelsAligned
<1> QED BY <1>4, <1>5, <1>6 DEF FifoInv

\* The callback settles what it will find (ReadBegin).
LEMMA ReadBeginKeeps ==
  ASSUME FifoInv, NEW f \in ReadFrames, ReadBegin(f * 2) PROVE FifoInv'
<1>1. f \in Nat \ {0} /\ f * 2 \in Nat /\ Even(f * 2)
  BY FifoAssumption DEF Even
<1>2. /\ writeCounter \in Nat /\ readCounter \in Nat
      /\ writeCounter - readCounter \in 0..Capacity /\ Capacity \in Nat
      /\ Even(writeCounter) /\ Even(readCounter)
  BY CapacityEven DEF FifoInv, TypeOK, AllEven
<1>3. /\ reading' = TRUE /\ rAsked' = f * 2 /\ out' = <<>>
      /\ rLen' = Least(f * 2, getFullFramesAvailable)
      /\ UNCHANGED <<readCounter, sent, writeCounter, wFirst, wLen, wDone, writing,
                     mStorage>>
  BY DEF ReadBegin, wvars
<1>4. /\ rLen' \in 0..(f * 2) /\ Even(rLen') /\ rLen' <= writeCounter - readCounter
  BY <1>1, <1>2, <1>3 DEF getFullFramesAvailable, Least, Even
<1>5. out' \in Seq(Nat \cup {Silence}) /\ Len(out') = 0 /\ DOMAIN out' = {}
  BY <1>3
<1>6. TypeOK'
  BY <1>1, <1>3, <1>4, <1>5 DEF FifoInv, TypeOK
<1>7. Shares' /\ AllEven'
  BY <1>3, <1>4, <1>5 DEF FifoInv, Shares, AllEven
<1>8. SlotsAligned' /\ ChannelsAligned'
  BY <1>3, <1>5 DEF FifoInv, SlotsAligned, ChannelsAligned
<1> QED BY <1>6, <1>7, <1>8 DEF FifoInv

\* One sample is copied out of its slot (ReadCopy).
LEMMA ReadCopyKeeps == ASSUME FifoInv, ReadCopy PROVE FifoInv'
<1> DEFINE sample == mStorage[Index(readCounter + Len(out))]
<1>1. /\ reading /\ Len(out) < rLen /\ out' = Append(out, sample)
      /\ UNCHANGED <<readCounter, rAsked, rLen, reading,
                     sent, writeCounter, wFirst, wLen, wDone, writing, mStorage>>
  BY DEF ReadCopy, wvars
<1>2. /\ readCounter \in Nat /\ Even(readCounter) /\ out \in Seq(Nat \cup {Silence})
      /\ Len(out) \in Nat /\ rLen \in Nat
  BY DEF FifoInv, TypeOK, AllEven
<1>3. /\ Index(readCounter + Len(out)) \in 0..(Capacity - 1)
      /\ Index(readCounter + Len(out)) % 2 = (readCounter + Len(out)) % 2
  <2>1. readCounter + Len(out) \in Nat
    BY <1>2
  <2> QED BY <2>1, CapacityEven, Zenon
<1>4. sample \in Nat \cup {Silence}
  BY <1>3 DEF FifoInv, TypeOK
<1>5. sample # Silence => sample % 2 = Len(out) % 2
  <2>1. sample # Silence => sample % 2 = Index(readCounter + Len(out)) % 2
    BY <1>3 DEF FifoInv, SlotsAligned
  <2>2. (readCounter + Len(out)) % 2 = Len(out) % 2
    BY <1>2 DEF Even
  <2> QED BY <1>3, <2>1, <2>2
<1> HIDE DEF sample
<1>6. /\ out' \in Seq(Nat \cup {Silence}) /\ Len(out') = Len(out) + 1
      /\ out'[Len(out) + 1] = sample
      /\ \A i \in 1..Len(out) : out'[i] = out[i]
  BY <1>1, <1>2, <1>4
<1>7. ChannelsAligned'
  <2> SUFFICES ASSUME NEW i \in 1..(Len(out) + 1), out'[i] # Silence
               PROVE  out'[i] % 2 = (i - 1) % 2
    BY <1>2, <1>6 DEF ChannelsAligned
  <2>1. CASE i = Len(out) + 1
    BY <1>2, <1>5, <1>6, <2>1
  <2>2. CASE i # Len(out) + 1
    <3>1. i \in 1..Len(out) /\ i \in DOMAIN out /\ out'[i] = out[i]
      BY <1>2, <1>6, <2>2
    <3> QED BY <3>1 DEF FifoInv, ChannelsAligned
  <2> QED BY <2>1, <2>2
<1>8. TypeOK'
  BY <1>1, <1>6 DEF FifoInv, TypeOK
<1>9. Shares' /\ AllEven' /\ SlotsAligned'
  BY <1>1, <1>2, <1>6 DEF FifoInv, Shares, AllEven, SlotsAligned
<1> QED BY <1>7, <1>8, <1>9 DEF FifoInv

\* The callback gives the room back and fills up with silence (ReadEnd).
LEMMA ReadEndKeeps == ASSUME FifoInv, ReadEnd PROVE FifoInv'
<1> DEFINE pad == [i \in 1..(rAsked - rLen) |-> Silence]
<1>1. /\ reading /\ Len(out) = rLen
      /\ readCounter' = readCounter + rLen /\ reading' = FALSE
      /\ out' = out \o pad
      /\ UNCHANGED <<rAsked, rLen, sent, writeCounter, wFirst, wLen, wDone, writing,
                     mStorage>>
  BY DEF ReadEnd, wvars
<1>2. /\ readCounter \in Nat /\ writeCounter \in Nat /\ rLen \in Nat /\ rAsked \in Nat
      /\ rLen <= rAsked /\ rLen <= writeCounter - readCounter
      /\ writeCounter - readCounter \in 0..Capacity /\ Capacity \in Nat
      /\ Even(readCounter) /\ Even(rLen) /\ out \in Seq(Nat \cup {Silence})
  BY <1>1, CapacityEven DEF FifoInv, TypeOK, AllEven, Shares
<1>3. /\ readCounter' \in Nat /\ Even(readCounter')
      /\ writeCounter - readCounter' \in 0..Capacity
  <2>1. readCounter' \in Nat /\ Even(readCounter')
    <3>1. /\ readCounter \in Nat /\ rLen \in Nat /\ readCounter' = readCounter + rLen
          /\ Even(readCounter) /\ Even(rLen)
      BY <1>1, <1>2, Zenon
    <3> QED BY <3>1 DEF Even
  <2>2. writeCounter - readCounter' \in 0..Capacity
    BY <1>1, <1>2
  <2> QED BY <2>1, <2>2
<1>4. pad \in Seq(Nat \cup {Silence}) /\ Len(pad) = rAsked - rLen
      /\ \A i \in 1..(rAsked - rLen) : pad[i] = Silence
  BY <1>2
<1> HIDE DEF pad
<1>5. /\ out' \in Seq(Nat \cup {Silence}) /\ Len(out') = Len(out) + Len(pad)
      /\ \A i \in 1..Len(out') :
            out'[i] = IF i <= Len(out) THEN out[i] ELSE pad[i - Len(out)]
  BY <1>1, <1>2, <1>4
<1>6. ChannelsAligned'
  <2> SUFFICES ASSUME NEW i \in 1..Len(out'), out'[i] # Silence
               PROVE  out'[i] % 2 = (i - 1) % 2
    BY <1>5 DEF ChannelsAligned
  <2>1. i <= Len(out)
    <3> SUFFICES ASSUME i > Len(out) PROVE FALSE
      BY <1>2
    <3>1. i - Len(out) \in 1..(rAsked - rLen)
      BY <1>1, <1>2, <1>4, <1>5
    <3>2. out'[i] = pad[i - Len(out)]
      BY <1>2, <1>5
    <3> QED BY <1>4, <3>1, <3>2
  <2>2. i \in DOMAIN out /\ out'[i] = out[i]
    BY <1>2, <1>5, <2>1
  <2> QED BY <2>2 DEF FifoInv, ChannelsAligned
<1>7. TypeOK'
  BY <1>1, <1>3, <1>5 DEF FifoInv, TypeOK
<1>8. Shares' /\ AllEven' /\ SlotsAligned'
  BY <1>1, <1>2, <1>3 DEF FifoInv, Shares, AllEven, SlotsAligned, TypeOK
<1> QED BY <1>6, <1>7, <1>8 DEF FifoInv

\* FifoInv holds in every reachable state.
THEOREM FifoInvariance == Spec => []FifoInv
<1>1. FifoInv /\ [Next]_vars => FifoInv'
  <2> SUFFICES ASSUME FifoInv, [Next]_vars PROVE FifoInv'
    OBVIOUS
  <2>1. CASE UNCHANGED vars
    BY <2>1 DEF vars, wvars, rvars, FifoInv, TypeOK, Shares, AllEven, SlotsAligned,
                ChannelsAligned
  <2>2. CASE Next
    BY <2>2, WriteBeginKeeps, WriteCopyKeeps, WriteEndKeeps, ReadBeginKeeps,
       ReadCopyKeeps, ReadEndKeeps DEF Next
  <2> QED BY <2>1, <2>2
<1> QED
  BY <1>1, InitFifo, PTL DEF Spec

\* Types, and a ring never fuller than it is.
THEOREM RingBounded == Spec => []TypeOK
<1>1. FifoInv => TypeOK
  BY DEF FifoInv
<1> QED
  BY <1>1, FifoInvariance, PTL

\* The left channel never becomes the right one.
THEOREM Stereo == Spec => []ChannelsAligned
<1>1. FifoInv => ChannelsAligned
  BY DEF FifoInv
<1> QED
  BY <1>1, FifoInvariance, PTL

\* The two threads never touch the same slot.
THEOREM RaceFree == Spec => []NoOverlap
<1>1. FifoInv => NoOverlap
  <2> SUFFICES ASSUME FifoInv, writing, reading,
                      NEW i \in 0..(wLen - 1), NEW j \in 0..(rLen - 1)
               PROVE  Index(writeCounter + i) # Index(readCounter + j)
    BY DEF NoOverlap, BeingWritten, BeingRead
  <2>1. /\ writeCounter \in Nat /\ readCounter \in Nat /\ wLen \in Nat /\ rLen \in Nat
        /\ wLen <= Capacity - (writeCounter - readCounter)
        /\ rLen <= writeCounter - readCounter /\ Capacity \in Nat \ {0}
    BY CapacityEven DEF FifoInv, TypeOK, Shares
  <2>2. /\ readCounter + j \in Nat /\ writeCounter + i \in Nat
        /\ readCounter + j < writeCounter + i
        /\ (writeCounter + i) - (readCounter + j) < Capacity
    BY <2>1
  <2> QED BY <2>1, <2>2, IndexInjective DEF Index
<1> QED
  BY <1>1, FifoInvariance, PTL

-----------------------------------------------------------------------------
(* The refinement of BoundedQueue.                                         *)

Sample == Nat \cup {Silence}

\* What each thread has copied so far is where it belongs.
WriteCopied ==
  writing => \A i \in 0..(wDone - 1) : mStorage[Index(writeCounter + i)] = wFirst + i

ReadCopied ==
  reading => \A i \in 1..Len(out) : out[i] = mStorage[Index(readCounter + i - 1)]

QueueInv == FifoInv /\ WriteCopied /\ ReadCopied

taken == IF reading THEN rLen ELSE 0

\* The numbers that the steps below calculate with.
LEMMA RingNumbers ==
  ASSUME FifoInv
  PROVE  /\ writeCounter \in Nat /\ readCounter \in Nat /\ sent \in Nat
         /\ writeCounter - readCounter \in 0..Capacity
         /\ Capacity \in Nat \ {0}
         /\ wFirst \in Nat /\ wLen \in Nat /\ wDone \in 0..wLen
         /\ rAsked \in Nat /\ rLen \in 0..rAsked
         /\ writing => wLen <= Capacity - (writeCounter - readCounter)
         /\ reading => rLen <= writeCounter - readCounter /\ Len(out) <= rLen
         /\ taken \in 0..(writeCounter - readCounter)
         /\ mStorage \in [0..(Capacity - 1) -> Sample]
         /\ out \in Seq(Sample) /\ Len(out) \in Nat
         /\ \A a \in Nat : Index(a) \in 0..(Capacity - 1)
<1>1. Capacity \in Nat \ {0} /\ \A a \in Nat : Index(a) \in 0..(Capacity - 1)
  BY CapacityEven
<1>2. TypeOK /\ Shares
  BY DEF FifoInv
<1>3. out \in Seq(Sample) /\ Len(out) \in Nat
  BY <1>2 DEF TypeOK, Sample
<1> QED
  BY <1>1, <1>2, <1>3 DEF TypeOK, Shares, taken, Sample

\* The same without the ring, for steps that only calculate.
LEMMA RingIntegers ==
  ASSUME FifoInv
  PROVE  /\ writeCounter \in Nat /\ readCounter \in Nat /\ Capacity \in Nat \ {0}
         /\ readCounter <= writeCounter /\ writeCounter - readCounter <= Capacity
         /\ wLen \in Nat /\ wDone \in Nat /\ wDone <= wLen
         /\ writing => wLen <= Capacity - (writeCounter - readCounter)
         /\ Len(out) \in Nat /\ rLen \in Nat
         /\ reading => readCounter + rLen <= writeCounter /\ Len(out) <= rLen
<1>1. /\ writeCounter \in Nat /\ readCounter \in Nat /\ Capacity \in Nat \ {0}
      /\ writeCounter - readCounter \in 0..Capacity
      /\ wLen \in Nat /\ wDone \in 0..wLen /\ rAsked \in Nat /\ rLen \in 0..rAsked
      /\ Len(out) \in Nat
  BY RingNumbers
<1>2. /\ writing => wLen <= Capacity - (writeCounter - readCounter)
      /\ reading => rLen <= writeCounter - readCounter /\ Len(out) <= rLen
  BY RingNumbers
<1> QED
  BY <1>1, <1>2

\* Two positions of the ring share no slot.
LEMMA SlotsApart ==
  ASSUME FifoInv, NEW a \in Nat, NEW b \in Nat, a < b, b - a < Capacity
  PROVE  Index(a) # Index(b)
  BY CapacityEven, IndexInjective DEF Index

\* The samples in the ring as a sequence.
LEMMA StoredSeq ==
  ASSUME FifoInv, NEW k \in 0..(writeCounter - readCounter)
  PROVE  /\ Stored(k) \in Seq(Sample)
         /\ Len(Stored(k)) = writeCounter - readCounter - k
         /\ \A i \in 1..(writeCounter - readCounter - k) :
              Stored(k)[i] = mStorage[Index(readCounter + k + i - 1)]
<1> DEFINE m == writeCounter - readCounter - k
<1>1. m \in Nat /\ readCounter \in Nat /\ writeCounter \in Nat
  BY RingIntegers
<1>2. \A i \in 1..m : mStorage[Index(readCounter + k + i - 1)] \in Sample
  <2> SUFFICES ASSUME NEW i \in 1..m
               PROVE  mStorage[Index(readCounter + k + i - 1)] \in Sample
    OBVIOUS
  <2>1. readCounter + k + i - 1 \in Nat
    BY <1>1
  <2> QED
    BY <2>1, RingNumbers
<1> HIDE DEF m
<1>3. Stored(k) = [i \in 1..m |-> mStorage[Index(readCounter + k + i - 1)]]
  BY DEF Stored, m
<1>4. Stored(k) \in [1..m -> Sample]
  BY <1>2, <1>3
<1>5. Stored(k) \in Seq(Sample) /\ Len(Stored(k)) = m
  BY <1>1, <1>4
<1> QED
  BY <1>3, <1>5 DEF m

\* A sample that is copied into the ring is not one that is read or waits.
LEMMA CopyElsewhere ==
  ASSUME FifoInv, WriteCopy, NEW p \in Nat, readCounter <= p, p < writeCounter + wDone
  PROVE  mStorage'[Index(p)] = mStorage[Index(p)]
<1>1. /\ writing /\ wDone < wLen
      /\ mStorage' = [mStorage EXCEPT ![Index(writeCounter + wDone)] = wFirst + wDone]
  BY DEF WriteCopy
<1>2. writeCounter + wDone \in Nat /\ writeCounter + wDone - p < Capacity
  BY <1>1, RingIntegers
<1>3. Index(p) # Index(writeCounter + wDone)
  BY <1>2, SlotsApart, RingIntegers
<1> QED
  BY <1>1, <1>3, RingNumbers

LEMMA CopiedKept ==
  ASSUME QueueInv, [Next]_vars
  PROVE  WriteCopied' /\ ReadCopied'
<1> USE DEF QueueInv, WriteCopied, ReadCopied
<1>1. ASSUME NEW n, WriteBegin(n) PROVE WriteCopied' /\ ReadCopied'
  <2>1. wDone' = 0 /\ UNCHANGED <<readCounter, out, reading, mStorage>>
    BY <1>1 DEF WriteBegin, rvars
  <2> QED
    BY <2>1
<1>2. CASE WriteCopy
  <2>1. /\ writing /\ wDone < wLen /\ wDone' = wDone + 1
        /\ mStorage' = [mStorage EXCEPT ![Index(writeCounter + wDone)] = wFirst + wDone]
        /\ UNCHANGED <<writeCounter, wFirst, writing, readCounter, reading, out>>
    BY <1>2 DEF WriteCopy, rvars
  <2>2. writeCounter + wDone \in Nat
    BY RingIntegers
  <2>3. mStorage'[Index(writeCounter + wDone)] = wFirst + wDone
    BY <2>1, <2>2, RingNumbers
  <2>4. ASSUME NEW i \in 0..wDone PROVE mStorage'[Index(writeCounter + i)] = wFirst + i
    <3>1. CASE i = wDone
      BY <2>3, <3>1
    <3>2. CASE i # wDone
      <4>1. /\ i \in 0..(wDone - 1) /\ writeCounter + i \in Nat
            /\ readCounter <= writeCounter + i /\ writeCounter + i < writeCounter + wDone
        BY <3>2, RingIntegers
      <4> QED
        BY <1>2, <2>1, <4>1, CopyElsewhere
    <3> QED
      BY <3>1, <3>2
  <2>5. WriteCopied'
    BY <2>1, <2>4, RingNumbers
  <2>6. ASSUME reading, NEW i \in 1..Len(out)
        PROVE  out[i] = mStorage'[Index(readCounter + i - 1)]
    <3>1. /\ readCounter + i - 1 \in Nat /\ readCounter <= readCounter + i - 1
          /\ readCounter + i - 1 < writeCounter + wDone
      BY <2>6, RingIntegers
    <3>2. mStorage'[Index(readCounter + i - 1)] = mStorage[Index(readCounter + i - 1)]
      BY <1>2, <3>1, CopyElsewhere
    <3> QED
      BY <2>6, <3>2
  <2> QED
    BY <2>1, <2>5, <2>6
<1>3. CASE WriteEnd
  BY <1>3 DEF WriteEnd, rvars
<1>4. ASSUME NEW n, ReadBegin(n) PROVE WriteCopied' /\ ReadCopied'
  <2>1. out' = <<>> /\ UNCHANGED <<writeCounter, wFirst, wDone, writing, mStorage>>
    BY <1>4 DEF ReadBegin, wvars
  <2> QED
    BY <2>1
<1>5. CASE ReadCopy
  <2>1. /\ reading /\ out' = Append(out, mStorage[Index(readCounter + Len(out))])
        /\ UNCHANGED <<readCounter, writeCounter, wFirst, wDone, writing, mStorage>>
    BY <1>5 DEF ReadCopy, wvars
  <2>2. out \in Seq(Sample) /\ Len(out) \in Nat /\ readCounter \in Nat
    BY RingNumbers
  <2>3. Len(out') = Len(out) + 1
    BY <2>1, <2>2
  <2>4. ASSUME NEW i \in 1..Len(out') PROVE out'[i] = mStorage[Index(readCounter + i - 1)]
    <3>1. CASE i = Len(out) + 1
      BY <2>1, <2>2, <3>1
    <3>2. CASE i # Len(out) + 1
      <4>1. i \in 1..Len(out) /\ out'[i] = out[i]
        BY <2>1, <2>2, <2>3, <3>2
      <4> QED
        BY <2>1, <4>1
    <3> QED
      BY <3>1, <3>2
  <2> QED
    BY <2>1, <2>4
<1>6. CASE ReadEnd
  BY <1>6 DEF ReadEnd, wvars
<1>7. CASE UNCHANGED vars
  BY <1>7 DEF vars, wvars, rvars
<1> QED
  BY <1>1, <1>2, <1>3, <1>4, <1>5, <1>6, <1>7 DEF Next

\* What the abstract queue holds, in the terms of the ring.
LEMMA TakenNumber ==
  ASSUME FifoInv
  PROVE  taken \in Nat /\ readCounter + taken <= writeCounter
<1>1. CASE reading
  BY <1>1, RingIntegers DEF taken
<1>2. CASE ~reading
  BY <1>2, RingIntegers DEF taken
<1> QED
  BY <1>1, <1>2

LEMMA QueueLength ==
  ASSUME FifoInv
  PROVE  /\ Stored(taken) \in Seq(Sample)
         /\ Len(Stored(taken)) = writeCounter - readCounter - taken
         /\ getFullFramesAvailable = writeCounter - readCounter
<1>1. taken \in 0..(writeCounter - readCounter)
  BY RingNumbers
<1>2. getFullFramesAvailable = writeCounter - readCounter
  BY RingIntegers DEF getFullFramesAvailable, Least
<1> QED
  BY <1>1, <1>2, StoredSeq

\* A write that begins offers its block, cut to the room that there is.
LEMMA OfferStep ==
  ASSUME QueueInv, NEW f \in WriteFrames, WriteBegin(f * 2)
  PROVE  Queue!Next
<1> DEFINE n == f * 2
<1>1. /\ ~writing /\ writing' = TRUE /\ wFirst' = sent /\ sent' = sent + n
      /\ wLen' = Least(n, getEmptyFramesAvailable)
      /\ UNCHANGED <<writeCounter, readCounter, rAsked, rLen, out, reading, mStorage>>
  BY DEF WriteBegin, rvars
<1>2. getEmptyFramesAvailable = Capacity - Len(Stored(taken)) - taken
  <2>1. /\ Len(Stored(taken)) = writeCounter - readCounter - taken
        /\ getEmptyFramesAvailable = Capacity - (writeCounter - readCounter)
    BY QueueLength DEF QueueInv, getEmptyFramesAvailable
  <2>2. writeCounter \in Nat /\ readCounter \in Nat /\ taken \in Nat /\ Capacity \in Nat
    BY TakenNumber, RingIntegers DEF QueueInv
  <2> QED
    BY <2>1, <2>2
<1>3. UNCHANGED Stored(taken) /\ UNCHANGED taken
  BY <1>1 DEF Stored, taken, Index
<1> HIDE DEF n
<1>4. Queue!Offer(n)
  BY <1>1, <1>2, <1>3 DEF Queue!Offer, Queue!Lesser, Least, taken
<1>5. n \in {g * 2 : g \in WriteFrames \cup ReadFrames}
  BY DEF n
<1> QED
  BY <1>4, <1>5 DEF Queue!Next

\* One sample of the copy is not seen from outside.
LEMMA CopyStep ==
  ASSUME QueueInv, WriteCopy
  PROVE  UNCHANGED Queue!qvars
<1>1. /\ wLen' = wLen /\ wFirst' = wFirst
      /\ UNCHANGED <<sent, writing, writeCounter, readCounter, rAsked, rLen, out, reading>>
  BY DEF WriteCopy, rvars
<1>2. ASSUME NEW p \in Nat, readCounter <= p, p < writeCounter
      PROVE  mStorage'[Index(p)] = mStorage[Index(p)]
  BY <1>2, CopyElsewhere, RingIntegers DEF QueueInv
<1>3. Stored(taken)' = Stored(taken)
  <2> DEFINE m == writeCounter - readCounter - taken
  <2>1. ASSUME NEW i \in 1..m
        PROVE  mStorage'[Index(readCounter + taken + i - 1)]
                 = mStorage[Index(readCounter + taken + i - 1)]
    <3>1. taken \in Nat /\ readCounter \in Nat /\ writeCounter \in Nat
      BY RingNumbers DEF QueueInv
    <3>2. /\ readCounter + taken + i - 1 \in Nat
          /\ readCounter <= readCounter + taken + i - 1
          /\ readCounter + taken + i - 1 < writeCounter
      BY <3>1
    <3> QED
      BY <1>2, <3>2
  <2>2. UNCHANGED taken
    BY <1>1 DEF taken
  <2> QED
    BY <1>1, <2>1, <2>2 DEF Stored, Index
<1>4. reading => \A i \in 1..rLen :
        mStorage'[Index(readCounter + i - 1)] = mStorage[Index(readCounter + i - 1)]
  <2> SUFFICES ASSUME reading, NEW i \in 1..rLen
               PROVE  mStorage'[Index(readCounter + i - 1)]
                        = mStorage[Index(readCounter + i - 1)]
    OBVIOUS
  <2>1. /\ readCounter + i - 1 \in Nat /\ readCounter <= readCounter + i - 1
        /\ readCounter + i - 1 < writeCounter
    BY RingIntegers DEF QueueInv
  <2> QED
    BY <1>2, <2>1
<1>5. (IF reading
       THEN [i \in 1..rAsked |-> IF i <= rLen THEN mStorage[Index(readCounter + i - 1)]
                                 ELSE Silence]
       ELSE out)'
      = (IF reading
         THEN [i \in 1..rAsked |-> IF i <= rLen THEN mStorage[Index(readCounter + i - 1)]
                                   ELSE Silence]
         ELSE out)
  <2>1. CASE reading
    <3>1. rLen \in Nat /\ rAsked \in Nat
      BY RingNumbers DEF QueueInv
    <3>2. \A i \in 1..rAsked :
            (IF i <= rLen THEN mStorage'[Index(readCounter + i - 1)] ELSE Silence)
            = (IF i <= rLen THEN mStorage[Index(readCounter + i - 1)] ELSE Silence)
      BY <1>4, <2>1, <3>1
    <3> QED
      BY <1>1, <2>1, <3>2 DEF Index
  <2>2. CASE ~reading
    BY <1>1, <2>2
  <2> QED
    BY <2>1, <2>2
<1> QED
  BY <1>1, <1>3, <1>5 DEF Queue!qvars, taken

\* A write that ends commits its block.
LEMMA CommitStep ==
  ASSUME QueueInv, WriteEnd
  PROVE  Queue!Next
<1> DEFINE block == [i \in 1..wLen |-> wFirst + i - 1]
           before == Stored(taken)
           after == Stored(taken)'
           m == writeCounter - readCounter - taken
<1>1. /\ writing /\ wDone = wLen /\ writeCounter' = writeCounter + wLen /\ ~writing'
      /\ UNCHANGED <<sent, wFirst, wLen, readCounter, rAsked, rLen, out, reading, mStorage>>
  BY DEF WriteEnd, rvars
<1>2. /\ m \in Nat /\ wLen \in Nat /\ wFirst \in Nat /\ taken \in Nat
      /\ readCounter \in Nat /\ writeCounter = readCounter + taken + m
  <2>1. wLen \in Nat /\ writeCounter \in Nat /\ readCounter \in Nat
    BY RingIntegers DEF QueueInv
  <2>2. wFirst \in Nat
    BY RingNumbers DEF QueueInv
  <2>3. taken \in Nat /\ readCounter + taken <= writeCounter
    BY TakenNumber DEF QueueInv
  <2> HIDE DEF taken
  <2> QED
    BY <2>1, <2>2, <2>3
<1>3. taken' = taken
  BY <1>1 DEF taken
<1>4. before \in Seq(Sample) /\ Len(before) = m
      /\ \A i \in 1..m : before[i] = mStorage[Index(readCounter + taken + i - 1)]
  BY StoredSeq, RingNumbers DEF QueueInv
<1>5. block \in Seq(Sample) /\ Len(block) = wLen
      /\ \A i \in 1..wLen : block[i] = wFirst + i - 1
  <2>1. \A i \in 1..wLen : wFirst + i - 1 \in Nat
    BY <1>2
  <2>2. block \in [1..wLen -> Sample]
    BY <2>1 DEF Sample
  <2>3. \A i \in 1..wLen : block[i] = wFirst + i - 1
    OBVIOUS
  <2> HIDE DEF block
  <2>4. block \in Seq(Sample) /\ Len(block) = wLen
    BY <1>2, <2>2
  <2> QED
    BY <2>3, <2>4
<1> HIDE DEF block, before
<1>6. /\ before \o block \in Seq(Sample) /\ Len(before \o block) = m + wLen
      /\ \A i \in 1..(m + wLen) :
           (before \o block)[i] = IF i <= m THEN before[i] ELSE block[i - m]
  BY <1>2, <1>4, <1>5
<1>7. after = [i \in 1..(m + wLen) |-> mStorage[Index(readCounter + taken + i - 1)]]
  BY <1>1, <1>2, <1>3 DEF Stored, Index
<1>8. ASSUME NEW i \in 1..(m + wLen)
      PROVE  mStorage[Index(readCounter + taken + i - 1)] = (before \o block)[i]
  <2> HIDE DEF m
  <2> i \in Nat /\ i >= 1 /\ i <= m + wLen
    BY <1>2
  <2>1. CASE i <= m
    <3>1. i \in 1..m
      BY <1>2, <2>1
    <3> QED
      BY <1>4, <1>6, <2>1, <3>1
  <2>2. CASE i > m
    <3>1. /\ i - m - 1 \in 0..(wDone - 1) /\ i - m \in 1..wLen
          /\ readCounter + taken + i - 1 = writeCounter + (i - m - 1)
      BY <1>1, <1>2, <2>2
    <3>2. mStorage[Index(writeCounter + (i - m - 1))] = wFirst + (i - m - 1)
      BY <1>1, <3>1 DEF QueueInv, WriteCopied
    <3>3. (before \o block)[i] = block[i - m] /\ block[i - m] = wFirst + (i - m) - 1
      BY <1>2, <1>5, <1>6, <2>2, <3>1
    <3> QED
      BY <1>2, <3>1, <3>2, <3>3
  <2>3. i <= m \/ i > m
    BY <1>2
  <2> QED
    BY <2>1, <2>2, <2>3
<1> HIDE DEF m
<1>9. after \in Seq(Sample) /\ Len(after) = m + wLen
      /\ \A i \in 1..(m + wLen) : after[i] = (before \o block)[i]
  <2>1. m + wLen \in Nat
    BY <1>2
  <2>2. \A i \in 1..(m + wLen) : (before \o block)[i] \in Sample
    BY <1>6, <2>1
  <2>3. after \in [1..(m + wLen) -> Sample]
    BY <1>7, <1>8, <2>2
  <2>4. after \in Seq(Sample)
    BY <2>1, <2>3
  <2>5. Len(after) = m + wLen
    BY <1>7, <2>1
  <2> QED
    BY <1>7, <1>8, <2>4, <2>5
<1> HIDE DEF after
<1>10. after = before \o block
  BY <1>6, <1>9, SeqEqual
<1>11. Queue!Commit
  BY <1>1, <1>3, <1>10 DEF Queue!Commit, after, before, block, taken, Index
<1> QED
  BY <1>11 DEF Queue!Next

\* A read that begins takes what the ring holds, and silence after it.
LEMMA TakeStep ==
  ASSUME QueueInv, NEW f \in ReadFrames, ReadBegin(f * 2)
  PROVE  Queue!Next
<1> DEFINE n == f * 2
           before == Stored(taken)
           after == Stored(taken)'
           full == writeCounter - readCounter
           bar == [i \in 1..n |-> IF i <= rLen' THEN mStorage[Index(readCounter + i - 1)]
                                  ELSE Silence]
<1>1. /\ ~reading /\ reading' = TRUE /\ rAsked' = n /\ rLen' = Least(n, getFullFramesAvailable)
      /\ UNCHANGED <<sent, writeCounter, wFirst, wLen, wDone, writing, readCounter, mStorage>>
  BY DEF ReadBegin, wvars
<1>2. /\ taken = 0 /\ taken' = rLen'
  BY <1>1 DEF taken
<1>3. /\ n \in Nat /\ full \in Nat /\ readCounter \in Nat /\ writeCounter \in Nat
  BY FifoAssumption, RingIntegers DEF QueueInv
<1>4. /\ before \in Seq(Sample) /\ Len(before) = full
      /\ \A i \in 1..full : before[i] = mStorage[Index(readCounter + i - 1)]
  <2>1. 0 \in 0..full /\ full - 0 = full /\ readCounter + 0 = readCounter
    BY <1>3
  <2>2. /\ Stored(0) \in Seq(Sample) /\ Len(Stored(0)) = full - 0
        /\ \A i \in 1..(full - 0) :
             Stored(0)[i] = mStorage[Index(readCounter + 0 + i - 1)]
    BY <2>1, StoredSeq DEF QueueInv
  <2> QED
    BY <1>2, <2>1, <2>2
<1>5. getFullFramesAvailable = full
  BY QueueLength DEF QueueInv
<1> HIDE DEF n, before, full
<1>6. rLen' = Queue!Lesser(n, Len(before)) /\ rLen' \in 0..full
  BY <1>1, <1>3, <1>4, <1>5 DEF Queue!Lesser, Least
<1>7. bar = [i \in 1..n |-> IF i <= rLen' THEN before[i] ELSE Silence]
  <2>1. ASSUME NEW i \in 1..n, i <= rLen'
        PROVE  mStorage[Index(readCounter + i - 1)] = before[i]
    BY <1>3, <1>4, <1>6, <2>1
  <2> QED
    BY <2>1
<1>8. after = SubSeq(before, rLen' + 1, Len(before))
  <2>1. after = [i \in 1..(full - rLen') |-> mStorage[Index(readCounter + rLen' + i - 1)]]
    BY <1>1, <1>2 DEF Stored, Index, full
  <2>2. /\ SubSeq(before, rLen' + 1, Len(before)) \in Seq(Sample)
        /\ Len(SubSeq(before, rLen' + 1, Len(before))) = full - rLen'
        /\ \A i \in 1..(full - rLen') :
             SubSeq(before, rLen' + 1, Len(before))[i] = before[i + rLen']
    <3>1. /\ rLen' + 1 \in Int /\ Len(before) \in Int
          /\ \A i \in (rLen' + 1)..Len(before) : before[i] \in Sample
      BY <1>3, <1>4, <1>6
    <3>2. Len(before) - (rLen' + 1) + 1 = full - rLen'
      BY <1>3, <1>4, <1>6
    <3>3. /\ SubSeq(before, rLen' + 1, Len(before)) \in Seq(Sample)
          /\ Len(SubSeq(before, rLen' + 1, Len(before)))
               = IF rLen' + 1 <= Len(before) THEN Len(before) - (rLen' + 1) + 1 ELSE 0
          /\ \A i \in 1..(Len(before) - (rLen' + 1) + 1) :
               SubSeq(before, rLen' + 1, Len(before))[i] = before[rLen' + 1 + i - 1]
      BY <3>1, SubSeqProperties
    <3>4. \A i \in 1..(full - rLen') : rLen' + 1 + i - 1 = i + rLen'
      BY <1>3, <1>6
    <3>5. (IF rLen' + 1 <= Len(before) THEN Len(before) - (rLen' + 1) + 1 ELSE 0)
            = full - rLen'
      BY <1>3, <1>4, <1>6
    <3>6. ASSUME NEW i \in 1..(full - rLen')
          PROVE  SubSeq(before, rLen' + 1, Len(before))[i] = before[i + rLen']
      <4>1. SubSeq(before, rLen' + 1, Len(before))[i] = before[rLen' + 1 + i - 1]
        BY <3>2, <3>3
      <4> QED
        BY <3>4, <4>1
    <3> QED
      BY <3>3, <3>5, <3>6
  <2>3. ASSUME NEW i \in 1..(full - rLen')
        PROVE  mStorage[Index(readCounter + rLen' + i - 1)] = before[i + rLen']
    <3>1. i + rLen' \in 1..full /\ readCounter + rLen' + i - 1 = readCounter + (i + rLen') - 1
      BY <1>3, <1>6
    <3> QED
      BY <1>4, <3>1
  <2>4. /\ after \in Seq(Sample) /\ Len(after) = full - rLen'
        /\ \A i \in 1..(full - rLen') : after[i] = before[i + rLen']
    <3>1. \A i \in 1..(full - rLen') : before[i + rLen'] \in Sample
      BY <1>3, <1>4, <1>6
    <3>2. after = [i \in 1..(full - rLen') |-> before[i + rLen']]
      BY <2>1, <2>3
    <3> HIDE DEF after
    <3>3. full - rLen' \in Nat
      BY <1>3, <1>6
    <3>4. after \in [1..(full - rLen') -> Sample]
      BY <3>1, <3>2
    <3>5. after \in Seq(Sample)
      BY <3>3, <3>4
    <3>6. Len(after) = full - rLen'
      BY <3>2, <3>3
    <3>7. \A i \in 1..(full - rLen') : after[i] = before[i + rLen']
      BY <3>2
    <3> QED
      BY <3>5, <3>6, <3>7
  <2> HIDE DEF after
  <2> QED
    BY <2>2, <2>4, SeqEqual
<1>9. Queue!Take(n)
  BY <1>1, <1>2, <1>6, <1>7, <1>8 DEF Queue!Take, before, after, taken, bar, Index
<1>10. n \in {g * 2 : g \in WriteFrames \cup ReadFrames}
  BY DEF n
<1> QED
  BY <1>9, <1>10 DEF Queue!Next

\* One sample of the copy to the callback is not seen from outside.
LEMMA FetchStep ==
  ASSUME QueueInv, ReadCopy
  PROVE  UNCHANGED Queue!qvars
<1>1. /\ reading /\ reading' = reading
      /\ UNCHANGED <<sent, writeCounter, wFirst, wLen, writing, readCounter, rAsked, rLen,
                    mStorage>>
  BY DEF ReadCopy, wvars
<1> QED
  BY <1>1 DEF Queue!qvars, Stored, Index

\* A read that ends gives the room back; the block is the one that was taken.
LEMMA GiveBackStep ==
  ASSUME QueueInv, ReadEnd
  PROVE  Queue!Next
<1> DEFINE pad == [i \in 1..(rAsked - rLen) |-> Silence]
           bar == [i \in 1..rAsked |-> IF i <= rLen THEN mStorage[Index(readCounter + i - 1)]
                                       ELSE Silence]
<1>1. /\ reading /\ Len(out) = rLen /\ readCounter' = readCounter + rLen /\ ~reading'
      /\ out' = out \o pad
      /\ UNCHANGED <<sent, writeCounter, wFirst, wLen, writing, rAsked, rLen, mStorage>>
  BY DEF ReadEnd, wvars
<1>2. /\ rLen \in Nat /\ rAsked \in Nat /\ rLen <= rAsked /\ readCounter \in Nat
      /\ writeCounter \in Nat /\ out \in Seq(Sample)
  <2>1. rAsked \in Nat /\ rLen \in 0..rAsked /\ out \in Seq(Sample)
    BY RingNumbers DEF QueueInv
  <2> QED
    BY <2>1, RingIntegers DEF QueueInv
<1>3. UNCHANGED Stored(taken)
  <2>1. /\ writeCounter - (readCounter + rLen) - 0 = writeCounter - readCounter - rLen
        /\ \A i \in 1..(writeCounter - readCounter - rLen) :
             readCounter + rLen + 0 + i - 1 = readCounter + rLen + i - 1
    BY <1>2
  <2>2. Stored(taken)' = [i \in 1..(writeCounter - (readCounter + rLen) - 0) |->
                            mStorage[Index(readCounter + rLen + 0 + i - 1)]]
    BY <1>1 DEF Stored, taken, Index
  <2>3. Stored(taken) = [i \in 1..(writeCounter - readCounter - rLen) |->
                           mStorage[Index(readCounter + rLen + i - 1)]]
    BY <1>1 DEF Stored, taken
  <2> QED
    BY <2>1, <2>2, <2>3
<1>4. pad \in Seq(Sample) /\ Len(pad) = rAsked - rLen
      /\ \A i \in 1..(rAsked - rLen) : pad[i] = Silence
  <2>1. pad \in [1..(rAsked - rLen) -> Sample] /\ rAsked - rLen \in Nat
    BY <1>2 DEF Sample
  <2>2. \A i \in 1..(rAsked - rLen) : pad[i] = Silence
    OBVIOUS
  <2> HIDE DEF pad
  <2> QED
    BY <2>1, <2>2
<1>5. ASSUME NEW i \in 1..rAsked PROVE bar[i] = IF i <= rLen THEN out[i] ELSE Silence
  <2>1. CASE i <= rLen
    <3>1. i \in 1..Len(out)
      BY <1>1, <1>2, <2>1
    <3> QED
      BY <1>1, <2>1, <3>1 DEF QueueInv, ReadCopied
  <2>2. CASE ~(i <= rLen)
    BY <2>2
  <2> QED
    BY <2>1, <2>2
<1>6. bar \in Seq(Sample) /\ Len(bar) = rAsked
  <2>1. ASSUME NEW i \in 1..rAsked PROVE bar[i] \in Sample
    <3>1. CASE i <= rLen
      <4>1. i \in 1..Len(out)
        BY <1>1, <1>2, <3>1
      <4>2. out[i] \in Sample
        BY <1>2, <4>1
      <4> QED
        BY <1>5, <3>1, <4>2
    <3>2. CASE ~(i <= rLen)
      BY <1>5, <3>2 DEF Sample
    <3> QED
      BY <3>1, <3>2
  <2>2. bar \in [1..rAsked -> Sample]
    BY <2>1
  <2> HIDE DEF bar
  <2> QED
    BY <1>2, <2>2
<1> HIDE DEF pad, bar
<1>7. out \o pad \in Seq(Sample) /\ Len(out \o pad) = rAsked
  <2>1. /\ out \o pad \in Seq(Sample) /\ Len(out \o pad) = Len(out) + Len(pad)
    BY <1>2, <1>4, ConcatProperties
  <2> QED
    BY <1>1, <1>2, <1>4, <2>1
<1>8. ASSUME NEW i \in 1..rAsked PROVE (out \o pad)[i] = bar[i]
  <2>1. CASE i <= rLen
    <3>1. (out \o pad)[i] = out[i]
      BY <1>1, <1>2, <1>4, <2>1
    <3> QED
      BY <1>5, <2>1, <3>1
  <2>2. CASE ~(i <= rLen)
    <3>1. i - rLen \in 1..(rAsked - rLen) /\ i > Len(out)
      BY <1>1, <1>2, <2>2
    <3>2. (out \o pad)[i] = pad[i - rLen]
      BY <1>1, <1>2, <1>4, <3>1
    <3> QED
      BY <1>4, <1>5, <2>2, <3>1, <3>2
  <2> QED
    BY <2>1, <2>2
<1>9. out' = bar
  BY <1>1, <1>6, <1>7, <1>8, SeqEqual
<1>10. Queue!GiveBack
  BY <1>1, <1>3, <1>9 DEF Queue!GiveBack, bar, taken
<1> QED
  BY <1>10 DEF Queue!Next

LEMMA QueueInvariance == Spec => []QueueInv
<1>1. Init => WriteCopied /\ ReadCopied
  BY DEF Init, WriteCopied, ReadCopied
<1> QED
  BY <1>1, CopiedKept, FifoInvariance, PTL DEF Spec, QueueInv

\* The ring with its two unlocked counters implements the queue: whatever the
\* threads do between two samples, a read begins as one that takes the oldest
\* samples in order and a write ends as one that appends its block whole.
THEOREM RefinesQueue == Spec => ImplementsQueue
<1>1. Init => Queue!Init
  <2> SUFFICES ASSUME Init PROVE Queue!Init
    OBVIOUS
  <2>1. /\ writeCounter = 0 /\ readCounter = 0 /\ ~writing /\ ~reading /\ sent = 0 /\ out = <<>>
    BY DEF Init
  <2>2. Stored(0) = <<>>
    BY <2>1 DEF Stored
  <2> QED
    BY <2>1, <2>2 DEF Queue!Init
<1>2. QueueInv /\ [Next]_vars => [Queue!Next]_Queue!qvars
  <2> SUFFICES ASSUME QueueInv, [Next]_vars
               PROVE  Queue!Next \/ UNCHANGED Queue!qvars
    OBVIOUS
  <2>1. CASE UNCHANGED vars
    BY <2>1 DEF vars, wvars, rvars, Queue!qvars, Stored, Index
  <2> QED
    BY <2>1, OfferStep, CopyStep, CommitStep, TakeStep, FetchStep, GiveBackStep DEF Next
<1> QED
  BY <1>1, <1>2, QueueInvariance, PTL DEF Spec, ImplementsQueue, Queue!Spec
=============================================================================
