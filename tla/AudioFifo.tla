------------------------------ MODULE AudioFifo ------------------------------
(***************************************************************************)
(* The samples of the game on their way to the speaker: Audio::write on    *)
(* the GL thread, Audio::onAudioReady on oboe's callback thread, and the   *)
(* ring of oboe::FifoBuffer between them, with no lock but two counters.   *)
(*                                                                         *)
(* A sample is a 16-bit value of one channel, left and right alternating;  *)
(* it is represented by its number, whose parity is its channel.  A copy   *)
(* is made one sample at a time, and each thread may do anything between   *)
(* two samples of the other.                                               *)
(***************************************************************************)
EXTENDS Integers, Sequences

CONSTANTS
  BufferSize,         \* computeAudioBufferSize before it is rounded
  WriteFrames,        \* stereo frames the core hands over in one call
  ReadFrames,         \* stereo frames the callback asks for
  Silence,            \* the zero that fills an underrun
  MaxSent             \* bound on the samples made

ASSUME FifoAssumption ==
  /\ BufferSize \in Nat /\ BufferSize >= 2
  /\ WriteFrames \subseteq Nat \ {0} /\ ReadFrames \subseteq Nat \ {0}
  /\ Silence \notin Nat
  /\ MaxSent \in Nat

\* A size that is not rounded: a fault to compare with.
NotRounded(x) == x

\* The left channel must not become the right one.
roundToEven(x) == (x \div 2) * 2

Capacity == roundToEven(BufferSize)

VARIABLES
  sent,               \* samples made by the game
  writeCounter, readCounter,
  mStorage,
  wFirst, wLen, wDone,   \* the write in progress: first sample, length, copied
  writing,
  rAsked, rLen,          \* the read in progress: asked for, to be copied
  out,                   \* the block the callback is filling
  reading

wvars == <<sent, writeCounter, wFirst, wLen, wDone, writing>>
rvars == <<readCounter, rAsked, rLen, out, reading>>
vars  == <<wvars, rvars, mStorage>>

Least(a, b) == IF a < b THEN a ELSE b

\* FifoControllerBase: the counters only grow, an index is a remainder.
getFullFramesAvailable == Least(writeCounter - readCounter, Capacity)
getEmptyFramesAvailable == Capacity - getFullFramesAvailable
Index(counter) == counter % Capacity

TypeOK ==
  /\ sent \in Nat /\ writeCounter \in Nat /\ readCounter \in Nat
  /\ writeCounter - readCounter \in 0..Capacity
  /\ mStorage \in [0..(Capacity - 1) -> Nat \cup {Silence}]
  /\ wFirst \in Nat /\ wLen \in Nat /\ wDone \in 0..wLen
  /\ rAsked \in Nat /\ rLen \in 0..rAsked
  /\ out \in Seq(Nat \cup {Silence})
  /\ writing \in BOOLEAN /\ reading \in BOOLEAN

Init ==
  /\ sent = 0 /\ writeCounter = 0 /\ readCounter = 0
  /\ mStorage = [i \in 0..(Capacity - 1) |-> Silence]
  /\ wFirst = 0 /\ wLen = 0 /\ wDone = 0 /\ writing = FALSE
  /\ rAsked = 0 /\ rLen = 0 /\ out = <<>> /\ reading = FALSE

-----------------------------------------------------------------------------
(* Variants of the actions below with one fault each.                      *)

\* A copy that stops where the ring wraps round.
EndAtWrap ==
  /\ writing
  /\ wDone = wLen \/ (wDone > 0 /\ Index(writeCounter + wDone) = 0)
  /\ writeCounter' = writeCounter + wLen /\ writing' = FALSE
  /\ UNCHANGED <<sent, wFirst, wLen, wDone, rvars, mStorage>>

\* A read that advances by what was asked for.
AdvanceByAsked ==
  /\ reading /\ Len(out) = rLen
  /\ readCounter' = readCounter + rAsked /\ reading' = FALSE
  /\ out' = out \o [i \in 1..(rAsked - rLen) |-> Silence]
  /\ UNCHANGED <<rAsked, rLen, wvars, mStorage>>

\* A write that overwrites the oldest samples when there is no room.
OverwriteWhenFull(n) ==
  /\ ~writing /\ sent + n <= MaxSent
  /\ writing' = TRUE /\ wFirst' = sent /\ sent' = sent + n
  /\ wLen' = Least(n, Capacity) /\ wDone' = 0
  /\ UNCHANGED <<writeCounter, rvars, mStorage>>

-----------------------------------------------------------------------------
(* The GL thread: Audio::write, FifoBuffer::write.                         *)

\* The numbers are read and the length is settled; what does not fit is lost.
WriteBegin(n) ==
  /\ ~writing /\ sent + n <= MaxSent
  /\ writing' = TRUE /\ wFirst' = sent /\ sent' = sent + n
  /\ wLen' = Least(n, getEmptyFramesAvailable) /\ wDone' = 0
  /\ UNCHANGED <<writeCounter, rvars, mStorage>>

\* One sample of the memcpy, in one part or two.
WriteCopy ==
  /\ writing /\ wDone < wLen
  /\ mStorage' = [mStorage EXCEPT ![Index(writeCounter + wDone)] = wFirst + wDone]
  /\ wDone' = wDone + 1
  /\ UNCHANGED <<sent, writeCounter, wFirst, wLen, writing, rvars>>

\* advanceWriteIndex makes the samples visible to the reader.
WriteEnd ==
  /\ writing /\ wDone = wLen
  /\ writeCounter' = writeCounter + wLen /\ writing' = FALSE
  /\ UNCHANGED <<sent, wFirst, wLen, wDone, rvars, mStorage>>

-----------------------------------------------------------------------------
(* The callback thread: Audio::onAudioReady, FifoBuffer::readNow.          *)

ReadBegin(n) ==
  /\ ~reading
  /\ reading' = TRUE /\ rAsked' = n /\ out' = <<>>
  /\ rLen' = Least(n, getFullFramesAvailable)
  /\ UNCHANGED <<readCounter, wvars, mStorage>>

ReadCopy ==
  /\ reading /\ Len(out) < rLen
  /\ out' = Append(out, mStorage[Index(readCounter + Len(out))])
  /\ UNCHANGED <<readCounter, rAsked, rLen, reading, wvars, mStorage>>

\* advanceReadIndex gives the room back, and zeros fill the rest of the block.
ReadEnd ==
  /\ reading /\ Len(out) = rLen
  /\ readCounter' = readCounter + rLen /\ reading' = FALSE
  /\ out' = out \o [i \in 1..(rAsked - rLen) |-> Silence]
  /\ UNCHANGED <<rAsked, rLen, wvars, mStorage>>

Next ==
  \/ WriteCopy \/ WriteEnd \/ ReadCopy \/ ReadEnd
  \/ \E f \in WriteFrames : WriteBegin(f * 2)
  \/ \E f \in ReadFrames : ReadBegin(f * 2)

Spec == Init /\ [][Next]_vars

-----------------------------------------------------------------------------
(* Properties.                                                             *)

\* The slots that each thread is working on.
BeingWritten == IF writing THEN {Index(writeCounter + i) : i \in 0..(wLen - 1)} ELSE {}
BeingRead == IF reading THEN {Index(readCounter + i) : i \in 0..(rLen - 1)} ELSE {}

\* The two memcpy never touch the same slot, although nothing locks the ring
\* (FifoBuffer::write and ::read on two threads).
NoOverlap == BeingWritten \cap BeingRead = {}

\* A sample keeps its channel: blocks, drops and underruns never shift left
\* and right (the rounding of the buffer size, the doubled frame counts).
ChannelsAligned ==
  \A i \in DOMAIN out : out[i] # Silence => out[i] % 2 = (i - 1) % 2

\* The samples in the ring, the first of them skip positions after the reader.
Stored(skip) ==
  [i \in 1..(writeCounter - readCounter - skip) |->
     mStorage[Index(readCounter + skip + i - 1)]]

\* The ring implements the queue it stands for: samples come out once, in
\* order, undamaged, and none is lost for want of room that there was.
Queue == INSTANCE BoundedQueue WITH
  Blocks  <- {f * 2 : f \in WriteFrames \cup ReadFrames},
  sent    <- sent,
  offered <- IF writing THEN [i \in 1..wLen |-> wFirst + i - 1] ELSE <<>>,
  queue   <- Stored(IF reading THEN rLen ELSE 0),
  held    <- IF reading THEN rLen ELSE 0,
  heard   <- IF reading
             THEN [i \in 1..rAsked |->
                     IF i <= rLen THEN mStorage[Index(readCounter + i - 1)]
                     ELSE Silence]
             ELSE out

ImplementsQueue == Queue!Spec
=============================================================================
