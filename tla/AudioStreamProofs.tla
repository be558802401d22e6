-------------------------- MODULE AudioStreamProofs --------------------------
(***************************************************************************)
(* Proofs about AudioStream, for any number of reconnections.  The         *)
(* invariant says which stream the members belong to at each point of the  *)
(* error thread, that a paused activity that was not overtaken has left no *)
(* request to start behind, and that a resumed one always has somebody who *)
(* is still going to start a stopped stream.                               *)
(***************************************************************************)
EXTENDS AudioStream, TLAPS

\* What the error thread knows of the stream.
ErrorKnows ==
  /\ error = "open" => stream = "lost"
  /\ error = "noTuner" => stream = "null"
  /\ error \in {"newFifo", "newTuner"} => stream \in {"stopped", "playing"}

\* Whose the members are.
Ownership ==
  /\ stream # "null" => streams > 0
  /\ error = "newFifo" => fifoBuffer = streams - 1 /\ streams > 1
  /\ error # "newFifo" => fifoBuffer = streams
  /\ error \notin {"newFifo", "newTuner"} => latencyTuner \in {0, streams}
  /\ stream \in {"stopped", "playing"} /\ error \notin {"newFifo", "newTuner"} =>
       fifoBuffer = streams /\ latencyTuner = streams

\* What a pause leaves behind.
PauseLeaves ==
  /\ main = "requestStart" => resumed
  /\ ~resumed /\ ~overtaken =>
       /\ ~startRequested /\ error \notin {"request", "start"}
       /\ stream = "playing" => main = "requestStop"

\* What a resume leaves behind.
ResumeLeaves ==
  /\ main = "requestStop" => ~resumed
  /\ resumed => startRequested
  /\ resumed /\ stream = "stopped" =>
       \/ main = "requestStart"
       \/ error \in {"newFifo", "newTuner", "test", "request", "start"}

IInv ==
  /\ TypeOK /\ ErrorKnows /\ WriterHasRing /\ Ownership
  /\ PauseLeaves /\ ResumeLeaves

LEMMA InitIInv == Init => IInv
<1> SUFFICES ASSUME Init PROVE IInv
  OBVIOUS
<1>1. TypeOK
  <2>1. streams \in {0, 1} /\ fifoBuffer = streams /\ latencyTuner = streams
    BY DEF Init
  <2>2. /\ streams \in Nat /\ fifoBuffer \in Nat /\ latencyTuner \in Nat
        /\ fifoBuffer \in {streams - 1, streams}
        /\ latencyTuner \in {0, streams - 1, streams}
    BY <2>1
  <2>. QED
    BY <2>2 DEF Init, TypeOK
<1>2. ErrorKnows /\ WriterHasRing /\ Ownership /\ PauseLeaves /\ ResumeLeaves
  BY DEF Init, ErrorKnows, WriterHasRing, Ownership, PauseLeaves, ResumeLeaves
<1>. QED
  BY <1>1, <1>2 DEF IInv

LEMMA IInvStep == IInv /\ [Next]_vars => IInv'
<1> SUFFICES ASSUME IInv, [Next]_vars PROVE IInv'
  OBVIOUS
<1> USE DEF IInv, TypeOK, ErrorKnows, WriterHasRing, Ownership, PauseLeaves,
             ResumeLeaves, buffers
<1>1. CASE Start
  BY <1>1 DEF Start
<1>2. CASE StartStream
  BY <1>2 DEF StartStream, Started
<1>3. CASE Stop
  BY <1>3 DEF Stop
<1>4. CASE StopStream
  BY <1>4 DEF StopStream, Stopped
<1>5. CASE Disconnected
  BY <1>5 DEF Disconnected
<1>6. CASE OpenSucceeds
  BY <1>6 DEF OpenSucceeds
<1>7. CASE NewFifo
  BY <1>7 DEF NewFifo
<1>8. CASE NewTuner
  BY <1>8 DEF NewTuner
<1>9. CASE OpenFails
  BY <1>9 DEF OpenFails
<1>10. CASE NoTuner
  BY <1>10 DEF NoTuner
<1>11. CASE TestRequested
  BY <1>11 DEF TestRequested
<1>12. CASE RequestAgain
  BY <1>12 DEF RequestAgain
<1>13. CASE StartAgain
  BY <1>13 DEF StartAgain, Started
<1>14. CASE UNCHANGED vars
  BY <1>14 DEF vars
<1>. QED
  BY <1>1, <1>2, <1>3, <1>4, <1>5, <1>6, <1>7, <1>8, <1>9, <1>10, <1>11, <1>12,
     <1>13, <1>14 DEF Next, Main, Reconnect

LEMMA IInvAlways == Spec => []IInv
BY InitIInv, IInvStep, PTL DEF Spec

\* Every variable keeps its type.
THEOREM TypeCorrect == Spec => []TypeOK
BY IInvAlways, PTL DEF IInv

\* Once a stream has been opened the writer always has a ring.
THEOREM RingForTheWriter == Spec => []WriterHasRing
BY IInvAlways, PTL DEF IInv

\* The callback has the ring and the tuner of its own stream.
THEOREM OwnBuffers == Spec => []CallbackHasItsOwn
<1>1. IInv => CallbackHasItsOwn
  BY DEF IInv, Ownership, CallbackHasItsOwn
<1>. QED
  BY <1>1, IInvAlways, PTL

\* At rest the stream plays exactly if the activity is resumed, unless a pause
\* was overtaken by a reconnection.
THEOREM SoundFollows == Spec => []SoundFollowsActivity
<1>1. IInv => SoundFollowsActivity
  BY DEF IInv, TypeOK, PauseLeaves, ResumeLeaves, SoundFollowsActivity
<1>. QED
  BY <1>1, IInvAlways, PTL
=============================================================================
