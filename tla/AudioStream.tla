----------------------------- MODULE AudioStream -----------------------------
(***************************************************************************)
(* The output stream of class Audio, without a lock between three threads: *)
(* the main thread starts and stops it with the activity, oboe's error     *)
(* thread replaces it after a disconnection (a headset unplugged), and     *)
(* the sound callback runs while it plays.  A step is one access to a      *)
(* member that two threads share.                                          *)
(*                                                                         *)
(* Streams are numbered; a FIFO or a latency tuner bears the number of the *)
(* stream it was made for, and 0 is a null pointer.  The samples are the   *)
(* matter of AudioFifo.  One error thread is at work at a time.            *)
(***************************************************************************)
EXTENDS Integers

CONSTANT MaxStreams      \* bound on the streams opened

ASSUME StreamAssumption == MaxStreams \in Nat

VARIABLES
  stream,             \* what the member stream refers to
  streams,            \* the number of streams opened so far
  fifoBuffer, latencyTuner,
  startRequested,
  main,               \* what the main thread is about to do
  error,              \* what the error thread is about to do
  resumed,            \* the activity wants sound
  overtaken           \* history: a stop() fell between the error thread's
                      \* test of startRequested and its start of the stream

buffers == <<fifoBuffer, latencyTuner>>
vars == <<stream, streams, buffers, startRequested, main, error, resumed, overtaken>>

\* No member is ever more than one stream behind, and a tuner may be gone.
TypeOK ==
  /\ stream \in {"null", "stopped", "playing", "lost"}
  /\ streams \in Nat /\ fifoBuffer \in Nat /\ latencyTuner \in Nat
  /\ fifoBuffer \in {streams - 1, streams}
  /\ latencyTuner \in {0, streams - 1, streams}
  /\ startRequested \in BOOLEAN /\ resumed \in BOOLEAN /\ overtaken \in BOOLEAN
  /\ main \in {"idle", "requestStart", "requestStop"}
  /\ error \in {"idle", "open", "newFifo", "newTuner", "noTuner", "test",
                "request", "start"}

-----------------------------------------------------------------------------
(* Variants of the definitions below with one fault each.                  *)

\* A failed opening that clears everything it had.
OpenFailsClean ==
  /\ error = "open"
  /\ stream' = "null" /\ fifoBuffer' = 0 /\ error' = "noTuner"
  /\ UNCHANGED <<streams, latencyTuner, startRequested, main, resumed, overtaken>>

\* A reconnection that always starts.
TestNothing ==
  /\ error = "test"
  /\ error' = "request"
  /\ UNCHANGED <<stream, streams, buffers, startRequested, main, resumed, overtaken>>

\* The tuner made only once.
KeepTuner ==
  /\ error = "newTuner" /\ error' = "test"
  /\ UNCHANGED <<stream, streams, buffers, startRequested, main, resumed, overtaken>>

\* A reconnection that leaves the start to the next resume.
StopThere ==
  /\ error = "request"
  /\ startRequested' = TRUE /\ error' = "idle"
  /\ UNCHANGED <<stream, streams, buffers, main, resumed, overtaken>>

\* The ring of the first stream kept for all that follow.
KeepFifo ==
  /\ error = "newFifo" /\ error' = "newTuner"
  /\ UNCHANGED <<stream, streams, buffers, startRequested, main, resumed, overtaken>>

-----------------------------------------------------------------------------
\* The constructor: the first stream is opened, or there is none at all.
Init ==
  /\ \/ stream = "stopped" /\ streams = 1 /\ fifoBuffer = 1 /\ latencyTuner = 1
     \/ stream = "null" /\ streams = 0 /\ fifoBuffer = 0 /\ latencyTuner = 0
  /\ startRequested = FALSE /\ resumed = FALSE /\ overtaken = FALSE
  /\ main = "idle" /\ error = "idle"

\* requestStart and requestStop do nothing to a stream that is gone.
Started == IF stream = "stopped" THEN "playing" ELSE stream
Stopped == IF stream = "playing" THEN "stopped" ELSE stream

-----------------------------------------------------------------------------
(* The main thread: LibretroDroid::resume and pause.                       *)

Start ==
  /\ main = "idle" /\ ~resumed
  /\ resumed' = TRUE /\ startRequested' = TRUE /\ main' = "requestStart"
  /\ overtaken' = FALSE
  /\ UNCHANGED <<stream, streams, buffers, error>>

StartStream ==
  /\ main = "requestStart" /\ main' = "idle"
  /\ stream' = Started
  /\ UNCHANGED <<streams, buffers, startRequested, error, resumed, overtaken>>

Stop ==
  /\ main = "idle" /\ resumed
  /\ resumed' = FALSE /\ startRequested' = FALSE /\ main' = "requestStop"
  /\ \/ error \in {"request", "start"} /\ overtaken' = TRUE
     \/ error \notin {"request", "start"} /\ overtaken' = FALSE
  /\ UNCHANGED <<stream, streams, buffers, error>>

StopStream ==
  /\ main = "requestStop" /\ main' = "idle"
  /\ stream' = Stopped
  /\ UNCHANGED <<streams, buffers, startRequested, error, resumed, overtaken>>

Main == Start \/ StartStream \/ Stop \/ StopStream

-----------------------------------------------------------------------------
(* The device, and onErrorAfterClose with initializeStream.                *)

\* The stream is closed under the program; other errors are only logged.
Disconnected ==
  /\ error = "idle" /\ stream \in {"stopped", "playing"}
  /\ stream' = "lost" /\ error' \in {"open", "idle"}
  /\ UNCHANGED <<streams, buffers, startRequested, main, resumed, overtaken>>

\* openManagedStream puts the new stream in place of the old one.
OpenSucceeds ==
  /\ error = "open" /\ streams < MaxStreams
  /\ stream' = "stopped" /\ streams' = streams + 1 /\ error' = "newFifo"
  /\ UNCHANGED <<buffers, startRequested, main, resumed, overtaken>>

NewFifo ==
  /\ error = "newFifo"
  /\ fifoBuffer' = streams /\ error' = "newTuner"
  /\ UNCHANGED <<stream, streams, latencyTuner, startRequested, main, resumed, overtaken>>

NewTuner ==
  /\ error = "newTuner"
  /\ latencyTuner' = streams /\ error' = "test"
  /\ UNCHANGED <<stream, streams, fifoBuffer, startRequested, main, resumed, overtaken>>

OpenFails ==
  /\ error = "open"
  /\ stream' = "null" /\ error' = "noTuner"
  /\ UNCHANGED <<streams, buffers, startRequested, main, resumed, overtaken>>

NoTuner ==
  /\ error = "noTuner"
  /\ latencyTuner' = 0 /\ error' = "test"
  /\ UNCHANGED <<stream, streams, fifoBuffer, startRequested, main, resumed, overtaken>>

TestRequested ==
  /\ error = "test"
  /\ error' = IF startRequested THEN "request" ELSE "idle"
  /\ UNCHANGED <<stream, streams, buffers, startRequested, main, resumed, overtaken>>

\* start() again, from the error thread: it sets startRequested itself.
RequestAgain ==
  /\ error = "request"
  /\ startRequested' = TRUE /\ error' = "start"
  /\ UNCHANGED <<stream, streams, buffers, main, resumed, overtaken>>

StartAgain ==
  /\ error = "start" /\ error' = "idle"
  /\ stream' = Started
  /\ UNCHANGED <<streams, buffers, startRequested, main, resumed, overtaken>>

Reconnect ==
  \/ OpenSucceeds \/ NewFifo \/ NewTuner \/ OpenFails \/ NoTuner
  \/ TestRequested \/ RequestAgain \/ StartAgain

Next == Main \/ Disconnected \/ Reconnect

\* Oboe's error thread runs to its end.
Spec == Init /\ [][Next]_vars /\ WF_vars(Reconnect)

-----------------------------------------------------------------------------
(* Properties.                                                             *)

\* The GL thread writes without a test: once a stream has been opened there is
\* always a ring to write to, during and after a reconnection that fails too
\* (Audio::write against initializeStream).
WriterHasRing == streams > 0 => fifoBuffer > 0

\* The callback works with the ring and the tuner of the stream that calls it,
\* but for a stream that resume() starts before the error thread has finished
\* replacing them (Audio::onAudioReady).
CallbackHasItsOwn ==
  stream = "playing" /\ error \notin {"newFifo", "newTuner"} =>
    fifoBuffer = streams /\ latencyTuner = streams

\* Once the threads have come to rest a paused activity is silent and a resumed
\* one is heard: whatever was unplugged, in any order of the two threads, the
\* stream that is left plays exactly if resume() was called last (LibretroDroid::
\* resume and pause against onErrorAfterClose), but for a stop() that falls
\* between the test and the start of a reconnection.
SoundFollowsActivity ==
  main = "idle" /\ error = "idle" =>
    /\ stream = "playing" => resumed \/ overtaken
    /\ stream = "stopped" => ~resumed

\* After a disconnection the sound comes back, unless it is no longer wanted or
\* no device can be opened.
SoundComesBack ==
  error = "open" /\ resumed ~> stream \in {"playing", "null"} \/ ~resumed
=============================================================================
