---------------------------- MODULE BoundedQueue ----------------------------
(***************************************************************************)
(* What the sample queue between the game and the speaker promises.  A     *)
(* writer offers a block and commits what there was room for; a reader     *)
(* takes what there is and gives the room back when it has used it.        *)
(* Samples are numbered in the order in which the game made them: they are *)
(* heard in that order, each at most once, those that find no room never,  *)
(* and silence fills a block only when the queue is empty.                 *)
(***************************************************************************)
EXTENDS Integers, Sequences

CONSTANTS
  Capacity,           \* samples the queue can hold
  Blocks,             \* lengths of the blocks that are offered and asked for
  Silence             \* not a sample

VARIABLES
  sent,               \* samples the game has made
  offered,            \* accepted from the writer, not committed yet
  queue,              \* committed, not taken yet
  held,               \* number of samples taken, their room not given back
  heard               \* the block that the reader took last

qvars == <<sent, offered, queue, held, heard>>

Lesser(a, b) == IF a < b THEN a ELSE b

Init ==
  /\ sent = 0 /\ offered = <<>> /\ queue = <<>> /\ held = 0 /\ heard = <<>>

Offer(n) ==
  /\ offered = <<>>
  /\ LET room == Lesser(n, Capacity - Len(queue) - held)
     IN  offered' = [i \in 1..room |-> sent + i - 1]
  /\ sent' = sent + n
  /\ UNCHANGED <<queue, held, heard>>

Commit ==
  /\ queue' = queue \o offered /\ offered' = <<>>
  /\ UNCHANGED <<sent, held, heard>>

Take(n) ==
  /\ held = 0
  /\ held' = Lesser(n, Len(queue))
  /\ heard' = [i \in 1..n |-> IF i <= held' THEN queue[i] ELSE Silence]
  /\ queue' = SubSeq(queue, held' + 1, Len(queue))
  /\ UNCHANGED <<sent, offered>>

GiveBack ==
  /\ held' = 0
  /\ UNCHANGED <<sent, offered, queue, heard>>

Next ==
  \/ Commit \/ GiveBack
  \/ \E n \in Blocks : Offer(n) \/ Take(n)

Spec == Init /\ [][Next]_qvars
=============================================================================
