---------------------------- MODULE CoreContract ----------------------------
(***************************************************************************)
(* What a libretro core may expect of the program that plays it (the notes *)
(* of libretro.h and the single thread that a core is written for): it is  *)
(* called from one place at a time, a game is loaded once into a core that *)
(* has none, its timing and geometry are asked for only when it is loaded, *)
(* frames run only then, and a core is closed between two calls.           *)
(*                                                                         *)
(* A core of an earlier session that was never closed is dropped when the  *)
(* next one is opened.  The program asks for states and resets as soon as  *)
(* a core is open, and unloads a game also from a core that has none: a    *)
(* core has to bear that.                                                  *)
(***************************************************************************)

VARIABLES
  phase,              \* "closed", "open" without a game, or with a "game"
  calls               \* the calls into the core that are in progress

vars == <<phase, calls>>

\* The phases in which a core can take each call.
Phases == [load   |-> {"open"},
           avInfo |-> {"game"},
           run    |-> {"game"},
           state  |-> {"open", "game"},
           close  |-> {"open", "game"}]
Calls == DOMAIN Phases

Init == phase = "closed" /\ calls = {}

\* retro_init, or a core that cannot be opened.
Open ==
  /\ calls = {}
  /\ phase' \in {"open", "closed"}
  /\ UNCHANGED calls

Enter(c) ==
  /\ calls = {} /\ phase \in Phases[c]
  /\ calls' = {c}
  /\ UNCHANGED phase

\* The game is accepted, and the core is asked about it.
Accept ==
  /\ calls = {"load"}
  /\ phase' = "game" /\ calls' = {"avInfo"}

Leave(c) ==
  /\ calls = {c}
  /\ calls' = {}
  /\ phase' = IF c = "close" THEN "closed" ELSE phase

Next == Open \/ Accept \/ \E c \in Calls : Enter(c) \/ Leave(c)

Spec == Init /\ [][Next]_vars

\* One call at a time, each in a phase that allows it.
InTurn ==
  /\ phase \in {"closed", "open", "game"}
  /\ calls = {} \/ \E c \in Calls : calls = {c} /\ phase \in Phases[c]
=============================================================================
