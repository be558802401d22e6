--------------------------- MODULE MCRetroSession ---------------------------
(***************************************************************************)
(* RetroSession for TLC.  The sessions repeat without bound (a new activity *)
(* may follow a destroyed one for ever); only the key events waiting in    *)
(* the GL queue are bounded.                                               *)
(***************************************************************************)
EXTENDS RetroSession

=============================================================================
