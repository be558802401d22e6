------------------------------ MODULE MCServices ------------------------------
\* The instance that TLC runs: a code of three keys that overlaps itself, and
\* two shaders whose chains differ.
EXTENDS Services

MCKonamiSequence == <<"up", "down", "up">>

=============================================================================
