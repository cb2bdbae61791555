---------------------------- MODULE MCDBCommands ----------------------------
(* A channel of two places between a corpus of three codes and two workers.  *)
EXTENDS DBCommands

CONSTANTS r1, r2
=============================================================================
