---------------------------- MODULE MCBoardStart ----------------------------
(***************************************************************************)
(* The firmware's threads and groups as they are; a piece is two bytes, so *)
(* that the UART may interrupt within it.                                  *)
(***************************************************************************)
EXTENDS BoardStart

CONSTANTS none, root, null
=============================================================================
