--------------------------- MODULE MCHomeControl ---------------------------
(***************************************************************************)
(* One bulb, saved by an earlier run, and the phones: the board's README   *)
(* assumes one device of each kind.                                        *)
(***************************************************************************)
EXTENDS HomeControl

CONSTANTS m1, m2, b1, none
=============================================================================
