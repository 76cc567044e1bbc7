--------------------------- MODULE MCDeviceLinks ---------------------------
(***************************************************************************)
(* Two phones, one of them saved by an earlier run of the board, and one   *)
(* bulb: the smallest system in which links of both roles and of two       *)
(* phones overlap.                                                         *)
(***************************************************************************)
EXTENDS DeviceLinks

CONSTANTS m1, m2, b1, none
=============================================================================
