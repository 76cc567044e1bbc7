--------------------------- MODULE MCDeviceStore ---------------------------
(***************************************************************************)
(* One phone and one bulb, or two phones and one bulb, and a heap with     *)
(* room for the lists and for entries that were unlinked and leaked.       *)
(***************************************************************************)
EXTENDS DeviceStore

CONSTANTS m1, m2, b1, none
=============================================================================
