------------------------------ MODULE LinkView ------------------------------
(***************************************************************************)
(* What the link book-keeping promises the rest of the board, without its  *)
(* list, counter, slots and keys: which links are up, which devices have a *)
(* usable connection, which phones have an encrypted link, and which bulb  *)
(* is the current one.  DeviceLinks implements this specification and      *)
(* HomeControl is built on it.                                             *)
(***************************************************************************)
EXTENDS FiniteSets

CONSTANTS Mobiles, Bulbs, NullAddr

Peers == Mobiles \union Bulbs

VARIABLES
    phase,       \* phase[p]: down, gap, up, gapDown or gattDown
    connected,   \* peers whose entry has a connection
    encrypted,   \* phones whose entry says their link is encrypted
    current,     \* the bulb connected last, while it is connected
    discovery    \* bulbs whose services are being discovered

viewVars == <<phase, connected, encrypted, current, discovery>>

Phases == {"down", "gap", "up", "gapDown", "gattDown"}

ViewTypeOK ==
    /\ phase \in [Peers -> Phases]
    /\ connected \subseteq Peers
    /\ encrypted \subseteq Mobiles
    /\ current \in Bulbs \union {NullAddr}
    /\ discovery \subseteq Bulbs

ViewInit ==
    /\ phase = [p \in Peers |-> "down"]
    /\ connected = {}
    /\ encrypted = {}
    /\ current = NullAddr
    /\ discovery = {}

(* GAP, then GATT, report a connection; one connection at a time is half   *)
(* reported.  GATT may fail to make the connection usable.                 *)
GapUp(p) ==
    /\ phase[p] = "down"
    /\ \A q \in Peers : phase[q] # "gap"
    /\ phase' = [phase EXCEPT ![p] = "gap"]
    /\ current' = IF p \in Bulbs THEN p ELSE current
    /\ UNCHANGED <<connected, encrypted, discovery>>

GattUp(p) ==
    /\ phase[p] = "gap"
    /\ phase' = [phase EXCEPT ![p] = "up"]
    /\ connected' \in {connected, connected \union {p}}
    /\ UNCHANGED <<encrypted, current, discovery>>

(* GAP and GATT report a loss in either order.  Whichever comes last, the  *)
(* link is no longer encrypted and has no connection.                      *)
GapDown(p) ==
    /\ phase[p] \in {"up", "gattDown"}
    /\ phase' = [phase EXCEPT ![p] = IF @ = "up" THEN "gapDown" ELSE "down"]
    /\ encrypted' = encrypted \ {p}
    /\ current' = IF p \in Bulbs THEN NullAddr ELSE current
    /\ discovery' = discovery \ {p}
    /\ UNCHANGED connected

GattDown(p) ==
    /\ phase[p] \in {"up", "gapDown"}
    /\ phase' = [phase EXCEPT ![p] = IF @ = "up" THEN "gattDown" ELSE "down"]
    /\ connected' = connected \ {p}
    /\ encrypted' \in {encrypted, encrypted \ {p}}
    /\ discovery' = discovery \ {p}
    /\ UNCHANGED current

Encrypt(m) ==
    /\ phase[m] = "up"
    /\ encrypted' = encrypted \union {m}
    /\ UNCHANGED <<phase, connected, current, discovery>>

StartDiscovery(b) ==
    /\ phase[b] = "up"
    /\ b \in connected
    /\ discovery' = discovery \union {b}
    /\ UNCHANGED <<phase, connected, encrypted, current>>

EndDiscovery(b) ==
    /\ discovery' = discovery \ {b}
    /\ UNCHANGED <<phase, connected, encrypted, current>>

ViewNext ==
    \/ \E p \in Peers : GapUp(p) \/ GattUp(p) \/ GapDown(p) \/ GattDown(p)
    \/ \E m \in Mobiles : Encrypt(m)
    \/ \E b \in Bulbs : StartDiscovery(b) \/ EndDiscovery(b)

ViewSpec == ViewInit /\ [][ViewNext]_viewVars
=============================================================================
