---------------------------- MODULE DeviceLinks ----------------------------
(***************************************************************************)
(* The book-keeping of BLE links in                                        *)
(* src/Board-Application/src/home_automation/home_automation.c.            *)
(*                                                                         *)
(* The board is a peripheral for phones (Mobiles) and a central for the    *)
(* light (Bulbs).  The stack calls four callbacks of the application:      *)
(*   GATT_Connection_Event_Callback   for the links of both roles,         *)
(*   GAP_LE_Event_Callback            for phones,                          *)
(*   BLBD_GAP_LE_Event_Callback       for bulbs,                           *)
(*   GATT_BLBD_Service_Discovery_Event_Callback  for bulbs.                *)
(* Each callback runs to its end before the next one, so a handler is one  *)
(* action.  An address is the identity of a device: a resolvable private   *)
(* address that SearchDeviceInfoEntryByBD_ADDR resolves is the same peer.  *)
(*                                                                         *)
(* This module keeps the device list, the selected device and the two      *)
(* security slots.  What else the same handlers do (scanning, the bulb's   *)
(* state, notifications) is conjoined to these actions in HomeControl.     *)
(***************************************************************************)
EXTENDS Naturals, FiniteSets

CONSTANTS
    Mobiles,        \* addresses of phones, which connect to the board
    Bulbs,          \* addresses of bulbs, which the board connects to
    NullAddr,       \* the null BD_ADDR
    SavedMobile     \* the phone LoadPersistentData restored, or NullAddr

Peers == Mobiles \union Bulbs

ASSUME LinksAssumption ==
    /\ Mobiles \cap Bulbs = {}
    /\ NullAddr \notin Mobiles \union Bulbs
    /\ IsFiniteSet(Mobiles \union Bulbs)
    /\ SavedMobile \in Mobiles \union {NullAddr}

VARIABLES
    \* The stack (external).
    link,           \* which link events of a peer have been delivered
    procedure,      \* the security procedure running with a peer
    linkEncrypted,  \* an encryption change was reported on this link
    discovering,    \* a service discovery is running on this link
    \* The application's globals.
    DeviceInfoList, ConnectionCount, SelectedRemoteBD_ADDR,
    LocalDeviceIsMaster, RemoteAddressType,
    SecurityRemoteBD_ADDR, BLBD_SecurityRemoteBD_ADDR,
    Current_Conn_Addr,
    mayBePersisted  \* bulbs a search of PersistDeviceInfoList may find

stackVars == <<link, procedure, linkEncrypted, discovering>>
tempVars  == <<LocalDeviceIsMaster, RemoteAddressType>>
slotVars  == <<SecurityRemoteBD_ADDR, BLBD_SecurityRemoteBD_ADDR>>
linkVars  == <<stackVars, DeviceInfoList, ConnectionCount,
               SelectedRemoteBD_ADDR, tempVars, slotVars,
               Current_Conn_Addr, mayBePersisted>>

(***************************************************************************)
(* A link goes down -> gap -> up when GAP and then GATT report the         *)
(* connection.  Both also report its loss, in either order: gapDown is a   *)
(* link whose loss only GAP has reported, gattDown only GATT.              *)
(***************************************************************************)
Phases == {"down", "gap", "up", "gapDown", "gattDown"}
Procedures == {"none", "pairing", "reestablishing", "keyed"}
AddressTypes == {"UNSET", "PUBLIC", "RANDOM"}
AddressTypeOf(p) == IF p \in Bulbs THEN "PUBLIC" ELSE "RANDOM"

DeviceFlags == {"LTK_VALID", "ENCRYPTED", "SERVICE_DISCOVERY_OUTSTANDING"}
DeviceInfo ==
    [present : BOOLEAN, Flags : SUBSET DeviceFlags, Connected : BOOLEAN,
     RemoteDeviceIsMaster : BOOLEAN, RemoteAddressType : AddressTypes]

(* No entry; with present |-> TRUE, the zeroed entry of a new device.      *)
(* Connected stands for ConnectionID # 0.  device_type, which only matters *)
(* for what is persisted, is in DeviceStore.                               *)
NoEntry ==
    [present |-> FALSE, Flags |-> {}, Connected |-> FALSE,
     RemoteDeviceIsMaster |-> FALSE, RemoteAddressType |-> "UNSET"]
NewEntry == [NoEntry EXCEPT !.present = TRUE]

Known(p) == DeviceInfoList[p].present
HasFlag(p, f) == f \in DeviceInfoList[p].Flags

(* After boot the list holds the phone that was saved, with or without a   *)
(* long term key, unless it could not be loaded, and never a bulb.         *)
LinksInit ==
    /\ link = [p \in Peers |-> "down"]
    /\ procedure = [p \in Peers |-> "none"]
    /\ linkEncrypted = [p \in Peers |-> FALSE]
    /\ discovering = [p \in Peers |-> FALSE]
    /\ \E keys \in {{}, {"LTK_VALID"}}, loaded \in BOOLEAN :
         DeviceInfoList =
           [p \in Peers |->
              IF loaded /\ p = SavedMobile
              THEN [NewEntry EXCEPT !.Flags = keys,
                                    !.RemoteAddressType = AddressTypeOf(p)]
              ELSE NoEntry]
    /\ ConnectionCount = 0
    /\ SelectedRemoteBD_ADDR = NullAddr
    /\ LocalDeviceIsMaster = FALSE
    /\ RemoteAddressType = "UNSET"
    /\ SecurityRemoteBD_ADDR = NullAddr
    /\ BLBD_SecurityRemoteBD_ADDR = NullAddr
    /\ Current_Conn_Addr = NullAddr
    /\ mayBePersisted = {}

-----------------------------------------------------------------------------
(* Connection: GAP reports it first and keeps what the entry needs in two  *)
(* globals; GATT reports it next and fills the entry.                      *)

(* The stack reports the two halves of one connection back to back: no     *)
(* other connection is reported while one is half reported.                *)
ReportsConnection(p) ==
    /\ link[p] = "down"
    /\ \A q \in Peers : link[q] # "gap"
    /\ link' = [link EXCEPT ![p] = "gap"]
    /\ RemoteAddressType' = AddressTypeOf(p)

GapMobileConnected(m) ==
    /\ ReportsConnection(m)
    /\ LocalDeviceIsMaster' = FALSE
    /\ UNCHANGED <<procedure, linkEncrypted, discovering, DeviceInfoList,
                   ConnectionCount, SelectedRemoteBD_ADDR, slotVars,
                   Current_Conn_Addr, mayBePersisted>>

(* Mutant: the slot is not taken. *)
SendPairingRequestNoSlot(b) ==
    /\ UNCHANGED BLBD_SecurityRemoteBD_ADDR
    /\ procedure' = [procedure EXCEPT ![b] = "pairing"]

(* SendPairingRequest as the master: the slot is taken before the stack is *)
(* asked, and keeps its value when the stack refuses.                      *)
SendPairingRequest(b) ==
    /\ BLBD_SecurityRemoteBD_ADDR' = b
    /\ \E accepted \in BOOLEAN :
         procedure' = [procedure EXCEPT ![b] =
                         IF accepted THEN "pairing" ELSE "none"]

GapBulbConnected(b) ==
    /\ ReportsConnection(b)
    /\ LocalDeviceIsMaster' = TRUE
    /\ Current_Conn_Addr' = b
    /\ SendPairingRequest(b)
    /\ UNCHANGED <<linkEncrypted, discovering, DeviceInfoList,
                   ConnectionCount, SelectedRemoteBD_ADDR,
                   SecurityRemoteBD_ADDR, mayBePersisted>>

(* Mutant: an entry that is found keeps the role of an earlier link. *)
ConnectedEntryKeepsRole(p) ==
    IF Known(p) THEN [DeviceInfoList[p] EXCEPT !.Connected = TRUE]
    ELSE [NewEntry EXCEPT !.Connected = TRUE,
                          !.RemoteDeviceIsMaster = ~LocalDeviceIsMaster,
                          !.RemoteAddressType = RemoteAddressType]

(* The entry that is found, or a new one; creating may fail.               *)
ConnectedEntry(p) ==
    [(IF Known(p) THEN DeviceInfoList[p] ELSE NewEntry) EXCEPT
       !.Connected = TRUE,
       !.RemoteDeviceIsMaster = ~LocalDeviceIsMaster,
       !.RemoteAddressType = RemoteAddressType]

GattConnection(p) ==
    /\ link[p] = "gap"
    /\ link' = [link EXCEPT ![p] = "up"]
    /\ \/ /\ DeviceInfoList' = [DeviceInfoList EXCEPT ![p] = ConnectedEntry(p)]
          /\ ConnectionCount' = ConnectionCount + 1
          /\ SelectedRemoteBD_ADDR' = p
       \/ /\ ~Known(p)       \* no memory: the link is told to disconnect
          /\ UNCHANGED <<DeviceInfoList, ConnectionCount,
                         SelectedRemoteBD_ADDR>>
    /\ UNCHANGED <<procedure, linkEncrypted, discovering, tempVars, slotVars,
                   Current_Conn_Addr, mayBePersisted>>
-----------------------------------------------------------------------------
(* Loss of a link. *)

(* What the stack forgets with a link, at the first of the two reports.    *)
StackForgets(p) ==
    /\ procedure' = [procedure EXCEPT ![p] = "none"]
    /\ discovering' = [discovering EXCEPT ![p] = FALSE]

GapReportsLoss(p) ==
    /\ link[p] \in {"up", "gattDown"}
    /\ link' = [link EXCEPT ![p] = IF @ = "up" THEN "gapDown" ELSE "down"]
    /\ linkEncrypted' = [linkEncrypted EXCEPT ![p] = FALSE]
    /\ StackForgets(p)

GapMobileDisconnected(m) ==
    /\ GapReportsLoss(m)
    /\ DeviceInfoList' =
         [DeviceInfoList EXCEPT ![m].Flags = @ \ {"ENCRYPTED"}]
    /\ UNCHANGED <<ConnectionCount, SelectedRemoteBD_ADDR, tempVars, slotVars,
                   Current_Conn_Addr, mayBePersisted>>

(* Mutant: the current bulb outlives its link. *)
GapBulbDisconnectedKeepsCurrent(b) ==
    /\ GapReportsLoss(b)
    /\ UNCHANGED <<DeviceInfoList, ConnectionCount, SelectedRemoteBD_ADDR,
                   tempVars, slotVars, mayBePersisted, Current_Conn_Addr>>

GapBulbDisconnected(b) ==
    /\ GapReportsLoss(b)
    /\ Current_Conn_Addr' = NullAddr
    /\ UNCHANGED <<DeviceInfoList, ConnectionCount, SelectedRemoteBD_ADDR,
                   tempVars, slotVars, mayBePersisted>>

(* Mutants: a mark of discovery stays; no entry is deleted. *)
DisconnectedEntryKeepsMark(p) ==
    IF HasFlag(p, "LTK_VALID")
    THEN [DeviceInfoList[p] EXCEPT !.Connected = FALSE]
    ELSE NoEntry

DisconnectedEntryKept(p) ==
    [DeviceInfoList[p] EXCEPT
       !.Flags = @ \ {"SERVICE_DISCOVERY_OUTSTANDING"}, !.Connected = FALSE]

(* A device with a valid key keeps its entry, any other is deleted.        *)
DisconnectedEntry(p) ==
    IF HasFlag(p, "LTK_VALID")
    THEN [DeviceInfoList[p] EXCEPT
            !.Flags = @ \ {"SERVICE_DISCOVERY_OUTSTANDING"},
            !.Connected = FALSE]
    ELSE NoEntry

(* Mutants: the counter goes down although no entry is found; or whatever  *)
(* it is.                                                                  *)
ForgetConnectionUnseen(p) ==
    IF ConnectionCount # 0
    THEN /\ ConnectionCount' = ConnectionCount - 1
         /\ DeviceInfoList' = [DeviceInfoList EXCEPT ![p] = DisconnectedEntry(p)]
    ELSE UNCHANGED <<ConnectionCount, DeviceInfoList>>

ForgetConnectionAlways(p) ==
    /\ ConnectionCount' = ConnectionCount - 1
    /\ DeviceInfoList' = [DeviceInfoList EXCEPT ![p] = DisconnectedEntry(p)]

ForgetConnection(p) ==
    IF ConnectionCount # 0 /\ Known(p)
    THEN /\ ConnectionCount' = ConnectionCount - 1
         /\ DeviceInfoList' = [DeviceInfoList EXCEPT ![p] = DisconnectedEntry(p)]
    ELSE UNCHANGED <<ConnectionCount, DeviceInfoList>>

(* Mutant: the selected device is left alone. *)
SelectConnectedNever == UNCHANGED SelectedRemoteBD_ADDR

(* While links remain, the first entry of the list that has one becomes    *)
(* the selected device; which one is first is left open.                   *)
SelectConnected ==
    LET connected == {q \in Peers : DeviceInfoList'[q].Connected}
    IN  IF ConnectionCount' # 0 /\ connected # {}
        THEN SelectedRemoteBD_ADDR' \in connected
        ELSE UNCHANGED SelectedRemoteBD_ADDR

GattDisconnection(p) ==
    /\ link[p] \in {"up", "gapDown"}
    /\ link' = [link EXCEPT ![p] = IF @ = "up" THEN "gattDown" ELSE "down"]
    /\ ForgetConnection(p)
    /\ SelectConnected
    /\ StackForgets(p)
    /\ UNCHANGED <<linkEncrypted, tempVars, slotVars, Current_Conn_Addr,
                   mayBePersisted>>
-----------------------------------------------------------------------------
(* Security.  A callback takes its slot when it starts a procedure and     *)
(* refuses a second one until the slot is free.                            *)

securityOnly == <<link, ConnectionCount, SelectedRemoteBD_ADDR, tempVars,
                  Current_Conn_Addr>>

(* The phone asks to pair (the legacy and the extended request are         *)
(* answered alike).  A response the stack refuses starts nothing.          *)
PairingRequest(m) ==
    /\ link[m] = "up"
    /\ procedure[m] = "none"
    /\ IF SecurityRemoteBD_ADDR = NullAddr
       THEN /\ SecurityRemoteBD_ADDR' = m
            /\ \E sent \in BOOLEAN :
                 procedure' = [procedure EXCEPT ![m] =
                                 IF sent THEN "pairing" ELSE "none"]
       ELSE UNCHANGED <<SecurityRemoteBD_ADDR, procedure>>
    /\ UNCHANGED <<securityOnly, linkEncrypted, discovering, DeviceInfoList,
                   BLBD_SecurityRemoteBD_ADDR, mayBePersisted>>

(* The controller asks for the key of a link a phone wants to encrypt: a   *)
(* Secure Connections key must be in the entry, a legacy key is            *)
(* regenerated, which may fail.  Without a key the answer is negative.     *)
LongTermKeyRequest(m) ==
    /\ link[m] = "up"
    /\ procedure[m] = "none"
    /\ \E secureConnections, regenerated \in BOOLEAN :
         /\ IF secureConnections
            THEN Known(m) /\ HasFlag(m, "LTK_VALID")
            ELSE regenerated
         /\ procedure' = [procedure EXCEPT ![m] = "keyed"]
    /\ UNCHANGED <<securityOnly, linkEncrypted, discovering, DeviceInfoList,
                   slotVars, mayBePersisted>>

(* Mutant: the bulbs' callback records it too. *)
RecordsEncryptionOfAny(p) == Known(p)

(* Only the phones' callback records that a link is encrypted.             *)
RecordsEncryption(p) == p \in Mobiles /\ Known(p)

EncryptionChange(p) ==
    /\ link[p] = "up"
    /\ procedure[p] # "none"
    /\ linkEncrypted' = [linkEncrypted EXCEPT ![p] = TRUE]
    /\ procedure' = [procedure EXCEPT ![p] = IF @ = "keyed" THEN "none" ELSE @]
    /\ DeviceInfoList' =
         IF RecordsEncryption(p)
         THEN [DeviceInfoList EXCEPT ![p].Flags = @ \union {"ENCRYPTED"}]
         ELSE DeviceInfoList
    /\ UNCHANGED <<securityOnly, discovering, slotVars, mayBePersisted>>

(* A key arrives while pairing. *)
EncryptionInformation(p) ==
    /\ procedure[p] = "pairing"
    /\ DeviceInfoList' =
         IF Known(p)
         THEN [DeviceInfoList EXCEPT ![p].Flags = @ \union {"LTK_VALID"}]
         ELSE DeviceInfoList
    /\ UNCHANGED <<securityOnly, procedure, linkEncrypted, discovering,
                   slotVars, mayBePersisted>>

(* A device's entry is persisted by copying it whole, its next pointer     *)
(* included.  With other entries in the device list PersistDeviceInfoList  *)
(* may run on into that list, and reach what is appended there later.      *)
CopyShares(p) == \E q \in Peers \ {p} : Known(q)

(* Pairing with a phone ends; on failure the link is told to disconnect.   *)
MobilePairingStatus(m, success) ==
    /\ link[m] = "up"
    /\ procedure[m] = "pairing"
    /\ procedure' = [procedure EXCEPT ![m] = "none"]
    /\ SecurityRemoteBD_ADDR' = NullAddr
    /\ mayBePersisted' = IF success /\ Known(m) /\ CopyShares(m)
                          THEN Bulbs ELSE mayBePersisted
    /\ UNCHANGED <<securityOnly, linkEncrypted, discovering, DeviceInfoList,
                   BLBD_SecurityRemoteBD_ADDR>>

(* DiscoverBLBDServices: nothing is started twice; starting may fail.      *)
DiscoverBLBDServices(b) ==
    \E started \in BOOLEAN :
      IF started /\ Known(b) /\ ~HasFlag(b, "SERVICE_DISCOVERY_OUTSTANDING")
      THEN /\ DeviceInfoList' =
                [DeviceInfoList EXCEPT ![b].Flags =
                   @ \union {"SERVICE_DISCOVERY_OUTSTANDING"}]
           /\ discovering' = [discovering EXCEPT ![b] = TRUE]
      ELSE UNCHANGED <<DeviceInfoList, discovering>>

(* Pairing with the bulb ends.  known: the search of PersistDeviceInfoList *)
(* finds a bulb with this address; the handler then leaves at once, with   *)
(* the slot still taken and no discovery.  Which bulbs that search can     *)
(* find is bounded by mayBePersisted.                                      *)
BulbPairingStatus(b, success, known) ==
    /\ link[b] = "up"
    /\ procedure[b] = "pairing"
    /\ procedure' = [procedure EXCEPT ![b] = "none"]
    /\ \/ /\ success /\ known /\ Known(b) /\ b \in mayBePersisted
          /\ UNCHANGED <<DeviceInfoList, discovering, mayBePersisted,
                         BLBD_SecurityRemoteBD_ADDR>>
       \/ /\ success /\ ~known
          /\ DiscoverBLBDServices(b)
          /\ mayBePersisted' =
               mayBePersisted \union
                 (IF ~Known(b) THEN {} ELSE IF CopyShares(b) THEN Bulbs ELSE {b})
          /\ BLBD_SecurityRemoteBD_ADDR' = NullAddr
       \/ /\ ~success /\ ~known
          /\ BLBD_SecurityRemoteBD_ADDR' = NullAddr
          /\ UNCHANGED <<DeviceInfoList, discovering, mayBePersisted>>
    /\ UNCHANGED <<securityOnly, linkEncrypted, SecurityRemoteBD_ADDR>>

(* The bulb, a slave, asks for security: with a key it is re-established,  *)
(* which the stack may refuse, without one the board pairs.                *)
SecurityRequest(b) ==
    /\ link[b] = "up"
    /\ procedure[b] = "none"
    /\ IF BLBD_SecurityRemoteBD_ADDR # NullAddr
       THEN UNCHANGED <<BLBD_SecurityRemoteBD_ADDR, procedure>>
       ELSE IF Known(b) /\ HasFlag(b, "LTK_VALID")
       THEN /\ BLBD_SecurityRemoteBD_ADDR' = b
            /\ \E accepted \in BOOLEAN :
                 procedure' = [procedure EXCEPT ![b] =
                                 IF accepted THEN "reestablishing" ELSE "none"]
       ELSE SendPairingRequest(b)
    /\ UNCHANGED <<securityOnly, linkEncrypted, discovering, DeviceInfoList,
                   SecurityRemoteBD_ADDR, mayBePersisted>>

(* Re-establishing was asked for with GAP_LE_Event_Callback, so its end is *)
(* handled there, and it is the phones' slot that is cleared.              *)
SecurityEstablishmentComplete(b, keyError) ==
    /\ link[b] = "up"
    /\ procedure[b] = "reestablishing"
    /\ procedure' = [procedure EXCEPT ![b] = "none"]
    /\ DeviceInfoList' =
         IF keyError /\ Known(b)
         THEN [DeviceInfoList EXCEPT ![b].Flags = @ \ {"LTK_VALID"}]
         ELSE DeviceInfoList
    /\ SecurityRemoteBD_ADDR' = NullAddr
    /\ UNCHANGED <<securityOnly, linkEncrypted, discovering,
                   BLBD_SecurityRemoteBD_ADDR, mayBePersisted>>

(* Discovery callbacks.  The entry is looked up by Current_Conn_Addr: once *)
(* that is null nothing is found.  The indication of the bulb's            *)
(* characteristic clears the flag while the stack is still discovering.    *)
ClearsDiscoveryFlag ==
    DeviceInfoList' =
      [p \in Peers |->
         IF p = Current_Conn_Addr
         THEN [DeviceInfoList[p] EXCEPT
                 !.Flags = @ \ {"SERVICE_DISCOVERY_OUTSTANDING"}]
         ELSE DeviceInfoList[p]]

DiscoveryIndication(b) ==
    /\ discovering[b]
    /\ ClearsDiscoveryFlag
    /\ UNCHANGED <<securityOnly, procedure, linkEncrypted, discovering,
                   slotVars, mayBePersisted>>

DiscoveryComplete(b) ==
    /\ discovering[b]
    /\ ClearsDiscoveryFlag
    /\ discovering' = [discovering EXCEPT ![b] = FALSE]
    /\ UNCHANGED <<securityOnly, procedure, linkEncrypted, slotVars,
                   mayBePersisted>>
-----------------------------------------------------------------------------
MobileSecurityNext(m) ==
    \/ PairingRequest(m)
    \/ LongTermKeyRequest(m)
    \/ \E success \in BOOLEAN : MobilePairingStatus(m, success)

BulbSecurityNext(b) ==
    \/ SecurityRequest(b)
    \/ \E success, known \in BOOLEAN : BulbPairingStatus(b, success, known)
    \/ \E keyError \in BOOLEAN : SecurityEstablishmentComplete(b, keyError)

LinksNext ==
    \/ \E m \in Mobiles : \/ GapMobileConnected(m)
                          \/ GapMobileDisconnected(m)
                          \/ MobileSecurityNext(m)
    \/ \E b \in Bulbs : \/ GapBulbConnected(b)
                        \/ GapBulbDisconnected(b)
                        \/ BulbSecurityNext(b)
                        \/ DiscoveryIndication(b)
                        \/ DiscoveryComplete(b)
    \/ \E p \in Peers : \/ GattConnection(p)
                        \/ GattDisconnection(p)
                        \/ EncryptionChange(p)
                        \/ EncryptionInformation(p)

LinksSpec == LinksInit /\ [][LinksNext]_linkVars
-----------------------------------------------------------------------------
Slots == Peers \union {NullAddr}

LinksTypeOK ==
    /\ link \in [Peers -> Phases]
    /\ procedure \in [Peers -> Procedures]
    /\ linkEncrypted \in [Peers -> BOOLEAN]
    /\ discovering \in [Peers -> BOOLEAN]
    /\ DeviceInfoList \in [Peers -> DeviceInfo]
    /\ ConnectionCount \in Nat
    /\ SelectedRemoteBD_ADDR \in Slots
    /\ LocalDeviceIsMaster \in BOOLEAN
    /\ RemoteAddressType \in AddressTypes
    /\ SecurityRemoteBD_ADDR \in Slots
    /\ BLBD_SecurityRemoteBD_ADDR \in Slots
    /\ Current_Conn_Addr \in Slots
    /\ mayBePersisted \subseteq Bulbs

ConnectedPeers == {p \in Peers : DeviceInfoList[p].Connected}

(* ConnectionCount is the number of devices with a connection: it is       *)
(* decremented only for an entry that is found, and an entry may be        *)
(* missing, deleted with its link or kept from an earlier one.             *)
CountsConnections == ConnectionCount = Cardinality(ConnectedPeers)

(* While any device is connected the selected device, the one              *)
(* GetCurrentPeerDeviceInfo returns, is connected, whichever link of       *)
(* either role was lost last (home_automation.h:529).                      *)
SelectedIsConnected ==
    ConnectionCount # 0 => SelectedRemoteBD_ADDR \in ConnectedPeers

(* The flag CheckEncryptionStatus trusts was set on the current link: it   *)
(* never outlives a link into the next connection of the same device, in   *)
(* whichever order GAP and GATT report the loss, and although a bonded     *)
(* device keeps its entry.                                                 *)
EncryptedOnThisLink ==
    \A p \in Peers : HasFlag(p, "ENCRYPTED") => linkEncrypted[p]

(* A discovery marked outstanding is really running on the link, unless    *)
(* GATT has yet to report that link's loss: the mark never outlives a link *)
(* and blocks DiscoverBLBDServices for good.                               *)
DiscoveryFlagIsLive ==
    \A p \in Peers : HasFlag(p, "SERVICE_DISCOVERY_OUTSTANDING")
                       => discovering[p] \/ link[p] = "gapDown"

(* A connected entry holds its own peer's role and address type, although  *)
(* GAP passes them to GATT through globals all links share.                *)
EntryHasItsRole ==
    \A p \in ConnectedPeers :
      /\ DeviceInfoList[p].RemoteDeviceIsMaster <=> p \in Mobiles
      /\ DeviceInfoList[p].RemoteAddressType = AddressTypeOf(p)

(* While the board runs a procedure with the bulb the bulbs' slot names it *)
(* (given one bulb): no other procedure of that role can start.            *)
BulbSlotCoversProcedure ==
    \A b \in Bulbs :
      procedure[b] # "none" => BLBD_SecurityRemoteBD_ADDR = b

(* An entry whose link is gone is that of a bonded device, or was loaded   *)
(* at boot: a device that did not pair leaves nothing behind               *)
(* (home_automation.h:519-525).                                            *)
OnlyBondedRemain ==
    \A p \in Peers \ {SavedMobile} :
      Known(p) /\ link[p] \in {"down", "gattDown"} => HasFlag(p, "LTK_VALID")

(* The detailed book-keeping implements what LinkView promises.            *)
View == INSTANCE LinkView WITH
    phase     <- link,
    connected <- ConnectedPeers,
    encrypted <- {p \in Peers : HasFlag(p, "ENCRYPTED")},
    current   <- Current_Conn_Addr,
    discovery <- {p \in Peers : discovering[p]}

(* Every step of the device list, the counter, the slots and the keys is a *)
(* step of the links other components see, or none.                        *)
ImplementsView == View!ViewSpec

(* While a phone pairs, the phones' slot names it until its own pairing    *)
(* ends or its link is lost (the comment at home_automation.c:125).        *)
MobileSlotHeldWhilePairing ==
    [][\A m \in Mobiles :
         SecurityRemoteBD_ADDR = m /\ procedure[m] = "pairing"
                                   /\ procedure'[m] = "pairing"
           => SecurityRemoteBD_ADDR' = m]_linkVars

(* Once the bulb's pairing is over the bulbs' slot is free again (the      *)
(* comment at home_automation.c:4932).                                     *)
BulbPairingFreesSlot ==
    [][\A b \in Bulbs : \A success, known \in BOOLEAN :
         BulbPairingStatus(b, success, known)
           => BLBD_SecurityRemoteBD_ADDR' = NullAddr]_linkVars
=============================================================================
