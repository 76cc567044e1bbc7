------------------------- MODULE DeviceLinksProofs -------------------------
(***************************************************************************)
(* What the book-keeping of links guarantees for every set of phones and   *)
(* bulbs.  The actions fall in two groups: the connection and disconnection*)
(* events, which make and delete entries, and all others, which change     *)
(* nothing of an entry but its flags (SecurityStepKeeps).                  *)
(***************************************************************************)
EXTENDS DeviceLinks, FiniteSetTheorems, TLAPS

(* The actions of the security callbacks and of discovery. *)
SecurityStep ==
    \/ \E m \in Mobiles : MobileSecurityNext(m)
    \/ \E b \in Bulbs : \/ BulbSecurityNext(b)
                        \/ DiscoveryIndication(b)
                        \/ DiscoveryComplete(b)
    \/ \E p \in Peers : EncryptionChange(p) \/ EncryptionInformation(p)

LinkStep ==
    \/ \E m \in Mobiles : GapMobileConnected(m) \/ GapMobileDisconnected(m)
    \/ \E b \in Bulbs : GapBulbConnected(b) \/ GapBulbDisconnected(b)
    \/ \E p \in Peers : GattConnection(p) \/ GattDisconnection(p)

(* Every step of the specification is of one of the two groups.            *)
LEMMA StepKinds == LinksNext => SecurityStep \/ LinkStep
  BY DEF LinksNext, SecurityStep, LinkStep

(* Bulbs and phones are peers, and different ones.                         *)
LEMMA PeersFacts ==
    /\ Mobiles \subseteq Peers /\ Bulbs \subseteq Peers
    /\ Mobiles \cap Bulbs = {} /\ NullAddr \notin Peers
    /\ SavedMobile \in Peers \union {NullAddr}
    /\ IsFiniteSet(Peers)
  BY LinksAssumption DEF Peers

-----------------------------------------------------------------------------
(* Type correctness. *)

(* The records an entry may be, built field by field.                      *)
LEMMA EntryTypes ==
  ASSUME NEW e \in DeviceInfo, NEW F \in SUBSET DeviceFlags,
         NEW c \in BOOLEAN, NEW r \in BOOLEAN, NEW t \in AddressTypes
  PROVE  /\ NoEntry \in DeviceInfo
         /\ NewEntry \in DeviceInfo
         /\ [e EXCEPT !.Flags = F] \in DeviceInfo
         /\ [e EXCEPT !.Flags = F, !.Connected = c] \in DeviceInfo
         /\ [e EXCEPT !.Flags = F, !.RemoteAddressType = t] \in DeviceInfo
         /\ [e EXCEPT !.Connected = c, !.RemoteDeviceIsMaster = r,
                      !.RemoteAddressType = t] \in DeviceInfo
  BY DEF DeviceInfo, NoEntry, NewEntry, AddressTypes

LEMMA TypeInit == LinksInit => LinksTypeOK
<1> SUFFICES ASSUME LinksInit PROVE LinksTypeOK
  OBVIOUS
<1> USE DEF LinksInit
<1>1. DeviceInfoList \in [Peers -> DeviceInfo]
  <2>1. PICK keys \in {{}, {"LTK_VALID"}}, loaded \in BOOLEAN :
          DeviceInfoList =
            [p \in Peers |->
               IF loaded /\ p = SavedMobile
               THEN [NewEntry EXCEPT !.Flags = keys,
                                     !.RemoteAddressType = AddressTypeOf(p)]
               ELSE NoEntry]
    OBVIOUS
  <2>2. NoEntry \in DeviceInfo /\ NewEntry \in DeviceInfo
    BY DEF DeviceInfo, NoEntry, NewEntry, AddressTypes
  <2>3. keys \subseteq DeviceFlags
    BY DEF DeviceFlags
  <2>4. \A p \in Peers : AddressTypeOf(p) \in AddressTypes
    BY DEF AddressTypeOf, AddressTypes
  <2>5. \A p \in Peers :
          [NewEntry EXCEPT !.Flags = keys,
                           !.RemoteAddressType = AddressTypeOf(p)] \in DeviceInfo
    BY <2>2, <2>3, <2>4, EntryTypes
  <2>6. QED
    BY <2>1, <2>2, <2>5
<1>2. /\ link \in [Peers -> Phases]
      /\ procedure \in [Peers -> Procedures]
      /\ linkEncrypted \in [Peers -> BOOLEAN]
      /\ discovering \in [Peers -> BOOLEAN]
  BY DEF Phases, Procedures
<1>3. /\ ConnectionCount \in Nat
      /\ SelectedRemoteBD_ADDR \in Slots
      /\ RemoteAddressType \in AddressTypes
      /\ SecurityRemoteBD_ADDR \in Slots
      /\ BLBD_SecurityRemoteBD_ADDR \in Slots
      /\ Current_Conn_Addr \in Slots
      /\ mayBePersisted \subseteq Bulbs
  BY DEF Slots, AddressTypes
<1>4. LocalDeviceIsMaster \in BOOLEAN
  OBVIOUS
<1>5. QED
  BY <1>1, <1>2, <1>3, <1>4 DEF LinksTypeOK

-----------------------------------------------------------------------------
(* Security steps change only flags of entries. *)

SameButFlags(d, e) ==
    /\ d.present = e.present
    /\ d.Connected = e.Connected
    /\ d.RemoteDeviceIsMaster = e.RemoteDeviceIsMaster
    /\ d.RemoteAddressType = e.RemoteAddressType

(* What updating the flags of one entry does to the list.                  *)
LEMMA FlagsUpdate ==
  ASSUME NEW D \in [Peers -> DeviceInfo], NEW q \in Peers,
         NEW F \in SUBSET DeviceFlags,
         NEW E, E = [D EXCEPT ![q] = [D[q] EXCEPT !.Flags = F]]
  PROVE  /\ E \in [Peers -> DeviceInfo]
         /\ \A p \in Peers : SameButFlags(E[p], D[p])
         /\ \A p \in Peers : E[p].Flags = IF p = q THEN F ELSE D[p].Flags
<1>1. [D[q] EXCEPT !.Flags = F] \in DeviceInfo
  BY DEF DeviceInfo
<1>2. SameButFlags([D[q] EXCEPT !.Flags = F], D[q])
  BY DEF DeviceInfo, SameButFlags
<1>3. [D[q] EXCEPT !.Flags = F].Flags = F
  BY DEF DeviceInfo
<1>4. \A p \in Peers : E[p] = IF p = q THEN [D[q] EXCEPT !.Flags = F] ELSE D[p]
  OBVIOUS
<1>5. E \in [Peers -> DeviceInfo]
  BY <1>1
<1>6. \A p \in Peers : SameButFlags(E[p], D[p])
  BY <1>2, <1>4 DEF SameButFlags
<1>7. QED
  BY <1>3, <1>4, <1>5, <1>6

(* The flags an action of the security callbacks or of discovery leaves in *)
(* each entry.                                                             *)
FlagsBecome(F) ==
    /\ DeviceInfoList' \in [Peers -> DeviceInfo]
    /\ \A p \in Peers : SameButFlags(DeviceInfoList'[p], DeviceInfoList[p])
    /\ \A p \in Peers : DeviceInfoList'[p].Flags = F[p]

Flags == [p \in Peers |-> DeviceInfoList[p].Flags]

LEMMA UnchangedFlags ==
  ASSUME LinksTypeOK, UNCHANGED DeviceInfoList
  PROVE  FlagsBecome(Flags)
  BY DEF LinksTypeOK, FlagsBecome, Flags, SameButFlags

LEMMA UpdatedFlags ==
  ASSUME LinksTypeOK, NEW q \in Peers, NEW F \in SUBSET DeviceFlags,
         DeviceInfoList' = [DeviceInfoList EXCEPT ![q].Flags = F]
  PROVE  FlagsBecome([Flags EXCEPT ![q] = F])
<1>1. DeviceInfoList \in [Peers -> DeviceInfo]
  BY DEF LinksTypeOK
<1>2. DeviceInfoList' = [DeviceInfoList EXCEPT
                           ![q] = [DeviceInfoList[q] EXCEPT !.Flags = F]]
  OBVIOUS
<1>3. QED
  BY <1>1, <1>2, FlagsUpdate DEF FlagsBecome, Flags
LEMMA ClearedFlags ==
  ASSUME LinksTypeOK, ClearsDiscoveryFlag
  PROVE  FlagsBecome([p \in Peers |->
                        IF p = Current_Conn_Addr
                        THEN Flags[p] \ {"SERVICE_DISCOVERY_OUTSTANDING"}
                        ELSE Flags[p]])
<1> DEFINE F == [p \in Peers |->
                   IF p = Current_Conn_Addr
                   THEN Flags[p] \ {"SERVICE_DISCOVERY_OUTSTANDING"}
                   ELSE Flags[p]]
<1>1. DeviceInfoList \in [Peers -> DeviceInfo]
  BY DEF LinksTypeOK
<1>2. \A p \in Peers : F[p] \in SUBSET DeviceFlags
  BY <1>1 DEF Flags, DeviceInfo
<1>3. \A p \in Peers :
        DeviceInfoList'[p] = [DeviceInfoList[p] EXCEPT !.Flags = F[p]]
  <2> TAKE p \in Peers
  <2>1. DeviceInfoList[p] \in DeviceInfo
    BY <1>1
  <2>2. [DeviceInfoList[p] EXCEPT !.Flags = DeviceInfoList[p].Flags]
          = DeviceInfoList[p]
    BY <2>1 DEF DeviceInfo
  <2>3. QED
    BY <2>2 DEF ClearsDiscoveryFlag, Flags
<1>4. \A p \in Peers : /\ DeviceInfoList'[p] \in DeviceInfo
                       /\ SameButFlags(DeviceInfoList'[p], DeviceInfoList[p])
                       /\ DeviceInfoList'[p].Flags = F[p]
  <2> TAKE p \in Peers
  <2>1. DeviceInfoList[p] \in DeviceInfo /\ F[p] \in SUBSET DeviceFlags
    BY <1>1, <1>2
  <2>2. QED
    BY <1>3, <2>1 DEF DeviceInfo, SameButFlags
<1>5. DeviceInfoList' = [p \in Peers |-> DeviceInfoList'[p]]
  BY DEF ClearsDiscoveryFlag
<1>6. QED
  BY <1>4, <1>5 DEF FlagsBecome

(* The flags each of these actions leaves.                                 *)
LEMMA SecurityFlags ==
  ASSUME LinksTypeOK
  PROVE  /\ \A m \in Mobiles :
              /\ PairingRequest(m) => FlagsBecome(Flags)
              /\ LongTermKeyRequest(m) => FlagsBecome(Flags)
              /\ \A s \in BOOLEAN : MobilePairingStatus(m, s) => FlagsBecome(Flags)
         /\ \A b \in Bulbs :
              /\ SecurityRequest(b) => FlagsBecome(Flags)
              /\ \A s, k \in BOOLEAN : BulbPairingStatus(b, s, k) =>
                   \/ FlagsBecome(Flags)
                   \/ /\ discovering'[b] /\ Known(b)
                      /\ FlagsBecome([Flags EXCEPT ![b] =
                           @ \union {"SERVICE_DISCOVERY_OUTSTANDING"}])
              /\ \A k \in BOOLEAN : SecurityEstablishmentComplete(b, k) =>
                   \/ FlagsBecome(Flags)
                   \/ FlagsBecome([Flags EXCEPT ![b] = @ \ {"LTK_VALID"}])
         /\ \A p \in Peers :
              /\ EncryptionChange(p) =>
                   \/ FlagsBecome(Flags)
                   \/ /\ p \in Mobiles /\ Known(p)
                      /\ FlagsBecome([Flags EXCEPT ![p] =
                                        @ \union {"ENCRYPTED"}])
              /\ EncryptionInformation(p) =>
                   \/ FlagsBecome(Flags)
                   \/ /\ Known(p)
                      /\ FlagsBecome([Flags EXCEPT ![p] =
                                        @ \union {"LTK_VALID"}])
<1>1. DeviceInfoList \in [Peers -> DeviceInfo]
  BY DEF LinksTypeOK
<1>2. \A p \in Peers : /\ Flags[p] = DeviceInfoList[p].Flags
                       /\ Flags[p] \in SUBSET DeviceFlags
  BY <1>1 DEF Flags, DeviceInfo
<1>3. \A p \in Peers :
        /\ Flags[p] \union {"SERVICE_DISCOVERY_OUTSTANDING"} \in SUBSET DeviceFlags
        /\ Flags[p] \ {"LTK_VALID"} \in SUBSET DeviceFlags
        /\ Flags[p] \union {"ENCRYPTED"} \in SUBSET DeviceFlags
        /\ Flags[p] \union {"LTK_VALID"} \in SUBSET DeviceFlags
  BY <1>2 DEF DeviceFlags
<1>4. UNCHANGED DeviceInfoList => FlagsBecome(Flags)
  BY UnchangedFlags
<1>5. ASSUME NEW m \in Mobiles
      PROVE  /\ PairingRequest(m) => FlagsBecome(Flags)
             /\ LongTermKeyRequest(m) => FlagsBecome(Flags)
             /\ \A s \in BOOLEAN : MobilePairingStatus(m, s) => FlagsBecome(Flags)
  BY <1>4 DEF PairingRequest, LongTermKeyRequest, MobilePairingStatus
<1>6. ASSUME NEW b \in Bulbs, SecurityRequest(b)
      PROVE  FlagsBecome(Flags)
  BY <1>4, <1>6 DEF SecurityRequest
<1>7. ASSUME NEW b \in Bulbs, NEW s \in BOOLEAN, NEW k \in BOOLEAN,
             BulbPairingStatus(b, s, k), ~UNCHANGED DeviceInfoList
      PROVE  /\ discovering'[b] /\ Known(b)
             /\ FlagsBecome([Flags EXCEPT ![b] =
                  @ \union {"SERVICE_DISCOVERY_OUTSTANDING"}])
  <2>1. b \in Peers /\ discovering \in [Peers -> BOOLEAN]
    BY PeersFacts DEF LinksTypeOK
  <2>2. DiscoverBLBDServices(b)
    BY <1>7 DEF BulbPairingStatus
  <2>3. /\ Known(b)
        /\ discovering' = [discovering EXCEPT ![b] = TRUE]
        /\ DeviceInfoList' =
             [DeviceInfoList EXCEPT ![b].Flags =
                @ \union {"SERVICE_DISCOVERY_OUTSTANDING"}]
    BY <1>7, <2>2 DEF DiscoverBLBDServices
  <2>4. DeviceInfoList' =
          [DeviceInfoList EXCEPT ![b].Flags =
             Flags[b] \union {"SERVICE_DISCOVERY_OUTSTANDING"}]
    BY <1>2, <2>1, <2>3
  <2>5. QED
    BY <1>3, <2>1, <2>3, <2>4, UpdatedFlags
<1>8. ASSUME NEW b \in Bulbs, NEW k \in BOOLEAN,
             SecurityEstablishmentComplete(b, k), ~UNCHANGED DeviceInfoList
      PROVE  FlagsBecome([Flags EXCEPT ![b] = @ \ {"LTK_VALID"}])
  <2>1. b \in Peers
    BY PeersFacts
  <2>2. DeviceInfoList' =
          [DeviceInfoList EXCEPT ![b].Flags = Flags[b] \ {"LTK_VALID"}]
    BY <1>2, <1>8, <2>1 DEF SecurityEstablishmentComplete
  <2>3. QED
    BY <1>3, <2>1, <2>2, UpdatedFlags
<1>9. ASSUME NEW p \in Peers, EncryptionChange(p), ~UNCHANGED DeviceInfoList
      PROVE  /\ p \in Mobiles /\ Known(p)
             /\ FlagsBecome([Flags EXCEPT ![p] = @ \union {"ENCRYPTED"}])
  <2>1. /\ p \in Mobiles /\ Known(p)
        /\ DeviceInfoList' =
             [DeviceInfoList EXCEPT ![p].Flags = Flags[p] \union {"ENCRYPTED"}]
    BY <1>2, <1>9 DEF EncryptionChange, RecordsEncryption
  <2>2. QED
    BY <1>3, <2>1, UpdatedFlags
<1>10. ASSUME NEW p \in Peers, EncryptionInformation(p), ~UNCHANGED DeviceInfoList
       PROVE  /\ Known(p)
              /\ FlagsBecome([Flags EXCEPT ![p] = @ \union {"LTK_VALID"}])
  <2>1. /\ Known(p)
        /\ DeviceInfoList' =
             [DeviceInfoList EXCEPT ![p].Flags = Flags[p] \union {"LTK_VALID"}]
    BY <1>2, <1>10 DEF EncryptionInformation
  <2>2. QED
    BY <1>3, <2>1, UpdatedFlags
<1>11. QED
  BY <1>4, <1>5, <1>6, <1>7, <1>8, <1>9, <1>10
(* The flags the GAP events of a link leave.                               *)
LEMMA GapFlags ==
  ASSUME LinksTypeOK
  PROVE  /\ \A m \in Mobiles :
              /\ GapMobileConnected(m) => FlagsBecome(Flags)
              /\ GapMobileDisconnected(m) =>
                   FlagsBecome([Flags EXCEPT ![m] = @ \ {"ENCRYPTED"}])
         /\ \A b \in Bulbs :
              /\ GapBulbConnected(b) => FlagsBecome(Flags)
              /\ GapBulbDisconnected(b) => FlagsBecome(Flags)
<1>1. UNCHANGED DeviceInfoList => FlagsBecome(Flags)
  BY UnchangedFlags
<1>2. ASSUME NEW m \in Mobiles, GapMobileDisconnected(m)
      PROVE  FlagsBecome([Flags EXCEPT ![m] = @ \ {"ENCRYPTED"}])
  <2>1. m \in Peers /\ DeviceInfoList \in [Peers -> DeviceInfo]
    BY PeersFacts DEF LinksTypeOK
  <2>2. Flags[m] = DeviceInfoList[m].Flags /\ Flags[m] \in SUBSET DeviceFlags
    BY <2>1 DEF Flags, DeviceInfo
  <2>3. DeviceInfoList' =
          [DeviceInfoList EXCEPT ![m].Flags = Flags[m] \ {"ENCRYPTED"}]
    BY <1>2, <2>1, <2>2 DEF GapMobileDisconnected
  <2>4. Flags[m] \ {"ENCRYPTED"} \in SUBSET DeviceFlags
    BY <2>2
  <2>5. QED
    BY <2>1, <2>3, <2>4, UpdatedFlags
<1>3. QED
  BY <1>1, <1>2 DEF GapMobileConnected, GapBulbConnected, GapBulbDisconnected

(* The entry a connection fills, whether it is found or new.               *)
LEMMA ConnectedEntryFacts ==
  ASSUME LinksTypeOK, NEW p \in Peers
  PROVE  /\ ConnectedEntry(p) \in DeviceInfo
         /\ ConnectedEntry(p).present
         /\ ConnectedEntry(p).Connected
         /\ ConnectedEntry(p).RemoteDeviceIsMaster = ~LocalDeviceIsMaster
         /\ ConnectedEntry(p).RemoteAddressType = RemoteAddressType
         /\ ConnectedEntry(p).Flags = IF Known(p) THEN Flags[p] ELSE {}
<1> DEFINE e == IF Known(p) THEN DeviceInfoList[p] ELSE NewEntry
<1>1. e \in DeviceInfo /\ e.present
      /\ e.Flags = IF Known(p) THEN Flags[p] ELSE {}
  <2>1. NewEntry \in DeviceInfo /\ NewEntry.present /\ NewEntry.Flags = {}
    BY DEF NewEntry, NoEntry, DeviceInfo, AddressTypes
  <2>2. DeviceInfoList[p] \in DeviceInfo
    BY DEF LinksTypeOK
  <2>3. QED
    BY <2>1, <2>2 DEF Known, Flags
<1>2. (~LocalDeviceIsMaster) \in BOOLEAN /\ RemoteAddressType \in AddressTypes
  BY DEF LinksTypeOK
<1>3. ConnectedEntry(p) =
        [e EXCEPT !.Connected = TRUE,
                  !.RemoteDeviceIsMaster = ~LocalDeviceIsMaster,
                  !.RemoteAddressType = RemoteAddressType]
  BY DEF ConnectedEntry
<1> HIDE DEF e
<1>4. ConnectedEntry(p) \in DeviceInfo
  BY <1>1, <1>2, <1>3 DEF DeviceInfo
<1>5. QED
  BY <1>1, <1>2, <1>3, <1>4 DEF DeviceInfo

(* The entry a disconnection leaves: only a key keeps it.                  *)
LEMMA DisconnectedEntryFacts ==
  ASSUME LinksTypeOK, NEW p \in Peers
  PROVE  /\ DisconnectedEntry(p) \in DeviceInfo
         /\ ~DisconnectedEntry(p).Connected
         /\ DisconnectedEntry(p).Flags =
              IF HasFlag(p, "LTK_VALID")
              THEN Flags[p] \ {"SERVICE_DISCOVERY_OUTSTANDING"} ELSE {}
         /\ DisconnectedEntry(p).present =>
              HasFlag(p, "LTK_VALID") /\ Known(p)
<1>1. DeviceInfoList[p] \in DeviceInfo /\ Flags[p] = DeviceInfoList[p].Flags
  BY DEF LinksTypeOK, Flags
<1>2. CASE HasFlag(p, "LTK_VALID")
  <2>1. DisconnectedEntry(p) =
          [DeviceInfoList[p] EXCEPT
             !.Flags = Flags[p] \ {"SERVICE_DISCOVERY_OUTSTANDING"},
             !.Connected = FALSE]
    BY <1>1, <1>2 DEF DisconnectedEntry
  <2>2. Flags[p] \ {"SERVICE_DISCOVERY_OUTSTANDING"} \in SUBSET DeviceFlags
    BY <1>1 DEF DeviceInfo
  <2>3. QED
    BY <1>1, <1>2, <2>1, <2>2 DEF DeviceInfo, Known
<1>3. CASE ~HasFlag(p, "LTK_VALID")
  BY <1>3 DEF DisconnectedEntry, NoEntry, DeviceInfo, AddressTypes
<1>4. QED
  BY <1>2, <1>3

(* What the two GATT events do to the list.                                *)
LEMMA GattEffects ==
  ASSUME LinksTypeOK, NEW p \in Peers
  PROVE  /\ GattConnection(p) =>
              \/ ~Known(p) /\ UNCHANGED DeviceInfoList
              \/ /\ DeviceInfoList'[p] = ConnectedEntry(p)
                 /\ \A q \in Peers \ {p} : DeviceInfoList'[q] = DeviceInfoList[q]
                 /\ DeviceInfoList' \in [Peers -> DeviceInfo]
         /\ GattDisconnection(p) =>
              \/ /\ ConnectionCount = 0 \/ ~Known(p)
                 /\ UNCHANGED <<ConnectionCount, DeviceInfoList>>
              \/ /\ ConnectionCount # 0 /\ Known(p)
                 /\ ConnectionCount' = ConnectionCount - 1
                 /\ DeviceInfoList'[p] = DisconnectedEntry(p)
                 /\ \A q \in Peers \ {p} : DeviceInfoList'[q] = DeviceInfoList[q]
                 /\ DeviceInfoList' \in [Peers -> DeviceInfo]
<1>1. DeviceInfoList \in [Peers -> DeviceInfo]
  BY DEF LinksTypeOK
<1>2. ConnectedEntry(p) \in DeviceInfo /\ DisconnectedEntry(p) \in DeviceInfo
  BY ConnectedEntryFacts, DisconnectedEntryFacts
<1>3. QED
  BY <1>1, <1>2 DEF GattConnection, GattDisconnection, ForgetConnection

(* Every step leaves a list of entries.                                    *)
LEMMA ListType ==
  ASSUME LinksTypeOK, [LinksNext]_linkVars
  PROVE  DeviceInfoList' \in [Peers -> DeviceInfo]
<1>1. CASE SecurityStep
  <2>1. \A b \in Bulbs : DiscoveryIndication(b) \/ DiscoveryComplete(b)
                           => DeviceInfoList' \in [Peers -> DeviceInfo]
    BY ClearedFlags DEF DiscoveryIndication, DiscoveryComplete, FlagsBecome
  <2>2. QED
    BY <1>1, <2>1, SecurityFlags
      DEF SecurityStep, MobileSecurityNext, BulbSecurityNext, FlagsBecome
<1>2. CASE LinkStep
  BY <1>2, GapFlags, GattEffects DEF LinkStep, FlagsBecome, LinksTypeOK
<1>3. CASE UNCHANGED linkVars
  BY <1>3 DEF linkVars, LinksTypeOK
<1>4. QED
  BY <1>1, <1>2, <1>3, StepKinds
(* The other variables keep their types in the steps of either group.      *)
SecurityTypes ==
    /\ procedure \in [Peers -> Procedures]
    /\ linkEncrypted \in [Peers -> BOOLEAN]
    /\ discovering \in [Peers -> BOOLEAN]
    /\ SecurityRemoteBD_ADDR \in Slots
    /\ BLBD_SecurityRemoteBD_ADDR \in Slots
    /\ mayBePersisted \subseteq Bulbs

LinkTypes ==
    /\ link \in [Peers -> Phases]
    /\ ConnectionCount \in Nat
    /\ SelectedRemoteBD_ADDR \in Slots
    /\ LocalDeviceIsMaster \in BOOLEAN
    /\ RemoteAddressType \in AddressTypes
    /\ Current_Conn_Addr \in Slots

LEMMA SecurityStepTypes ==
  ASSUME LinksTypeOK, SecurityStep
  PROVE  SecurityTypes' /\ UNCHANGED securityOnly
<1> USE PeersFacts DEF LinksTypeOK, SecurityTypes, Slots, Procedures, securityOnly
<1>1. ASSUME NEW m \in Mobiles, PairingRequest(m)
      PROVE  SecurityTypes' /\ UNCHANGED securityOnly
  BY <1>1 DEF PairingRequest
<1>2. ASSUME NEW m \in Mobiles, LongTermKeyRequest(m)
      PROVE  SecurityTypes' /\ UNCHANGED securityOnly
  BY <1>2 DEF LongTermKeyRequest, slotVars
<1>3. ASSUME NEW m \in Mobiles, NEW s \in BOOLEAN, MobilePairingStatus(m, s)
      PROVE  SecurityTypes' /\ UNCHANGED securityOnly
  BY <1>3 DEF MobilePairingStatus
<1>4. ASSUME NEW b \in Bulbs, SecurityRequest(b)
      PROVE  SecurityTypes' /\ UNCHANGED securityOnly
  BY <1>4 DEF SecurityRequest, SendPairingRequest
<1>5. ASSUME NEW b \in Bulbs, NEW s \in BOOLEAN, NEW k \in BOOLEAN,
             BulbPairingStatus(b, s, k)
      PROVE  SecurityTypes' /\ UNCHANGED securityOnly
  BY <1>5 DEF BulbPairingStatus, DiscoverBLBDServices
<1>6. ASSUME NEW b \in Bulbs, NEW k \in BOOLEAN,
             SecurityEstablishmentComplete(b, k)
      PROVE  SecurityTypes' /\ UNCHANGED securityOnly
  BY <1>6 DEF SecurityEstablishmentComplete
<1>7. ASSUME NEW b \in Bulbs, DiscoveryIndication(b) \/ DiscoveryComplete(b)
      PROVE  SecurityTypes' /\ UNCHANGED securityOnly
  BY <1>7 DEF DiscoveryIndication, DiscoveryComplete, slotVars
<1>8. ASSUME NEW p \in Peers, EncryptionChange(p) \/ EncryptionInformation(p)
      PROVE  SecurityTypes' /\ UNCHANGED securityOnly
  BY <1>8 DEF EncryptionChange, EncryptionInformation, slotVars
<1>9. QED
  BY <1>1, <1>2, <1>3, <1>4, <1>5, <1>6, <1>7, <1>8
    DEF SecurityStep, MobileSecurityNext, BulbSecurityNext

(* The selected device stays an address when another one is chosen.        *)
LEMMA SelectionType ==
  ASSUME LinksTypeOK, SelectConnected
  PROVE  SelectedRemoteBD_ADDR' \in Slots
  BY DEF LinksTypeOK, SelectConnected, Slots

LEMMA LinkStepTypes ==
  ASSUME LinksTypeOK, LinkStep
  PROVE  SecurityTypes' /\ LinkTypes'
<1> USE PeersFacts DEF LinksTypeOK, SecurityTypes, LinkTypes, Slots,
        Procedures, Phases, slotVars, tempVars, StackForgets
<1>1. \A p \in Peers : AddressTypeOf(p) \in AddressTypes
  BY DEF AddressTypeOf, AddressTypes
<1>2. ASSUME NEW m \in Mobiles, GapMobileConnected(m)
      PROVE  SecurityTypes' /\ LinkTypes'
  BY <1>1, <1>2 DEF GapMobileConnected, ReportsConnection
<1>3. ASSUME NEW m \in Mobiles, GapMobileDisconnected(m)
      PROVE  SecurityTypes' /\ LinkTypes'
  BY <1>3 DEF GapMobileDisconnected, GapReportsLoss
<1>4. ASSUME NEW b \in Bulbs, GapBulbConnected(b)
      PROVE  SecurityTypes' /\ LinkTypes'
  BY <1>1, <1>4 DEF GapBulbConnected, ReportsConnection, SendPairingRequest
<1>5. ASSUME NEW b \in Bulbs, GapBulbDisconnected(b)
      PROVE  SecurityTypes' /\ LinkTypes'
  BY <1>5 DEF GapBulbDisconnected, GapReportsLoss
<1>6. ASSUME NEW p \in Peers, GattConnection(p)
      PROVE  SecurityTypes' /\ LinkTypes'
  BY <1>6 DEF GattConnection
<1>7. ASSUME NEW p \in Peers, GattDisconnection(p)
      PROVE  SecurityTypes' /\ LinkTypes'
  <2>1. SelectedRemoteBD_ADDR' \in Slots
    BY <1>7, SelectionType DEF GattDisconnection
  <2>2. ConnectionCount' \in Nat
    BY <1>7 DEF GattDisconnection, ForgetConnection
  <2>3. QED
    BY <1>7, <2>1, <2>2 DEF GattDisconnection
<1>8. QED
  BY <1>2, <1>3, <1>4, <1>5, <1>6, <1>7 DEF LinkStep

LEMMA TypeStep == LinksTypeOK /\ [LinksNext]_linkVars => LinksTypeOK'
<1> SUFFICES ASSUME LinksTypeOK, [LinksNext]_linkVars PROVE LinksTypeOK'
  OBVIOUS
<1>1. DeviceInfoList' \in [Peers -> DeviceInfo]
  BY ListType
<1>2. CASE SecurityStep
  <2>1. LinkTypes'
    BY <1>2, SecurityStepTypes
      DEF LinksTypeOK, LinkTypes, securityOnly, tempVars
  <2>2. QED
    BY <1>1, <1>2, <2>1, SecurityStepTypes DEF LinksTypeOK, SecurityTypes, LinkTypes
<1>3. CASE LinkStep
  BY <1>1, <1>3, LinkStepTypes DEF LinksTypeOK, SecurityTypes, LinkTypes
<1>4. CASE UNCHANGED linkVars
  BY <1>4 DEF LinksTypeOK, linkVars, stackVars, tempVars, slotVars, Slots
<1>5. QED
  BY <1>2, <1>3, <1>4, StepKinds

(* Every variable keeps its type, for any sets of phones and bulbs.        *)
THEOREM TypeCorrect == LinksSpec => []LinksTypeOK
<1>1. QED
  BY TypeInit, TypeStep, PTL DEF LinksSpec
-----------------------------------------------------------------------------
(* Counting and selecting connections. *)

(* Whether an entry has a connection follows from its link: once GATT has  *)
(* reported the connection, and until it reports the loss, an entry has a  *)
(* connection exactly if it exists.  This is what CountsConnections needs  *)
(* to be inductive: a decrement meets an entry that was counted.           *)
EntryFollowsLink ==
    \A p \in Peers :
      DeviceInfoList[p].Connected <=> Known(p) /\ link[p] \in {"up", "gapDown"}

CountInv == EntryFollowsLink /\ CountsConnections /\ SelectedIsConnected

(* What the entry of every device holds at boot.                           *)
LEMMA FlagsInit ==
  LinksInit => \A p \in Peers : /\ Flags[p] \subseteq {"LTK_VALID"}
                                /\ Known(p) => p = SavedMobile
                                /\ ~DeviceInfoList[p].Connected
<1> SUFFICES ASSUME LinksInit, NEW p \in Peers
             PROVE  /\ Flags[p] \subseteq {"LTK_VALID"}
                    /\ Known(p) => p = SavedMobile
                    /\ ~DeviceInfoList[p].Connected
  OBVIOUS
<1>1. PICK keys \in {{}, {"LTK_VALID"}}, loaded \in BOOLEAN :
        DeviceInfoList =
          [q \in Peers |->
             IF loaded /\ q = SavedMobile
             THEN [NewEntry EXCEPT !.Flags = keys,
                                   !.RemoteAddressType = AddressTypeOf(q)]
             ELSE NoEntry]
  BY DEF LinksInit
<1>2. \A t : /\ [NewEntry EXCEPT !.Flags = keys, !.RemoteAddressType = t].Flags = keys
             /\ ~[NewEntry EXCEPT !.Flags = keys,
                                  !.RemoteAddressType = t].Connected
  BY DEF NewEntry, NoEntry
<1>3. CASE loaded /\ p = SavedMobile
  <2>1. DeviceInfoList[p] = [NewEntry EXCEPT !.Flags = keys,
                                !.RemoteAddressType = AddressTypeOf(p)]
    BY <1>1, <1>3
  <2>2. QED
    BY <1>2, <1>3, <2>1 DEF Flags
<1>4. CASE ~(loaded /\ p = SavedMobile)
  BY <1>1, <1>4 DEF NoEntry, Flags, Known
<1>5. QED
  BY <1>3, <1>4

LEMMA CountInit == LinksInit => CountInv
<1> SUFFICES ASSUME LinksInit PROVE CountInv
  OBVIOUS
<1>1. \A p \in Peers : ~DeviceInfoList[p].Connected
  BY FlagsInit
<1>2. ConnectedPeers = {}
  BY <1>1 DEF ConnectedPeers
<1>3. ConnectionCount = 0 /\ \A p \in Peers : link[p] = "down"
  BY DEF LinksInit
<1>4. QED
  BY <1>1, <1>2, <1>3, FS_EmptySet
    DEF CountInv, EntryFollowsLink, CountsConnections, SelectedIsConnected

(* The security callbacks and discovery touch only flags.                  *)
LEMMA SecurityKeepsEntries ==
  ASSUME LinksTypeOK, SecurityStep
  PROVE  \A p \in Peers : SameButFlags(DeviceInfoList'[p], DeviceInfoList[p])
<1>1. \A b \in Bulbs :
        DiscoveryIndication(b) \/ DiscoveryComplete(b)
          => \A p \in Peers : SameButFlags(DeviceInfoList'[p], DeviceInfoList[p])
  BY ClearedFlags DEF DiscoveryIndication, DiscoveryComplete, FlagsBecome
<1>2. QED
  BY <1>1, SecurityFlags
    DEF SecurityStep, MobileSecurityNext, BulbSecurityNext, FlagsBecome

(* So do the events of GAP, which change only whether a link is half       *)
(* reported.                                                               *)
GapStep ==
    \/ \E m \in Mobiles : GapMobileConnected(m) \/ GapMobileDisconnected(m)
    \/ \E b \in Bulbs : GapBulbConnected(b) \/ GapBulbDisconnected(b)

LEMMA GapKeepsEntries ==
  ASSUME LinksTypeOK, GapStep
  PROVE  /\ \A p \in Peers : SameButFlags(DeviceInfoList'[p], DeviceInfoList[p])
         /\ UNCHANGED <<ConnectionCount, SelectedRemoteBD_ADDR>>
  BY GapFlags
    DEF GapStep, FlagsBecome, GapMobileConnected, GapMobileDisconnected,
        GapBulbConnected, GapBulbDisconnected

(* The links a GAP event reports.                                          *)
LEMMA GapLinks ==
  ASSUME LinksTypeOK, GapStep
  PROVE  \E p \in Peers :
           /\ \A q \in Peers \ {p} : link'[q] = link[q]
           /\ \/ link[p] = "down" /\ link'[p] = "gap"
              \/ link[p] = "up" /\ link'[p] = "gapDown"
              \/ link[p] = "gattDown" /\ link'[p] = "down"
<1>1. ASSUME NEW p \in Peers, ReportsConnection(p)
      PROVE  /\ \A q \in Peers \ {p} : link'[q] = link[q]
             /\ link[p] = "down" /\ link'[p] = "gap"
  BY <1>1 DEF ReportsConnection, LinksTypeOK
<1>2. ASSUME NEW p \in Peers, GapReportsLoss(p)
      PROVE  /\ \A q \in Peers \ {p} : link'[q] = link[q]
             /\ \/ link[p] = "up" /\ link'[p] = "gapDown"
                \/ link[p] = "gattDown" /\ link'[p] = "down"
  BY <1>2 DEF GapReportsLoss, LinksTypeOK
<1>3. QED
  BY <1>1, <1>2, PeersFacts
    DEF GapStep, GapMobileConnected, GapMobileDisconnected,
        GapBulbConnected, GapBulbDisconnected

(* Steps that leave counter, selection and connections alone keep all of   *)
(* CountInv but what it says of the links.                                 *)
LEMMA SameConnections ==
  ASSUME CountInv, UNCHANGED <<ConnectionCount, SelectedRemoteBD_ADDR>>,
         \A p \in Peers : SameButFlags(DeviceInfoList'[p], DeviceInfoList[p])
  PROVE  CountsConnections' /\ SelectedIsConnected'
<1>1. ConnectedPeers' = ConnectedPeers
  BY DEF ConnectedPeers, SameButFlags
<1>2. QED
  BY <1>1 DEF CountInv, CountsConnections, SelectedIsConnected

LEMMA GattConnectionCounts ==
  ASSUME LinksTypeOK, CountInv, NEW p \in Peers, GattConnection(p)
  PROVE  CountInv'
<1>1. link[p] = "gap" /\ link' = [link EXCEPT ![p] = "up"]
  BY DEF GattConnection
<1>2. p \notin ConnectedPeers
  BY <1>1 DEF CountInv, EntryFollowsLink, ConnectedPeers
<1>3. CASE ~Known(p) /\ UNCHANGED DeviceInfoList
  <2>1. UNCHANGED <<ConnectionCount, SelectedRemoteBD_ADDR>>
    <3>1. ConnectedEntry(p).present
      BY ConnectedEntryFacts
    <3>2. DeviceInfoList' # [DeviceInfoList EXCEPT ![p] = ConnectedEntry(p)]
      BY <1>3, <3>1 DEF Known, LinksTypeOK
    <3>3. QED
      BY <3>2 DEF GattConnection
  <2>2. ConnectedPeers' = ConnectedPeers
    BY <1>3 DEF ConnectedPeers
  <2>3. EntryFollowsLink'
    BY <1>1, <1>3 DEF CountInv, EntryFollowsLink, Known, LinksTypeOK
  <2>4. QED
    BY <2>1, <2>2, <2>3 DEF CountInv, CountsConnections, SelectedIsConnected
<1>4. CASE /\ DeviceInfoList'[p] = ConnectedEntry(p)
           /\ \A q \in Peers \ {p} : DeviceInfoList'[q] = DeviceInfoList[q]
  <2>1. ConnectedEntry(p).Connected /\ ConnectedEntry(p).present
    BY ConnectedEntryFacts
  <2>2. ConnectedPeers' = ConnectedPeers \union {p}
    BY <1>4, <2>1 DEF ConnectedPeers
  <2>3. DeviceInfoList' # DeviceInfoList
    BY <1>2, <1>4, <2>1 DEF ConnectedPeers
  <2>4. ConnectionCount' = ConnectionCount + 1 /\ SelectedRemoteBD_ADDR' = p
    BY <2>3 DEF GattConnection
  <2>5. IsFiniteSet(ConnectedPeers)
    BY PeersFacts, FS_Subset DEF ConnectedPeers
  <2>6. Cardinality(ConnectedPeers') = Cardinality(ConnectedPeers) + 1
    BY <1>2, <2>2, <2>5, FS_AddElement
  <2>7. EntryFollowsLink'
    BY <1>1, <1>4, <2>1 DEF CountInv, EntryFollowsLink, Known, LinksTypeOK
  <2>8. QED
    BY <2>2, <2>4, <2>6, <2>7
      DEF CountInv, CountsConnections, SelectedIsConnected
<1>5. QED
  BY <1>3, <1>4, GattEffects

LEMMA GattDisconnectionCounts ==
  ASSUME LinksTypeOK, CountInv, NEW p \in Peers, GattDisconnection(p)
  PROVE  CountInv'
<1> DEFINE lost == IF link[p] = "up" THEN "gattDown" ELSE "down"
<1>1. link[p] \in {"up", "gapDown"} /\ link' = [link EXCEPT ![p] = lost]
  BY DEF GattDisconnection
<1>2. p \in ConnectedPeers <=> Known(p)
  BY <1>1 DEF CountInv, EntryFollowsLink, ConnectedPeers
<1>3. IsFiniteSet(ConnectedPeers)
  BY PeersFacts, FS_Subset DEF ConnectedPeers
<1>4. ConnectionCount = 0 => ConnectedPeers = {}
  BY <1>3, FS_EmptySet DEF CountInv, CountsConnections
<1>5. EntryFollowsLink' /\ CountsConnections'
  <2>1. CASE ~Known(p)
    <3>1. UNCHANGED <<ConnectionCount, DeviceInfoList>>
      BY <2>1 DEF GattDisconnection, ForgetConnection
    <3>2. ConnectedPeers' = ConnectedPeers
      BY <3>1 DEF ConnectedPeers
    <3>3. EntryFollowsLink'
      BY <1>1, <2>1, <3>1 DEF CountInv, EntryFollowsLink, Known, LinksTypeOK
    <3>4. QED
      BY <3>1, <3>2, <3>3 DEF CountInv, CountsConnections
  <2>2. CASE Known(p)
    <3>1. ConnectionCount # 0
      BY <1>2, <1>4, <2>2
    <3>2. /\ ConnectionCount' = ConnectionCount - 1
          /\ DeviceInfoList'[p] = DisconnectedEntry(p)
          /\ \A q \in Peers \ {p} : DeviceInfoList'[q] = DeviceInfoList[q]
      BY <2>2, <3>1, GattEffects
    <3>3. ~DisconnectedEntry(p).Connected
      BY DisconnectedEntryFacts
    <3>4. ConnectedPeers' = ConnectedPeers \ {p}
      BY <3>2, <3>3 DEF ConnectedPeers
    <3>5. Cardinality(ConnectedPeers') = Cardinality(ConnectedPeers) - 1
      BY <1>2, <1>3, <2>2, <3>4, FS_RemoveElement
    <3>6. EntryFollowsLink'
      BY <1>1, <3>2, <3>3 DEF CountInv, EntryFollowsLink, Known, LinksTypeOK
    <3>7. QED
      BY <3>2, <3>5, <3>6 DEF CountInv, CountsConnections
  <2>3. QED
    BY <2>1, <2>2
<1>6. SelectedIsConnected'
  <2>1. SelectConnected
    BY DEF GattDisconnection
  <2>2. ConnectedPeers' = {q \in Peers : DeviceInfoList'[q].Connected}
    BY DEF ConnectedPeers
  <2>3. ConnectionCount' # 0 => ConnectedPeers' # {}
    BY <1>5, FS_EmptySet DEF CountsConnections
  <2>4. QED
    BY <2>1, <2>2, <2>3 DEF SelectConnected, SelectedIsConnected
<1>7. QED
  BY <1>5, <1>6 DEF CountInv

LEMMA CountStep == LinksTypeOK /\ CountInv /\ [LinksNext]_linkVars => CountInv'
<1> SUFFICES ASSUME LinksTypeOK, CountInv, [LinksNext]_linkVars PROVE CountInv'
  OBVIOUS
<1>1. CASE SecurityStep
  <2>1. \A p \in Peers : SameButFlags(DeviceInfoList'[p], DeviceInfoList[p])
    BY <1>1, SecurityKeepsEntries
  <2>2. UNCHANGED <<link, ConnectionCount, SelectedRemoteBD_ADDR>>
    BY <1>1, SecurityStepTypes DEF securityOnly
  <2>3. EntryFollowsLink'
    BY <2>1, <2>2 DEF CountInv, EntryFollowsLink, SameButFlags, Known
  <2>4. QED
    BY <2>1, <2>2, <2>3, SameConnections DEF CountInv
<1>2. CASE GapStep
  <2>1. EntryFollowsLink'
    BY <1>2, GapKeepsEntries, GapLinks
      DEF CountInv, EntryFollowsLink, SameButFlags, Known
  <2>2. QED
    BY <1>2, <2>1, GapKeepsEntries, SameConnections DEF CountInv
<1>3. CASE \E p \in Peers : GattConnection(p) \/ GattDisconnection(p)
  BY <1>3, GattConnectionCounts, GattDisconnectionCounts
<1>4. CASE UNCHANGED linkVars
  BY <1>4 DEF linkVars, stackVars, CountInv, EntryFollowsLink, Known,
              CountsConnections, SelectedIsConnected, ConnectedPeers
<1>5. QED
  BY <1>1, <1>2, <1>3, <1>4, StepKinds DEF LinkStep, GapStep

(* The relation of list, counter, selection and links always holds.        *)
LEMMA CountInvariant == LinksSpec => [](LinksTypeOK /\ CountInv)
<1>1. LinksInit => LinksTypeOK /\ CountInv
  BY TypeInit, CountInit
<1>2. LinksTypeOK /\ CountInv /\ [LinksNext]_linkVars => (LinksTypeOK /\ CountInv)'
  BY TypeStep, CountStep
<1>3. QED
  BY <1>1, <1>2, PTL DEF LinksSpec

(* GetConnectionCount returns the number of connected devices, however     *)
(* connections of phones and bulbs come and go and entries are deleted.    *)
THEOREM ConnectionsCounted == LinksSpec => []CountsConnections
<1>1. LinksTypeOK /\ CountInv => CountsConnections
  BY DEF CountInv
<1>2. QED
  BY <1>1, CountInvariant, PTL

(* While any device is connected, the selected one is.                     *)
THEOREM SelectedConnected == LinksSpec => []SelectedIsConnected
<1>1. LinksTypeOK /\ CountInv => SelectedIsConnected
  BY DEF CountInv
<1>2. QED
  BY <1>1, CountInvariant, PTL
-----------------------------------------------------------------------------
(* Encryption. *)

(* CheckEncryptionStatus's flag, and that no bulb ever has it: a bulb's    *)
(* entry keeps its flags when GAP reports the loss.                        *)
EncryptedInv ==
    \A p \in Peers : HasFlag(p, "ENCRYPTED") => p \in Mobiles /\ linkEncrypted[p]

(* GATT events never add a flag to an entry.                               *)
LEMMA GattAddsNoFlag ==
  ASSUME LinksTypeOK, NEW p \in Peers, GattConnection(p) \/ GattDisconnection(p)
  PROVE  \A q \in Peers : DeviceInfoList'[q].Flags \subseteq DeviceInfoList[q].Flags
<1>1. /\ ConnectedEntry(p).Flags \subseteq DeviceInfoList[p].Flags
      /\ DisconnectedEntry(p).Flags \subseteq DeviceInfoList[p].Flags
  BY ConnectedEntryFacts, DisconnectedEntryFacts DEF Flags
<1>2. QED
  BY <1>1, GattEffects

(* Nor do discovery callbacks.                                             *)
LEMMA ClearingAddsNoFlag ==
  ASSUME LinksTypeOK, ClearsDiscoveryFlag
  PROVE  \A q \in Peers : DeviceInfoList'[q].Flags \subseteq DeviceInfoList[q].Flags
  BY ClearedFlags DEF FlagsBecome, Flags

(* Adding or removing one flag of one entry leaves every other flag.       *)
LEMMA OneFlag ==
  ASSUME NEW q \in Peers, NEW f, NEW g, f # g,
         \/ FlagsBecome([Flags EXCEPT ![q] = @ \union {f}])
         \/ FlagsBecome([Flags EXCEPT ![q] = @ \ {f}])
  PROVE  \A p \in Peers : g \in DeviceInfoList'[p].Flags
                             <=> g \in DeviceInfoList[p].Flags
<1>1. CASE FlagsBecome([Flags EXCEPT ![q] = @ \union {f}])
  BY <1>1 DEF FlagsBecome, Flags
<1>2. CASE FlagsBecome([Flags EXCEPT ![q] = @ \ {f}])
  BY <1>2 DEF FlagsBecome, Flags
<1>3. QED
  BY <1>1, <1>2

LEMMA EncryptedStep ==
  ASSUME LinksTypeOK, EncryptedInv, [LinksNext]_linkVars
  PROVE  EncryptedInv'
<1> USE PeersFacts DEF EncryptedInv, HasFlag
<1>1. FlagsBecome(Flags) /\ UNCHANGED linkEncrypted => EncryptedInv'
  BY DEF FlagsBecome, Flags
<1>2. ASSUME NEW m \in Mobiles, MobileSecurityNext(m) PROVE EncryptedInv'
  <2>1. UNCHANGED linkEncrypted
    BY <1>2 DEF MobileSecurityNext, PairingRequest, LongTermKeyRequest,
                MobilePairingStatus
  <2>2. QED
    BY <1>1, <1>2, <2>1, SecurityFlags DEF MobileSecurityNext
<1>3. ASSUME NEW b \in Bulbs, BulbSecurityNext(b) PROVE EncryptedInv'
  <2>1. UNCHANGED linkEncrypted
    BY <1>3 DEF BulbSecurityNext, SecurityRequest, BulbPairingStatus,
                SecurityEstablishmentComplete
  <2>2. \/ FlagsBecome(Flags)
        \/ FlagsBecome([Flags EXCEPT ![b] =
                          @ \union {"SERVICE_DISCOVERY_OUTSTANDING"}])
        \/ FlagsBecome([Flags EXCEPT ![b] = @ \ {"LTK_VALID"}])
    BY <1>3, SecurityFlags DEF BulbSecurityNext
  <2>3. \A p \in Peers : "ENCRYPTED" \in DeviceInfoList'[p].Flags
                            => "ENCRYPTED" \in DeviceInfoList[p].Flags
    <3>1. b \in Peers
      OBVIOUS
    <3>2. CASE FlagsBecome(Flags)
      BY <3>2 DEF FlagsBecome, Flags
    <3>3. CASE FlagsBecome([Flags EXCEPT ![b] =
                              @ \union {"SERVICE_DISCOVERY_OUTSTANDING"}])
      BY <3>1, <3>3, OneFlag
    <3>4. CASE FlagsBecome([Flags EXCEPT ![b] = @ \ {"LTK_VALID"}])
      BY <3>1, <3>4, OneFlag
    <3>5. QED
      BY <2>2, <3>2, <3>3, <3>4
  <2>4. QED
    BY <2>1, <2>3
<1>4. ASSUME NEW b \in Bulbs, DiscoveryIndication(b) \/ DiscoveryComplete(b)
      PROVE  EncryptedInv'
  BY <1>4, ClearingAddsNoFlag DEF DiscoveryIndication, DiscoveryComplete
<1>5. ASSUME NEW p \in Peers, EncryptionChange(p) PROVE EncryptedInv'
  <2>1. linkEncrypted'[p] /\ \A q \in Peers : linkEncrypted[q] => linkEncrypted'[q]
    BY <1>5 DEF EncryptionChange, LinksTypeOK
  <2>2. \/ FlagsBecome(Flags)
        \/ p \in Mobiles /\ FlagsBecome([Flags EXCEPT ![p] = @ \union {"ENCRYPTED"}])
    BY <1>5, SecurityFlags
  <2>3. QED
    BY <2>1, <2>2 DEF FlagsBecome, Flags
<1>6. ASSUME NEW p \in Peers, EncryptionInformation(p) PROVE EncryptedInv'
  <2>1. UNCHANGED linkEncrypted
    BY <1>6 DEF EncryptionInformation
  <2>2. \/ FlagsBecome(Flags)
        \/ FlagsBecome([Flags EXCEPT ![p] = @ \union {"LTK_VALID"}])
    BY <1>6, SecurityFlags
  <2>3. \A q \in Peers : "ENCRYPTED" \in DeviceInfoList'[q].Flags
                            => "ENCRYPTED" \in DeviceInfoList[q].Flags
    BY <2>2, OneFlag DEF FlagsBecome, Flags
  <2>4. QED
    BY <2>1, <2>3
<1>7. ASSUME NEW m \in Mobiles, GapMobileConnected(m) PROVE EncryptedInv'
  BY <1>1, <1>7, GapFlags DEF GapMobileConnected
<1>8. ASSUME NEW m \in Mobiles, GapMobileDisconnected(m) PROVE EncryptedInv'
  <2>1. \A q \in Peers \ {m} : linkEncrypted'[q] = linkEncrypted[q]
    BY <1>8 DEF GapMobileDisconnected, GapReportsLoss, LinksTypeOK
  <2>2. FlagsBecome([Flags EXCEPT ![m] = @ \ {"ENCRYPTED"}])
    BY <1>8, GapFlags
  <2>3. QED
    BY <2>1, <2>2 DEF FlagsBecome, Flags
<1>9. ASSUME NEW b \in Bulbs, GapBulbConnected(b) PROVE EncryptedInv'
  BY <1>1, <1>9, GapFlags DEF GapBulbConnected
<1>10. ASSUME NEW b \in Bulbs, GapBulbDisconnected(b) PROVE EncryptedInv'
  <2>1. \A q \in Peers \ {b} : linkEncrypted'[q] = linkEncrypted[q]
    BY <1>10 DEF GapBulbDisconnected, GapReportsLoss, LinksTypeOK
  <2>2. FlagsBecome(Flags)
    BY <1>10, GapFlags
  <2>3. QED
    BY <2>1, <2>2 DEF FlagsBecome, Flags
<1>11. ASSUME NEW p \in Peers, GattConnection(p) \/ GattDisconnection(p)
       PROVE  EncryptedInv'
  <2>1. UNCHANGED linkEncrypted
    BY <1>11 DEF GattConnection, GattDisconnection
  <2>2. QED
    BY <1>11, <2>1, GattAddsNoFlag
<1>12. CASE UNCHANGED linkVars
  BY <1>12 DEF linkVars, stackVars
<1>13. QED
  BY <1>2, <1>3, <1>4, <1>5, <1>6, <1>7, <1>8, <1>9, <1>10, <1>11, <1>12
    DEF LinksNext

(* CheckEncryptionStatus is true only on a link whose encryption was       *)
(* reported: whatever the order in which GAP and GATT report losses, the   *)
(* flag of a bonded phone does not survive into its next connection.       *)
THEOREM EncryptionIsCurrent == LinksSpec => []EncryptedOnThisLink
<1>1. LinksInit => EncryptedInv
  BY FlagsInit DEF EncryptedInv, HasFlag, Flags
<1>2. LinksTypeOK /\ EncryptedInv /\ [LinksNext]_linkVars => EncryptedInv'
  BY EncryptedStep
<1>3. EncryptedInv => EncryptedOnThisLink
  BY DEF EncryptedInv, EncryptedOnThisLink
<1>4. QED
  BY <1>1, <1>2, <1>3, TypeCorrect, PTL DEF LinksSpec
-----------------------------------------------------------------------------
(* The globals that carry a connection from GAP to GATT. *)

(* Between the two reports of a connection the globals hold the values of  *)
(* that link, because no other connection is reported meanwhile.           *)
GlobalsHoldRole ==
    \A p \in Peers :
      link[p] = "gap" => /\ LocalDeviceIsMaster <=> p \in Bulbs
                         /\ RemoteAddressType = AddressTypeOf(p)

RoleInv == GlobalsHoldRole /\ EntryHasItsRole

LEMMA RoleStep ==
  ASSUME LinksTypeOK, RoleInv, [LinksNext]_linkVars
  PROVE  RoleInv'
<1> USE PeersFacts
<1>1. CASE SecurityStep
  <2>1. \A p \in Peers : SameButFlags(DeviceInfoList'[p], DeviceInfoList[p])
    BY <1>1, SecurityKeepsEntries
  <2>2. UNCHANGED <<link, LocalDeviceIsMaster, RemoteAddressType>>
    BY <1>1, SecurityStepTypes DEF securityOnly, tempVars
  <2>3. QED
    BY <2>1, <2>2 DEF RoleInv, GlobalsHoldRole, EntryHasItsRole,
                      ConnectedPeers, SameButFlags
<1>2. CASE GapStep
  <2>1. \A p \in Peers : SameButFlags(DeviceInfoList'[p], DeviceInfoList[p])
    BY <1>2, GapKeepsEntries
  <2>2. EntryHasItsRole'
    BY <2>1 DEF RoleInv, EntryHasItsRole, ConnectedPeers, SameButFlags
  <2>3. ASSUME NEW m \in Mobiles, GapMobileConnected(m) PROVE GlobalsHoldRole'
    BY <2>3 DEF GapMobileConnected, ReportsConnection, GlobalsHoldRole,
                LinksTypeOK
  <2>4. ASSUME NEW b \in Bulbs, GapBulbConnected(b) PROVE GlobalsHoldRole'
    BY <2>4 DEF GapBulbConnected, ReportsConnection, GlobalsHoldRole,
                LinksTypeOK
  <2>5. ASSUME NEW p \in Peers, GapReportsLoss(p), UNCHANGED tempVars
        PROVE  GlobalsHoldRole'
    BY <2>5 DEF GapReportsLoss, GlobalsHoldRole, RoleInv, LinksTypeOK, tempVars
  <2>6. QED
    BY <1>2, <2>2, <2>3, <2>4, <2>5
      DEF GapStep, RoleInv, GapMobileDisconnected, GapBulbDisconnected
<1>3. ASSUME NEW p \in Peers, GattConnection(p) PROVE RoleInv'
  <2>1. /\ link[p] = "gap" /\ link' = [link EXCEPT ![p] = "up"]
        /\ UNCHANGED <<LocalDeviceIsMaster, RemoteAddressType>>
    BY <1>3 DEF GattConnection, tempVars
  <2>2. GlobalsHoldRole'
    BY <2>1 DEF RoleInv, GlobalsHoldRole, LinksTypeOK
  <2>3. /\ LocalDeviceIsMaster <=> p \in Bulbs
        /\ RemoteAddressType = AddressTypeOf(p)
    BY <2>1 DEF RoleInv, GlobalsHoldRole
  <2>4. /\ ConnectedEntry(p).RemoteDeviceIsMaster <=> p \in Mobiles
        /\ ConnectedEntry(p).RemoteAddressType = AddressTypeOf(p)
    BY <2>3, ConnectedEntryFacts DEF Peers
  <2>5. EntryHasItsRole'
    BY <1>3, <2>4, GattEffects DEF RoleInv, EntryHasItsRole, ConnectedPeers
  <2>6. QED
    BY <2>2, <2>5 DEF RoleInv
<1>4. ASSUME NEW p \in Peers, GattDisconnection(p) PROVE RoleInv'
  <2>1. \A q \in Peers : link'[q] = "gap" => link[q] = "gap"
    BY <1>4 DEF GattDisconnection, LinksTypeOK
  <2>2. UNCHANGED <<LocalDeviceIsMaster, RemoteAddressType>>
    BY <1>4 DEF GattDisconnection, tempVars
  <2>3. EntryHasItsRole'
    BY <1>4, GattEffects, DisconnectedEntryFacts
      DEF RoleInv, EntryHasItsRole, ConnectedPeers
  <2>4. QED
    BY <2>1, <2>2, <2>3 DEF RoleInv, GlobalsHoldRole
<1>5. CASE UNCHANGED linkVars
  BY <1>5 DEF linkVars, stackVars, tempVars, RoleInv, GlobalsHoldRole,
              EntryHasItsRole, ConnectedPeers
<1>6. QED
  BY <1>1, <1>2, <1>3, <1>4, <1>5, StepKinds DEF LinkStep, GapStep

(* Every connected entry has the role and the address type of its own      *)
(* device, although both pass through globals all links share.             *)
THEOREM RoleIsOwn == LinksSpec => []EntryHasItsRole
<1>1. LinksInit => RoleInv
  BY FlagsInit DEF LinksInit, RoleInv, GlobalsHoldRole, EntryHasItsRole,
                   ConnectedPeers
<1>2. LinksTypeOK /\ RoleInv /\ [LinksNext]_linkVars => RoleInv'
  BY RoleStep
<1>3. RoleInv => EntryHasItsRole
  BY DEF RoleInv
<1>4. QED
  BY <1>1, <1>2, <1>3, TypeCorrect, PTL DEF LinksSpec

-----------------------------------------------------------------------------
(* What a lost link leaves behind. *)

(* Only re-establishing security takes a key away, and only while the link *)
(* is up.                                                                  *)
LEMMA KeysStay ==
  ASSUME LinksTypeOK, SecurityStep
  PROVE  \A p \in Peers :
           link[p] # "up" /\ "LTK_VALID" \in DeviceInfoList[p].Flags
             => "LTK_VALID" \in DeviceInfoList'[p].Flags
<1> DEFINE Stays ==
      \A p \in Peers :
        link[p] # "up" /\ "LTK_VALID" \in DeviceInfoList[p].Flags
          => "LTK_VALID" \in DeviceInfoList'[p].Flags
<1>1. FlagsBecome(Flags) => Stays
  BY DEF FlagsBecome, Flags
<1>2. ASSUME NEW q \in Peers, NEW f, f # "LTK_VALID",
             FlagsBecome([Flags EXCEPT ![q] = @ \union {f}])
      PROVE  Stays
  BY <1>2, OneFlag
<1>3. ASSUME NEW b \in Bulbs, NEW k \in BOOLEAN,
             SecurityEstablishmentComplete(b, k)
      PROVE  Stays
  <2>1. b \in Peers /\ link[b] = "up"
    BY <1>3, PeersFacts DEF SecurityEstablishmentComplete
  <2>2. CASE FlagsBecome([Flags EXCEPT ![b] = @ \ {"LTK_VALID"}])
    BY <2>1, <2>2 DEF FlagsBecome, Flags
  <2>3. QED
    BY <1>1, <1>3, <2>2, SecurityFlags
<1>4. ASSUME NEW b \in Bulbs, NEW s \in BOOLEAN, NEW k \in BOOLEAN,
             BulbPairingStatus(b, s, k)
      PROVE  Stays
  <2>1. b \in Peers
    BY PeersFacts
  <2>2. QED
    BY <1>1, <1>2, <1>4, <2>1, SecurityFlags
<1>5. ASSUME NEW b \in Bulbs, DiscoveryIndication(b) \/ DiscoveryComplete(b)
      PROVE  Stays
  <2>1. ClearsDiscoveryFlag
    BY <1>5 DEF DiscoveryIndication, DiscoveryComplete
  <2>2. QED
    BY <2>1, ClearedFlags DEF FlagsBecome, Flags
<1>6. ASSUME NEW p \in Peers, EncryptionChange(p)
      PROVE  Stays
  <2>1. "ENCRYPTED" # "LTK_VALID"
    OBVIOUS
  <2>2. QED
    BY <1>1, <1>2, <1>6, <2>1, SecurityFlags
<1>7. ASSUME NEW p \in Peers, EncryptionInformation(p)
      PROVE  Stays
  <2>1. CASE FlagsBecome([Flags EXCEPT ![p] = @ \union {"LTK_VALID"}])
    BY <2>1 DEF FlagsBecome, Flags
  <2>2. QED
    BY <1>1, <1>7, <2>1, SecurityFlags
<1>8. ASSUME NEW m \in Mobiles, MobileSecurityNext(m)
      PROVE  Stays
  BY <1>1, <1>8, SecurityFlags DEF MobileSecurityNext
<1>9. ASSUME NEW b \in Bulbs, SecurityRequest(b)
      PROVE  Stays
  BY <1>1, <1>9, SecurityFlags
<1>10. Stays
  <2> HIDE DEF Stays
  <2>1. QED
    BY <1>3, <1>4, <1>5, <1>6, <1>7, <1>8, <1>9
      DEF SecurityStep, BulbSecurityNext
<1>11. QED
  BY <1>10

LEMMA BondedStep ==
  ASSUME LinksTypeOK, CountInv, OnlyBondedRemain, [LinksNext]_linkVars
  PROVE  OnlyBondedRemain'
<1> USE PeersFacts DEF OnlyBondedRemain, HasFlag, Known
<1>1. CASE SecurityStep
  <2>1. \A p \in Peers : SameButFlags(DeviceInfoList'[p], DeviceInfoList[p])
    BY <1>1, SecurityKeepsEntries
  <2>2. UNCHANGED link
    BY <1>1, SecurityStepTypes DEF securityOnly
  <2>3. QED
    BY <1>1, <2>1, <2>2, KeysStay DEF SameButFlags
<1>2. CASE GapStep
  <2>1. \A p \in Peers : DeviceInfoList'[p].present = DeviceInfoList[p].present
    BY <1>2, GapKeepsEntries DEF SameButFlags
  <2>2. \A p \in Peers : "LTK_VALID" \in DeviceInfoList[p].Flags
                           => "LTK_VALID" \in DeviceInfoList'[p].Flags
    <3>1. FlagsBecome(Flags)
            => \A p \in Peers : DeviceInfoList'[p].Flags = DeviceInfoList[p].Flags
      BY DEF FlagsBecome, Flags
    <3>2. ASSUME NEW m \in Mobiles, FlagsBecome([Flags EXCEPT ![m] = @ \ {"ENCRYPTED"}])
          PROVE  \A p \in Peers : "LTK_VALID" \in DeviceInfoList[p].Flags
                                    => "LTK_VALID" \in DeviceInfoList'[p].Flags
      <4>1. "ENCRYPTED" # "LTK_VALID" /\ m \in Peers
        OBVIOUS
      <4>2. QED
        BY <3>2, <4>1, OneFlag
    <3>3. QED
      BY <1>2, <3>1, <3>2, GapFlags DEF GapStep
  <2>3. \A p \in Peers : link'[p] \in {"down", "gattDown"}
                           => link[p] \in {"down", "gattDown"}
    BY <1>2, GapLinks
  <2>4. QED
    BY <2>1, <2>2, <2>3
<1>3. ASSUME NEW p \in Peers, GattConnection(p) PROVE OnlyBondedRemain'
  <2>1. link' = [link EXCEPT ![p] = "up"]
    BY <1>3 DEF GattConnection
  <2>2. \A q \in Peers \ {p} : DeviceInfoList'[q] = DeviceInfoList[q]
    BY <1>3, GattEffects
  <2>3. QED
    BY <2>1, <2>2 DEF LinksTypeOK
<1>4. ASSUME NEW p \in Peers, GattDisconnection(p) PROVE OnlyBondedRemain'
  <2>1. /\ link[p] \in {"up", "gapDown"}
        /\ \A q \in Peers \ {p} : link'[q] = link[q]
    BY <1>4 DEF GattDisconnection, LinksTypeOK
  <2>2. CASE DeviceInfoList'[p] = DisconnectedEntry(p)
             /\ \A q \in Peers \ {p} : DeviceInfoList'[q] = DeviceInfoList[q]
    <3>1. DisconnectedEntry(p).present =>
            "LTK_VALID" \in DisconnectedEntry(p).Flags
      BY DisconnectedEntryFacts DEF Flags
    <3>2. QED
      BY <2>1, <2>2, <3>1
  <2>3. CASE UNCHANGED DeviceInfoList /\ ~Known(p)
    BY <2>1, <2>3
  <2>4. CASE UNCHANGED DeviceInfoList /\ ConnectionCount = 0
    <3>1. ConnectedPeers = {}
      BY <2>4, PeersFacts, FS_Subset, FS_EmptySet
        DEF CountInv, CountsConnections, ConnectedPeers
    <3>2. ~Known(p)
      BY <2>1, <3>1 DEF CountInv, EntryFollowsLink, ConnectedPeers
    <3>3. QED
      BY <2>3, <2>4, <3>2
  <2>5. QED
    BY <1>4, <2>2, <2>3, <2>4, GattEffects
<1>5. CASE UNCHANGED linkVars
  BY <1>5 DEF linkVars, stackVars
<1>6. QED
  BY <1>1, <1>2, <1>3, <1>4, <1>5, StepKinds DEF LinkStep, GapStep

(* A device that has not paired leaves no entry behind when its link is    *)
(* lost, in whichever order GAP and GATT report that.                      *)
THEOREM OnlyBondedStay == LinksSpec => []OnlyBondedRemain
<1>1. LinksInit => OnlyBondedRemain
  BY FlagsInit DEF OnlyBondedRemain
<1>2. (LinksTypeOK /\ CountInv) /\ OnlyBondedRemain /\ [LinksNext]_linkVars
        => OnlyBondedRemain'
  BY BondedStep
<1>3. QED
  BY <1>1, <1>2, CountInvariant, PTL DEF LinksSpec
-----------------------------------------------------------------------------
(* DeviceLinks implements LinkView. *)

(* An encryption ends with the loss GAP reports.                           *)
EncryptionNeedsLink ==
    \A p \in Peers : linkEncrypted[p] => link[p] \in {"up", "gattDown"}

LEMMA NeedsLinkStep ==
  ASSUME LinksTypeOK, EncryptionNeedsLink, [LinksNext]_linkVars
  PROVE  EncryptionNeedsLink'
<1> USE PeersFacts DEF LinksTypeOK, EncryptionNeedsLink
<1>1. ASSUME NEW m \in Mobiles, MobileSecurityNext(m)
      PROVE  EncryptionNeedsLink'
  BY <1>1 DEF MobileSecurityNext, PairingRequest, LongTermKeyRequest,
              MobilePairingStatus, securityOnly
<1>2. ASSUME NEW b \in Bulbs, BulbSecurityNext(b)
      PROVE  EncryptionNeedsLink'
  BY <1>2 DEF BulbSecurityNext, SecurityRequest, BulbPairingStatus,
              SecurityEstablishmentComplete, securityOnly
<1>3. ASSUME NEW b \in Bulbs, DiscoveryIndication(b) \/ DiscoveryComplete(b)
      PROVE  EncryptionNeedsLink'
  BY <1>3 DEF DiscoveryIndication, DiscoveryComplete, securityOnly
<1>4. ASSUME NEW p \in Peers, EncryptionChange(p) \/ EncryptionInformation(p)
      PROVE  EncryptionNeedsLink'
  BY <1>4 DEF EncryptionChange, EncryptionInformation, securityOnly
<1>5. ASSUME NEW p \in Peers, ReportsConnection(p), UNCHANGED linkEncrypted
      PROVE  EncryptionNeedsLink'
  BY <1>5 DEF ReportsConnection
<1>6. ASSUME NEW p \in Peers, GapReportsLoss(p)
      PROVE  EncryptionNeedsLink'
  BY <1>6 DEF GapReportsLoss
<1>7. ASSUME NEW p \in Peers, GattConnection(p) \/ GattDisconnection(p)
      PROVE  EncryptionNeedsLink'
  BY <1>7 DEF GattConnection, GattDisconnection
<1>8. CASE UNCHANGED linkVars
  BY <1>8 DEF linkVars, stackVars
<1>9. QED
  BY <1>1, <1>2, <1>3, <1>4, <1>5, <1>6, <1>7, <1>8
    DEF LinksNext, GapMobileConnected, GapMobileDisconnected,
        GapBulbConnected, GapBulbDisconnected

(* What the refinement mapping calls encrypted and discovery.              *)
EncryptedPeers == {p \in Peers : HasFlag(p, "ENCRYPTED")}
DiscoveringPeers == {p \in Peers : discovering[p]}

ViewInv == LinksTypeOK /\ CountInv /\ EncryptedInv /\ EncryptionNeedsLink

(* A list whose entries differ only in flags other than ENCRYPTED looks    *)
(* the same.                                                               *)
LEMMA SameView ==
  ASSUME \A p \in Peers : DeviceInfoList'[p].Connected = DeviceInfoList[p].Connected,
         \A p \in Peers : "ENCRYPTED" \in DeviceInfoList'[p].Flags
                            <=> "ENCRYPTED" \in DeviceInfoList[p].Flags
  PROVE  UNCHANGED <<ConnectedPeers, EncryptedPeers>>
  BY DEF ConnectedPeers, EncryptedPeers, HasFlag

LEMMA ViewOfFlags ==
  ASSUME \/ FlagsBecome(Flags)
         \/ \E q \in Peers, f \in {"LTK_VALID", "SERVICE_DISCOVERY_OUTSTANDING"} :
              \/ FlagsBecome([Flags EXCEPT ![q] = @ \union {f}])
              \/ FlagsBecome([Flags EXCEPT ![q] = @ \ {f}])
  PROVE  UNCHANGED <<ConnectedPeers, EncryptedPeers>>
<1>1. \A p \in Peers : DeviceInfoList'[p].Connected = DeviceInfoList[p].Connected
  BY DEF FlagsBecome, SameButFlags
<1>2. CASE FlagsBecome(Flags)
  BY <1>1, <1>2, SameView DEF FlagsBecome, Flags
<1>3. ASSUME NEW q \in Peers,
             NEW f \in {"LTK_VALID", "SERVICE_DISCOVERY_OUTSTANDING"},
             \/ FlagsBecome([Flags EXCEPT ![q] = @ \union {f}])
             \/ FlagsBecome([Flags EXCEPT ![q] = @ \ {f}])
      PROVE  UNCHANGED <<ConnectedPeers, EncryptedPeers>>
  <2>1. f # "ENCRYPTED"
    OBVIOUS
  <2>2. \A p \in Peers : "ENCRYPTED" \in DeviceInfoList'[p].Flags
                           <=> "ENCRYPTED" \in DeviceInfoList[p].Flags
    BY <1>3, <2>1, OneFlag
  <2>3. QED
    BY <1>1, <2>2, SameView
<1>4. QED
  BY <1>2, <1>3

(* The variables of the view, for the actions that stutter in it.          *)
SameLinks ==
    UNCHANGED <<link, ConnectedPeers, EncryptedPeers, Current_Conn_Addr,
                DiscoveringPeers>>

LEMMA SecurityViewStep ==
  ASSUME ViewInv, SecurityStep
  PROVE  [View!ViewNext]_(View!viewVars)
<1> USE PeersFacts
<1> USE DEF ViewInv
<1>1. UNCHANGED <<link, Current_Conn_Addr>>
  BY SecurityStepTypes DEF securityOnly
<1>2. SameLinks => [View!ViewNext]_(View!viewVars)
  BY DEF SameLinks, View!viewVars, EncryptedPeers, DiscoveringPeers
<1>3. ASSUME NEW m \in Mobiles, MobileSecurityNext(m) PROVE SameLinks
  <2>1. FlagsBecome(Flags)
    BY <1>3, SecurityFlags DEF MobileSecurityNext
  <2>2. UNCHANGED discovering
    BY <1>3 DEF MobileSecurityNext, PairingRequest, LongTermKeyRequest,
                MobilePairingStatus
  <2>3. QED
    BY <1>1, <2>1, <2>2, ViewOfFlags DEF SameLinks, DiscoveringPeers
<1>4. ASSUME NEW b \in Bulbs, \/ SecurityRequest(b)
                              \/ \E k \in BOOLEAN : SecurityEstablishmentComplete(b, k)
      PROVE  SameLinks
  <2>1. \/ FlagsBecome(Flags)
        \/ FlagsBecome([Flags EXCEPT ![b] = @ \ {"LTK_VALID"}])
    BY <1>4, SecurityFlags
  <2>2. UNCHANGED <<ConnectedPeers, EncryptedPeers>>
    BY <2>1, ViewOfFlags
  <2>3. UNCHANGED discovering
    BY <1>4 DEF SecurityRequest, SecurityEstablishmentComplete
  <2>4. QED
    BY <1>1, <2>2, <2>3 DEF SameLinks, DiscoveringPeers
<1>5. ASSUME NEW b \in Bulbs, NEW s \in BOOLEAN, NEW k \in BOOLEAN,
             BulbPairingStatus(b, s, k)
      PROVE  [View!ViewNext]_(View!viewVars)
  <2>1. UNCHANGED <<ConnectedPeers, EncryptedPeers>>
    BY <1>5, SecurityFlags, ViewOfFlags
  <2>2. CASE UNCHANGED discovering
    BY <1>1, <1>2, <2>1, <2>2 DEF SameLinks, DiscoveringPeers
  <2>3. CASE ~UNCHANGED discovering
    <3>1. DiscoverBLBDServices(b) /\ link[b] = "up"
      BY <1>5, <2>3 DEF BulbPairingStatus
    <3>2. Known(b) /\ discovering' = [discovering EXCEPT ![b] = TRUE]
      BY <2>3, <3>1 DEF DiscoverBLBDServices
    <3>3. b \in ConnectedPeers
      BY <3>1, <3>2 DEF CountInv, EntryFollowsLink, ConnectedPeers
    <3>4. DiscoveringPeers' = DiscoveringPeers \union {b}
      BY <3>2 DEF DiscoveringPeers, LinksTypeOK
    <3>5. View!StartDiscovery(b)
      BY <1>1, <2>1, <3>1, <3>3, <3>4
        DEF View!StartDiscovery, EncryptedPeers, DiscoveringPeers
    <3>6. QED
      BY <3>5 DEF View!ViewNext
  <2>4. QED
    BY <2>2, <2>3
<1>6. ASSUME NEW b \in Bulbs, ClearsDiscoveryFlag
      PROVE  UNCHANGED <<ConnectedPeers, EncryptedPeers>>
  <2>1. \A p \in Peers : /\ DeviceInfoList'[p].Connected = DeviceInfoList[p].Connected
                         /\ "ENCRYPTED" \in DeviceInfoList'[p].Flags
                              <=> "ENCRYPTED" \in DeviceInfoList[p].Flags
    BY <1>6, ClearedFlags DEF FlagsBecome, SameButFlags, Flags
  <2>2. QED
    BY <2>1, SameView
<1>7. ASSUME NEW b \in Bulbs, DiscoveryIndication(b) PROVE SameLinks
  BY <1>1, <1>6, <1>7 DEF DiscoveryIndication, SameLinks, DiscoveringPeers
<1>8. ASSUME NEW b \in Bulbs, DiscoveryComplete(b)
      PROVE  [View!ViewNext]_(View!viewVars)
  <2>1. UNCHANGED <<ConnectedPeers, EncryptedPeers>>
    BY <1>6, <1>8 DEF DiscoveryComplete
  <2>2. DiscoveringPeers' = DiscoveringPeers \ {b}
    BY <1>8 DEF DiscoveryComplete, DiscoveringPeers, LinksTypeOK
  <2>3. View!EndDiscovery(b)
    BY <1>1, <2>1, <2>2 DEF View!EndDiscovery, EncryptedPeers, DiscoveringPeers
  <2>4. QED
    BY <2>3 DEF View!ViewNext
<1>9. ASSUME NEW p \in Peers, EncryptionInformation(p) PROVE SameLinks
  <2>1. UNCHANGED <<ConnectedPeers, EncryptedPeers>>
    BY <1>9, SecurityFlags, ViewOfFlags
  <2>2. QED
    BY <1>1, <1>9, <2>1 DEF EncryptionInformation, SameLinks, DiscoveringPeers
<1>10. ASSUME NEW p \in Peers, EncryptionChange(p)
       PROVE  [View!ViewNext]_(View!viewVars)
  <2>1. link[p] = "up" /\ UNCHANGED discovering
    BY <1>10 DEF EncryptionChange
  <2>2. CASE FlagsBecome(Flags)
    BY <1>1, <1>2, <2>1, <2>2, ViewOfFlags DEF SameLinks, DiscoveringPeers
  <2>3. CASE p \in Mobiles /\ FlagsBecome([Flags EXCEPT ![p] = @ \union {"ENCRYPTED"}])
    <3>1. ConnectedPeers' = ConnectedPeers
      BY <2>3 DEF ConnectedPeers, FlagsBecome, SameButFlags
    <3>2. EncryptedPeers' = EncryptedPeers \union {p}
      BY <2>3 DEF EncryptedPeers, HasFlag, FlagsBecome, Flags
    <3>3. View!Encrypt(p)
      BY <1>1, <2>1, <3>1, <3>2
        DEF View!Encrypt, EncryptedPeers, DiscoveringPeers
    <3>4. QED
      BY <2>3, <3>3 DEF View!ViewNext
  <2>4. QED
    BY <1>10, <2>2, <2>3, SecurityFlags
<1>11. QED
  BY <1>2, <1>3, <1>4, <1>5, <1>7, <1>8, <1>9, <1>10
    DEF SecurityStep, BulbSecurityNext
LEMMA GapViewStep ==
  ASSUME ViewInv, GapStep
  PROVE  View!ViewNext
<1> USE PeersFacts
<1> USE DEF ViewInv
<1>1. ConnectedPeers' = ConnectedPeers
  BY GapKeepsEntries DEF ConnectedPeers, SameButFlags
<1>2. FlagsBecome(Flags) => EncryptedPeers' = EncryptedPeers
  BY DEF FlagsBecome, Flags, EncryptedPeers, HasFlag
<1>3. ASSUME NEW p \in Peers, ReportsConnection(p),
             UNCHANGED <<discovering, EncryptedPeers>>,
             Current_Conn_Addr' = IF p \in Bulbs THEN p ELSE Current_Conn_Addr
      PROVE  View!GapUp(p)
  <2>1. DiscoveringPeers' = DiscoveringPeers
    BY <1>3 DEF DiscoveringPeers
  <2>2. QED
    BY <1>1, <1>3, <2>1
      DEF View!GapUp, View!Peers, Peers, ReportsConnection, EncryptedPeers,
          DiscoveringPeers
<1>4. ASSUME NEW p \in Peers, GapReportsLoss(p),
             EncryptedPeers' = EncryptedPeers \ {p},
             Current_Conn_Addr' = IF p \in Bulbs THEN NullAddr ELSE Current_Conn_Addr
      PROVE  View!GapDown(p)
  <2>1. DiscoveringPeers' = DiscoveringPeers \ {p}
    BY <1>4 DEF DiscoveringPeers, GapReportsLoss, StackForgets, LinksTypeOK
  <2>2. QED
    BY <1>1, <1>4, <2>1
      DEF View!GapDown, GapReportsLoss, EncryptedPeers, DiscoveringPeers
<1>5. ASSUME NEW m \in Mobiles, GapMobileConnected(m) PROVE View!GapUp(m)
  BY <1>2, <1>3, <1>5, GapFlags DEF GapMobileConnected
<1>6. ASSUME NEW b \in Bulbs, GapBulbConnected(b) PROVE View!GapUp(b)
  BY <1>2, <1>3, <1>6, GapFlags DEF GapBulbConnected
<1>7. ASSUME NEW m \in Mobiles, GapMobileDisconnected(m) PROVE View!GapDown(m)
  <2>1. FlagsBecome([Flags EXCEPT ![m] = @ \ {"ENCRYPTED"}])
    BY <1>7, GapFlags
  <2>2. EncryptedPeers' = EncryptedPeers \ {m}
    BY <2>1 DEF FlagsBecome, Flags, EncryptedPeers, HasFlag
  <2>3. QED
    BY <1>4, <1>7, <2>2 DEF GapMobileDisconnected
<1>8. ASSUME NEW b \in Bulbs, GapBulbDisconnected(b) PROVE View!GapDown(b)
  <2>1. b \notin EncryptedPeers
    BY DEF EncryptedInv, EncryptedPeers
  <2>2. EncryptedPeers' = EncryptedPeers \ {b}
    BY <1>2, <1>8, <2>1, GapFlags
  <2>3. QED
    BY <1>4, <1>8, <2>2 DEF GapBulbDisconnected
<1>9. QED
  BY <1>5, <1>6, <1>7, <1>8 DEF GapStep, View!ViewNext, View!Peers

LEMMA GattViewStep ==
  ASSUME ViewInv, NEW p \in Peers, GattConnection(p) \/ GattDisconnection(p)
  PROVE  View!ViewNext
<1> USE PeersFacts
<1> USE DEF ViewInv
<1>1. UNCHANGED Current_Conn_Addr
  BY DEF GattConnection, GattDisconnection
<1>2. CASE GattConnection(p)
  <2>1. link[p] = "gap" /\ link' = [link EXCEPT ![p] = "up"]
    BY <1>2 DEF GattConnection
  <2>2. DiscoveringPeers' = DiscoveringPeers
    BY <1>2 DEF GattConnection, DiscoveringPeers
  <2>3. p \notin EncryptedPeers
    BY <2>1 DEF EncryptedInv, EncryptionNeedsLink, EncryptedPeers
  <2>4. ConnectedPeers' \in {ConnectedPeers, ConnectedPeers \union {p}}
    BY <1>2, GattEffects, ConnectedEntryFacts DEF ConnectedPeers
  <2>5. EncryptedPeers' = EncryptedPeers
    <3>1. "ENCRYPTED" \notin DeviceInfoList'[p].Flags
      BY <1>2, <2>3, GattAddsNoFlag DEF EncryptedPeers, HasFlag
    <3>2. \A q \in Peers \ {p} : DeviceInfoList'[q] = DeviceInfoList[q]
      BY <1>2, GattEffects
    <3>3. QED
      BY <2>3, <3>1, <3>2 DEF EncryptedPeers, HasFlag
  <2>6. View!GattUp(p)
    BY <1>1, <2>1, <2>2, <2>4, <2>5
      DEF View!GattUp, EncryptedPeers, DiscoveringPeers
  <2>7. QED
    BY <2>6 DEF View!ViewNext, View!Peers, Peers
<1>3. CASE GattDisconnection(p)
  <2>1. /\ link[p] \in {"up", "gapDown"}
        /\ link' = [link EXCEPT ![p] = IF @ = "up" THEN "gattDown" ELSE "down"]
    BY <1>3 DEF GattDisconnection
  <2>2. DiscoveringPeers' = DiscoveringPeers \ {p}
    BY <1>3 DEF GattDisconnection, StackForgets, DiscoveringPeers, LinksTypeOK
  <2>3. p \notin ConnectedPeers'
    <3>1. CountInv'
      BY <1>3, GattDisconnectionCounts
    <3>2. link'[p] \notin {"up", "gapDown"}
      BY <2>1 DEF LinksTypeOK
    <3>3. QED
      BY <3>1, <3>2 DEF CountInv, EntryFollowsLink, ConnectedPeers
  <2>4. \A q \in Peers \ {p} : DeviceInfoList'[q] = DeviceInfoList[q]
    BY <1>3, GattEffects
  <2>5. ConnectedPeers' = ConnectedPeers \ {p}
    BY <2>3, <2>4 DEF ConnectedPeers
  <2>6. EncryptedPeers' \in {EncryptedPeers, EncryptedPeers \ {p}}
    <3>1. \A q \in Peers \ {p} : q \in EncryptedPeers' <=> q \in EncryptedPeers
      BY <2>4 DEF EncryptedPeers, HasFlag
    <3>2. p \in EncryptedPeers' => p \in EncryptedPeers
      BY <1>3, GattAddsNoFlag DEF EncryptedPeers, HasFlag
    <3>3. EncryptedPeers' \subseteq Peers /\ EncryptedPeers \subseteq Peers
      BY DEF EncryptedPeers
    <3>4. QED
      BY <3>1, <3>2, <3>3
  <2>7. View!GattDown(p)
    BY <1>1, <2>1, <2>2, <2>5, <2>6
      DEF View!GattDown, EncryptedPeers, DiscoveringPeers
  <2>8. QED
    BY <2>7 DEF View!ViewNext, View!Peers, Peers
<1>4. QED
  BY <1>2, <1>3

LEMMA ViewStep ==
  ASSUME ViewInv, [LinksNext]_linkVars
  PROVE  [View!ViewNext]_(View!viewVars)
<1>1. CASE SecurityStep
  BY <1>1, SecurityViewStep
<1>2. CASE GapStep
  BY <1>2, GapViewStep
<1>3. CASE \E p \in Peers : GattConnection(p) \/ GattDisconnection(p)
  BY <1>3, GattViewStep
<1>4. CASE UNCHANGED linkVars
  BY <1>4 DEF linkVars, stackVars, View!viewVars, ConnectedPeers, HasFlag
<1>5. QED
  BY <1>1, <1>2, <1>3, <1>4, StepKinds DEF LinkStep, GapStep

LEMMA ViewInitial == LinksInit => View!ViewInit
<1> SUFFICES ASSUME LinksInit PROVE View!ViewInit
  OBVIOUS
<1>1. \A p \in Peers : ~DeviceInfoList[p].Connected /\ ~HasFlag(p, "ENCRYPTED")
  BY FlagsInit DEF HasFlag, Flags
<1>2. /\ link = [p \in Peers |-> "down"]
      /\ Current_Conn_Addr = NullAddr
      /\ \A p \in Peers : ~discovering[p]
  BY DEF LinksInit
<1>3. QED
  BY <1>1, <1>2 DEF View!ViewInit, View!Peers, Peers, ConnectedPeers

(* The list, the counter, the slots and the keys implement the view of the *)
(* links that the home controller is built on.                             *)
THEOREM LinksRefineView == LinksSpec => ImplementsView
<1>1. LinksInit => EncryptedInv /\ EncryptionNeedsLink
  BY FlagsInit
    DEF LinksInit, EncryptedInv, EncryptionNeedsLink, HasFlag, Flags
<1>2. LinksTypeOK /\ EncryptedInv /\ EncryptionNeedsLink /\ [LinksNext]_linkVars
        => EncryptedInv' /\ EncryptionNeedsLink'
  BY EncryptedStep, NeedsLinkStep
<1>3. LinksSpec => []ViewInv
  BY <1>1, <1>2, CountInvariant, PTL DEF LinksSpec, ViewInv
<1>4. ViewInv /\ [LinksNext]_linkVars => [View!ViewNext]_(View!viewVars)
  BY ViewStep
<1>5. QED
  BY <1>3, <1>4, ViewInitial, PTL DEF LinksSpec, ImplementsView, View!ViewSpec
-----------------------------------------------------------------------------
(* One bulb, as the board is meant to be used: then Current_Conn_Addr and  *)
(* the bulbs' slot can only name that bulb.                                *)
OneBulb == \A b, c \in Bulbs : b = c

LEMMA BulbSlotStep ==
  ASSUME OneBulb, LinksTypeOK, BulbSlotCoversProcedure, [LinksNext]_linkVars
  PROVE  BulbSlotCoversProcedure'
<1> USE PeersFacts DEF LinksTypeOK, BulbSlotCoversProcedure, OneBulb
<1>1. ASSUME NEW m \in Mobiles, MobileSecurityNext(m)
      PROVE  BulbSlotCoversProcedure'
  BY <1>1 DEF MobileSecurityNext, PairingRequest, LongTermKeyRequest,
              MobilePairingStatus, slotVars
<1>2. ASSUME NEW b \in Bulbs, SecurityRequest(b)
      PROVE  BulbSlotCoversProcedure'
  BY <1>2 DEF SecurityRequest, SendPairingRequest
<1>3. ASSUME NEW b \in Bulbs, BulbSecurityNext(b), ~SecurityRequest(b)
      PROVE  BulbSlotCoversProcedure'
  <2>1. procedure' = [procedure EXCEPT ![b] = "none"]
    BY <1>3 DEF BulbSecurityNext, BulbPairingStatus,
                SecurityEstablishmentComplete
  <2>2. QED
    BY <2>1
<1>4. ASSUME NEW b \in Bulbs, DiscoveryIndication(b) \/ DiscoveryComplete(b)
      PROVE  BulbSlotCoversProcedure'
  BY <1>4 DEF DiscoveryIndication, DiscoveryComplete, slotVars
<1>5. ASSUME NEW p \in Peers, EncryptionChange(p) \/ EncryptionInformation(p)
      PROVE  BulbSlotCoversProcedure'
  BY <1>5 DEF EncryptionChange, EncryptionInformation, slotVars
<1>6. ASSUME NEW m \in Mobiles, GapMobileConnected(m)
      PROVE  BulbSlotCoversProcedure'
  BY <1>6 DEF GapMobileConnected, slotVars
<1>7. ASSUME NEW b \in Bulbs, GapBulbConnected(b)
      PROVE  BulbSlotCoversProcedure'
  BY <1>7 DEF GapBulbConnected, SendPairingRequest
<1>8. ASSUME NEW p \in Peers, StackForgets(p), UNCHANGED slotVars
      PROVE  BulbSlotCoversProcedure'
  BY <1>8 DEF StackForgets, slotVars
<1>9. ASSUME NEW p \in Peers, GattConnection(p)
      PROVE  BulbSlotCoversProcedure'
  BY <1>9 DEF GattConnection, slotVars
<1>10. CASE UNCHANGED linkVars
  BY <1>10 DEF linkVars, stackVars, slotVars
<1>11. QED
  BY <1>1, <1>2, <1>3, <1>4, <1>5, <1>6, <1>7, <1>8, <1>9, <1>10
    DEF LinksNext, GapMobileDisconnected, GapBulbDisconnected,
        GapReportsLoss, GattDisconnection

(* While the board pairs with its bulb, or re-establishes security, the    *)
(* bulbs' slot names it, so no second procedure of that role can start.    *)
THEOREM BulbSlotCovers ==
  ASSUME OneBulb
  PROVE  LinksSpec => []BulbSlotCoversProcedure
<1>1. LinksInit => BulbSlotCoversProcedure
  BY PeersFacts DEF LinksInit, BulbSlotCoversProcedure
<1>2. LinksTypeOK /\ BulbSlotCoversProcedure /\ [LinksNext]_linkVars
        => BulbSlotCoversProcedure'
  BY BulbSlotStep
<1>3. QED
  BY <1>1, <1>2, TypeCorrect, PTL DEF LinksSpec

(* A marked discovery: its link is one GATT has not reported lost, and the *)
(* discovery callbacks will find its entry.                                *)
OutstandingInv ==
    \A p \in Peers :
      HasFlag(p, "SERVICE_DISCOVERY_OUTSTANDING") =>
        /\ p \in Bulbs
        /\ Known(p)
        /\ link[p] = "gapDown" \/ (link[p] = "up" /\ discovering[p])

(* The current bulb is the one that has a link, until GAP reports its loss.*)
CurrentInv ==
    \A b \in Bulbs : link[b] \in {"gap", "up", "gattDown"} => Current_Conn_Addr = b

LEMMA CurrentStep ==
  ASSUME OneBulb, LinksTypeOK, CurrentInv, [LinksNext]_linkVars
  PROVE  CurrentInv'
<1> USE PeersFacts DEF LinksTypeOK, CurrentInv, OneBulb
<1>1. CASE SecurityStep
  BY <1>1, SecurityStepTypes DEF securityOnly
<1>2. ASSUME NEW m \in Mobiles, GapMobileConnected(m) \/ GapMobileDisconnected(m)
      PROVE  CurrentInv'
  BY <1>2 DEF GapMobileConnected, GapMobileDisconnected, ReportsConnection,
              GapReportsLoss
<1>3. ASSUME NEW b \in Bulbs, GapBulbConnected(b)
      PROVE  CurrentInv'
  BY <1>3 DEF GapBulbConnected, ReportsConnection
<1>4. ASSUME NEW b \in Bulbs, GapBulbDisconnected(b)
      PROVE  CurrentInv'
  <2>1. link'[b] \in {"gapDown", "down"}
    BY <1>4 DEF GapBulbDisconnected, GapReportsLoss
  <2>2. QED
    BY <2>1
<1>5. ASSUME NEW p \in Peers, GattConnection(p) \/ GattDisconnection(p)
      PROVE  CurrentInv'
  BY <1>5 DEF GattConnection, GattDisconnection
<1>6. CASE UNCHANGED linkVars
  BY <1>6 DEF linkVars, stackVars
<1>7. QED
  BY <1>1, <1>2, <1>3, <1>4, <1>5, <1>6, StepKinds DEF LinkStep

LEMMA OutstandingStep ==
  ASSUME OneBulb, LinksTypeOK, CountInv, CurrentInv, OutstandingInv,
         [LinksNext]_linkVars
  PROVE  OutstandingInv'
<1> USE PeersFacts DEF OutstandingInv, HasFlag
<1> DEFINE f == "SERVICE_DISCOVERY_OUTSTANDING"
<1>1. ASSUME UNCHANGED <<link, discovering>>,
             \A p \in Peers : SameButFlags(DeviceInfoList'[p], DeviceInfoList[p]),
             \A p \in Peers : f \in DeviceInfoList'[p].Flags
                                => f \in DeviceInfoList[p].Flags
      PROVE  OutstandingInv'
  BY <1>1 DEF SameButFlags, Known
<1>2. ASSUME NEW q \in Peers, NEW g, g # f,
             \/ FlagsBecome(Flags)
             \/ FlagsBecome([Flags EXCEPT ![q] = @ \union {g}])
             \/ FlagsBecome([Flags EXCEPT ![q] = @ \ {g}])
      PROVE  /\ \A p \in Peers : SameButFlags(DeviceInfoList'[p], DeviceInfoList[p])
             /\ \A p \in Peers : f \in DeviceInfoList'[p].Flags
                                   => f \in DeviceInfoList[p].Flags
  <2>1. \A p \in Peers : SameButFlags(DeviceInfoList'[p], DeviceInfoList[p])
    BY <1>2 DEF FlagsBecome
  <2>2. CASE FlagsBecome(Flags)
    BY <2>1, <2>2 DEF FlagsBecome, Flags
  <2>3. CASE \/ FlagsBecome([Flags EXCEPT ![q] = @ \union {g}])
             \/ FlagsBecome([Flags EXCEPT ![q] = @ \ {g}])
    BY <1>2, <2>1, <2>3, OneFlag
  <2>4. QED
    BY <1>2, <2>2, <2>3
<1>3. "LTK_VALID" # f /\ "ENCRYPTED" # f
  OBVIOUS
<1> HIDE DEF f
<1>4. ASSUME NEW m \in Mobiles, MobileSecurityNext(m) PROVE OutstandingInv'
  <2>1. FlagsBecome(Flags)
    BY <1>4, SecurityFlags DEF MobileSecurityNext
  <2>2. UNCHANGED <<link, discovering>>
    BY <1>4 DEF MobileSecurityNext, PairingRequest, LongTermKeyRequest,
                MobilePairingStatus, securityOnly
  <2>3. QED
    BY <1>1, <1>2, <1>3, <2>1, <2>2
<1>5. ASSUME NEW b \in Bulbs,
             \/ SecurityRequest(b)
             \/ \E k \in BOOLEAN : SecurityEstablishmentComplete(b, k)
      PROVE  OutstandingInv'
  <2>1. FlagsBecome(Flags) \/ FlagsBecome([Flags EXCEPT ![b] = @ \ {"LTK_VALID"}])
    BY <1>5, SecurityFlags
  <2>2. UNCHANGED <<link, discovering>>
    BY <1>5 DEF SecurityRequest, SecurityEstablishmentComplete, securityOnly
  <2>3. QED
    BY <1>1, <1>2, <1>3, <2>1, <2>2
<1>6. ASSUME NEW b \in Bulbs, NEW s \in BOOLEAN, NEW k \in BOOLEAN,
             BulbPairingStatus(b, s, k)
      PROVE  OutstandingInv'
  <2>1. link[b] = "up" /\ UNCHANGED link
    BY <1>6 DEF BulbPairingStatus, securityOnly
  <2>2. \A p \in Peers : discovering[p] => discovering'[p]
    BY <1>6 DEF BulbPairingStatus, DiscoverBLBDServices, LinksTypeOK
  <2>3. CASE FlagsBecome(Flags)
    BY <2>1, <2>2, <2>3 DEF FlagsBecome, Flags, SameButFlags, Known
  <2>4. CASE /\ discovering'[b] /\ Known(b)
             /\ FlagsBecome([Flags EXCEPT ![b] =
                  @ \union {"SERVICE_DISCOVERY_OUTSTANDING"}])
    BY <2>1, <2>2, <2>4 DEF FlagsBecome, Flags, SameButFlags, Known
  <2>5. QED
    BY <1>6, <2>3, <2>4, SecurityFlags
<1>7. ASSUME NEW b \in Bulbs, DiscoveryIndication(b) \/ DiscoveryComplete(b)
      PROVE  OutstandingInv'
  <2>1. /\ UNCHANGED link
        /\ \A p \in Peers \ {b} : discovering'[p] = discovering[p]
    BY <1>7 DEF DiscoveryIndication, DiscoveryComplete, securityOnly, LinksTypeOK
  <2>2. \A p \in Peers :
          /\ SameButFlags(DeviceInfoList'[p], DeviceInfoList[p])
          /\ DeviceInfoList'[p].Flags \subseteq DeviceInfoList[p].Flags
          /\ p = Current_Conn_Addr => f \notin DeviceInfoList'[p].Flags
    BY <1>7, ClearedFlags
      DEF DiscoveryIndication, DiscoveryComplete, FlagsBecome, Flags, f
  <2>3. link[b] = "up" => f \notin DeviceInfoList'[b].Flags
    BY <2>2 DEF CurrentInv
  <2>4. QED
    BY <2>1, <2>2, <2>3 DEF SameButFlags, Known, f
<1>8. ASSUME NEW p \in Peers, EncryptionChange(p) \/ EncryptionInformation(p)
      PROVE  OutstandingInv'
  <2>1. \/ FlagsBecome(Flags)
        \/ FlagsBecome([Flags EXCEPT ![p] = @ \union {"ENCRYPTED"}])
        \/ FlagsBecome([Flags EXCEPT ![p] = @ \union {"LTK_VALID"}])
    BY <1>8, SecurityFlags
  <2>2. UNCHANGED <<link, discovering>>
    BY <1>8 DEF EncryptionChange, EncryptionInformation, securityOnly
  <2>3. QED
    BY <1>1, <1>2, <1>3, <2>1, <2>2
<1>9. CASE GapStep
  <2>1. /\ \A p \in Peers : SameButFlags(DeviceInfoList'[p], DeviceInfoList[p])
        /\ \A p \in Peers : f \in DeviceInfoList'[p].Flags
                              => f \in DeviceInfoList[p].Flags
    BY <1>2, <1>3, <1>9, GapFlags DEF GapStep
  <2>2. PICK q \in Peers :
           /\ \A p \in Peers \ {q} : link'[p] = link[p] /\ discovering'[p] = discovering[p]
           /\ \/ link[q] = "down" /\ link'[q] = "gap"
              \/ link[q] = "up" /\ link'[q] = "gapDown"
              \/ link[q] = "gattDown" /\ link'[q] = "down"
    <3>1. ASSUME NEW p \in Peers, ReportsConnection(p), UNCHANGED discovering
          PROVE  /\ \A r \in Peers \ {p} : link'[r] = link[r]
                 /\ link[p] = "down" /\ link'[p] = "gap"
      BY <3>1 DEF ReportsConnection, LinksTypeOK
    <3>2. ASSUME NEW p \in Peers, GapReportsLoss(p)
          PROVE  /\ \A r \in Peers \ {p} : link'[r] = link[r]
                                           /\ discovering'[r] = discovering[r]
                 /\ \/ link[p] = "up" /\ link'[p] = "gapDown"
                    \/ link[p] = "gattDown" /\ link'[p] = "down"
      BY <3>2 DEF GapReportsLoss, StackForgets, LinksTypeOK
    <3>3. QED
      BY <1>9, <3>1, <3>2
        DEF GapStep, GapMobileConnected, GapMobileDisconnected,
            GapBulbConnected, GapBulbDisconnected
  <2>3. QED
    BY <2>1, <2>2 DEF SameButFlags, Known, f
<1>10. ASSUME NEW p \in Peers, GattConnection(p) PROVE OutstandingInv'
  <2>1. /\ link[p] = "gap" /\ link' = [link EXCEPT ![p] = "up"]
        /\ UNCHANGED discovering
    BY <1>10 DEF GattConnection
  <2>2. f \notin DeviceInfoList'[p].Flags
    BY <1>10, <2>1, GattAddsNoFlag DEF f
  <2>3. \A q \in Peers \ {p} : DeviceInfoList'[q] = DeviceInfoList[q]
    BY <1>10, GattEffects
  <2>4. QED
    BY <2>1, <2>2, <2>3 DEF Known, LinksTypeOK, f
<1>11. ASSUME NEW p \in Peers, GattDisconnection(p) PROVE OutstandingInv'
  <2>1. /\ link[p] \in {"up", "gapDown"}
        /\ \A q \in Peers \ {p} : link'[q] = link[q] /\ discovering'[q] = discovering[q]
    BY <1>11 DEF GattDisconnection, StackForgets, LinksTypeOK
  <2>2. f \notin DeviceInfoList'[p].Flags
    <3>1. CASE Known(p)
      <4>1. p \in ConnectedPeers
        BY <2>1, <3>1 DEF CountInv, EntryFollowsLink, ConnectedPeers
      <4>2. ConnectionCount # 0
        BY <4>1, PeersFacts, FS_Subset, FS_EmptySet
          DEF CountInv, CountsConnections, ConnectedPeers
      <4>3. DeviceInfoList'[p] = DisconnectedEntry(p)
        BY <1>11, <3>1, <4>2, GattEffects
      <4>4. QED
        BY <4>3, DisconnectedEntryFacts DEF f
    <3>2. CASE ~Known(p)
      BY <1>11, <3>2, GattAddsNoFlag DEF f
    <3>3. QED
      BY <3>1, <3>2
  <2>3. \A q \in Peers \ {p} : DeviceInfoList'[q] = DeviceInfoList[q]
    BY <1>11, GattEffects
  <2>4. QED
    BY <2>1, <2>2, <2>3 DEF Known, f
<1>12. CASE UNCHANGED linkVars
  BY <1>12 DEF linkVars, stackVars, Known
<1>13. QED
  BY <1>4, <1>5, <1>6, <1>7, <1>8, <1>9, <1>10, <1>11, <1>12
    DEF LinksNext, BulbSecurityNext, GapStep

(* A discovery marked outstanding is running, or GATT has still to report  *)
(* the loss of its link: the mark cannot block discovery on a later link.  *)
THEOREM OutstandingIsLive ==
  ASSUME OneBulb
  PROVE  LinksSpec => []DiscoveryFlagIsLive
<1>1. LinksInit => CurrentInv /\ OutstandingInv
  <2>1. LinksInit => CurrentInv
    BY PeersFacts DEF LinksInit, CurrentInv
  <2>2. LinksInit => \A p \in Peers : DeviceInfoList[p].Flags \subseteq {"LTK_VALID"}
    BY FlagsInit DEF Flags
  <2>3. LinksInit => OutstandingInv
    BY <2>2 DEF OutstandingInv, HasFlag
  <2>4. QED
    BY <2>1, <2>3
<1>2. (LinksTypeOK /\ CountInv) /\ (CurrentInv /\ OutstandingInv)
        /\ [LinksNext]_linkVars => (CurrentInv /\ OutstandingInv)'
  BY CurrentStep, OutstandingStep
<1>3. OutstandingInv => DiscoveryFlagIsLive
  BY DEF OutstandingInv, DiscoveryFlagIsLive
<1>4. QED
  BY <1>1, <1>2, <1>3, CountInvariant, PTL DEF LinksSpec
=============================================================================
