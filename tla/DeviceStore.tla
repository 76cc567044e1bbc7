---------------------------- MODULE DeviceStore ----------------------------
(***************************************************************************)
(* The two lists of devices and the record in flash, in                    *)
(* src/Board-Application/src/home_automation/home_automation.c.            *)
(*                                                                         *)
(* DeviceInfoList holds the devices of this session.  PersistDeviceInfoList *)
(* holds what StorePersistentData writes to flash: a phone, its key and a  *)
(* bulb.  A pairing copies an entry of the first list over one of the      *)
(* second with memcpy, and the pointer to the next entry with it, so the   *)
(* lists come to share entries.  This module keeps the entries in a heap   *)
(* with their pointers; DeviceLinks has the same list without them.        *)
(*                                                                         *)
(* The list functions of the stack are external: an entry is added at the  *)
(* end, and a deleted one is unlinked.  The application never frees it; a  *)
(* cell nothing points to any more is taken out of the heap here, so the   *)
(* memory it leaks is not counted.  malloc may fail at any time.           *)
(***************************************************************************)
EXTENDS Sequences, FiniteSetsExt

CONSTANTS
    Mobiles, Bulbs,     \* addresses of phones and of bulbs
    NullAddr,           \* the null BD_ADDR
    MaxCells            \* bound: entries the lists can have together, at
                        \* least the two that a restart makes

Peers == Mobiles \union Bulbs
ASSUME StoreAssumption ==
    /\ Mobiles \cap Bulbs = {} /\ NullAddr \notin Peers
    /\ MaxCells \in Nat \ {0, 1}

VARIABLES
    heap,                   \* the entries, by the cell that holds them
    DeviceInfoList,         \* the first cell of each list, or NULL
    PersistDeviceInfoList,
    connected,              \* devices GATT has reported connected
    saved                   \* the record in flash

storeVars == <<heap, DeviceInfoList, PersistDeviceInfoList, connected, saved>>

Cells == 1..MaxCells
NULL == 0
DeviceTypes == {"NONE", "MOBILE", "BULB"}   \* 0, 2 and 1

(* LTK is the device the key came from, NullAddr while LTK_VALID is clear. *)
Cell == [RemoteAddress : Peers \union {NullAddr}, device_type : DeviceTypes,
         LTK : Peers \union {NullAddr}, Next : Cells \union {NULL}]
Zeroed == [RemoteAddress |-> NullAddr, device_type |-> "NONE",
           LTK |-> NullAddr, Next |-> NULL]    \* also: a cell not in use
Record == [BulbAddress : Peers \union {NullAddr},
           LastAddress : Peers \union {NullAddr}, device_type : DeviceTypes,
           LTK : Peers \union {NullAddr}]
NoRecord == [BulbAddress |-> NullAddr, LastAddress |-> NullAddr,
             device_type |-> "NONE", LTK |-> NullAddr]
-----------------------------------------------------------------------------
(* Walks of a list of heap h.  A walk that has not ended after MaxCells    *)
(* cells never does.                                                       *)
Walk(h, head) ==
    LET next == [c \in Cells \union {NULL} |->
                   IF c = NULL THEN NULL ELSE h[c].Next]
        at[n \in 0..MaxCells] == IF n = 0 THEN head ELSE next[at[n - 1]]
    IN  at
Ends(h, head) == Walk(h, head)[MaxCells] = NULL
Entries(h, head) ==
    LET at == Walk(h, head)
    IN  [n \in {n \in Cells : at[n - 1] # NULL} |-> at[n - 1]]

(* The first and the last entry that is one of some cells, or NULL.        *)
Places(entries, cells) == {i \in DOMAIN entries : entries[i] \in cells}
First(entries, cells) ==
    IF Places(entries, cells) = {} THEN NULL
    ELSE entries[Min(Places(entries, cells))]
Last(entries, cells) ==
    IF Places(entries, cells) = {} THEN NULL
    ELSE entries[Max(Places(entries, cells))]

SearchDeviceInfoEntryByBD_ADDR(h, head, a) ==
    First(Entries(h, head), {c \in Cells : h[c].RemoteAddress = a})
SearchDeviceInfoEntryByType(h, head, type) ==
    First(Entries(h, head), {c \in Cells : h[c].device_type = type})

(* The heap without the cells that neither list reaches. *)
Kept(h, head, persistHead) ==
    LET listed == Range(Entries(h, head)) \union Range(Entries(h, persistHead))
    IN  [c \in Cells |-> IF c \in listed THEN h[c] ELSE Zeroed]

Free == {c \in Cells : heap[c] = Zeroed}
FreeCell == CHOOSE c \in Free : \A d \in Free : c <= d

(* A new entry for a at the end of a list: the heap and the list's head.   *)
CreateNewDeviceInfoEntry(h, head, a) ==
    LET fresh   == [h EXCEPT ![FreeCell] = [Zeroed EXCEPT !.RemoteAddress = a]]
        entries == Entries(fresh, head)
    IN  IF head = NULL THEN [heap |-> fresh, head |-> FreeCell]
        ELSE [heap |-> [fresh EXCEPT ![entries[Len(entries)]].Next = FreeCell],
              head |-> head]

(* Mutants: the entry is freed as well; the entries after it go with it.   *)
DeleteAndFree(h, head, c) ==
    LET before == First(Entries(h, head), {d \in Cells : h[d].Next = c})
        freed  == [h EXCEPT ![c] = Zeroed]
    IN  IF head = c THEN [heap |-> freed, head |-> h[c].Next]
        ELSE [heap |-> [freed EXCEPT ![before].Next = h[c].Next], head |-> head]

DeleteTail(h, head, c) ==
    LET before == First(Entries(h, head), {d \in Cells : h[d].Next = c})
    IN  IF head = c THEN [heap |-> h, head |-> NULL]
        ELSE [heap |-> [h EXCEPT ![before].Next = NULL], head |-> head]

(* Cell c is unlinked from the list. *)
DeleteDeviceInfoEntry(h, head, c) ==
    LET before == First(Entries(h, head), {d \in Cells : h[d].Next = c})
    IN  IF head = c THEN [heap |-> h, head |-> h[c].Next]
        ELSE [heap |-> [h EXCEPT ![before].Next = h[c].Next], head |-> head]
-----------------------------------------------------------------------------
Found(p) == SearchDeviceInfoEntryByBD_ADDR(heap, DeviceInfoList, p)

(* A new entry for p in the session's list, or no memory for it.           *)
AddDevice(p) ==
    \/ /\ Free # {}
       /\ LET made == CreateNewDeviceInfoEntry(heap, DeviceInfoList, p)
          IN  heap' = made.heap /\ DeviceInfoList' = made.head
    \/ UNCHANGED <<heap, DeviceInfoList>>

(* Mutant: an entry that is there is not looked for. *)
GattConnectionAlwaysCreates(p) ==
    /\ p \notin connected
    /\ connected' = connected \union {p}
    /\ AddDevice(p)
    /\ UNCHANGED <<PersistDeviceInfoList, saved>>

(* An unknown device gets an entry. *)
GattConnection(p) ==
    /\ p \notin connected
    /\ connected' = connected \union {p}
    /\ IF Found(p) = NULL THEN AddDevice(p)
       ELSE UNCHANGED <<heap, DeviceInfoList>>
    /\ UNCHANGED <<PersistDeviceInfoList, saved>>

(* An entry without a valid key is unlinked. *)
GattDisconnection(p) ==
    /\ p \in connected
    /\ connected' = connected \ {p}
    /\ LET d    == Found(p)
           left == DeleteDeviceInfoEntry(heap, DeviceInfoList, d)
       IN  IF d # NULL /\ heap[d].LTK = NullAddr
           THEN /\ heap' = Kept(left.heap, left.head, PersistDeviceInfoList)
                /\ DeviceInfoList' = left.head
           ELSE UNCHANGED <<heap, DeviceInfoList>>
    /\ UNCHANGED <<PersistDeviceInfoList, saved>>

(* Mutant: only the flag is kept, not the key. *)
KeySetFlagOnly(p, key) ==
    /\ p \in connected
    /\ Found(p) # NULL
    /\ heap' = [heap EXCEPT ![Found(p)].LTK = key # NullAddr]
    /\ UNCHANGED <<DeviceInfoList, PersistDeviceInfoList, connected, saved>>

(* The key of an entry becomes valid, or invalid.                          *)
KeySet(p, key) ==
    /\ p \in connected
    /\ Found(p) # NULL
    /\ heap' = [heap EXCEPT ![Found(p)].LTK = key]
    /\ UNCHANGED <<DeviceInfoList, PersistDeviceInfoList, connected, saved>>

EncryptionInformation(p) == KeySet(p, p)
BulbKeyRejected(b) == KeySet(b, NullAddr)   \* re-establishing failed
-----------------------------------------------------------------------------
(* Mutant: the entry is copied over the first one, whatever its type. *)
PersistedOverAny(p, type) ==
    LET d     == Found(p)
        typed == [heap EXCEPT ![d].device_type = type]
        old   == PersistDeviceInfoList
        new   == CreateNewDeviceInfoEntry(typed, PersistDeviceInfoList, p)
        With(h, head) == {[heap |-> h, head |-> head]}
    IN  IF d = NULL THEN With(heap, PersistDeviceInfoList)
        ELSE IF old # NULL
        THEN With([typed EXCEPT ![old] = typed[d]], PersistDeviceInfoList)
        ELSE With(typed, PersistDeviceInfoList) \union
             IF Free = {} THEN {}
             ELSE With([new.heap EXCEPT ![FreeCell] = new.heap[d]], new.head)

(* Pairing.  The entry gets its type and is copied over the first          *)
(* persistent entry of that type, or over a new one if there is memory:    *)
(* what the heap and the head of PersistDeviceInfoList then may be.        *)
Persisted(p, type) ==
    LET d     == Found(p)
        typed == [heap EXCEPT ![d].device_type = type]
        old   == SearchDeviceInfoEntryByType(typed, PersistDeviceInfoList, type)
        new   == CreateNewDeviceInfoEntry(typed, PersistDeviceInfoList, p)
        With(h, head) == {[heap |-> h, head |-> head]}
    IN  IF d = NULL THEN With(heap, PersistDeviceInfoList)
        ELSE IF old # NULL
        THEN With([typed EXCEPT ![old] = typed[d]], PersistDeviceInfoList)
        ELSE With(typed, PersistDeviceInfoList) \union
             IF Free = {} THEN {}
             ELSE With([new.heap EXCEPT ![FreeCell] = new.heap[d]], new.head)

(* What StorePersistentData makes of a list: every bulb goes to            *)
(* BulbAddress, any other device to the one remote device; later entries   *)
(* overwrite earlier ones, and a key stays until another one comes.        *)
RecordOf(h, head) ==
    LET entries == Entries(h, head)
        Latest(cells) ==
          IF Last(entries, cells) = NULL THEN Zeroed ELSE h[Last(entries, cells)]
        remotes == {c \in Cells : h[c].device_type # "BULB"}
        bulb    == Latest({c \in Cells : h[c].device_type = "BULB"})
        remote  == Latest(remotes)
        keyed   == Latest({c \in remotes : h[c].LTK # NullAddr})
    IN  [BulbAddress |-> bulb.RemoteAddress,
         LastAddress |-> remote.RemoteAddress,
         device_type |-> remote.device_type, LTK |-> keyed.LTK]

(* The walk may never end, and malloc or qapi_Persist_Put may fail.        *)
StorePersistentData(h, head) ==
    saved' \in {saved} \union
                IF Ends(h, head) THEN {RecordOf(h, head)} ELSE {}

Persist(p, type) ==
    \E store \in Persisted(p, type) :
      /\ heap' = Kept(store.heap, DeviceInfoList, store.head)
      /\ PersistDeviceInfoList' = store.head
      /\ StorePersistentData(store.heap, store.head)
      /\ UNCHANGED <<DeviceInfoList, connected>>

MobilePaired(m) == m \in connected /\ Persist(m, "MOBILE")

(* A bulb that is found with the same address is left as it is.            *)
BulbPaired(b) ==
    LET d     == Found(b)
        typed == [heap EXCEPT ![d].device_type = "BULB"]
        old   == SearchDeviceInfoEntryByType(typed, PersistDeviceInfoList, "BULB")
    IN  /\ b \in connected
        /\ IF d # NULL /\ old # NULL /\ typed[old].RemoteAddress = b
           THEN /\ heap' = typed
                /\ UNCHANGED <<DeviceInfoList, PersistDeviceInfoList,
                               connected, saved>>
           ELSE Persist(b, "BULB")
-----------------------------------------------------------------------------
(* The entry LoadPersistentData makes of the record.  The bulb's address   *)
(* goes to Initialize_Home_Automation, which connects to it.               *)
LoadedEntry ==
    [RemoteAddress |-> saved.LastAddress, device_type |-> saved.device_type,
     LTK |-> saved.LTK, Next |-> NULL]

(* The board restarts and loads the record twice, once for each list.      *)
(* Either load may fail, for want of memory or because flash cannot be     *)
(* read: that list is then empty, and the board goes on without it.        *)
Reboot ==
    \E loaded, persisted \in {b \in BOOLEAN : b => saved.LastAddress # NullAddr} :
      /\ DeviceInfoList' = IF loaded THEN 1 ELSE NULL
      /\ PersistDeviceInfoList' = IF persisted THEN 2 ELSE NULL
      /\ heap' = [c \in Cells |->
                    IF c \in {DeviceInfoList', PersistDeviceInfoList'}
                    THEN LoadedEntry ELSE Zeroed]
      /\ connected' = {}
      /\ UNCHANGED saved

StoreInit ==
    /\ heap = [c \in Cells |-> Zeroed]
    /\ DeviceInfoList = NULL
    /\ PersistDeviceInfoList = NULL
    /\ connected = {}
    /\ saved = NoRecord

(* StorePersistentData always returns: neither list becomes circular,      *)
(* although entries are copied with their pointers and the lists share     *)
(* cells.                                                                  *)
ListsEnd == Ends(heap, DeviceInfoList) /\ Ends(heap, PersistDeviceInfoList)

(* Once a list is circular StorePersistentData hangs in the callback that  *)
(* made it so, and only a restart helps.                                   *)
StoreNext ==
    \/ Reboot
    \/ \E p \in Peers : ListsEnd /\ GattConnection(p)
    \/ \E p \in Peers : ListsEnd /\ GattDisconnection(p)
    \/ \E p \in Peers : ListsEnd /\ EncryptionInformation(p)
    \/ \E m \in Mobiles : ListsEnd /\ MobilePaired(m)
    \/ \E b \in Bulbs : ListsEnd /\ BulbPaired(b)
    \/ \E b \in Bulbs : ListsEnd /\ BulbKeyRejected(b)

StoreSpec == StoreInit /\ [][StoreNext]_storeVars
-----------------------------------------------------------------------------
StoreTypeOK ==
    /\ heap \in [Cells -> Cell]
    /\ DeviceInfoList \in Cells \union {NULL}
    /\ PersistDeviceInfoList \in Cells \union {NULL}
    /\ connected \subseteq Peers
    /\ saved \in Record

Listed == Entries(heap, DeviceInfoList)

(* The session's list never holds a device twice, and nothing the          *)
(* persistent list appends to a shared tail appears in it: the entry an    *)
(* address is looked up by is the one its link uses.                       *)
OneEntryEach ==
    \A i, j \in DOMAIN Listed :
      heap[Listed[i]].RemoteAddress = heap[Listed[j]].RemoteAddress => i = j

(* The entry of a device with a valid key stays in the session's list      *)
(* until the key is rejected or the board restarts                         *)
(* (home_automation.h:519-525).                                            *)
Bonded(h, head, p) ==
    SearchDeviceInfoEntryByBD_ADDR(h, head, p) \in {c \in Cells : h[c].LTK = p}
PairedEntryStays ==
    [][\A p \in Peers :
         Bonded(heap, DeviceInfoList, p) =>
           \/ Bonded(heap', DeviceInfoList', p)
           \/ Reboot
           \/ p \in Bulbs /\ BulbKeyRejected(p)]_storeVars

(* A remote device that is in the record and in the list the record is     *)
(* written from stays in both until the board restarts: not a bulb's       *)
(* pairing, not a copy that takes the list's tail along, not a lack of     *)
(* memory leaves the record without one.                                   *)
HoldsRemote(h, head) ==
    \E c \in Range(Entries(h, head)) : h[c].device_type # "BULB"
SavedRemoteIsKept ==
    [][saved.LastAddress # NullAddr /\ HoldsRemote(heap, PersistDeviceInfoList) =>
         /\ saved'.LastAddress # NullAddr
         /\ HoldsRemote(heap', PersistDeviceInfoList') \/ Reboot]_storeVars

(* When a phone's pairing writes the record, the phone is the one the      *)
(* record holds (home_automation.h:519-525).                               *)
PairedPhoneIsSaved ==
    [][\A m \in Mobiles :
         MobilePaired(m) /\ saved' # saved => saved'.LastAddress = m]_storeVars
=============================================================================
