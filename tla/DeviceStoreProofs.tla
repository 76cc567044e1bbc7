------------------------- MODULE DeviceStoreProofs -------------------------
(***************************************************************************)
(* What holds of the two lists of devices and of the record in flash for   *)
(* any number of cells: the types, for any phones and bulbs; and, with one *)
(* phone and one bulb at most, that the lists end, hold a device once,     *)
(* keep a paired device, and keep the saved one they hold.                 *)
(***************************************************************************)
EXTENDS DeviceStore, Iteration

LEMMA StoreSizes ==
  /\ MaxCells \in Nat /\ 2 <= MaxCells
  /\ Mobiles \cap Bulbs = {} /\ NullAddr \notin Peers
  BY StoreAssumption

(* Where a walk goes from a cell.                                          *)
Follow(h, c) == IF c = NULL THEN NULL ELSE h[c].Next

LEMMA WalkSteps ==
  ASSUME NEW h \in [Cells -> Cell], NEW head \in Cells \union {NULL}
  PROVE  /\ Walk(h, head) \in [0..MaxCells -> Cells \union {NULL}]
         /\ Walk(h, head)[0] = head
         /\ \A n \in 1..MaxCells :
              Walk(h, head)[n] = Follow(h, Walk(h, head)[n - 1])
<1> DEFINE S == Cells \union {NULL}
           next == [c \in S |-> IF c = NULL THEN NULL ELSE h[c].Next]
           Walks(f) == f = [n \in 0..MaxCells |-> IF n = 0 THEN head ELSE next[f[n - 1]]]
           at == CHOOSE f : Walks(f)
           step == [n \in (0 + 1)..MaxCells |-> next]
<1>1. Walk(h, head) = at
  BY DEF Walk
<1>2. next \in [S -> S]
  BY DEF Cell
<1>3. \A c \in S : next[c] = Follow(h, c)
  BY DEF Follow
<1> HIDE DEF next
<1>4. step \in Steps(S, 0, MaxCells) /\ \A n \in 1..MaxCells : step[n] = next
  BY <1>2 DEF Steps
<1> HIDE DEF step, at
<1>5. PICK f : Iterates(f, S, head, 0, MaxCells, step)
  BY <1>4, StoreSizes, 0 \in Nat, IterationExists
<1>6. /\ f \in [0..MaxCells -> S] /\ f[0] = head
      /\ \A n \in 1..MaxCells : f[n] = next[f[n - 1]]
  BY <1>4, <1>5 DEF Iterates
<1>7. Walks(f)
  <2>1. \A n \in 0..MaxCells : n = 0 \/ (n # 0 /\ n \in 1..MaxCells)
    BY StoreSizes
  <2>2. f = [n \in 0..MaxCells |-> f[n]]
    BY <1>6
  <2>3. QED
    BY ONLY <1>6, <2>1, <2>2, Zenon
<1> HIDE DEF Walks
<1>8. Walks(at)
  BY ONLY <1>7, Zenon DEF at
<1>9. \A n \in 0..MaxCells : at[n] = IF n = 0 THEN head ELSE next[at[n - 1]]
  BY ONLY <1>8, Zenon DEF Walks
<1>10. at[0] = head /\ \A n \in 1..MaxCells : n \in 0..MaxCells /\ at[n] = next[at[n - 1]]
  BY <1>9, StoreSizes
<1>11. \A n \in 0..MaxCells : at[n] \in S
  <2> DEFINE T == {n \in 0..MaxCells : at[n] \in S}
  <2>1. 0 \in T /\ 0 \in Nat
    BY <1>10, StoreSizes
  <2>2. \A n \in (0 + 1)..MaxCells : n - 1 \in T => n \in T
    BY <1>2, <1>10
  <2> HIDE DEF T
  <2>3. 0..MaxCells \subseteq T
    BY <2>1, <2>2, StoreSizes, InductionUpTo
  <2>4. QED
    BY <2>3 DEF T
<1>12. at = [n \in 0..MaxCells |-> at[n]]
  <2>1. at = [n \in 0..MaxCells |-> IF n = 0 THEN head ELSE next[at[n - 1]]]
    BY ONLY <1>8, Zenon DEF Walks
  <2>2. QED
    BY ONLY <2>1, Zenon
<1>13. \A n \in 1..MaxCells : n - 1 \in 0..MaxCells /\ at[n] = Follow(h, at[n - 1])
  <2>1. \A n \in 1..MaxCells : n - 1 \in 0..MaxCells
    BY StoreSizes
  <2>2. QED
    BY ONLY <1>3, <1>10, <1>11, <2>1, Zenon
<1>14. at \in [0..MaxCells -> S]
  BY <1>11, <1>12
<1>15. QED
  BY <1>1, <1>10, <1>13, <1>14

-----------------------------------------------------------------------------
(* A list as a sequence of cells.                                          *)
At(L, n) == IF n < Len(L) THEN L[n + 1] ELSE NULL
IsList(h, head, L) ==
    /\ L \in Seq(Cells)
    /\ \A i, j \in 1..Len(L) : L[i] = L[j] => i = j
    /\ head = At(L, 0)
    /\ \A i \in 1..Len(L) : h[L[i]].Next = At(L, i)
On(L) == {L[i] : i \in 1..Len(L)}

LEMMA AtTypes ==
  ASSUME NEW L \in Seq(Cells), NEW n \in Nat
  PROVE  /\ Len(L) \in Nat
         /\ n < Len(L) => n + 1 \in 1..Len(L) /\ At(L, n) = L[n + 1] /\ At(L, n) \in Cells
                            /\ At(L, n) # NULL
         /\ ~ (n < Len(L)) => At(L, n) = NULL
  BY StoreSizes DEF At, Cells, NULL

LEMMA ListFits ==
  ASSUME NEW h, NEW head, NEW L, IsList(h, head, L)
  PROVE  Len(L) <= MaxCells
<1>1. Len(L) \in Nat /\ L \in Injection(1..Len(L), Cells)
  BY DEF IsList, Injection, IsInjective
<1>2. IsFiniteSet(Cells) /\ Cardinality(Cells) = MaxCells
  <2>1. MaxCells \in Int /\ 1 \in Int /\ MaxCells - 1 + 1 = MaxCells /\ ~ (1 > MaxCells)
    BY StoreSizes
  <2>2. QED
    BY <2>1, FS_Interval DEF Cells
<1>3. Cardinality(1..Len(L)) <= MaxCells
  BY <1>1, <1>2, FS_Injection
<1>4. Cardinality(1..Len(L)) = Len(L)
  <2>1. Cardinality(1..Len(L)) = IF 1 > Len(L) THEN 0 ELSE Len(L) - 1 + 1
    BY <1>1, 1 \in Int, Len(L) \in Int, FS_Interval
  <2>2. QED
    BY <1>1, <2>1
<1>5. QED
  BY <1>3, <1>4

(* The walk of a list goes through its cells and ends.                     *)
LEMMA WalkOfList ==
  ASSUME NEW h \in [Cells -> Cell], NEW head, NEW L, IsList(h, head, L)
  PROVE  /\ Entries(h, head) = L /\ Ends(h, head)
         /\ head \in Cells \union {NULL} /\ L \in Seq(Cells) /\ Len(L) <= MaxCells
<1>1. Len(L) <= MaxCells /\ L \in Seq(Cells) /\ Len(L) \in Nat
  BY ListFits DEF IsList
<1>2. head = At(L, 0) /\ head \in Cells \union {NULL}
  BY <1>1, AtTypes, 0 \in Nat DEF IsList
<1>3. PICK at : /\ at = Walk(h, head)
                /\ at[0] = head
                /\ \A n \in 1..MaxCells : at[n] = Follow(h, at[n - 1])
  BY <1>2, WalkSteps
<1>4. \A n \in 0..MaxCells : at[n] = At(L, n)
  <2> DEFINE T == {n \in 0..MaxCells : at[n] = At(L, n)}
  <2>1. 0 \in T /\ 0 \in Nat
    BY <1>2, <1>3, StoreSizes
  <2>2. ASSUME NEW n \in (0 + 1)..MaxCells, n - 1 \in T PROVE n \in T
    <3>1. n \in Nat /\ n - 1 \in Nat /\ n \in 1..MaxCells /\ at[n - 1] = At(L, n - 1)
      BY <2>2
    <3>2. CASE n - 1 < Len(L)
      <4>1. n \in 1..Len(L) /\ At(L, n - 1) = L[n] /\ At(L, n - 1) # NULL
        BY <1>1, <3>1, <3>2, AtTypes
      <4>2. h[L[n]].Next = At(L, n)
        BY <4>1 DEF IsList
      <4>3. QED
        BY <1>3, <3>1, <4>1, <4>2 DEF Follow
    <3>3. CASE ~ (n - 1 < Len(L))
      <4>1. At(L, n - 1) = NULL /\ At(L, n) = NULL
        BY <1>1, <3>1, <3>3 DEF At
      <4>2. QED
        BY <1>3, <3>1, <4>1 DEF Follow
    <3>4. QED
      BY <3>2, <3>3
  <2> HIDE DEF T
  <2>3. 0..MaxCells \subseteq T
    BY <2>1, <2>2, StoreSizes, InductionUpTo
  <2>4. QED
    BY <2>3 DEF T
<1>5. {n \in Cells : at[n - 1] # NULL} = 1..Len(L)
  <2>1. ASSUME NEW n \in Cells PROVE at[n - 1] # NULL <=> n \in 1..Len(L)
    <3>1. n - 1 \in Nat /\ n - 1 \in 0..MaxCells /\ n \in Nat /\ 1 <= n
      BY StoreSizes DEF Cells
    <3>2. at[n - 1] = At(L, n - 1)
      BY <1>4, <3>1
    <3>3. QED
      BY <1>1, <3>1, <3>2, AtTypes
  <2>2. 1..Len(L) \subseteq Cells
    BY <1>1, StoreSizes DEF Cells
  <2>3. QED
    BY <2>1, <2>2
<1>6. ASSUME NEW n \in 1..Len(L) PROVE at[n - 1] = L[n]
  <2>1. n - 1 \in Nat /\ n - 1 \in 0..MaxCells /\ n - 1 < Len(L)
    BY <1>1, StoreSizes
  <2>2. QED
    BY <1>1, <1>4, <2>1 DEF At
<1>7. Entries(h, head) = L
  <2>1. Entries(h, head) = [n \in {n \in Cells : at[n - 1] # NULL} |-> at[n - 1]]
    BY <1>3 DEF Entries
  <2>2. Entries(h, head) = [n \in 1..Len(L) |-> at[n - 1]]
    BY ONLY <1>5, <2>1
  <2>3. L = [n \in 1..Len(L) |-> L[n]]
    BY <1>1
  <2>4. QED
    BY ONLY <1>6, <2>2, <2>3
<1>8. Ends(h, head)
  <2>1. At(L, MaxCells) = NULL
    BY <1>1, StoreSizes, AtTypes
  <2>2. MaxCells \in 0..MaxCells
    BY StoreSizes
  <2>3. QED
    BY <1>3, <1>4, <2>1, <2>2 DEF Ends
<1>9. QED
  BY <1>1, <1>2, <1>7, <1>8

-----------------------------------------------------------------------------
(* Searches. *)
LEMMA Bounds ==
  ASSUME NEW T \in SUBSET Cells, T # {}
  PROVE  /\ Min(T) \in T /\ \A i \in T : Min(T) <= i
         /\ Max(T) \in T /\ \A i \in T : Max(T) >= i
<1>1. T \in SUBSET Nat /\ MaxCells \in Nat /\ \A i \in T : i \in 1..MaxCells
  BY StoreSizes DEF Cells
<1>2. \E i \in T : \A j \in T : i <= j
  BY <1>1, LeastNatural
<1>3. \E i \in T : \A j \in T : i >= j
  <2> DEFINE Below == {MaxCells - i : i \in T}
  <2>1. Below \in SUBSET Nat /\ Below # {}
    <3>1. \A i \in T : MaxCells - i \in Nat
      BY <1>1
    <3>2. QED
      BY <3>1
  <2> HIDE DEF Below
  <2>2. PICK m \in Below : \A k \in Below : m <= k
    BY <2>1, LeastNatural
  <2>3. PICK i \in T : m = MaxCells - i
    BY <2>2 DEF Below
  <2>4. ASSUME NEW j \in T PROVE i >= j
    <3>1. MaxCells - j \in Below
      BY DEF Below
    <3>2. m <= MaxCells - j
      BY <2>2, <3>1
    <3>3. QED
      BY <1>1, <2>3, <3>2
  <2>5. QED
    BY <2>4
<1>4. QED
  BY <1>2, <1>3 DEF Min, Max

LEMMA FirstIs ==
  ASSUME NEW entries, DOMAIN entries \subseteq Cells, NEW cells
  PROVE  \/ First(entries, cells) = NULL /\ Places(entries, cells) = {}
         \/ \E i \in DOMAIN entries :
              /\ First(entries, cells) = entries[i] /\ entries[i] \in cells
              /\ \A j \in DOMAIN entries : entries[j] \in cells => i <= j
<1>1. CASE Places(entries, cells) = {}
  BY <1>1 DEF First
<1>2. CASE Places(entries, cells) # {}
  <2>1. Places(entries, cells) \in SUBSET Cells
    BY DEF Places
  <2>2. PICK i : i = Min(Places(entries, cells))
    OBVIOUS
  <2>3. i \in Places(entries, cells) /\ \A j \in Places(entries, cells) : i <= j
    BY <1>2, <2>1, <2>2, Bounds
  <2>4. First(entries, cells) = entries[i]
    BY <1>2, <2>2 DEF First
  <2>5. QED
    BY <2>3, <2>4 DEF Places
<1>3. QED
  BY <1>1, <1>2

LEMMA LastIs ==
  ASSUME NEW entries, DOMAIN entries \subseteq Cells, NEW cells
  PROVE  \/ Last(entries, cells) = NULL /\ Places(entries, cells) = {}
         \/ \E i \in DOMAIN entries :
              Last(entries, cells) = entries[i] /\ entries[i] \in cells
<1>1. CASE Places(entries, cells) = {}
  BY <1>1 DEF Last
<1>2. CASE Places(entries, cells) # {}
  <2>1. Places(entries, cells) \in SUBSET Cells
    BY DEF Places
  <2>2. PICK i : i = Max(Places(entries, cells))
    OBVIOUS
  <2>3. i \in Places(entries, cells)
    BY <1>2, <2>1, <2>2, Bounds
  <2>4. Last(entries, cells) = entries[i]
    BY <1>2, <2>2 DEF Last
  <2>5. QED
    BY <2>3, <2>4 DEF Places
<1>3. QED
  BY <1>1, <1>2

LEMMA EntriesTypes ==
  ASSUME NEW h \in [Cells -> Cell], NEW head \in Cells \union {NULL}
  PROVE  /\ DOMAIN Entries(h, head) \subseteq Cells
         /\ \A n \in DOMAIN Entries(h, head) : Entries(h, head)[n] \in Cells
<1>1. PICK at : at = Walk(h, head) /\ at \in [0..MaxCells -> Cells \union {NULL}]
  BY WalkSteps
<1>2. Entries(h, head) = [n \in {n \in Cells : at[n - 1] # NULL} |-> at[n - 1]]
  BY <1>1 DEF Entries
<1>3. \A n \in Cells : n - 1 \in 0..MaxCells
  BY StoreSizes DEF Cells
<1>4. QED
  BY <1>1, <1>2, <1>3

(* A search finds nothing, or a cell that is one of those it looks for.    *)
LEMMA SearchTypes ==
  ASSUME NEW h \in [Cells -> Cell], NEW head \in Cells \union {NULL}, NEW cells
  PROVE  /\ First(Entries(h, head), cells) # NULL =>
              First(Entries(h, head), cells) \in Cells \cap cells
         /\ Last(Entries(h, head), cells) # NULL =>
              Last(Entries(h, head), cells) \in Cells \cap cells
<1>1. PICK e : e = Entries(h, head)
  OBVIOUS
<1>2. DOMAIN e \subseteq Cells /\ \A n \in DOMAIN e : e[n] \in Cells
  BY <1>1, EntriesTypes
<1>3. First(e, cells) # NULL => First(e, cells) \in Cells \cap cells
  BY <1>2, FirstIs
<1>4. Last(e, cells) # NULL => Last(e, cells) \in Cells \cap cells
  BY <1>2, LastIs
<1>5. QED
  BY <1>1, <1>3, <1>4

LEMMA FreeCellIsFree ==
  ASSUME Free # {}
  PROVE  FreeCell \in Free /\ FreeCell \in Cells
<1>1. Free \in SUBSET Nat
  BY StoreSizes DEF Free, Cells
<1>2. \E c \in Free : \A d \in Free : c <= d
  BY <1>1, LeastNatural
<1>3. QED
  BY <1>2 DEF FreeCell, Free

-----------------------------------------------------------------------------
(* Types. *)
Heaps == [Cells -> Cell]
Heads == Cells \union {NULL}

LEMMA CellTypes ==
  /\ Zeroed \in Cell /\ NULL \notin Cells
  /\ \A c \in Cell : /\ \A n \in Heads : [c EXCEPT !.Next = n] \in Cell
                     /\ \A t \in DeviceTypes : [c EXCEPT !.device_type = t] \in Cell
                     /\ \A a \in Peers \union {NullAddr} :
                          /\ [c EXCEPT !.RemoteAddress = a] \in Cell
                          /\ [c EXCEPT !.LTK = a] \in Cell
  BY StoreSizes DEF Cell, Zeroed, Heads, Cells, NULL, DeviceTypes

LEMMA HeapTypes ==
  ASSUME NEW h \in Heaps, NEW c
  PROVE  /\ \A e \in Cell : [h EXCEPT ![c] = e] \in Heaps
         /\ \A n \in Heads : [h EXCEPT ![c].Next = n] \in Heaps
         /\ \A t \in DeviceTypes : [h EXCEPT ![c].device_type = t] \in Heaps
         /\ \A a \in Peers \union {NullAddr} : [h EXCEPT ![c].LTK = a] \in Heaps
  BY CellTypes DEF Heaps

LEMMA KeptTypes ==
  ASSUME NEW h \in Heaps, NEW head, NEW persistHead
  PROVE  Kept(h, head, persistHead) \in Heaps
<1>1. PICK listed : listed = Range(Entries(h, head)) \union Range(Entries(h, persistHead))
  OBVIOUS
<1>2. Kept(h, head, persistHead) = [c \in Cells |-> IF c \in listed THEN h[c] ELSE Zeroed]
  BY <1>1 DEF Kept
<1>3. QED
  BY <1>2, CellTypes DEF Heaps

LEMMA CreateTypes ==
  ASSUME NEW h \in Heaps, NEW head \in Heads, NEW a \in Peers, Free # {}
  PROVE  /\ CreateNewDeviceInfoEntry(h, head, a).heap \in Heaps
         /\ CreateNewDeviceInfoEntry(h, head, a).head \in Heads
<1>1. FreeCell \in Heads /\ [Zeroed EXCEPT !.RemoteAddress = a] \in Cell
  BY FreeCellIsFree, CellTypes DEF Heads
<1>2. PICK fresh : fresh = [h EXCEPT ![FreeCell] = [Zeroed EXCEPT !.RemoteAddress = a]]
  OBVIOUS
<1>3. fresh \in Heaps
  BY <1>1, <1>2, HeapTypes
<1>4. PICK last : last = Entries(fresh, head)[Len(Entries(fresh, head))]
  OBVIOUS
<1>5. [fresh EXCEPT ![last].Next = FreeCell] \in Heaps
  BY <1>1, <1>3, HeapTypes
<1>6. CreateNewDeviceInfoEntry(h, head, a) =
        IF head = NULL THEN [heap |-> fresh, head |-> FreeCell]
        ELSE [heap |-> [fresh EXCEPT ![last].Next = FreeCell], head |-> head]
  BY <1>2, <1>4 DEF CreateNewDeviceInfoEntry
<1>7. QED
  BY <1>1, <1>3, <1>5, <1>6

LEMMA DeleteTypes ==
  ASSUME NEW h \in Heaps, NEW head \in Heads, NEW c \in Cells
  PROVE  /\ DeleteDeviceInfoEntry(h, head, c).heap \in Heaps
         /\ DeleteDeviceInfoEntry(h, head, c).head \in Heads
<1>1. PICK before : before = First(Entries(h, head), {d \in Cells : h[d].Next = c})
  OBVIOUS
<1>2. h[c].Next \in Heads
  BY DEF Heaps, Cell, Heads
<1>3. [h EXCEPT ![before].Next = h[c].Next] \in Heaps
  BY <1>2, HeapTypes
<1>4. DeleteDeviceInfoEntry(h, head, c) =
        IF head = c THEN [heap |-> h, head |-> h[c].Next]
        ELSE [heap |-> [h EXCEPT ![before].Next = h[c].Next], head |-> head]
  BY <1>1 DEF DeleteDeviceInfoEntry
<1>5. QED
  BY <1>2, <1>3, <1>4

LEMMA RecordTypes ==
  ASSUME NEW h \in Heaps, NEW head \in Heads
  PROVE  RecordOf(h, head) \in Record
<1> DEFINE Latest(cells) ==
             IF Last(Entries(h, head), cells) = NULL THEN Zeroed
             ELSE h[Last(Entries(h, head), cells)]
           remotes == {c \in Cells : h[c].device_type # "BULB"}
           bulb    == Latest({c \in Cells : h[c].device_type = "BULB"})
           remote  == Latest(remotes)
           keyed   == Latest({c \in remotes : h[c].LTK # NullAddr})
<1>1. RecordOf(h, head) = [BulbAddress |-> bulb.RemoteAddress,
         LastAddress |-> remote.RemoteAddress,
         device_type |-> remote.device_type, LTK |-> keyed.LTK]
  BY DEF RecordOf
<1>2. ASSUME NEW cells PROVE Latest(cells) \in Cell
  <2>1. Last(Entries(h, head), cells) # NULL => Last(Entries(h, head), cells) \in Cells
    BY SearchTypes DEF Heaps, Heads
  <2>2. QED
    BY <2>1, CellTypes DEF Heaps
<1> HIDE DEF Latest
<1>3. bulb \in Cell /\ remote \in Cell /\ keyed \in Cell
  BY <1>2
<1> HIDE DEF bulb, remote, keyed
<1>4. QED
  BY <1>1, <1>3 DEF Record, Cell

LEMMA FoundTypes ==
  ASSUME StoreTypeOK, NEW p
  PROVE  Found(p) # NULL => Found(p) \in Cells /\ heap[Found(p)].RemoteAddress = p
<1>1. First(Entries(heap, DeviceInfoList), {c \in Cells : heap[c].RemoteAddress = p}) # NULL =>
        First(Entries(heap, DeviceInfoList), {c \in Cells : heap[c].RemoteAddress = p})
          \in {c \in Cells : heap[c].RemoteAddress = p}
  BY SearchTypes DEF StoreTypeOK
<1>2. QED
  BY <1>1 DEF Found, SearchDeviceInfoEntryByBD_ADDR

LEMMA PersistedTypes ==
  ASSUME StoreTypeOK, NEW p \in Peers, NEW type \in DeviceTypes,
         NEW store \in Persisted(p, type)
  PROVE  store.heap \in Heaps /\ store.head \in Heads
<1>1. heap \in Heaps /\ PersistDeviceInfoList \in Heads
  BY DEF StoreTypeOK, Heaps, Heads
<1>2. PICK typed : typed = [heap EXCEPT ![Found(p)].device_type = type]
  OBVIOUS
<1>3. typed \in Heaps
  BY <1>1, <1>2, HeapTypes
<1>4. PICK old : old = SearchDeviceInfoEntryByType(typed, PersistDeviceInfoList, type)
  OBVIOUS
<1>5. PICK new : new = CreateNewDeviceInfoEntry(typed, PersistDeviceInfoList, p)
  OBVIOUS
<1>6. CASE Found(p) = NULL
  <2>1. store = [heap |-> heap, head |-> PersistDeviceInfoList]
    BY <1>6 DEF Persisted
  <2>2. QED
    BY <1>1, <2>1
<1>7. CASE Found(p) # NULL
  <2>1. Found(p) \in Cells /\ typed[Found(p)] \in Cell
    BY <1>3, <1>7, FoundTypes DEF Heaps
  <2>2. \/ store = [heap |-> [typed EXCEPT ![old] = typed[Found(p)]], head |-> PersistDeviceInfoList]
        \/ store = [heap |-> typed, head |-> PersistDeviceInfoList]
        \/ /\ Free # {}
           /\ store = [heap |-> [new.heap EXCEPT ![FreeCell] = new.heap[Found(p)]],
                       head |-> new.head]
    BY <1>2, <1>4, <1>5, <1>7 DEF Persisted
  <2>3. [typed EXCEPT ![old] = typed[Found(p)]] \in Heaps
    BY <1>3, <2>1, HeapTypes
  <2>4. Free # {} => new.heap \in Heaps /\ new.head \in Heads
    BY <1>1, <1>3, <1>5, CreateTypes
  <2>5. Free # {} => [new.heap EXCEPT ![FreeCell] = new.heap[Found(p)]] \in Heaps
    <3>1. Free # {} => new.heap[Found(p)] \in Cell
      BY <2>1, <2>4 DEF Heaps
    <3>2. QED
      BY <2>4, <3>1, HeapTypes
  <2>6. QED
    BY <1>1, <1>3, <2>2, <2>3, <2>4, <2>5
<1>8. QED
  BY <1>6, <1>7

LEMMA TypesInit == StoreInit => StoreTypeOK
<1> SUFFICES ASSUME StoreInit PROVE StoreTypeOK
  OBVIOUS
<1>1. NoRecord \in Record
  BY DEF NoRecord, Record, DeviceTypes
<1>2. QED
  BY <1>1, CellTypes DEF StoreInit, StoreTypeOK

LEMMA RebootTypes == StoreTypeOK /\ Reboot => StoreTypeOK'
<1> SUFFICES ASSUME StoreTypeOK, Reboot PROVE StoreTypeOK'
  OBVIOUS
<1>1. LoadedEntry \in Cell /\ saved' \in Record /\ connected' = {}
  BY DEF StoreTypeOK, LoadedEntry, Record, Cell, Reboot
<1>2. heap' \in [Cells -> Cell]
  BY <1>1, CellTypes DEF Reboot
<1>3. DeviceInfoList' \in Cells \union {NULL} /\ PersistDeviceInfoList' \in Cells \union {NULL}
  BY StoreSizes DEF Reboot, Cells
<1>4. QED
  BY <1>1, <1>2, <1>3 DEF StoreTypeOK

LEMMA PersistTypes ==
  ASSUME StoreTypeOK, NEW p \in Peers, NEW type \in DeviceTypes, Persist(p, type)
  PROVE  StoreTypeOK'
<1>1. PICK store \in Persisted(p, type) :
        /\ heap' = Kept(store.heap, DeviceInfoList, store.head)
        /\ PersistDeviceInfoList' = store.head
        /\ StorePersistentData(store.heap, store.head)
        /\ UNCHANGED <<DeviceInfoList, connected>>
  BY DEF Persist
<1>2. store.heap \in Heaps /\ store.head \in Heads
  BY PersistedTypes
<1>3. heap' \in Heaps
  BY <1>1, <1>2, KeptTypes
<1>4. saved' \in Record
  <2>1. saved \in Record /\ RecordOf(store.heap, store.head) \in Record
    BY <1>2, RecordTypes DEF StoreTypeOK
  <2>2. QED
    BY <1>1, <2>1 DEF StorePersistentData
<1>5. QED
  BY <1>1, <1>2, <1>3, <1>4 DEF StoreTypeOK, Heaps, Heads

LEMMA TypesStep == StoreTypeOK /\ [StoreNext]_storeVars => StoreTypeOK'
<1> SUFFICES ASSUME StoreTypeOK, [StoreNext]_storeVars PROVE StoreTypeOK'
  OBVIOUS
<1>1. heap \in Heaps /\ DeviceInfoList \in Heads
  BY DEF StoreTypeOK, Heaps, Heads
<1>2. CASE Reboot
  BY <1>2, RebootTypes
<1>3. ASSUME NEW p \in Peers, GattConnection(p) PROVE StoreTypeOK'
  <2>1. AddDevice(p) \/ UNCHANGED <<heap, DeviceInfoList>>
    BY <1>3 DEF GattConnection
  <2>2. heap' \in Heaps /\ DeviceInfoList' \in Heads
    BY <1>1, <2>1, CreateTypes DEF AddDevice
  <2>3. QED
    BY <1>3, <2>2 DEF GattConnection, StoreTypeOK, Heaps, Heads
<1>4. ASSUME NEW p \in Peers, GattDisconnection(p) PROVE StoreTypeOK'
  <2>1. PICK left : left = DeleteDeviceInfoEntry(heap, DeviceInfoList, Found(p))
    OBVIOUS
  <2>2. \/ /\ Found(p) # NULL
           /\ heap' = Kept(left.heap, left.head, PersistDeviceInfoList)
           /\ DeviceInfoList' = left.head
        \/ UNCHANGED <<heap, DeviceInfoList>>
    BY <1>4, <2>1 DEF GattDisconnection
  <2>3. Found(p) # NULL => left.heap \in Heaps /\ left.head \in Heads
    BY <1>1, <2>1, FoundTypes, DeleteTypes
  <2>4. heap' \in Heaps /\ DeviceInfoList' \in Heads
    BY <1>1, <2>2, <2>3, KeptTypes
  <2>5. QED
    BY <1>4, <2>4 DEF GattDisconnection, StoreTypeOK, Heaps, Heads
<1>5. ASSUME NEW p \in Peers, NEW key \in Peers \union {NullAddr}, KeySet(p, key)
      PROVE  StoreTypeOK'
  <2>1. heap' \in Heaps
    BY <1>1, <1>5, HeapTypes DEF KeySet
  <2>2. QED
    BY <1>5, <2>1 DEF KeySet, StoreTypeOK, Heaps
<1>6. ASSUME NEW m \in Mobiles, MobilePaired(m) PROVE StoreTypeOK'
  BY <1>6, PersistTypes, m \in Peers, "MOBILE" \in DeviceTypes DEF MobilePaired, Peers, DeviceTypes
<1>7. ASSUME NEW b \in Bulbs, BulbPaired(b) PROVE StoreTypeOK'
  <2>1. b \in Peers /\ "BULB" \in DeviceTypes
    BY DEF Peers, DeviceTypes
  <2>2. \/ /\ heap' = [heap EXCEPT ![Found(b)].device_type = "BULB"]
           /\ UNCHANGED <<DeviceInfoList, PersistDeviceInfoList, connected, saved>>
        \/ Persist(b, "BULB")
    BY <1>7 DEF BulbPaired
  <2>3. [heap EXCEPT ![Found(b)].device_type = "BULB"] \in Heaps
    BY <1>1, <2>1, HeapTypes
  <2>4. CASE Persist(b, "BULB")
    BY <2>1, <2>4, PersistTypes
  <2>5. QED
    BY <2>2, <2>3, <2>4 DEF StoreTypeOK, Heaps
<1>8. CASE UNCHANGED storeVars
  BY <1>8 DEF storeVars, StoreTypeOK
<1>9. ASSUME NEW p \in Peers, EncryptionInformation(p) PROVE StoreTypeOK'
  BY <1>5, <1>9 DEF EncryptionInformation
<1>10. ASSUME NEW b \in Bulbs, BulbKeyRejected(b) PROVE StoreTypeOK'
  BY <1>5, <1>10, b \in Peers DEF BulbKeyRejected, Peers
<1>11. QED
  BY <1>2, <1>3, <1>4, <1>6, <1>7, <1>8, <1>9, <1>10 DEF StoreNext

(* The types, for any phones and bulbs and any number of cells: what a     *)
(* copied entry, a search or a walk of a list leaves in the heap, the list *)
(* heads and the record in flash is always an entry, a cell or a record.   *)
THEOREM StoreTypes == StoreSpec => []StoreTypeOK
<1>1. QED
  BY TypesInit, TypesStep, PTL DEF StoreSpec

-----------------------------------------------------------------------------
(* What a list looks like after an operation on it, or on another list     *)
(* that may share cells with it.                                           *)
LEMMA OnTypes ==
  ASSUME NEW h, NEW head, NEW L, IsList(h, head, L)
  PROVE  /\ L \in Seq(Cells) /\ Len(L) \in Nat /\ On(L) \subseteq Cells
         /\ \A i \in 1..Len(L) : L[i] \in Cells /\ L[i] \in On(L) /\ L[i] # NULL
         /\ head = NULL <=> Len(L) = 0
         /\ Len(L) # 0 => head = L[1] /\ head \in On(L) /\ head \in Cells
         /\ \A i \in 1..Len(L) : i < Len(L) => i + 1 \in 1..Len(L) /\ h[L[i]].Next = L[i + 1]
         /\ Len(L) # 0 => Len(L) \in 1..Len(L) /\ h[L[Len(L)]].Next = NULL
<1>1. L \in Seq(Cells) /\ Len(L) \in Nat /\ NULL \notin Cells
  BY StoreSizes DEF IsList, NULL, Cells
<1>2. \A i \in 1..Len(L) : L[i] \in Cells /\ L[i] # NULL
  BY <1>1
<1>3. On(L) \subseteq Cells /\ \A i \in 1..Len(L) : L[i] \in On(L)
  BY <1>2 DEF On
<1>4. head = IF 0 < Len(L) THEN L[1] ELSE NULL
  BY DEF IsList, At
<1>5. Len(L) # 0 => 1 \in 1..Len(L) /\ Len(L) \in 1..Len(L)
  BY <1>1
<1>6. head = NULL <=> Len(L) = 0
  BY <1>1, <1>2, <1>4, <1>5
<1>7. Len(L) # 0 => head = L[1] /\ head \in On(L) /\ head \in Cells
  BY <1>1, <1>2, <1>3, <1>4, <1>5
<1>8. \A i \in 1..Len(L) : h[L[i]].Next = IF i < Len(L) THEN L[i + 1] ELSE NULL
  BY DEF IsList, At
<1>9. \A i \in 1..Len(L) : i < Len(L) => i + 1 \in 1..Len(L) /\ h[L[i]].Next = L[i + 1]
  BY <1>1, <1>8
<1>10. Len(L) # 0 => Len(L) \in 1..Len(L) /\ h[L[Len(L)]].Next = NULL
  BY <1>1, <1>5, <1>8
<1>11. QED
  BY <1>1, <1>2, <1>3, <1>6, <1>7, <1>9, <1>10

(* Only the last entry of a list has no next one.                          *)
LEMMA OnlyLastEnds ==
  ASSUME NEW h, NEW head, NEW L, IsList(h, head, L), NEW i \in 1..Len(L),
         h[L[i]].Next = NULL
  PROVE  i = Len(L)
  BY OnTypes

LEMMA FrameList ==
  ASSUME NEW h, NEW g, NEW head, NEW L, IsList(h, head, L),
         \A c \in On(L) : g[c].Next = h[c].Next
  PROVE  IsList(g, head, L)
<1>1. \A i \in 1..Len(L) : g[L[i]].Next = h[L[i]].Next
  BY DEF On
<1>2. QED
  BY <1>1 DEF IsList

(* An entry is added after the last one of L: what becomes of a list that  *)
(* shares it, and of one that does not.                                    *)
LEMMA Appended ==
  ASSUME NEW h, NEW g, NEW head, NEW L, IsList(h, head, L), NEW f \in Cells \ On(L),
         Len(L) # 0, g[f].Next = NULL,
         \A c \in On(L) : g[c].Next = IF c = L[Len(L)] THEN f ELSE h[c].Next
  PROVE  IsList(g, head, Append(L, f)) /\ On(Append(L, f)) = On(L) \union {f}
<1>1. /\ L \in Seq(Cells) /\ Len(L) \in Nat /\ \A i \in 1..Len(L) : L[i] \in On(L)
      /\ f # NULL /\ head = L[1]
      /\ \A i \in 1..Len(L) : i < Len(L) => i + 1 \in 1..Len(L) /\ h[L[i]].Next = L[i + 1]
  BY OnTypes, StoreSizes DEF Cells, NULL
<1>2. PICK Q : Q = Append(L, f)
  OBVIOUS
<1>3. /\ Q \in Seq(Cells) /\ Len(Q) = Len(L) + 1
      /\ \A i \in 1..Len(L) : Q[i] = L[i]
      /\ Q[Len(L) + 1] = f
  BY <1>1, <1>2
<1>4. \A i \in 1..Len(Q) : i \in 1..Len(L) \/ i = Len(L) + 1
  BY <1>1, <1>3
<1>5. \A i, j \in 1..Len(L) : L[i] = L[j] => i = j
  BY DEF IsList
<1>6. \A i, j \in 1..Len(Q) : Q[i] = Q[j] => i = j
  BY <1>1, <1>3, <1>4, <1>5
<1>7. head = At(Q, 0)
  BY <1>1, <1>3 DEF At
<1>8. ASSUME NEW i \in 1..Len(Q) PROVE g[Q[i]].Next = At(Q, i)
  <2>1. CASE i \in 1..Len(L) /\ i < Len(L)
    <3>1. L[i] # L[Len(L)] /\ L[i] \in On(L) /\ i + 1 \in 1..Len(L)
      BY <1>1, <1>5, <2>1
    <3>2. g[L[i]].Next = L[i + 1]
      BY <1>1, <2>1, <3>1
    <3>3. At(Q, i) = Q[i + 1]
      BY <1>1, <1>3, <2>1 DEF At
    <3>4. QED
      BY <1>3, <2>1, <3>1, <3>2, <3>3
  <2>2. CASE i = Len(L)
    <3>1. i \in 1..Len(L) /\ g[L[i]].Next = f
      BY <1>1, <2>2
    <3>2. At(Q, i) = f
      BY <1>1, <1>3, <2>2 DEF At
    <3>3. QED
      BY <1>3, <3>1, <3>2
  <2>3. CASE i = Len(L) + 1
    BY <1>1, <1>3, <2>3 DEF At
  <2>4. QED
    BY <1>1, <1>4, <2>1, <2>2, <2>3
<1>9. IsList(g, head, Q)
  BY <1>3, <1>6, <1>7, <1>8 DEF IsList
<1>10. On(Q) = On(L) \union {f}
  <2>1. Len(Q) = Len(L) + 1 /\ Len(L) + 1 \in 1..Len(Q) /\ \A i \in 1..Len(L) : i \in 1..Len(Q)
    BY <1>1, <1>3
  <2>2. QED
    BY <1>3, <1>4, <2>1 DEF On
<1>11. QED
  BY <1>2, <1>9, <1>10

(* A list with one entry. *)
LEMMA Single ==
  ASSUME NEW g, NEW f \in Cells, g[f].Next = NULL
  PROVE  IsList(g, f, <<f>>) /\ On(<<f>>) = {f}
<1>1. PICK Q : Q = <<f>>
  OBVIOUS
<1>2. Q \in Seq(Cells) /\ Len(Q) = 1 /\ Q[1] = f /\ 1..Len(Q) = {1}
  BY <1>1
<1>3. IsList(g, f, Q)
  BY <1>2 DEF IsList, At
<1>4. On(Q) = {f}
  BY <1>2 DEF On
<1>5. QED
  BY <1>1, <1>3, <1>4

LEMMA Empty ==
  ASSUME NEW g
  PROVE  IsList(g, NULL, <<>>) /\ On(<<>>) = {} /\ Len(<<>>) = 0
<1>1. PICK Q : Q = <<>>
  OBVIOUS
<1>2. Q \in Seq(Cells) /\ Len(Q) = 0 /\ 1..Len(Q) = {}
  BY <1>1
<1>3. QED
  BY <1>1, <1>2 DEF IsList, At, On

(* The beginning of a list, once its last entry there has no next one.     *)
LEMMA Beginning ==
  ASSUME NEW h, NEW g, NEW head, NEW L, IsList(h, head, L), NEW j \in 1..Len(L),
         g[L[j]].Next = NULL, \A c \in On(L) \ {L[j]} : g[c].Next = h[c].Next
  PROVE  \E Q : /\ IsList(g, head, Q) /\ Len(Q) = j /\ Q[j] = L[j]
                /\ \A i \in 1..j : Q[i] = L[i]
                /\ On(Q) \subseteq On(L)
<1>1. /\ L \in Seq(Cells) /\ Len(L) \in Nat /\ \A i \in 1..Len(L) : L[i] \in On(L)
      /\ head = L[1]
      /\ \A i \in 1..Len(L) : i < Len(L) => i + 1 \in 1..Len(L) /\ h[L[i]].Next = L[i + 1]
  BY OnTypes
<1>2. PICK Q : Q = SubSeq(L, 1, j)
  OBVIOUS
<1>3. Q \in Seq(Cells) /\ Len(Q) = j /\ \A i \in 1..j : Q[i] = L[i] /\ i \in 1..Len(L)
  BY <1>1, <1>2
<1>4. \A i, k \in 1..Len(L) : L[i] = L[k] => i = k
  BY DEF IsList
<1>5. \A i, k \in 1..Len(Q) : Q[i] = Q[k] => i = k
  BY <1>3, <1>4
<1>6. head = At(Q, 0)
  BY <1>1, <1>3 DEF At
<1>7. ASSUME NEW i \in 1..Len(Q) PROVE g[Q[i]].Next = At(Q, i)
  <2>1. i \in 1..j /\ i \in 1..Len(L) /\ Q[i] = L[i]
    BY <1>3
  <2>2. CASE i < j
    <3>1. L[i] \in On(L) \ {L[j]} /\ i < Len(L) /\ i + 1 \in 1..j
      BY <1>1, <1>4, <2>1, <2>2
    <3>2. g[L[i]].Next = L[i + 1] /\ Q[i + 1] = L[i + 1]
      BY <1>1, <1>3, <2>1, <3>1
    <3>3. At(Q, i) = Q[i + 1]
      BY <1>3, <2>2 DEF At
    <3>4. QED
      BY <2>1, <3>2, <3>3
  <2>3. CASE i = j
    <3>1. At(Q, i) = NULL
      BY <1>3, <2>3 DEF At
    <3>2. QED
      BY <2>1, <2>3, <3>1
  <2>4. QED
    BY <2>1, <2>2, <2>3
<1>8. On(Q) \subseteq On(L)
  BY <1>3 DEF On
<1>9. IsList(g, head, Q)
  BY <1>3, <1>5, <1>6, <1>7 DEF IsList
<1>10. QED
  BY <1>3, <1>8, <1>9

(* One entry of a list is copied over one of another: the other goes on    *)
(* behind it as the first does.                                            *)
GoesOn(g, other, P, first, S, d, e, Q) ==
    /\ IsList(g, other, Q) /\ e \in On(Q) /\ On(Q) \subseteq On(P) \union On(S)
    /\ d # first => d \notin On(Q)
    /\ first \notin On(P) => first \notin On(Q)
    /\ e = P[Len(P)] => On(P) \subseteq On(Q)

LEMMA Copied ==
  ASSUME NEW h \in Heaps, NEW head, NEW S, IsList(h, head, S), Len(S) <= 2,
         NEW other, NEW P, IsList(h, other, P),
         NEW d \in On(S), NEW e \in On(P), e \notin On(S),
         NEW g, g = [h EXCEPT ![e] = h[d]]
  PROVE  \E Q : GoesOn(g, other, P, head, S, d, e, Q)
<1>1. PICK k \in 1..Len(S) : S[k] = d
  BY DEF On
<1>2. PICK j \in 1..Len(P) : P[j] = e
  BY DEF On
<1>3. SUFFICES \E Q : /\ IsList(g, other, Q) /\ P[j] \in On(Q)
                      /\ On(Q) \subseteq On(P) \union On(S)
                      /\ S[k] # head => S[k] \notin On(Q)
                      /\ head \notin On(P) => head \notin On(Q)
                      /\ j = Len(P) => On(P) \subseteq On(Q)
  <2>1. e = P[Len(P)] => j = Len(P)
    <3>1. Len(P) \in 1..Len(P) /\ \A i, m \in 1..Len(P) : P[i] = P[m] => i = m
      BY OnTypes DEF IsList
    <3>2. QED
      BY <1>2, <3>1
  <2>2. QED
    BY <1>1, <1>2, <2>1 DEF GoesOn
<1>4. g = [h EXCEPT ![P[j]] = h[S[k]]] /\ P[j] \notin On(S)
  BY <1>1, <1>2
<1>5. /\ \A i \in 1..Len(S) : S[i] \in Cells /\ S[i] \in On(S)
      /\ \A i \in 1..Len(S) : i < Len(S) => i + 1 \in 1..Len(S) /\ h[S[i]].Next = S[i + 1]
      /\ Len(S) # 0 => Len(S) \in 1..Len(S) /\ h[S[Len(S)]].Next = NULL /\ head = S[1]
      /\ Len(S) \in Nat
  BY OnTypes
<1>6. /\ \A i \in 1..Len(P) : P[i] \in Cells /\ P[i] \in On(P) /\ On(P) \subseteq Cells
      /\ Len(P) \in Nat
      /\ \A i \in 1..Len(P) : h[P[i]].Next = NULL => i = Len(P)
  BY OnTypes, OnlyLastEnds
<1>7. g[P[j]] = h[S[k]] /\ \A c \in Cells \ {P[j]} : g[c] = h[c]
  BY <1>6, <1>4 DEF Heaps
<1>8. \A c \in On(P) \ {P[j]} : g[c].Next = h[c].Next
  BY <1>6, <1>7
<1>9. CASE k = Len(S)
  <2>1. g[P[j]].Next = NULL
    BY <1>5, <1>7, <1>9
  <2>2. PICK Q : /\ IsList(g, other, Q) /\ Len(Q) = j /\ Q[j] = P[j]
                 /\ \A i \in 1..j : Q[i] = P[i]
                 /\ On(Q) \subseteq On(P)
    BY ONLY IsList(h, other, P), j \in 1..Len(P), <1>8, <2>1, Beginning
  <2>3. P[j] \in On(Q)
    BY <2>2 DEF On
  <2>4. ASSUME S[k] \in On(Q) PROVE FALSE
    <3>1. PICK i \in 1..j : P[i] = S[k]
      BY <2>2, <2>4 DEF On
    <3>2. i \in 1..Len(P) /\ h[P[i]].Next = NULL
      BY <1>5, <1>6, <1>9, <3>1
    <3>3. i = Len(P)
      BY <1>6, <3>2
    <3>4. i = j
      BY <1>6, <3>1, <3>3
    <3>5. QED
      BY <1>5, <1>4, <3>1, <3>4
  <2>5. j = Len(P) => On(P) \subseteq On(Q)
    BY <2>2 DEF On
  <2>6. QED
    BY <2>2, <2>3, <2>4, <2>5
<1>10. CASE k # Len(S)
  <2>1. k = 1 /\ Len(S) = 2 /\ 2 \in 1..Len(S) /\ S[k] = head
    <3>1. k \in Nat /\ 1 <= k /\ k <= Len(S) /\ Len(S) \in Nat /\ Len(S) <= 2
      BY <1>5
    <3>2. PICK n : n = Len(S)
      OBVIOUS
    <3>3. k \in Nat /\ n \in Nat /\ 1 <= k /\ k <= n /\ n <= 2 /\ k # n
      BY ONLY <1>10, <3>1, <3>2, Zenon
    <3>4. k = 1 /\ n = 2
      BY ONLY <3>3
    <3>5. QED
      BY <1>5, <3>2, <3>4
  <2>2. h[S[k]].Next = S[2] /\ h[S[2]].Next = NULL /\ S[2] \in On(S) /\ S[2] \in Cells
    BY <1>5, <2>1
  <2>3. PICK y : y = S[2]
    OBVIOUS
  <2>4. h[S[k]].Next = y /\ h[y].Next = NULL /\ y \in On(S) /\ y \in Cells /\ y # P[j]
    BY <1>4, <2>2, <2>3
  <2>5. PICK cut : cut = [h EXCEPT ![P[j]] = [h[S[k]] EXCEPT !.Next = NULL]]
    OBVIOUS
  <2>6. cut[P[j]].Next = NULL /\ \A c \in On(P) \ {P[j]} : cut[c].Next = h[c].Next
    <3>1. cut[P[j]] = [h[S[k]] EXCEPT !.Next = NULL] /\ h[S[k]] \in Cell
      BY <1>5, <1>6, <2>5 DEF Heaps
    <3>2. cut[P[j]].Next = NULL
      BY <3>1 DEF Cell
    <3>3. \A c \in Cells \ {P[j]} : cut[c] = h[c]
      BY <2>5 DEF Heaps
    <3>4. QED
      BY <1>6, <3>2, <3>3
  <2>7. PICK R : /\ IsList(cut, other, R) /\ Len(R) = j /\ R[j] = P[j]
                 /\ \A i \in 1..j : R[i] = P[i]
                 /\ On(R) \subseteq On(P)
    BY ONLY IsList(h, other, P), j \in 1..Len(P), <2>6, Beginning
  <2>8. y \notin On(R)
    <3>1. SUFFICES ASSUME y \in On(R) PROVE FALSE
      OBVIOUS
    <3>2. PICK i \in 1..j : P[i] = y
      BY <2>7, <3>1 DEF On
    <3>3. i \in 1..Len(P) /\ h[P[i]].Next = NULL
      BY <1>6, <2>4, <3>2
    <3>4. i = Len(P)
      BY <1>6, <3>3
    <3>5. i = j
      BY <1>6, <3>2, <3>4
    <3>6. QED
      BY <2>4, <3>2, <3>5
  <2>9. Len(R) # 0 /\ y \in Cells \ On(R)
    BY <2>4, <2>7, <2>8
  <2>10. g[y].Next = NULL
    BY <1>7, <2>4
  <2>11. ASSUME NEW c \in On(R)
         PROVE  g[c].Next = IF c = R[Len(R)] THEN y ELSE cut[c].Next
    <3>1. c \in On(P) /\ R[Len(R)] = P[j]
      BY <2>7
    <3>2. CASE c = P[j]
      BY <1>7, <2>4, <3>1, <3>2
    <3>3. CASE c # P[j]
      BY <1>8, <2>6, <3>1, <3>3
    <3>4. QED
      BY <3>2, <3>3
  <2>12. IsList(g, other, Append(R, y)) /\ On(Append(R, y)) = On(R) \union {y}
    BY ONLY <2>7, <2>9, <2>10, <2>11, Appended
  <2>13. P[j] \in On(R)
    BY <2>7 DEF On
  <2>14. j = Len(P) => On(P) \subseteq On(R)
    BY <2>7 DEF On
  <2>15. y # head
    <3>1. \A i, m \in 1..Len(S) : S[i] = S[m] => i = m
      BY DEF IsList
    <3>2. QED
      BY <2>1, <2>3, <3>1
  <2>16. QED
    BY <2>1, <2>4, <2>7, <2>12, <2>13, <2>14, <2>15
<1>11. QED
  BY <1>9, <1>10

(* A list that ends in the last entry of another holds it, and no list     *)
(* that does not end in it does.                                           *)
LEMMA LastShared ==
  ASSUME NEW h, NEW head, NEW S, IsList(h, head, S), Len(S) # 0,
         NEW other, NEW P, IsList(h, other, P), S[Len(S)] \in On(P)
  PROVE  Len(P) # 0 /\ P[Len(P)] = S[Len(S)]
<1>1. PICK i \in 1..Len(P) : P[i] = S[Len(S)]
  BY DEF On
<1>2. h[P[i]].Next = NULL
  BY <1>1, OnTypes
<1>3. i = Len(P)
  BY <1>2, OnlyLastEnds
<1>4. QED
  BY <1>1, <1>3

(* CreateNewDeviceInfoEntry: the entries of the heap keep what they hold   *)
(* but their pointer, the list gets one more entry, and so does another    *)
(* list that ends as it does.                                              *)
SameDevice(e, d) == e.RemoteAddress = d.RemoteAddress /\ e.device_type = d.device_type
SameEntry(e, d) == SameDevice(e, d) /\ e.LTK = d.LTK

EntryAdded(made, h, head, L, a, other, P) ==
    /\ made.heap \in Heaps
    /\ made.heap[FreeCell] = [Zeroed EXCEPT !.RemoteAddress = a]
    /\ \A c \in Cells \ {FreeCell} : SameEntry(made.heap[c], h[c])
    /\ \A c \in Cells \ {FreeCell} :
         Len(L) = 0 \/ c # L[Len(L)] => made.heap[c] = h[c]
    /\ made.head = IF head = NULL THEN FreeCell ELSE head
    /\ \E Q : /\ IsList(made.heap, made.head, Q) /\ Len(Q) # 0
              /\ On(Q) = On(L) \union {FreeCell} /\ Q[Len(Q)] = FreeCell
    /\ \E Q : /\ IsList(made.heap, other, Q)
              /\ \/ On(Q) = On(P) /\ (Len(L) = 0 \/ L[Len(L)] \notin On(P)) /\ Q = P
                 \/ On(Q) = On(P) \union {FreeCell} /\ Len(L) # 0 /\ L[Len(L)] \in On(P)

LEMMA Created ==
  ASSUME NEW h \in Heaps, NEW head, NEW L, IsList(h, head, L), NEW a \in Peers,
         FreeCell \in Cells \ On(L),
         NEW other, NEW P, IsList(h, other, P), FreeCell \notin On(P),
         NEW made, made = CreateNewDeviceInfoEntry(h, head, a)
  PROVE  EntryAdded(made, h, head, L, a, other, P)
<1>1. PICK f : f = FreeCell
  OBVIOUS
<1>2. f \in Cells /\ f \notin On(L) /\ f \notin On(P) /\ f # NULL
  BY <1>1, StoreSizes DEF Cells, NULL
<1>3. PICK entry : entry = [Zeroed EXCEPT !.RemoteAddress = a]
  OBVIOUS
<1>4. entry \in Cell /\ entry.Next = NULL
  BY <1>3, CellTypes DEF Zeroed
<1>5. PICK fresh : fresh = [h EXCEPT ![f] = entry]
  OBVIOUS
<1>6. fresh \in Heaps /\ fresh[f] = entry /\ \A c \in Cells \ {f} : fresh[c] = h[c]
  BY <1>2, <1>4, <1>5 DEF Heaps
<1>7. On(L) \subseteq Cells /\ On(P) \subseteq Cells /\ (head = NULL <=> Len(L) = 0)
  BY OnTypes
<1>8. IsList(fresh, head, L) /\ IsList(fresh, other, P)
  BY <1>2, <1>6, <1>7, FrameList
<1>9. Entries(fresh, head) = L
  BY <1>6, <1>8, WalkOfList DEF Heaps
<1>10. CASE Len(L) = 0
  <2>1. made = [heap |-> fresh, head |-> f]
    BY <1>1, <1>3, <1>5, <1>7, <1>10 DEF CreateNewDeviceInfoEntry
  <2>2. made.heap = fresh /\ made.head = f /\ head = NULL
    BY <1>7, <1>10, <2>1
  <2>3. PICK Q : Q = <<f>>
    OBVIOUS
  <2>4. IsList(fresh, f, Q) /\ On(Q) = {f} /\ Len(Q) = 1 /\ Q[1] = f
    BY <1>2, <1>4, <1>6, <2>3, Single
  <2>5. On(L) = {}
    BY <1>10 DEF On
  <2>6. \E R : IsList(made.heap, made.head, R) /\ Len(R) # 0 /\ On(R) = On(L) \union {f} /\ R[Len(R)] = f
    BY <2>2, <2>4, <2>5
  <2>7. \A c \in Cells \ {f} : SameEntry(fresh[c], h[c])
    BY <1>6 DEF SameEntry, SameDevice
  <2>8. QED
    BY <1>1, <1>3, <1>6, <1>8, <1>10, <2>2, <2>6, <2>7 DEF EntryAdded
<1>11. CASE Len(L) # 0
  <2>1. PICK last : last = L[Len(L)]
    OBVIOUS
  <2>2. last \in On(L) /\ last \in Cells /\ last # f
    BY <1>2, <1>7, <1>11, <2>1, OnTypes
  <2>3. PICK g : g = [fresh EXCEPT ![last].Next = f]
    OBVIOUS
  <2>4. made = [heap |-> g, head |-> head]
    BY <1>1, <1>3, <1>5, <1>7, <1>9, <1>11, <2>1, <2>3 DEF CreateNewDeviceInfoEntry
  <2>5. made.heap = g /\ made.head = head /\ head # NULL
    BY <1>7, <1>11, <2>4
  <2>6. g \in Heaps
    BY <1>2, <1>6, <2>3, HeapTypes DEF Heads
  <2>7. g[last] = [fresh[last] EXCEPT !.Next = f] /\ \A c \in Cells \ {last} : g[c] = fresh[c]
    BY <1>6, <2>2, <2>3 DEF Heaps
  <2>8. fresh[last] = h[last] /\ h[last] \in Cell
    BY <1>6, <2>2 DEF Heaps
  <2>9. g[last].Next = f /\ SameEntry(g[last], h[last])
    BY <2>7, <2>8 DEF SameEntry, SameDevice, Cell
  <2>10. g[f] = entry /\ \A c \in Cells \ {last, f} : g[c] = h[c]
    BY <1>2, <1>6, <2>2, <2>7
  <2>11. \A c \in Cells \ {f} : SameEntry(g[c], h[c])
    BY <2>9, <2>10 DEF SameEntry, SameDevice
  <2>12. \A c \in On(L) \union On(P) : g[c].Next = IF c = last THEN f ELSE h[c].Next
    BY <1>2, <1>7, <2>9, <2>10
  <2>13. IsList(g, head, Append(L, f)) /\ On(Append(L, f)) = On(L) \union {f}
    BY <1>2, <1>4, <1>11, <2>1, <2>10, <2>12, Appended
  <2>14. Len(Append(L, f)) = Len(L) + 1 /\ Append(L, f)[Len(L) + 1] = f /\ Len(L) \in Nat
    BY <1>2, OnTypes
  <2>15. \E Q : IsList(g, head, Q) /\ Len(Q) # 0 /\ On(Q) = On(L) \union {f} /\ Q[Len(Q)] = f
    <3>1. PICK Q : Q = Append(L, f)
      OBVIOUS
    <3>2. IsList(g, head, Q) /\ On(Q) = On(L) \union {f}
      BY ONLY <2>13, <3>1
    <3>3. Len(Q) = Len(L) + 1 /\ Q[Len(L) + 1] = f /\ Len(L) \in Nat
      BY ONLY <2>14, <3>1
    <3>4. Len(Q) # 0 /\ Q[Len(Q)] = f
      BY ONLY <3>3
    <3>5. QED
      BY ONLY <3>2, <3>4
  <2>16. \E Q : /\ IsList(g, other, Q)
                /\ \/ On(Q) = On(P) /\ (Len(L) = 0 \/ L[Len(L)] \notin On(P)) /\ Q = P
                   \/ On(Q) = On(P) \union {f} /\ Len(L) # 0 /\ L[Len(L)] \in On(P)
    <3>1. CASE last \in On(P)
      <4>1. Len(P) # 0 /\ P[Len(P)] = last
        BY <1>11, <2>1, <3>1, LastShared
      <4>2. IsList(g, other, Append(P, f)) /\ On(Append(P, f)) = On(P) \union {f}
        BY <1>2, <1>4, <2>10, <2>12, <4>1, Appended
      <4>3. QED
        BY <1>11, <2>1, <3>1, <4>2
    <3>2. CASE last \notin On(P)
      <4>1. \A c \in On(P) : g[c].Next = h[c].Next
        BY <2>12, <3>2
      <4>2. IsList(g, other, P)
        BY <4>1, FrameList
      <4>3. QED
        BY <2>1, <3>2, <4>2
    <3>3. QED
      BY <3>1, <3>2
  <2>17. \A c \in Cells \ {f} : Len(L) = 0 \/ c # L[Len(L)] => g[c] = h[c]
    BY <1>11, <2>1, <2>10
  <2>18. QED
    BY <1>1, <1>3, <2>5, <2>6, <2>10, <2>11, <2>15, <2>16, <2>17 DEF EntryAdded
<1>12. QED
  BY <1>10, <1>11

LEMMA SearchOn ==
  ASSUME NEW h \in Heaps, NEW head, NEW L, IsList(h, head, L), NEW cells
  PROVE  /\ \/ First(Entries(h, head), cells) = NULL /\ On(L) \cap cells = {}
            \/ \E k \in 1..Len(L) :
                 /\ First(Entries(h, head), cells) = L[k] /\ L[k] \in cells
                 /\ \A j \in 1..Len(L) : L[j] \in cells => k <= j
         /\ \/ Last(Entries(h, head), cells) = NULL /\ On(L) \cap cells = {}
            \/ Last(Entries(h, head), cells) \in On(L) \cap cells
<1>1. Entries(h, head) = L /\ Len(L) <= MaxCells /\ L \in Seq(Cells)
  BY WalkOfList DEF Heaps
<1>2. DOMAIN L = 1..Len(L) /\ DOMAIN L \subseteq Cells
  BY <1>1, StoreSizes DEF Cells
<1>3. Places(L, cells) = {} => On(L) \cap cells = {}
  BY <1>2 DEF Places, On
<1>4. \/ First(L, cells) = NULL /\ On(L) \cap cells = {}
      \/ \E k \in 1..Len(L) :
           /\ First(L, cells) = L[k] /\ L[k] \in cells
           /\ \A j \in 1..Len(L) : L[j] \in cells => k <= j
  BY <1>2, <1>3, FirstIs
<1>5. \/ Last(L, cells) = NULL /\ On(L) \cap cells = {}
      \/ Last(L, cells) \in On(L) \cap cells
  BY <1>2, <1>3, LastIs DEF On
<1>6. QED
  BY ONLY <1>1, <1>4, <1>5

LEMMA KeptSame ==
  ASSUME NEW h \in Heaps, NEW head, NEW S, IsList(h, head, S),
         NEW other, NEW P, IsList(h, other, P)
  PROVE  \A c \in On(S) \union On(P) : Kept(h, head, other)[c] = h[c]
<1>1. /\ Entries(h, head) = S /\ Entries(h, other) = P
      /\ S \in Seq(Cells) /\ P \in Seq(Cells)
  BY WalkOfList DEF Heaps
<1>2. Range(S) = On(S) /\ Range(P) = On(P) /\ On(S) \union On(P) \subseteq Cells
  BY <1>1, OnTypes DEF Range, On
<1>3. Kept(h, head, other) = [c \in Cells |-> IF c \in On(S) \union On(P) THEN h[c] ELSE Zeroed]
  BY <1>1, <1>2 DEF Kept
<1>4. QED
  BY <1>2, <1>3

LEMMA RecordIs ==
  ASSUME NEW h \in Heaps, NEW head, NEW L, IsList(h, head, L)
  PROVE  \/ /\ RecordOf(h, head).LastAddress = NullAddr
            /\ RecordOf(h, head).device_type = "NONE"
            /\ \A c \in On(L) : h[c].device_type = "BULB"
         \/ \E c \in On(L) : /\ h[c].device_type # "BULB"
                             /\ RecordOf(h, head).LastAddress = h[c].RemoteAddress
                             /\ RecordOf(h, head).device_type = h[c].device_type
<1> DEFINE Latest(cells) ==
             IF Last(Entries(h, head), cells) = NULL THEN Zeroed
             ELSE h[Last(Entries(h, head), cells)]
           remotes == {c \in Cells : h[c].device_type # "BULB"}
           bulb    == Latest({c \in Cells : h[c].device_type = "BULB"})
           remote  == Latest(remotes)
           keyed   == Latest({c \in remotes : h[c].LTK # NullAddr})
<1>1. RecordOf(h, head) = [BulbAddress |-> bulb.RemoteAddress,
         LastAddress |-> remote.RemoteAddress,
         device_type |-> remote.device_type, LTK |-> keyed.LTK]
  BY DEF RecordOf
<1>2. PICK last : last = Last(Entries(h, head), remotes)
  OBVIOUS
<1>3. \/ last = NULL /\ On(L) \cap remotes = {}
      \/ last \in On(L) \cap remotes
  BY <1>2, SearchOn
<1>4. remote = IF last = NULL THEN Zeroed ELSE h[last]
  BY <1>2
<1> HIDE DEF bulb, remote, keyed
<1>5. /\ RecordOf(h, head).LastAddress = remote.RemoteAddress
      /\ RecordOf(h, head).device_type = remote.device_type
  BY <1>1
<1>6. On(L) \subseteq Cells /\ NULL \notin Cells
  BY OnTypes, CellTypes
<1>7. CASE last = NULL
  BY <1>3, <1>4, <1>5, <1>6, <1>7 DEF Zeroed
<1>8. CASE last # NULL
  <2>1. last \in On(L) /\ h[last].device_type # "BULB" /\ remote = h[last]
    BY <1>3, <1>4, <1>8
  <2>2. QED
    BY <1>5, <2>1
<1>9. QED
  BY <1>7, <1>8

(* An entry is unlinked from a list of two at most.                        *)
FirstUnlinked(h, first, S, left) ==
    left.heap = h /\ \E Q : IsList(h, left.head, Q) /\ On(Q) = On(S) \ {first}
SecondUnlinked(h, first, d, other, P, left) ==
    /\ left.head = first /\ left.heap \in Heaps
    /\ \A c \in Cells : SameEntry(left.heap[c], h[c])
    /\ \E Q : IsList(left.heap, first, Q) /\ On(Q) = {first}
    /\ \E Q : /\ IsList(left.heap, other, Q)
              /\ On(Q) = IF first \in On(P) THEN On(P) \ {d} ELSE On(P)

LEMMA Unlinked ==
  ASSUME NEW h \in Heaps, NEW head, NEW S, IsList(h, head, S), Len(S) <= 2,
         NEW other, NEW P, IsList(h, other, P), NEW k \in 1..Len(S),
         NEW left, left = DeleteDeviceInfoEntry(h, head, S[k])
  PROVE  \/ S[k] = head /\ FirstUnlinked(h, head, S, left)
         \/ S[k] # head /\ SecondUnlinked(h, head, S[k], other, P, left)
<1>1. PICK n : n = Len(S)
  OBVIOUS
<1>2. /\ n \in {1, 2} /\ k \in 1..n
      /\ head = S[1] /\ S[1] \in Cells /\ S[k] \in Cells /\ On(S) = {S[i] : i \in 1..n}
      /\ h[S[n]].Next = NULL /\ S[n] \in Cells
      /\ n = 2 => h[S[1]].Next = S[2] /\ S[2] \in Cells
      /\ \A i, j \in 1..n : S[i] = S[j] => i = j
  <2>1. /\ n \in Nat /\ n <= 2 /\ k \in 1..n /\ \A i \in 1..n : S[i] \in Cells
        /\ (n # 0 => head = S[1] /\ n \in 1..n /\ h[S[n]].Next = NULL)
        /\ \A i \in 1..n : i < n => i + 1 \in 1..n /\ h[S[i]].Next = S[i + 1]
    BY <1>1, OnTypes
  <2>2. n \in {1, 2} /\ 1 \in 1..n
    BY <2>1
  <2>3. n = 2 => h[S[1]].Next = S[2] /\ S[2] \in Cells
    <3>1. n = 2 => 1 < n /\ 1 + 1 = 2 /\ 2 \in 1..n
      BY <2>2
    <3>2. QED
      BY <2>1, <2>2, <3>1
  <2>4. QED
    BY <1>1, <2>1, <2>2, <2>3 DEF IsList, On
<1>3. CASE k = 1
  <2>1. left = [heap |-> h, head |-> h[S[1]].Next] /\ S[k] = head
    BY <1>2, <1>3 DEF DeleteDeviceInfoEntry
  <2>2. left.heap = h /\ left.head = h[S[1]].Next
    BY <2>1
  <2>3. CASE n = 1
    <3>1. left.head = NULL /\ On(S) \ {head} = {}
      BY <1>2, <2>2, <2>3
    <3>2. PICK Q : Q = <<>>
      OBVIOUS
    <3>3. IsList(h, left.head, Q) /\ On(Q) = On(S) \ {head}
      BY <3>1, <3>2, Empty
    <3>4. QED
      BY <2>1, <2>2, <3>3 DEF FirstUnlinked
  <2>4. CASE n = 2
    <3>1. left.head = S[2] /\ S[2] \in Cells /\ h[S[2]].Next = NULL
      BY <1>2, <2>2, <2>4
    <3>2. On(S) \ {head} = {S[2]}
      <4>1. 1..n = {1, 2} /\ S[1] # S[2]
        BY <1>2, <2>4
      <4>2. QED
        BY <1>2, <4>1
    <3>3. PICK Q : Q = <<S[2]>>
      OBVIOUS
    <3>4. IsList(h, left.head, Q) /\ On(Q) = On(S) \ {head}
      BY <3>1, <3>2, <3>3, Single
    <3>5. QED
      BY <2>1, <2>2, <3>4 DEF FirstUnlinked
  <2>5. QED
    BY <1>2, <2>3, <2>4
<1>4. CASE k # 1
  <2>1. k = 2 /\ n = 2
    BY <1>2, <1>4
  <2>2. PICK x : x = S[1]
    OBVIOUS
  <2>3. PICK y : y = S[2]
    OBVIOUS
  <2>4. /\ head = x /\ S[k] = y /\ x \in Cells /\ y \in Cells /\ x # y
        /\ h[x].Next = y /\ h[y].Next = NULL /\ y # NULL
    BY <1>2, <2>1, <2>2, <2>3, CellTypes
  <2>5. First(Entries(h, head), {d \in Cells : h[d].Next = y}) = x
    <3>1. PICK before : before = First(Entries(h, head), {d \in Cells : h[d].Next = y})
      OBVIOUS
    <3>2. x \in On(S) \cap {d \in Cells : h[d].Next = y}
      BY <1>2, <2>2, <2>4 DEF On
    <3>3. \E i \in 1..n : before = S[i] /\ h[S[i]].Next = y
      BY <1>1, <3>1, <3>2, SearchOn
    <3>4. \A i \in 1..n : i = 1 \/ i = 2
      BY <2>1
    <3>5. before = x
      BY <2>2, <2>3, <2>4, <3>3, <3>4
    <3>6. QED
      BY <3>1, <3>5
  <2>6. PICK g : g = [h EXCEPT ![x].Next = NULL]
    OBVIOUS
  <2>7. left = [heap |-> g, head |-> head]
    BY <2>4, <2>5, <2>6 DEF DeleteDeviceInfoEntry
  <2>8. left.heap = g /\ left.head = head
    BY <2>7
  <2>9. g \in Heaps
    BY <2>6, HeapTypes DEF Heads
  <2>10. g[x] = [h[x] EXCEPT !.Next = NULL] /\ \A c \in Cells \ {x} : g[c] = h[c]
    BY <2>4, <2>6 DEF Heaps
  <2>11. g[x].Next = NULL /\ SameEntry(g[x], h[x])
    BY <2>4, <2>10 DEF SameEntry, SameDevice, Cell, Heaps
  <2>12. \A c \in Cells : SameEntry(g[c], h[c])
    BY <2>10, <2>11 DEF SameEntry, SameDevice
  <2>13. \E Q : IsList(g, head, Q) /\ On(Q) = {head}
    <3>1. PICK Q : Q = <<x>>
      OBVIOUS
    <3>2. IsList(g, x, Q) /\ On(Q) = {x}
      BY <2>4, <2>11, <3>1, Single
    <3>3. QED
      BY <2>4, <3>2
  <2>14. CASE x \in On(P)
    <3>1. PICK i \in 1..Len(P) : P[i] = x
      BY <2>14 DEF On
    <3>2. /\ i + 1 \in 1..Len(P) /\ P[i + 1] = y /\ On(P) \subseteq Cells /\ Len(P) \in Nat
      <4>1. /\ On(P) \subseteq Cells /\ Len(P) \in Nat
            /\ i < Len(P) => i + 1 \in 1..Len(P) /\ h[P[i]].Next = P[i + 1]
            /\ Len(P) # 0 => h[P[Len(P)]].Next = NULL
        BY ONLY IsList(h, other, P), i \in 1..Len(P), OnTypes
      <4>2. i # Len(P)
        BY <2>4, <3>1, <4>1
      <4>3. i < Len(P)
        BY ONLY <4>1, <4>2, i \in 1..Len(P)
      <4>4. QED
        BY <2>4, <3>1, <4>1, <4>3
    <3>3. i + 1 = Len(P)
      BY <2>4, <3>2, OnlyLastEnds
    <3>4. g[P[i]].Next = NULL /\ \A c \in On(P) \ {P[i]} : g[c].Next = h[c].Next
      BY <2>10, <2>11, <3>1, <3>2
    <3>5. PICK Q : /\ IsList(g, other, Q) /\ Len(Q) = i
                   /\ \A j \in 1..i : Q[j] = P[j]
                   /\ On(Q) \subseteq On(P)
      BY ONLY IsList(h, other, P), <3>1, <3>4, Beginning
    <3>6. y \notin On(Q)
      <4>1. \A j \in 1..i : P[j] # P[i + 1]
        BY <3>2 DEF IsList
      <4>2. QED
        BY <3>2, <3>5, <4>1 DEF On
    <3>7. ASSUME NEW c \in On(P) \ {y} PROVE c \in On(Q)
      <4>1. PICK j \in 1..Len(P) : c = P[j]
        BY DEF On
      <4>2. j # i + 1
        BY <3>2, <3>7, <4>1
      <4>3. j \in 1..i
        BY <3>2, <3>3, <4>1, <4>2
      <4>4. QED
        BY <3>5, <4>1, <4>3 DEF On
    <3>8. On(Q) = On(P) \ {y}
      BY <3>5, <3>6, <3>7
    <3>9. QED
      BY <2>4, <2>8, <2>9, <2>12, <2>13, <2>14, <3>5, <3>8 DEF SecondUnlinked
  <2>15. CASE x \notin On(P)
    <3>1. \A c \in On(P) : g[c].Next = h[c].Next
      BY <2>10, <2>15, OnTypes
    <3>2. IsList(g, other, P)
      BY <3>1, FrameList
    <3>3. QED
      BY <2>4, <2>8, <2>9, <2>12, <2>13, <2>15, <3>2 DEF SecondUnlinked
  <2>16. QED
    BY <2>14, <2>15
<1>5. QED
  BY <1>3, <1>4

-----------------------------------------------------------------------------
(* What makes the lists sound with one phone and one bulb at most.  A is   *)
(* the cells of the session's list, first the first of them, and B those   *)
(* of the persistent list.                                                 *)
OneOfEach == (\A x, y \in Mobiles : x = y) /\ (\A x, y \in Bulbs : x = y)

Kind(a) == IF a \in Mobiles THEN "MOBILE" ELSE "BULB"
OfDevice(a, type) == a \in Peers /\ (type = "NONE" \/ type = Kind(a))

(* An entry is for a device, with its type or none yet.                    *)
AreDevices(h, A, B) ==
    \A c \in A \union B : OfDevice(h[c].RemoteAddress, h[c].device_type)
RecordSound(rec) ==
    /\ rec.device_type # "BULB"
    /\ rec.LastAddress # NullAddr => OfDevice(rec.LastAddress, rec.device_type)
Once(h, A) == \A c, d \in A : h[c].RemoteAddress = h[d].RemoteAddress => c = d

(* If the persistent list shares the end of the session's list but not its *)
(* first entry, it has an entry of that device's type of its own: the one  *)
(* a copy of the first entry went to, with the pointer.                    *)
FirstWasCopied(h, first, A, B) ==
    first # NULL /\ first \notin B /\ A \cap B # {} =>
      \E c \in B : h[c].device_type = Kind(h[first].RemoteAddress)

(* If it shares the whole list and that begins with the bulb, it has an    *)
(* entry for a remote device that the session's list has not.              *)
RemoteBesidesBulb(h, first, A, B) ==
    first \in B /\ h[first].RemoteAddress \in Bulbs =>
      \E c \in B \ A : h[c].device_type # "BULB"

(* Once the persistent list holds the remote device of a record it always  *)
(* holds one.                                                              *)
RemoteListed(h, B, rec) ==
    rec.LastAddress # NullAddr => \E c \in B : h[c].device_type # "BULB"

Data(h, rec, first, A, B) ==
    /\ AreDevices(h, A, B) /\ RecordSound(rec) /\ Once(h, A)
    /\ FirstWasCopied(h, first, A, B)
    /\ RemoteBesidesBulb(h, first, A, B)
    /\ RemoteListed(h, B, rec)

LEMMA Kinds ==
  ASSUME OneOfEach
  PROVE  /\ \A a, b \in Peers : Kind(a) = Kind(b) => a = b
         /\ \A a \in Bulbs : a \in Peers /\ Kind(a) = "BULB"
         /\ \A a \in Mobiles : a \in Peers /\ Kind(a) = "MOBILE"
         /\ \A a \in Peers : Kind(a) = "BULB" => a \in Bulbs
         /\ \A a \in Peers : Kind(a) \in {"MOBILE", "BULB"} /\ a # NullAddr
  BY StoreSizes DEF OneOfEach, Kind, Peers

LEMMA AtMostTwo ==
  ASSUME OneOfEach, NEW h, NEW A, NEW B, AreDevices(h, A, B), Once(h, A)
  PROVE  /\ \A c, d \in A : Kind(h[c].RemoteAddress) = Kind(h[d].RemoteAddress) => c = d
         /\ \A x, y, z \in A : x = y \/ y = z \/ x = z
<1>1. \A c \in A : h[c].RemoteAddress \in Peers
  BY DEF AreDevices, OfDevice
<1>2. \A c, d \in A : Kind(h[c].RemoteAddress) = Kind(h[d].RemoteAddress) => c = d
  BY <1>1, Kinds DEF Once
<1>3. \A c \in A : Kind(h[c].RemoteAddress) \in {"MOBILE", "BULB"}
  BY <1>1, Kinds
<1>4. QED
  BY <1>2, <1>3

(* Every step leaves the heap's data like that.                            *)
LEMMA DataFrame ==
  ASSUME NEW h, NEW g, NEW rec, NEW first, NEW A, NEW B, Data(h, rec, first, A, B),
         \A c \in A \union B : SameDevice(g[c], h[c]),
         first # NULL => first \in A
  PROVE  Data(g, rec, first, A, B)
<1>1. AreDevices(g, A, B) /\ RecordSound(rec)
  BY DEF Data, AreDevices, SameDevice
<1>2. Once(g, A)
  BY DEF Data, Once, SameDevice
<1>3. FirstWasCopied(g, first, A, B)
  BY DEF Data, FirstWasCopied, SameDevice
<1>4. RemoteBesidesBulb(g, first, A, B)
  BY DEF Data, RemoteBesidesBulb, SameDevice
<1>5. RemoteListed(g, B, rec)
  BY DEF Data, RemoteListed, SameDevice
<1>6. QED
  BY <1>1, <1>2, <1>3, <1>4, <1>5 DEF Data

(* Entry f of device p joins the session's list, and the persistent list   *)
(* if they share an end.                                                   *)
Joins(h, g, first, A, B, f, p, begin, C) ==
    /\ f \notin A \union B /\ p \in Peers
    /\ (first = NULL /\ A = {}) \/ (first # NULL /\ first \in A)
    /\ \A c \in A : h[c].RemoteAddress # p
    /\ \A c \in A \union B : SameDevice(g[c], h[c])
    /\ g[f].RemoteAddress = p /\ g[f].device_type = "NONE"
    /\ begin = IF first = NULL THEN f ELSE first
    /\ C = B \/ (C = B \union {f} /\ A \cap B # {})

LEMMA DataConnected ==
  ASSUME NEW h, NEW g, NEW rec, NEW first, NEW A, NEW B, Data(h, rec, first, A, B),
         NEW f, NEW p, NEW begin, NEW C, Joins(h, g, first, A, B, f, p, begin, C)
  PROVE  Data(g, rec, begin, A \union {f}, C)
<1> USE DEF Joins
<1>1. AreDevices(g, A \union {f}, C) /\ RecordSound(rec)
  BY DEF Data, AreDevices, SameDevice, OfDevice
<1>2. Once(g, A \union {f})
  <2>1. \A c \in A : g[c].RemoteAddress = h[c].RemoteAddress
    BY DEF SameDevice
  <2>2. QED
    BY <2>1 DEF Data, Once
<1>3. FirstWasCopied(g, begin, A \union {f}, C)
  <2> SUFFICES ASSUME begin \notin C, (A \union {f}) \cap C # {}
               PROVE  \E c \in C : g[c].device_type = Kind(g[begin].RemoteAddress)
    BY DEF FirstWasCopied
  <2>1. A \cap B # {}
    OBVIOUS
  <2>2. first # NULL /\ first \in A /\ begin = first /\ first \notin B
    BY <2>1
  <2>3. PICK c \in B : h[c].device_type = Kind(h[first].RemoteAddress)
    BY <2>1, <2>2 DEF Data, FirstWasCopied
  <2>4. QED
    BY <2>2, <2>3 DEF SameDevice
<1>4. RemoteBesidesBulb(g, begin, A \union {f}, C)
  <2> SUFFICES ASSUME begin \in C, g[begin].RemoteAddress \in Bulbs
               PROVE  \E c \in C \ (A \union {f}) : g[c].device_type # "BULB"
    BY DEF RemoteBesidesBulb
  <2>1. first # NULL /\ first \in A /\ begin = first
    OBVIOUS
  <2>2. first \in B /\ h[first].RemoteAddress \in Bulbs
    BY <2>1 DEF SameDevice
  <2>3. PICK c \in B \ A : h[c].device_type # "BULB"
    BY <2>2 DEF Data, RemoteBesidesBulb
  <2>4. QED
    BY <2>3 DEF SameDevice
<1>5. RemoteListed(g, C, rec)
  BY DEF Data, RemoteListed, SameDevice
<1>6. QED
  BY <1>1, <1>2, <1>3, <1>4, <1>5 DEF Data

LEMMA DataFirstLeft ==
  ASSUME OneOfEach, NEW h, NEW rec, NEW first \in Cells, NEW A, NEW B,
         Data(h, rec, first, A, B), first \in A, NULL \notin B,
         NEW begin, begin = NULL \/ begin \in A \ {first}
  PROVE  Data(h, rec, begin, A \ {first}, B)
<1>1. AreDevices(h, A \ {first}, B) /\ RecordSound(rec) /\ Once(h, A \ {first})
  BY DEF Data, AreDevices, Once
<1>2. /\ \A c, d \in A : Kind(h[c].RemoteAddress) = Kind(h[d].RemoteAddress) => c = d
      /\ \A x, y, z \in A : x = y \/ y = z \/ x = z
      /\ first # NULL
  BY AtMostTwo, CellTypes DEF Data
<1>3. FirstWasCopied(h, begin, A \ {first}, B)
  BY <1>2 DEF FirstWasCopied
<1>4. RemoteBesidesBulb(h, begin, A \ {first}, B)
  <2> SUFFICES ASSUME begin \in B, h[begin].RemoteAddress \in Bulbs
               PROVE  \E c \in B \ (A \ {first}) : h[c].device_type # "BULB"
    BY DEF RemoteBesidesBulb
  <2>1. begin \in A /\ begin # first
    OBVIOUS
  <2>2. Kind(h[begin].RemoteAddress) = "BULB" /\ h[first].RemoteAddress \in Peers
    BY Kinds DEF Data, AreDevices, OfDevice
  <2>3. Kind(h[first].RemoteAddress) = "MOBILE"
    BY <1>2, <2>1, <2>2, Kinds
  <2>4. CASE first \in B
    <3>1. h[first].device_type # "BULB"
      BY <2>3 DEF Data, AreDevices, OfDevice
    <3>2. QED
      BY <2>4, <3>1
  <2>5. CASE first \notin B
    <3>1. PICK c \in B : h[c].device_type = "MOBILE"
      BY <1>2, <2>1, <2>3, <2>5 DEF Data, FirstWasCopied
    <3>2. Kind(h[c].RemoteAddress) = "MOBILE"
      BY <3>1 DEF Data, AreDevices, OfDevice
    <3>3. c \notin A \ {first}
      BY <1>2, <2>3, <3>2
    <3>4. QED
      BY <3>1, <3>3
  <2>6. QED
    BY <2>4, <2>5
<1>5. RemoteListed(h, B, rec)
  BY DEF Data
<1>6. QED
  BY <1>1, <1>3, <1>4, <1>5 DEF Data

LEMMA DataSecondLeft ==
  ASSUME OneOfEach, NEW h, NEW rec, NEW first, NEW A, NEW B,
         Data(h, rec, first, A, B), first \in A, NEW d \in A, d # first,
         NEW C, C = IF first \in B THEN B \ {d} ELSE B
  PROVE  Data(h, rec, first, {first}, C)
<1>1. AreDevices(h, {first}, C) /\ RecordSound(rec) /\ Once(h, {first})
  BY DEF Data, AreDevices, Once
<1>2. FirstWasCopied(h, first, {first}, C)
  BY DEF FirstWasCopied
<1>3. ASSUME first \in B, h[first].RemoteAddress \in Bulbs
      PROVE  \E c \in C \ {first} : h[c].device_type # "BULB"
  BY <1>3 DEF Data, RemoteBesidesBulb
<1>4. RemoteBesidesBulb(h, first, {first}, C)
  BY <1>3 DEF RemoteBesidesBulb
<1>5. RemoteListed(h, C, rec)
  <2> SUFFICES ASSUME rec.LastAddress # NullAddr
               PROVE  \E c \in C : h[c].device_type # "BULB"
    BY DEF RemoteListed
  <2>1. CASE first \notin B
    BY <2>1 DEF Data, RemoteListed
  <2>2. CASE first \in B /\ h[first].device_type # "BULB"
    BY <2>2
  <2>3. CASE first \in B /\ h[first].device_type = "BULB"
    <3>1. h[first].RemoteAddress \in Peers /\ Kind(h[first].RemoteAddress) = "BULB"
      BY <2>3 DEF Data, AreDevices, OfDevice
    <3>2. QED
      BY <1>3, <2>3, <3>1, Kinds
  <2>4. QED
    BY <2>1, <2>2, <2>3
<1>6. QED
  BY <1>1, <1>2, <1>4, <1>5 DEF Data

LEMMA DataTyped ==
  ASSUME OneOfEach, NEW h, NEW g, NEW rec, NEW first, NEW A, NEW B,
         Data(h, rec, first, A, B), first \in A, first # NULL, NEW d \in A,
         \A c \in (A \union B) \ {d} : g[c] = h[c],
         g[d].RemoteAddress = h[d].RemoteAddress,
         g[d].device_type = Kind(h[d].RemoteAddress)
  PROVE  Data(g, rec, first, A, B)
<1>1. \A c \in A \union B : g[c].RemoteAddress = h[c].RemoteAddress
  OBVIOUS
<1>2. \A c \in A \union B :
        /\ h[c].RemoteAddress \in Peers
        /\ h[c].device_type = "NONE" \/ h[c].device_type = Kind(h[c].RemoteAddress)
        /\ g[c].device_type = h[c].device_type \/ c = d
        /\ h[c].device_type # "NONE" => g[c].device_type = h[c].device_type
  BY DEF Data, AreDevices, OfDevice
<1>3. AreDevices(g, A, B) /\ RecordSound(rec)
  BY <1>1, <1>2 DEF Data, AreDevices, OfDevice
<1>4. Once(g, A)
  BY <1>1 DEF Data, Once
<1>5. FirstWasCopied(g, first, A, B)
  <2> SUFFICES ASSUME first # NULL, first \notin B, A \cap B # {}
               PROVE  \E c \in B : g[c].device_type = Kind(g[first].RemoteAddress)
    BY DEF FirstWasCopied
  <2>1. PICK c \in B : h[c].device_type = Kind(h[first].RemoteAddress)
    BY DEF Data, FirstWasCopied
  <2>2. h[c].device_type # "NONE"
    BY <1>2, <2>1, Kinds
  <2>3. QED
    BY <1>1, <1>2, <2>1, <2>2
<1>6. RemoteBesidesBulb(g, first, A, B)
  BY <1>1, <1>2 DEF Data, RemoteBesidesBulb
<1>7. RemoteListed(g, B, rec)
  <2> SUFFICES ASSUME rec.LastAddress # NullAddr
               PROVE  \E c \in B : g[c].device_type # "BULB"
    BY DEF RemoteListed
  <2>1. PICK c \in B : h[c].device_type # "BULB"
    BY DEF Data, RemoteListed
  <2>2. CASE c # d \/ Kind(h[d].RemoteAddress) # "BULB"
    BY <1>2, <2>1, <2>2
  <2>3. CASE c = d /\ Kind(h[d].RemoteAddress) = "BULB"
    <3>1. h[d].RemoteAddress \in Bulbs /\ d \in B
      BY <1>2, <2>3, Kinds
    <3>2. CASE d = first
      <4>1. PICK e \in B \ A : h[e].device_type # "BULB"
        BY <3>1, <3>2 DEF Data, RemoteBesidesBulb
      <4>2. QED
        BY <1>2, <4>1
    <3>3. CASE d # first
      <4>1. Kind(h[first].RemoteAddress) = "MOBILE"
        <5>1. Kind(h[first].RemoteAddress) # Kind(h[d].RemoteAddress)
          BY <3>3, AtMostTwo DEF Data
        <5>2. QED
          BY <1>2, <2>3, <5>1, Kinds
      <4>2. CASE first \in B
        <5>1. h[first].device_type # "BULB"
          BY <1>2, <4>1
        <5>2. QED
          BY <1>2, <3>3, <4>2, <5>1
      <4>3. CASE first \notin B
        <5>1. A \cap B # {}
          BY <3>1
        <5>2. PICK e \in B : h[e].device_type = "MOBILE"
          BY <4>1, <4>3, <5>1 DEF Data, FirstWasCopied
        <5>3. g[e].device_type = "MOBILE"
          BY <1>2, <5>2
        <5>4. QED
          BY <5>3
      <4>4. QED
        BY <4>2, <4>3
    <3>4. QED
      BY <3>2, <3>3
  <2>4. QED
    BY <2>2, <2>3
<1>8. QED
  BY <1>3, <1>4, <1>5, <1>6, <1>7 DEF Data

(* A device of which the persistent list has no entry of its type: the     *)
(* lists share nothing.                                                    *)
LEMMA NothingShared ==
  ASSUME OneOfEach, NEW h, NEW rec, NEW first, NEW A, NEW B,
         Data(h, rec, first, A, B), first \in A, first # NULL, NEW d \in A,
         h[d].device_type = Kind(h[d].RemoteAddress),
         \A c \in B : h[c].device_type # Kind(h[d].RemoteAddress),
         first \in B => A \subseteq B
  PROVE  A \cap B = {}
<1>1. d \notin B /\ first \notin B
  OBVIOUS
<1>2. SUFFICES ASSUME NEW z \in A \cap B PROVE FALSE
  OBVIOUS
<1>3. first # d
  BY <1>1 DEF Data, FirstWasCopied
<1>4. QED
  BY <1>1, <1>3, AtMostTwo DEF Data

(* The entry d is copied over the entry e, which is not in the session's   *)
(* list, and the persistent list becomes C.                                *)
CopiedOver(h, g, first, A, B, d, e, C) ==
    /\ h[d].device_type = Kind(h[d].RemoteAddress)
    /\ \A c \in (A \union B) \ {e} : SameDevice(g[c], h[c])
    /\ g[e] = h[d]
    /\ C \subseteq A \union B \union {e} /\ e \in C /\ (d # first => d \notin C)
    /\ \/ h[d].device_type = "MOBILE"
       \/ first \notin C /\ B \ {e} \subseteq C /\ e \notin B

LEMMA DataCopied ==
  ASSUME OneOfEach, NEW h, NEW g, NEW rec, NEW first, NEW A, NEW B,
         Data(h, rec, first, A, B), first \in A, NEW d \in A, NEW e, e \notin A,
         NEW C, CopiedOver(h, g, first, A, B, d, e, C)
  PROVE  Data(g, rec, first, A, C)
<1> USE DEF CopiedOver
<1>1. /\ \A c \in A : SameDevice(g[c], h[c])
      /\ \A c \in C : c = e \/ SameDevice(g[c], h[c])
  OBVIOUS
<1>2. AreDevices(g, A, C) /\ RecordSound(rec)
  BY <1>1 DEF Data, AreDevices, SameDevice
<1>3. Once(g, A)
  BY <1>1 DEF Data, Once, SameDevice
<1>4. FirstWasCopied(g, first, A, C)
  <2> SUFFICES ASSUME first \notin C, A \cap C # {}
               PROVE  \E c \in C : g[c].device_type = Kind(g[first].RemoteAddress)
    BY DEF FirstWasCopied
  <2>1. first = d
    BY AtMostTwo DEF Data
  <2>2. g[e].device_type = Kind(g[first].RemoteAddress)
    BY <1>1, <2>1 DEF SameDevice
  <2>3. QED
    BY <2>2
<1>5. RemoteBesidesBulb(g, first, A, C)
  BY DEF RemoteBesidesBulb
<1>6. RemoteListed(g, C, rec)
  <2> SUFFICES ASSUME rec.LastAddress # NullAddr, h[d].device_type # "MOBILE"
               PROVE  \E c \in C : g[c].device_type # "BULB"
    BY DEF RemoteListed
  <2>1. PICK c \in B : h[c].device_type # "BULB"
    BY DEF Data, RemoteListed
  <2>2. c \in C /\ c # e /\ SameDevice(g[c], h[c])
    OBVIOUS
  <2>3. QED
    BY <2>1, <2>2 DEF SameDevice
<1>7. QED
  BY <1>2, <1>3, <1>4, <1>5, <1>6 DEF Data

(* StorePersistentData writes the record of a list.                        *)
LEMMA DataSaved ==
  ASSUME OneOfEach, NEW h \in Heaps, NEW rec, NEW first, NEW A, NEW other, NEW P,
         Data(h, rec, first, A, On(P)), IsList(h, other, P)
  PROVE  /\ Data(h, RecordOf(h, other), first, A, On(P))
         /\ rec.LastAddress # NullAddr => RecordOf(h, other).LastAddress # NullAddr
<1>1. PICK new : new = RecordOf(h, other)
  OBVIOUS
<1>2. \/ /\ new.LastAddress = NullAddr /\ new.device_type = "NONE"
         /\ \A c \in On(P) : h[c].device_type = "BULB"
      \/ \E c \in On(P) : /\ h[c].device_type # "BULB"
                          /\ new.LastAddress = h[c].RemoteAddress
                          /\ new.device_type = h[c].device_type
  BY <1>1, RecordIs
<1>3. \A c \in On(P) : OfDevice(h[c].RemoteAddress, h[c].device_type)
                       /\ h[c].RemoteAddress # NullAddr
  BY Kinds DEF Data, AreDevices, OfDevice
<1>4. RecordSound(new) /\ RemoteListed(h, On(P), new)
  BY <1>2, <1>3 DEF RecordSound, RemoteListed
<1>5. rec.LastAddress # NullAddr => new.LastAddress # NullAddr
  BY <1>2, <1>3 DEF Data, RemoteListed
<1>6. QED
  BY <1>1, <1>4, <1>5 DEF Data

(* If one list has the first entry of another it has all of them.          *)
LEMMA AllShared ==
  ASSUME NEW h, NEW first, NEW S, IsList(h, first, S), Len(S) <= 2,
         NEW other, NEW P, IsList(h, other, P), first \in On(P)
  PROVE  On(S) \subseteq On(P)
<1>1. /\ Len(S) \in Nat /\ Len(P) \in Nat
      /\ Len(S) # 0 => first = S[1]
      /\ \A i \in 1..Len(S) : i < Len(S) => h[S[i]].Next = S[i + 1] /\ S[i + 1] # NULL
      /\ \A i \in 1..Len(P) : i < Len(P) => i + 1 \in 1..Len(P) /\ h[P[i]].Next = P[i + 1]
      /\ \A i \in 1..Len(P) : i = Len(P) => h[P[i]].Next = NULL
  BY OnTypes
<1>2. SUFFICES ASSUME NEW i \in 1..Len(S) PROVE S[i] \in On(P)
  BY DEF On
<1>3. PICK n : n = Len(S)
  OBVIOUS
<1>4. n \in Nat /\ n <= 2 /\ i \in 1..n
  BY <1>1, <1>3
<1>5. i = 1 \/ (i = 2 /\ 1 < n /\ 1 \in 1..n)
  BY ONLY <1>4
<1>6. first = S[1]
  BY <1>1, <1>3, <1>4
<1>7. CASE i = 1
  BY <1>6, <1>7
<1>8. CASE i = 2 /\ 1 < n /\ 1 \in 1..n
  <2>1. h[first].Next = S[2] /\ S[2] # NULL
    BY <1>1, <1>3, <1>6, <1>8
  <2>2. PICK j \in 1..Len(P) : P[j] = first
    BY DEF On
  <2>3. j # Len(P)
    BY <1>1, <2>1, <2>2
  <2>4. j < Len(P)
    BY <1>1, <2>2, <2>3
  <2>5. S[2] = P[j + 1] /\ j + 1 \in 1..Len(P)
    BY <1>1, <2>1, <2>2, <2>4
  <2>6. QED
    BY <1>8, <2>5 DEF On
<1>9. QED
  BY <1>5, <1>7, <1>8

LEMMA AtMostTwoEntries ==
  ASSUME OneOfEach, NEW h, NEW first, NEW S, IsList(h, first, S), NEW B,
         AreDevices(h, On(S), B), Once(h, On(S))
  PROVE  Len(S) <= 2
<1>1. SUFFICES ASSUME ~ (Len(S) <= 2) PROVE FALSE
  OBVIOUS
<1>2. Len(S) \in Nat /\ \A i \in 1..Len(S) : S[i] \in On(S)
  BY OnTypes
<1>3. 1 \in 1..Len(S) /\ 2 \in 1..Len(S) /\ 3 \in 1..Len(S)
  BY <1>1, <1>2
<1>4. S[1] # S[2] /\ S[2] # S[3] /\ S[1] # S[3]
  BY <1>3 DEF IsList
<1>5. QED
  BY <1>2, <1>3, <1>4, AtMostTwo

-----------------------------------------------------------------------------
(* The inductive invariant. *)
Lists(h, first, other, rec, S, P) ==
    /\ h \in Heaps /\ IsList(h, first, S) /\ IsList(h, other, P)
    /\ Data(h, rec, first, On(S), On(P))
Sound(h, first, other, rec) == \E S, P : Lists(h, first, other, rec, S, P)

(* The lists are sound with any record whose remote device they hold, and  *)
(* with none at all after a restart that could not load it.                *)
SoundFor(rec) == Sound(heap, DeviceInfoList, PersistDeviceInfoList, rec)
StoreInv == RecordSound(saved) /\ SoundFor(NoRecord)

LEMMA ListFacts ==
  ASSUME OneOfEach, NEW h, NEW first, NEW other, NEW rec, NEW S, NEW P,
         Lists(h, first, other, rec, S, P)
  PROVE  /\ Len(S) <= 2 /\ On(S) \subseteq Cells /\ On(P) \subseteq Cells
         /\ (first = NULL /\ On(S) = {}) \/ (first # NULL /\ first \in On(S))
         /\ NULL \notin On(P)
         /\ \A c \in On(S) \union On(P) : /\ h[c].RemoteAddress \in Peers
                                          /\ h[c].RemoteAddress # NullAddr
<1>1. Len(S) <= 2
  BY AtMostTwoEntries DEF Lists, Data
<1>2. On(S) \subseteq Cells /\ On(P) \subseteq Cells /\ NULL \notin Cells
  BY OnTypes, CellTypes DEF Lists
<1>3. (first = NULL /\ On(S) = {}) \/ (first # NULL /\ first \in On(S))
  <2>1. CASE Len(S) = 0
    <3>1. On(S) = {}
      BY <2>1 DEF On
    <3>2. QED
      BY <2>1, <3>1, OnTypes DEF Lists
  <2>2. CASE Len(S) # 0
    BY <2>2, OnTypes DEF Lists
  <2>3. QED
    BY <2>1, <2>2
<1>4. \A c \in On(S) \union On(P) : h[c].RemoteAddress \in Peers
  BY DEF Lists, Data, AreDevices, OfDevice
<1>5. QED
  BY <1>1, <1>2, <1>3, <1>4, StoreSizes

(* What a search by address finds, and whose key is valid.                 *)
Keyed(h, A, p) == \E c \in A : h[c].RemoteAddress = p /\ h[c].LTK = p

LEMMA Looked ==
  ASSUME NEW h \in Heaps, NEW first, NEW S, IsList(h, first, S), NEW p,
         NEW found, found = SearchDeviceInfoEntryByBD_ADDR(h, first, p)
  PROVE  \/ found = NULL /\ \A c \in On(S) : h[c].RemoteAddress # p
         \/ \E k \in 1..Len(S) : found = S[k] /\ h[found].RemoteAddress = p
<1>1. On(S) \subseteq Cells
  BY OnTypes
<1>2. \/ found = NULL /\ On(S) \cap {c \in Cells : h[c].RemoteAddress = p} = {}
      \/ \E k \in 1..Len(S) : found = S[k] /\ S[k] \in {c \in Cells : h[c].RemoteAddress = p}
  BY SearchOn DEF SearchDeviceInfoEntryByBD_ADDR
<1>3. QED
  BY <1>1, <1>2

LEMMA BondedIs ==
  ASSUME NEW h \in Heaps, NEW first, NEW S, IsList(h, first, S), Once(h, On(S)), NEW p
  PROVE  Bonded(h, first, p) <=> Keyed(h, On(S), p)
<1>1. On(S) \subseteq Cells /\ NULL \notin Cells
  BY OnTypes, CellTypes
<1>2. PICK found : found = SearchDeviceInfoEntryByBD_ADDR(h, first, p)
  OBVIOUS
<1>3. \/ found = NULL /\ \A c \in On(S) : h[c].RemoteAddress # p
      \/ found \in On(S) /\ h[found].RemoteAddress = p
  BY <1>2, Looked DEF On
<1>4. Bonded(h, first, p) <=> found \in {c \in Cells : h[c].LTK = p}
  BY <1>2 DEF Bonded
<1>5. QED
  BY <1>1, <1>3, <1>4 DEF Keyed, Once

LEMMA ListsKept ==
  ASSUME NEW h, NEW first, NEW other, NEW rec, NEW S, NEW P,
         Lists(h, first, other, rec, S, P), (first = NULL \/ first \in On(S)),
         NEW kept, kept = Kept(h, first, other)
  PROVE  /\ Lists(kept, first, other, rec, S, P)
         /\ \A c \in On(S) : kept[c] = h[c]
<1>1. \A c \in On(S) \union On(P) : kept[c] = h[c]
  BY KeptSame DEF Lists
<1>2. kept \in Heaps
  BY KeptTypes DEF Lists
<1>3. IsList(kept, first, S) /\ IsList(kept, other, P)
  BY <1>1, FrameList DEF Lists
<1>4. \A c \in On(S) \union On(P) : SameDevice(kept[c], h[c])
  BY <1>1 DEF SameDevice
<1>5. Data(kept, rec, first, On(S), On(P))
  BY <1>4, DataFrame DEF Lists
<1>6. QED
  BY <1>1, <1>2, <1>3, <1>5 DEF Lists

LEMMA InvInit == StoreInit => StoreInv
<1> SUFFICES ASSUME StoreInit PROVE StoreInv
  OBVIOUS
<1>1. PICK S : S = <<>>
  OBVIOUS
<1>2. IsList(heap, NULL, S) /\ On(S) = {}
  BY <1>1, Empty
<1>3. Data(heap, NoRecord, NULL, {}, {})
  BY DEF Data, AreDevices, RecordSound, NoRecord, Once, FirstWasCopied,
         RemoteBesidesBulb, RemoteListed
<1>4. heap \in Heaps
  BY CellTypes DEF StoreInit, Heaps
<1>5. QED
  BY <1>2, <1>3, <1>4 DEF StoreInit, StoreInv, SoundFor, Sound, Lists, Data

(* A restart: each list is the loaded entry, in a cell of its own, or it   *)
(* is empty because the load failed.                                       *)
LEMMA LoadedList ==
  ASSUME NEW h, NEW c \in Cells, NEW loaded \in BOOLEAN, NEW first,
         first = IF loaded THEN c ELSE NULL, loaded => h[c].Next = NULL
  PROVE  \E S : IsList(h, first, S) /\ On(S) = IF loaded THEN {c} ELSE {}
<1>1. CASE loaded
  BY <1>1, Single
<1>2. CASE ~ loaded
  BY <1>2, Empty
<1>3. QED
  BY <1>1, <1>2

LEMMA InvReboot == StoreTypeOK /\ StoreInv /\ Reboot => StoreInv'
<1> SUFFICES ASSUME StoreTypeOK, StoreInv, Reboot PROVE StoreInv'
  OBVIOUS
<1>1. PICK loaded, persisted \in BOOLEAN :
        /\ loaded \/ persisted => saved.LastAddress # NullAddr
        /\ DeviceInfoList' = IF loaded THEN 1 ELSE NULL
        /\ PersistDeviceInfoList' = IF persisted THEN 2 ELSE NULL
        /\ heap' = [c \in Cells |-> IF c \in {DeviceInfoList', PersistDeviceInfoList'}
                                   THEN LoadedEntry ELSE Zeroed]
        /\ saved' = saved
  BY DEF Reboot
<1>2. PICK h, first, other : h = heap' /\ first = DeviceInfoList' /\ other = PersistDeviceInfoList'
  OBVIOUS
<1>3. h \in Heaps /\ 1 \in Cells /\ 2 \in Cells
  BY <1>2, RebootTypes, StoreSizes DEF StoreTypeOK, Heaps, Cells
<1>4. (loaded => h[1] = LoadedEntry) /\ (persisted => h[2] = LoadedEntry)
  BY <1>1, <1>2, <1>3
<1>5. LoadedEntry.Next = NULL /\ LoadedEntry.RemoteAddress = saved.LastAddress
      /\ LoadedEntry.device_type = saved.device_type
  BY DEF LoadedEntry
<1>6. PICK S : IsList(h, first, S) /\ On(S) = IF loaded THEN {1} ELSE {}
  <2>1. first = (IF loaded THEN 1 ELSE NULL) /\ (loaded => h[1].Next = NULL)
    BY <1>1, <1>2, <1>4, <1>5
  <2>2. QED
    BY ONLY <1>3, <2>1, loaded \in BOOLEAN, LoadedList
<1>7. PICK P : IsList(h, other, P) /\ On(P) = IF persisted THEN {2} ELSE {}
  <2>1. other = (IF persisted THEN 2 ELSE NULL) /\ (persisted => h[2].Next = NULL)
    BY <1>1, <1>2, <1>4, <1>5
  <2>2. QED
    BY ONLY <1>3, <2>1, persisted \in BOOLEAN, LoadedList
<1>8. RecordSound(saved) /\ RecordSound(NoRecord)
  BY DEF StoreInv, RecordSound, NoRecord
<1>9. AreDevices(h, On(S), On(P))
  <2>1. SUFFICES ASSUME NEW c \in On(S) \union On(P)
                 PROVE  OfDevice(h[c].RemoteAddress, h[c].device_type)
    BY DEF AreDevices
  <2>2. h[c] = LoadedEntry /\ saved.LastAddress # NullAddr
    BY <1>1, <1>4, <1>6, <1>7, <2>1
  <2>3. QED
    BY <1>5, <1>8, <2>2 DEF RecordSound
<1>10. On(S) \cap On(P) = {} /\ first \notin On(P) /\ \A c, d \in On(S) : c = d
  BY <1>1, <1>2, <1>6, <1>7, StoreSizes DEF NULL
<1>11. Data(h, NoRecord, first, On(S), On(P))
  <2>1. Once(h, On(S)) /\ RemoteListed(h, On(P), NoRecord)
    BY <1>10 DEF Once, RemoteListed, NoRecord
  <2>2. FirstWasCopied(h, first, On(S), On(P)) /\ RemoteBesidesBulb(h, first, On(S), On(P))
    BY <1>10 DEF FirstWasCopied, RemoteBesidesBulb
  <2>3. QED
    BY <1>8, <1>9, <2>1, <2>2 DEF Data
<1>12. Lists(h, first, other, NoRecord, S, P)
  BY <1>3, <1>6, <1>7, <1>11 DEF Lists
<1>13. QED
  BY <1>1, <1>2, <1>8, <1>12 DEF StoreInv, SoundFor, Sound

(* The remote device of the record, in the list the record is written      *)
(* from.                                                                   *)
LEMMA RemoteHeld ==
  ASSUME NEW h, NEW first, NEW other, NEW rec, NEW rec2,
         Sound(h, first, other, rec)
  PROVE  /\ rec.LastAddress # NullAddr => HoldsRemote(h, other)
         /\ HoldsRemote(h, other) /\ RecordSound(rec2) => Sound(h, first, other, rec2)
<1>1. PICK S, P : Lists(h, first, other, rec, S, P)
  BY DEF Sound
<1>2. Entries(h, other) = P /\ P \in Seq(Cells)
  BY <1>1, WalkOfList DEF Lists, Heaps
<1>3. Range(P) = On(P)
  BY <1>2 DEF Range, On
<1>4. HoldsRemote(h, other) <=> \E c \in On(P) : h[c].device_type # "BULB"
  BY <1>2, <1>3 DEF HoldsRemote
<1>5. rec.LastAddress # NullAddr => HoldsRemote(h, other)
  BY <1>1, <1>4 DEF Lists, Data, RemoteListed
<1>6. ASSUME HoldsRemote(h, other), RecordSound(rec2) PROVE Sound(h, first, other, rec2)
  <2>1. Data(h, rec2, first, On(S), On(P))
    BY <1>1, <1>4, <1>6 DEF Lists, Data, RemoteListed
  <2>2. QED
    BY <1>1, <2>1 DEF Sound, Lists
<1>7. QED
  BY <1>5, <1>6

LEMMA BondedStays ==
  ASSUME NEW h, NEW first, NEW other, NEW rec, NEW S, NEW P, Lists(h, first, other, rec, S, P),
         NEW g, NEW first2, NEW other2, NEW rec2, NEW Q, NEW R,
         Lists(g, first2, other2, rec2, Q, R),
         NEW q, Keyed(h, On(S), q) => Keyed(g, On(Q), q)
  PROVE  Bonded(h, first, q) => Bonded(g, first2, q)
  BY BondedIs DEF Lists, Data

StaysBonded ==
    \A q \in Peers : Bonded(heap, DeviceInfoList, q) => Bonded(heap', DeviceInfoList', q)

LEMMA InvUnchanged ==
  ASSUME NEW rec, SoundFor(rec), UNCHANGED <<heap, DeviceInfoList, PersistDeviceInfoList>>
  PROVE  SoundFor(rec)' /\ StaysBonded
  BY DEF SoundFor, StaysBonded

LEMMA InvConnection ==
  ASSUME OneOfEach, StoreTypeOK, NEW rec, SoundFor(rec), NEW p \in Peers, GattConnection(p)
  PROVE  SoundFor(rec)' /\ StaysBonded
<1>1. PICK S, P : Lists(heap, DeviceInfoList, PersistDeviceInfoList, rec, S, P)
  BY DEF SoundFor, Sound
<1>2. CASE UNCHANGED <<heap, DeviceInfoList>>
  BY <1>2, InvUnchanged DEF GattConnection
<1>3. CASE ~ UNCHANGED <<heap, DeviceInfoList>>
  <2>1. PICK made : /\ Found(p) = NULL /\ Free # {}
                    /\ made = CreateNewDeviceInfoEntry(heap, DeviceInfoList, p)
                    /\ heap' = made.heap /\ DeviceInfoList' = made.head
    BY <1>3 DEF GattConnection, AddDevice
  <2>2. PICK f : f = FreeCell
    OBVIOUS
  <2>3. f \in Cells /\ f \notin On(S) /\ f \notin On(P)
    <3>1. f \in Cells /\ heap[f] = Zeroed
      BY <2>1, <2>2, FreeCellIsFree DEF Free
    <3>2. heap[f].RemoteAddress = NullAddr
      BY <3>1 DEF Zeroed
    <3>3. QED
      BY <1>1, <3>1, <3>2, ListFacts
  <2>4. \A c \in On(S) : heap[c].RemoteAddress # p
    <3>1. \A k \in 1..Len(S) : S[k] # NULL
      BY <1>1, OnTypes DEF Lists
    <3>2. QED
      BY <1>1, <2>1, <3>1, Looked DEF Lists, Found
  <2>5. /\ made.heap \in Heaps
        /\ made.heap[f] = [Zeroed EXCEPT !.RemoteAddress = p]
        /\ \A c \in Cells \ {f} : SameEntry(made.heap[c], heap[c])
        /\ made.head = IF DeviceInfoList = NULL THEN f ELSE DeviceInfoList
        /\ \E Q : IsList(made.heap, made.head, Q) /\ On(Q) = On(S) \union {f}
        /\ \E Q : /\ IsList(made.heap, PersistDeviceInfoList, Q)
                  /\ \/ On(Q) = On(P)
                     \/ On(Q) = On(P) \union {f} /\ Len(S) # 0 /\ S[Len(S)] \in On(P)
    <3>1. IsList(heap, DeviceInfoList, S) /\ IsList(heap, PersistDeviceInfoList, P) /\ heap \in Heaps
      BY <1>1 DEF Lists
    <3>2. FreeCell \in Cells \ On(S) /\ FreeCell \notin On(P)
      BY <2>2, <2>3
    <3>3. QED
      <4>1. EntryAdded(made, heap, DeviceInfoList, S, p, PersistDeviceInfoList, P)
        BY ONLY <2>1, <3>1, <3>2, p \in Peers, Created
      <4>2. QED
        BY ONLY <2>2, <4>1 DEF EntryAdded
  <2>6. PICK Q : IsList(made.heap, made.head, Q) /\ On(Q) = On(S) \union {f}
    BY <2>5
  <2>7. PICK R : /\ IsList(made.heap, PersistDeviceInfoList, R)
                 /\ \/ On(R) = On(P)
                    \/ On(R) = On(P) \union {f} /\ Len(S) # 0 /\ S[Len(S)] \in On(P)
    BY <2>5
  <2>8. On(R) = On(P) \/ (On(R) = On(P) \union {f} /\ On(S) \cap On(P) # {})
    BY <1>1, <2>7, OnTypes DEF Lists
  <2>9. /\ made.heap[f].RemoteAddress = p /\ made.heap[f].device_type = "NONE"
        /\ \A c \in On(S) \union On(P) : SameEntry(made.heap[c], heap[c])
    BY <1>1, <2>3, <2>5, ListFacts DEF Zeroed
  <2>10. Data(made.heap, rec, made.head, On(S) \union {f}, On(R))
    <3>1. Data(heap, rec, DeviceInfoList, On(S), On(P))
      BY <1>1 DEF Lists
    <3>2. \/ DeviceInfoList = NULL /\ On(S) = {}
          \/ DeviceInfoList # NULL /\ DeviceInfoList \in On(S)
      BY <1>1, ListFacts
    <3>3. \A c \in On(S) \union On(P) : SameDevice(made.heap[c], heap[c])
      BY <2>9 DEF SameEntry
    <3>4. f \notin On(S) \union On(P)
      BY <2>3
    <3>5. made.head = IF DeviceInfoList = NULL THEN f ELSE DeviceInfoList
      BY <2>5
    <3>6. PICK g, begin, A, B, C :
            g = made.heap /\ begin = made.head /\ A = On(S) /\ B = On(P) /\ C = On(R)
      OBVIOUS
    <3>7. Data(heap, rec, DeviceInfoList, A, B)
      BY ONLY <3>1, <3>6
    <3>8. Joins(heap, g, DeviceInfoList, A, B, f, p, begin, C)
      BY ONLY <2>4, <2>8, <2>9, <3>2, <3>3, <3>4, <3>5, <3>6, p \in Peers DEF Joins
    <3>9. Data(g, rec, begin, A \union {f}, C)
      BY ONLY <3>7, <3>8, DataConnected
    <3>10. QED
      BY ONLY <3>6, <3>9
  <2>11. Lists(heap', DeviceInfoList', PersistDeviceInfoList', rec, Q, R)
    BY <2>1, <2>5, <2>6, <2>7, <2>10 DEF Lists, GattConnection
  <2>12. ASSUME NEW q \in Peers, Keyed(heap, On(S), q) PROVE Keyed(heap', On(Q), q)
    BY <2>1, <2>6, <2>9, <2>12 DEF Keyed, SameEntry, SameDevice
  <2>13. StaysBonded
    BY <1>1, <2>11, <2>12, BondedStays DEF StaysBonded
  <2>14. QED
    BY <2>11, <2>13 DEF SoundFor, Sound
<1>4. QED
  BY <1>2, <1>3

LEMMA InvDisconnection ==
  ASSUME OneOfEach, StoreTypeOK, NEW rec, SoundFor(rec), NEW p \in Peers, GattDisconnection(p)
  PROVE  SoundFor(rec)' /\ StaysBonded
<1>1. PICK S, P : Lists(heap, DeviceInfoList, PersistDeviceInfoList, rec, S, P)
  BY DEF SoundFor, Sound
<1>2. CASE UNCHANGED <<heap, DeviceInfoList>>
  BY <1>2, InvUnchanged DEF GattDisconnection
<1>3. CASE ~ UNCHANGED <<heap, DeviceInfoList>>
  <2>1. PICK left : /\ Found(p) # NULL /\ heap[Found(p)].LTK = NullAddr
                    /\ left = DeleteDeviceInfoEntry(heap, DeviceInfoList, Found(p))
                    /\ heap' = Kept(left.heap, left.head, PersistDeviceInfoList)
                    /\ DeviceInfoList' = left.head
                    /\ PersistDeviceInfoList' = PersistDeviceInfoList
    BY <1>3 DEF GattDisconnection
  <2>2. PICK k \in 1..Len(S) : Found(p) = S[k]
    BY <1>1, <2>1, Looked DEF Lists, Found
  <2>3. PICK d : d = S[k]
    OBVIOUS
  <2>4. /\ Len(S) <= 2 /\ d \in On(S) /\ On(S) \subseteq Cells /\ NULL \notin On(P)
        /\ DeviceInfoList # NULL /\ DeviceInfoList \in On(S)
    <3>1. d \in On(S)
      BY <2>2, <2>3 DEF On
    <3>2. QED
      BY <1>1, <3>1, ListFacts
  <2>5. /\ IsList(heap, DeviceInfoList, S) /\ IsList(heap, PersistDeviceInfoList, P)
        /\ heap \in Heaps /\ Data(heap, rec, DeviceInfoList, On(S), On(P))
    BY <1>1 DEF Lists
  <2>6. \/ d = DeviceInfoList /\ FirstUnlinked(heap, DeviceInfoList, S, left)
        \/ /\ d # DeviceInfoList
           /\ SecondUnlinked(heap, DeviceInfoList, d, PersistDeviceInfoList, P, left)
    <3>1. left = DeleteDeviceInfoEntry(heap, DeviceInfoList, S[k]) /\ k \in 1..Len(S)
      BY ONLY <2>1, <2>2
    <3>2. \/ S[k] = DeviceInfoList /\ FirstUnlinked(heap, DeviceInfoList, S, left)
          \/ /\ S[k] # DeviceInfoList
             /\ SecondUnlinked(heap, DeviceInfoList, S[k], PersistDeviceInfoList, P, left)
      BY ONLY <2>4, <2>5, <3>1, Unlinked
    <3>3. QED
      BY ONLY <2>3, <3>2
  <2>7. \E Q, R : /\ Lists(left.heap, left.head, PersistDeviceInfoList, rec, Q, R)
                  /\ On(Q) = On(S) \ {d}
                  /\ \A c \in On(S) : left.heap[c].RemoteAddress = heap[c].RemoteAddress
                                      /\ left.heap[c].LTK = heap[c].LTK
    <3>1. CASE d = DeviceInfoList
      <4>1. PICK Q : IsList(heap, left.head, Q) /\ On(Q) = On(S) \ {DeviceInfoList}
        BY <2>6, <3>1 DEF FirstUnlinked
      <4>2. left.head = NULL \/ left.head \in On(S) \ {DeviceInfoList}
        BY <4>1, OnTypes
      <4>3. Data(heap, rec, left.head, On(S) \ {DeviceInfoList}, On(P))
        BY <2>4, <2>5, <4>2, DataFirstLeft
      <4>4. Lists(heap, left.head, PersistDeviceInfoList, rec, Q, P)
        BY <2>5, <4>1, <4>3 DEF Lists
      <4>5. QED
        BY <2>6, <3>1, <4>1, <4>4 DEF FirstUnlinked
    <3>2. CASE d # DeviceInfoList
      <4>1. PICK Q : IsList(left.heap, DeviceInfoList, Q) /\ On(Q) = {DeviceInfoList}
        BY <2>6, <3>2 DEF SecondUnlinked
      <4>2. PICK R : /\ IsList(left.heap, PersistDeviceInfoList, R)
                     /\ On(R) = IF DeviceInfoList \in On(P) THEN On(P) \ {d} ELSE On(P)
        BY <2>6, <3>2 DEF SecondUnlinked
      <4>3. Data(heap, rec, DeviceInfoList, {DeviceInfoList}, On(R))
        BY <2>4, <2>5, <3>2, <4>2, DataSecondLeft
      <4>4. {DeviceInfoList} \union On(R) \subseteq Cells
        BY <1>1, <2>4, <4>2, ListFacts
      <4>5. \A c \in {DeviceInfoList} \union On(R) : SameDevice(left.heap[c], heap[c])
        BY <2>6, <3>2, <4>4 DEF SecondUnlinked, SameEntry
      <4>6. Data(left.heap, rec, DeviceInfoList, {DeviceInfoList}, On(R))
        BY ONLY <4>3, <4>5, DataFrame
      <4>7. Lists(left.heap, left.head, PersistDeviceInfoList, rec, Q, R)
        BY <2>6, <3>2, <4>1, <4>2, <4>6 DEF SecondUnlinked, Lists
      <4>8. On(S) \ {d} = {DeviceInfoList}
        BY <2>4, <2>5, <3>2, AtMostTwo DEF Data
      <4>9. \A c \in On(S) : left.heap[c].RemoteAddress = heap[c].RemoteAddress
                               /\ left.heap[c].LTK = heap[c].LTK
        BY <2>4, <2>6, <3>2 DEF SecondUnlinked, SameEntry, SameDevice
      <4>10. QED
        BY <4>1, <4>7, <4>8, <4>9
    <3>3. QED
      BY <3>1, <3>2
  <2>8. PICK Q, R : /\ Lists(left.heap, left.head, PersistDeviceInfoList, rec, Q, R)
                    /\ On(Q) = On(S) \ {d}
                    /\ \A c \in On(S) : left.heap[c].RemoteAddress = heap[c].RemoteAddress
                                        /\ left.heap[c].LTK = heap[c].LTK
    BY <2>7
  <2>9. left.head = NULL \/ left.head \in On(Q)
    BY <2>8, ListFacts
  <2>10. /\ Lists(heap', left.head, PersistDeviceInfoList, rec, Q, R)
         /\ \A c \in On(Q) : heap'[c] = left.heap[c]
    <3>1. PICK g, kept : g = left.heap /\ kept = heap'
      OBVIOUS
    <3>2. /\ Lists(g, left.head, PersistDeviceInfoList, rec, Q, R)
          /\ kept = Kept(g, left.head, PersistDeviceInfoList)
      BY ONLY <2>1, <2>8, <3>1
    <3>3. /\ Lists(kept, left.head, PersistDeviceInfoList, rec, Q, R)
          /\ \A c \in On(Q) : kept[c] = g[c]
      BY ONLY <2>9, <3>2, ListsKept
    <3>4. QED
      BY ONLY <3>1, <3>3
  <2>11. Lists(heap', DeviceInfoList', PersistDeviceInfoList', rec, Q, R)
    BY <2>1, <2>10
  <2>12. ASSUME NEW q \in Peers, Keyed(heap, On(S), q) PROVE Keyed(heap', On(Q), q)
    <3>1. PICK c \in On(S) : heap[c].RemoteAddress = q /\ heap[c].LTK = q
      BY <2>12 DEF Keyed
    <3>2. c # d
      BY <2>1, <2>2, <2>3, <3>1, StoreSizes
    <3>3. QED
      BY <2>8, <2>10, <3>1, <3>2 DEF Keyed
  <2>13. StaysBonded
    BY <1>1, <2>11, <2>12, BondedStays DEF StaysBonded
  <2>14. QED
    BY <2>11, <2>13 DEF SoundFor, Sound
<1>4. QED
  BY <1>2, <1>3

LEMMA InvKeySet ==
  ASSUME OneOfEach, StoreTypeOK, NEW rec, SoundFor(rec), NEW p \in Peers,
         NEW key \in {p, NullAddr}, KeySet(p, key)
  PROVE  /\ SoundFor(rec)'
         /\ \A q \in Peers : Bonded(heap, DeviceInfoList, q) => Bonded(heap', DeviceInfoList', q) \/ (q = p /\ key = NullAddr)
<1>1. PICK S, P : Lists(heap, DeviceInfoList, PersistDeviceInfoList, rec, S, P)
  BY DEF SoundFor, Sound
<1>2. PICK d : d = Found(p)
  OBVIOUS
<1>3. PICK k \in 1..Len(S) : d = S[k] /\ heap[d].RemoteAddress = p
  BY <1>1, <1>2, Looked DEF Lists, Found, KeySet
<1>4. /\ heap \in Heaps /\ d \in On(S) /\ On(S) \union On(P) \subseteq Cells
      /\ IsList(heap, DeviceInfoList, S) /\ IsList(heap, PersistDeviceInfoList, P)
      /\ Data(heap, rec, DeviceInfoList, On(S), On(P))
  BY <1>1, <1>3, ListFacts DEF Lists, On
<1>5. heap' = [heap EXCEPT ![d].LTK = key]
  BY <1>2 DEF KeySet
<1>6. heap' \in Heaps
  BY <1>4, <1>5, HeapTypes
<1>7. /\ \A c \in Cells \ {d} : heap'[c] = heap[c]
      /\ heap'[d] = [heap[d] EXCEPT !.LTK = key]
      /\ heap[d] \in Cell
  BY <1>4, <1>5 DEF Heaps
<1>8. /\ heap'[d].Next = heap[d].Next /\ SameDevice(heap'[d], heap[d])
      /\ heap'[d].LTK = key
  BY <1>7 DEF Cell, SameDevice
<1>9. \A c \in Cells : heap'[c].Next = heap[c].Next /\ SameDevice(heap'[c], heap[c])
  BY <1>7, <1>8 DEF SameDevice
<1>10. IsList(heap', DeviceInfoList, S) /\ IsList(heap', PersistDeviceInfoList, P)
  BY <1>4, <1>9, FrameList
<1>11. Data(heap', rec, DeviceInfoList, On(S), On(P))
  <2>1. \A c \in On(S) \union On(P) : SameDevice(heap'[c], heap[c])
    BY <1>4, <1>9
  <2>2. DeviceInfoList # NULL => DeviceInfoList \in On(S)
    BY <1>1, ListFacts
  <2>3. QED
    BY ONLY <1>4, <2>1, <2>2, DataFrame
<1>12. Lists(heap', DeviceInfoList', PersistDeviceInfoList', rec, S, P)
  BY <1>6, <1>10, <1>11 DEF Lists, KeySet
<1>13. ASSUME NEW q \in Peers, Keyed(heap, On(S), q), ~ (q = p /\ key = NullAddr)
       PROVE  Keyed(heap', On(S), q)
  <2>1. PICK c \in On(S) : heap[c].RemoteAddress = q /\ heap[c].LTK = q
    BY <1>13 DEF Keyed
  <2>2. heap'[c].RemoteAddress = q
    BY <1>4, <1>9, <2>1 DEF SameDevice
  <2>3. CASE c = d
    <3>1. q = p /\ key = p
      BY <1>3, <1>13, <2>1, <2>3
    <3>2. QED
      BY <1>8, <2>2, <2>3, <3>1 DEF Keyed
  <2>4. CASE c # d
    BY <1>4, <1>7, <2>1, <2>4 DEF Keyed
  <2>5. QED
    BY <2>3, <2>4
<1>14. \A q \in Peers : Bonded(heap, DeviceInfoList, q) => Bonded(heap', DeviceInfoList', q) \/ (q = p /\ key = NullAddr)
  BY <1>1, <1>12, <1>13, BondedStays
<1>15. QED
  BY <1>12, <1>14 DEF SoundFor, Sound

(* Pairing.  The entry of the device gets its type.                        *)
TypedLists(typed, h, first, other, rec, S, P, d, type) ==
    /\ Lists(typed, first, other, rec, S, P)
    /\ \A c \in Cells : /\ typed[c].RemoteAddress = h[c].RemoteAddress
                        /\ typed[c].LTK = h[c].LTK
    /\ typed[d].device_type = type

LEMMA ListsTyped ==
  ASSUME OneOfEach, NEW h, NEW first, NEW other, NEW rec, NEW S, NEW P,
         Lists(h, first, other, rec, S, P), NEW d \in On(S),
         NEW type, type = Kind(h[d].RemoteAddress),
         NEW typed, typed = [h EXCEPT ![d].device_type = type]
  PROVE  TypedLists(typed, h, first, other, rec, S, P, d, type)
<1>1. /\ h \in Heaps /\ IsList(h, first, S) /\ IsList(h, other, P)
      /\ Data(h, rec, first, On(S), On(P))
      /\ On(S) \subseteq Cells /\ On(P) \subseteq Cells
      /\ first # NULL /\ first \in On(S) /\ h[d].RemoteAddress \in Peers
  BY ListFacts DEF Lists
<1>2. type \in DeviceTypes
  BY <1>1, Kinds DEF DeviceTypes
<1>3. typed \in Heaps
  BY <1>1, <1>2, HeapTypes
<1>4. /\ \A c \in Cells \ {d} : typed[c] = h[c]
      /\ typed[d] = [h[d] EXCEPT !.device_type = type]
      /\ h[d] \in Cell
  BY <1>1 DEF Heaps
<1>5. /\ typed[d].device_type = type /\ typed[d].RemoteAddress = h[d].RemoteAddress
      /\ typed[d].LTK = h[d].LTK /\ typed[d].Next = h[d].Next
  BY <1>4 DEF Cell
<1>6. \A c \in Cells : /\ typed[c].RemoteAddress = h[c].RemoteAddress
                       /\ typed[c].LTK = h[c].LTK /\ typed[c].Next = h[c].Next
  BY <1>4, <1>5
<1>7. IsList(typed, first, S) /\ IsList(typed, other, P)
  BY <1>1, <1>6, FrameList
<1>8. Data(typed, rec, first, On(S), On(P))
  <2>1. \A c \in (On(S) \union On(P)) \ {d} : typed[c] = h[c]
    BY <1>1, <1>4
  <2>2. QED
    BY <1>1, <1>5, <2>1, DataTyped
<1>9. QED
  BY <1>3, <1>5, <1>6, <1>7, <1>8 DEF Lists, TypedLists

(* It is copied over the persistent entry of that type, which is not one   *)
(* of the session's.                                                       *)
LEMMA ListsCopied ==
  ASSUME OneOfEach, NEW h, NEW first, NEW other, NEW rec, NEW S, NEW P,
         Lists(h, first, other, rec, S, P), NEW k \in 1..Len(S),
         h[S[k]].device_type = "MOBILE", Kind(h[S[k]].RemoteAddress) = "MOBILE",
         NEW old \in On(P), old \notin On(S),
         NEW g, g = [h EXCEPT ![old] = h[S[k]]]
  PROVE  \E Q : Lists(g, first, other, rec, S, Q)
<1>1. /\ h \in Heaps /\ IsList(h, first, S) /\ IsList(h, other, P)
      /\ Data(h, rec, first, On(S), On(P))
      /\ On(S) \subseteq Cells /\ On(P) \subseteq Cells
      /\ first # NULL /\ first \in On(S) /\ Len(S) <= 2 /\ S[k] \in On(S)
  <2>1. S[k] \in On(S)
    BY DEF On
  <2>2. QED
    BY <2>1, ListFacts DEF Lists
<1>2. PICK d : d = S[k]
  OBVIOUS
<1>3. PICK Q : GoesOn(g, other, P, first, S, d, old, Q)
  <2>1. d \in On(S) /\ g = [h EXCEPT ![old] = h[d]]
    BY <1>1, <1>2
  <2>2. QED
    BY ONLY <1>1, <2>1, old \in On(P), old \notin On(S), Copied
<1>4. /\ g[old] = h[S[k]] /\ \A c \in Cells \ {old} : g[c] = h[c]
      /\ h[S[k]] \in Cell
  BY <1>1 DEF Heaps
<1>5. g \in Heaps
  BY <1>1, <1>4, HeapTypes
<1>6. IsList(g, first, S)
  BY <1>1, <1>4, FrameList
<1>7. Data(g, rec, first, On(S), On(Q))
  <2>1. \A c \in (On(S) \union On(P)) \ {old} : SameDevice(g[c], h[c])
    BY <1>1, <1>4 DEF SameDevice
  <2>2. CopiedOver(h, g, first, On(S), On(P), d, old, On(Q))
    BY <1>2, <1>3, <1>4, <2>1 DEF CopiedOver, GoesOn
  <2>3. QED
    BY ONLY <1>1, <1>2, <2>2, old \notin On(S), OneOfEach, DataCopied
<1>8. QED
  BY <1>3, <1>5, <1>6, <1>7 DEF Lists, GoesOn

(* There is none, and a new one is made for the copy.                      *)
ExtendedLists(g, h, first, other, rec, S) ==
    /\ \E Q : Lists(g, first, other, rec, S, Q)
    /\ \A c \in On(S) : g[c] = h[c]

LEMMA ListsExtended ==
  ASSUME OneOfEach, NEW h, NEW first, NEW other, NEW rec, NEW S, NEW P,
         Lists(h, first, other, rec, S, P), NEW k \in 1..Len(S),
         h[S[k]].device_type = Kind(h[S[k]].RemoteAddress),
         \A c \in On(P) : h[c].device_type # Kind(h[S[k]].RemoteAddress),
         FreeCell \in Cells, FreeCell \notin On(S) \union On(P),
         NEW a \in Peers, NEW new, new = CreateNewDeviceInfoEntry(h, other, a),
         NEW g, g = [new.heap EXCEPT ![FreeCell] = new.heap[S[k]]]
  PROVE  ExtendedLists(g, h, first, new.head, rec, S)
<1>1. /\ h \in Heaps /\ IsList(h, first, S) /\ IsList(h, other, P)
      /\ Data(h, rec, first, On(S), On(P))
      /\ On(S) \subseteq Cells /\ On(P) \subseteq Cells
      /\ first # NULL /\ first \in On(S) /\ Len(S) <= 2 /\ S[k] \in On(S)
  <2>1. S[k] \in On(S)
    BY DEF On
  <2>2. QED
    BY <2>1, ListFacts DEF Lists
<1>2. PICK f, d : f = FreeCell /\ d = S[k]
  OBVIOUS
<1>3. On(S) \cap On(P) = {}
  <2>1. first \in On(P) => On(S) \subseteq On(P)
    BY ONLY <1>1, AllShared
  <2>2. PICK A, B : A = On(S) /\ B = On(P)
    OBVIOUS
  <2>3. /\ Data(h, rec, first, A, B) /\ first \in A /\ first # NULL /\ d \in A
        /\ h[d].device_type = Kind(h[d].RemoteAddress)
        /\ \A c \in B : h[c].device_type # Kind(h[d].RemoteAddress)
        /\ (first \in B => A \subseteq B)
    BY <1>1, <1>2, <2>1, <2>2
  <2>4. A \cap B = {}
    BY ONLY <2>3, OneOfEach, NothingShared
  <2>5. QED
    BY ONLY <2>2, <2>4
<1>4. /\ new.heap \in Heaps
      /\ \A c \in Cells \ {f} : SameEntry(new.heap[c], h[c])
      /\ \A c \in Cells \ {f} : Len(P) = 0 \/ c # P[Len(P)] => new.heap[c] = h[c]
      /\ \E Q : /\ IsList(new.heap, new.head, Q) /\ Len(Q) # 0
                /\ On(Q) = On(P) \union {f} /\ Q[Len(Q)] = f
      /\ \E Q : /\ IsList(new.heap, first, Q)
                /\ \/ On(Q) = On(S) /\ (Len(P) = 0 \/ P[Len(P)] \notin On(S)) /\ Q = S
                   \/ On(Q) = On(S) \union {f} /\ Len(P) # 0 /\ P[Len(P)] \in On(S)
  <2>1. FreeCell \in Cells \ On(P) /\ FreeCell \notin On(S)
    OBVIOUS
  <2>2. EntryAdded(new, h, other, P, a, first, S)
    BY ONLY <1>1, <2>1, a \in Peers, new = CreateNewDeviceInfoEntry(h, other, a), Created
  <2>3. QED
    BY ONLY <1>2, <2>2 DEF EntryAdded
<1>5. Len(P) = 0 \/ P[Len(P)] \notin On(S)
  BY <1>1, <1>3, OnTypes
<1>6. IsList(new.heap, first, S)
  BY <1>4, <1>5
<1>7. \A c \in On(S) : new.heap[c] = h[c]
  <2>1. f \notin On(S)
    BY <1>2
  <2>2. QED
    BY <1>1, <1>4, <1>5, <2>1
<1>8. PICK R : /\ IsList(new.heap, new.head, R) /\ Len(R) # 0
               /\ On(R) = On(P) \union {f} /\ R[Len(R)] = f
  BY <1>4
<1>9. PICK Q : GoesOn(g, new.head, R, first, S, d, f, Q)
  <2>1. d \in On(S) /\ f \in On(R) /\ f \notin On(S) /\ g = [new.heap EXCEPT ![f] = new.heap[d]]
    BY <1>1, <1>2, <1>8
  <2>2. QED
    BY ONLY <1>1, <1>4, <1>6, <1>8, <2>1, Copied
<1>10. /\ g[f] = new.heap[d] /\ \A c \in Cells \ {f} : g[c] = new.heap[c]
       /\ new.heap[d] \in Cell /\ new.heap[d] = h[d]
  <2>1. f \in Cells /\ d \in Cells /\ g = [new.heap EXCEPT ![f] = new.heap[d]]
    BY <1>1, <1>2
  <2>2. new.heap \in [Cells -> Cell] /\ new.heap[d] = h[d]
    BY <1>1, <1>2, <1>4, <1>7 DEF Heaps
  <2>3. QED
    BY <2>1, <2>2
<1>11. g \in Heaps
  BY <1>2, <1>4, <1>10, HeapTypes
<1>12. f \notin On(S) \union On(P) /\ \A c \in On(S) : g[c] = h[c]
  BY <1>1, <1>2, <1>7, <1>10
<1>13. IsList(g, first, S)
  BY <1>1, <1>12, FrameList
<1>14. Data(g, rec, first, On(S), On(Q))
  <2>1. \A c \in (On(S) \union On(P)) \ {f} : SameDevice(g[c], h[c])
    BY <1>1, <1>4, <1>10 DEF SameEntry
  <2>2. /\ On(Q) \subseteq On(S) \union On(P) \union {f} /\ f \in On(Q)
        /\ first \notin On(Q) /\ On(P) \ {f} \subseteq On(Q) /\ f \notin On(P)
        /\ d # first => d \notin On(Q)
    BY <1>1, <1>3, <1>8, <1>9, <1>12 DEF GoesOn
  <2>3. CopiedOver(h, g, first, On(S), On(P), d, f, On(Q))
    BY <1>2, <1>10, <2>1, <2>2 DEF CopiedOver
  <2>4. QED
    BY ONLY <1>1, <1>2, <1>12, <2>3, OneOfEach, DataCopied
<1>15. QED
  BY <1>9, <1>11, <1>12, <1>13, <1>14 DEF Lists, GoesOn, ExtendedLists

(* What any pairing leaves.                                                *)
PersistsLists(store, rec, S) ==
    \E Q : /\ Lists(store.heap, DeviceInfoList, store.head, rec, S, Q)
           /\ \A c \in On(S) : /\ store.heap[c].RemoteAddress = heap[c].RemoteAddress
                               /\ store.heap[c].LTK = heap[c].LTK

LEMMA PersistedLists ==
  ASSUME OneOfEach, StoreTypeOK, NEW rec, NEW S, NEW P,
         Lists(heap, DeviceInfoList, PersistDeviceInfoList, rec, S, P),
         NEW p \in Peers, NEW type, type = Kind(p),
         NEW typed, typed = [heap EXCEPT ![Found(p)].device_type = type],
         NEW old, old = SearchDeviceInfoEntryByType(typed, PersistDeviceInfoList, type),
         type = "BULB" /\ Found(p) # NULL /\ old # NULL => typed[old].RemoteAddress # p,
         NEW store \in Persisted(p, type)
  PROVE  PersistsLists(store, rec, S)
<1>1. CASE Found(p) = NULL
  <2>1. store = [heap |-> heap, head |-> PersistDeviceInfoList]
    BY <1>1 DEF Persisted
  <2>2. store.heap = heap /\ store.head = PersistDeviceInfoList
    BY <2>1
  <2>3. QED
    BY <2>2 DEF PersistsLists
<1>2. CASE Found(p) # NULL
  <2>1. PICK k \in 1..Len(S) : Found(p) = S[k] /\ heap[Found(p)].RemoteAddress = p
    BY <1>2, Looked DEF Lists, Found
  <2>2. PICK d : d = S[k]
    OBVIOUS
  <2>3. /\ d \in On(S) /\ Found(p) = d /\ heap[d].RemoteAddress = p
        /\ typed = [heap EXCEPT ![d].device_type = type]
    BY <2>1, <2>2 DEF On
  <2>4. /\ Lists(typed, DeviceInfoList, PersistDeviceInfoList, rec, S, P)
        /\ \A c \in Cells : /\ typed[c].RemoteAddress = heap[c].RemoteAddress
                            /\ typed[c].LTK = heap[c].LTK
        /\ typed[d].device_type = type
    <3>1. PICK h, first, other :
            h = heap /\ first = DeviceInfoList /\ other = PersistDeviceInfoList
      OBVIOUS
    <3>2. /\ Lists(h, first, other, rec, S, P) /\ d \in On(S)
          /\ type = Kind(h[d].RemoteAddress)
          /\ typed = [h EXCEPT ![d].device_type = type]
      BY <2>3, <3>1
    <3>3. TypedLists(typed, h, first, other, rec, S, P, d, type)
      BY ONLY <3>2, OneOfEach, ListsTyped
    <3>4. QED
      BY ONLY <3>1, <3>3 DEF TypedLists
  <2>5. /\ typed \in Heaps /\ IsList(typed, DeviceInfoList, S)
        /\ IsList(typed, PersistDeviceInfoList, P)
        /\ Data(typed, rec, DeviceInfoList, On(S), On(P))
        /\ On(S) \subseteq Cells /\ On(P) \subseteq Cells /\ NULL \notin On(P)
    BY <2>4, ListFacts DEF Lists
  <2>6. typed[d].RemoteAddress = p /\ typed[d].device_type = Kind(p)
    BY <2>3, <2>4, <2>5
  <2>7. \A c \in On(S) : /\ typed[c].RemoteAddress = heap[c].RemoteAddress
                         /\ typed[c].LTK = heap[c].LTK
    BY <2>4, <2>5
  <2>8. \/ old = NULL /\ \A c \in On(P) : typed[c].device_type # type
        \/ old \in On(P) /\ typed[old].device_type = type
    <3>1. PICK cells : cells = {c \in Cells : typed[c].device_type = type}
      OBVIOUS
    <3>2. \/ First(Entries(typed, PersistDeviceInfoList), cells) = NULL /\ On(P) \cap cells = {}
          \/ \E i \in 1..Len(P) :
               First(Entries(typed, PersistDeviceInfoList), cells) = P[i] /\ P[i] \in cells
      BY <2>5, SearchOn
    <3>3. old = First(Entries(typed, PersistDeviceInfoList), cells)
      BY <3>1 DEF SearchDeviceInfoEntryByType
    <3>4. (old = NULL /\ On(P) \cap cells = {}) \/ (old \in On(P) /\ old \in cells)
      BY <3>2, <3>3 DEF On
    <3>5. QED
      BY <2>5, <3>1, <3>4
  <2>9. PICK new : new = CreateNewDeviceInfoEntry(typed, PersistDeviceInfoList, p)
    OBVIOUS
  <2>10. \/ /\ old # NULL
            /\ store = [heap |-> [typed EXCEPT ![old] = typed[d]], head |-> PersistDeviceInfoList]
         \/ store = [heap |-> typed, head |-> PersistDeviceInfoList]
         \/ /\ old = NULL /\ Free # {}
            /\ store = [heap |-> [new.heap EXCEPT ![FreeCell] = new.heap[d]],
                        head |-> new.head]
    BY <1>2, <2>3, <2>9 DEF Persisted
  <2>11. CASE store = [heap |-> typed, head |-> PersistDeviceInfoList]
    <3>1. store.heap = typed /\ store.head = PersistDeviceInfoList
      BY <2>11
    <3>2. QED
      BY <2>4, <2>7, <3>1 DEF PersistsLists
  <2>12. CASE /\ old # NULL
              /\ store = [heap |-> [typed EXCEPT ![old] = typed[d]],
                          head |-> PersistDeviceInfoList]
    <3>1. PICK g : g = [typed EXCEPT ![old] = typed[d]]
      OBVIOUS
    <3>2. store.heap = g /\ store.head = PersistDeviceInfoList
      BY <2>12, <3>1
    <3>3. old \in On(P) /\ typed[old].device_type = Kind(p) /\ old \in Cells
      BY <2>5, <2>8, <2>12
    <3>4. typed[old].RemoteAddress = p
      <4>1. OfDevice(typed[old].RemoteAddress, typed[old].device_type)
        BY <2>5, <3>3 DEF Data, AreDevices
      <4>2. QED
        BY <3>3, <4>1, Kinds DEF OfDevice
    <3>5. type = "MOBILE"
      BY <1>2, <2>12, <3>4, Kinds
    <3>6. CASE old \in On(S)
      <4>1. old = d
        BY <2>3, <2>5, <2>6, <3>4, <3>6 DEF Data, Once
      <4>2. g = typed
        BY <2>5, <3>1, <4>1 DEF Heaps
      <4>3. QED
        BY <2>4, <2>7, <3>2, <4>2 DEF PersistsLists
    <3>7. CASE old \notin On(S)
      <4>1. \E Q : Lists(g, DeviceInfoList, PersistDeviceInfoList, rec, S, Q)
        <5>1. g = [typed EXCEPT ![old] = typed[S[k]]] /\ typed[S[k]].device_type = "MOBILE"
              /\ Kind(typed[S[k]].RemoteAddress) = "MOBILE"
          BY <2>2, <2>6, <3>1, <3>5
        <5>2. QED
          BY ONLY <2>4, <3>3, <3>7, <5>1, k \in 1..Len(S), OneOfEach, ListsCopied
      <4>2. \A c \in On(S) : g[c] = typed[c]
        BY <2>5, <3>1, <3>7 DEF Heaps
      <4>3. QED
        BY <2>7, <3>2, <4>1, <4>2 DEF PersistsLists
    <3>8. QED
      BY <3>6, <3>7
  <2>13. CASE /\ old = NULL /\ Free # {}
              /\ store = [heap |-> [new.heap EXCEPT ![FreeCell] = new.heap[d]],
                          head |-> new.head]
    <3>1. PICK g : g = [new.heap EXCEPT ![FreeCell] = new.heap[d]]
      OBVIOUS
    <3>2. store.heap = g /\ store.head = new.head
      BY <2>13, <3>1
    <3>3. FreeCell \in Cells /\ FreeCell \notin On(S) \union On(P)
      <4>1. FreeCell \in Cells /\ heap[FreeCell] = Zeroed
        BY <2>13, FreeCellIsFree DEF Free
      <4>2. heap[FreeCell].RemoteAddress = NullAddr
        BY <4>1 DEF Zeroed
      <4>3. \A c \in On(S) \union On(P) : heap[c].RemoteAddress # NullAddr
        BY ListFacts
      <4>4. QED
        BY <4>1, <4>2, <4>3
    <3>4. /\ typed[S[k]].device_type = Kind(typed[S[k]].RemoteAddress)
          /\ \A c \in On(P) : typed[c].device_type # Kind(typed[S[k]].RemoteAddress)
          /\ g = [new.heap EXCEPT ![FreeCell] = new.heap[S[k]]]
      BY <2>2, <2>5, <2>6, <2>8, <2>13, <3>1
    <3>5. ExtendedLists(g, typed, DeviceInfoList, new.head, rec, S)
      <4>1. PICK first, other :
              first = DeviceInfoList /\ other = PersistDeviceInfoList
        OBVIOUS
      <4>2. /\ Lists(typed, first, other, rec, S, P)
            /\ new = CreateNewDeviceInfoEntry(typed, other, p)
        BY ONLY <2>4, <2>9, <4>1
      <4>3. ExtendedLists(g, typed, first, new.head, rec, S)
        BY ONLY <3>3, <3>4, <4>2, k \in 1..Len(S), p \in Peers, OneOfEach, ListsExtended
      <4>4. QED
        BY ONLY <4>1, <4>3
    <3>6. QED
      BY <2>7, <3>2, <3>5 DEF PersistsLists, ExtendedLists
  <2>14. QED
    BY <2>10, <2>11, <2>12, <2>13
<1>3. QED
  BY <1>1, <1>2

(* What a pairing writes to flash, if it does.                             *)
RecordKept(rec) ==
    \/ saved' = saved
    \/ /\ RecordSound(saved')
       /\ rec.LastAddress # NullAddr => saved'.LastAddress # NullAddr

LEMMA InvPersist ==
  ASSUME OneOfEach, StoreTypeOK, NEW rec, SoundFor(rec),
         NEW p \in Peers, NEW type, type = Kind(p),
         NEW typed, typed = [heap EXCEPT ![Found(p)].device_type = type],
         NEW old, old = SearchDeviceInfoEntryByType(typed, PersistDeviceInfoList, type),
         type = "BULB" /\ Found(p) # NULL /\ old # NULL => typed[old].RemoteAddress # p,
         Persist(p, type)
  PROVE  SoundFor(rec)' /\ StaysBonded /\ RecordKept(rec)
<1>1. PICK S, P : Lists(heap, DeviceInfoList, PersistDeviceInfoList, rec, S, P)
  BY DEF SoundFor, Sound
<1>2. PICK store \in Persisted(p, type) :
        /\ heap' = Kept(store.heap, DeviceInfoList, store.head)
        /\ PersistDeviceInfoList' = store.head
        /\ StorePersistentData(store.heap, store.head)
        /\ DeviceInfoList' = DeviceInfoList
  BY DEF Persist
<1>3. PICK Q : /\ Lists(store.heap, DeviceInfoList, store.head, rec, S, Q)
               /\ \A c \in On(S) : /\ store.heap[c].RemoteAddress = heap[c].RemoteAddress
                                   /\ store.heap[c].LTK = heap[c].LTK
  <2>1. /\ p \in Peers /\ type = Kind(p) /\ store \in Persisted(p, type)
        /\ typed = [heap EXCEPT ![Found(p)].device_type = type]
        /\ old = SearchDeviceInfoEntryByType(typed, PersistDeviceInfoList, type)
        /\ type = "BULB" /\ Found(p) # NULL /\ old # NULL => typed[old].RemoteAddress # p
    OBVIOUS
  <2>2. PersistsLists(store, rec, S)
    BY ONLY <1>1, <2>1, OneOfEach, StoreTypeOK, PersistedLists
  <2>3. QED
    BY ONLY <2>2 DEF PersistsLists
<1>4. PICK g, head : g = store.heap /\ head = store.head
  OBVIOUS
<1>5. /\ g \in Heaps /\ IsList(g, head, Q) /\ Data(g, rec, DeviceInfoList, On(S), On(Q))
      /\ IsList(g, DeviceInfoList, S)
  BY <1>3, <1>4 DEF Lists
<1>6. saved' = saved \/ saved' = RecordOf(g, head)
  BY <1>2, <1>4 DEF StorePersistentData
<1>7. /\ RecordSound(RecordOf(g, head))
      /\ rec.LastAddress # NullAddr => RecordOf(g, head).LastAddress # NullAddr
  BY ONLY <1>5, OneOfEach, DataSaved DEF Data
<1>8. RecordKept(rec)
  BY <1>6, <1>7 DEF RecordKept
<1>9. Lists(g, DeviceInfoList, head, rec, S, Q)
  BY <1>3, <1>4
<1>10. DeviceInfoList = NULL \/ DeviceInfoList \in On(S)
  BY <1>1, ListFacts
<1>11. /\ Lists(heap', DeviceInfoList, head, rec, S, Q)
       /\ \A c \in On(S) : heap'[c] = g[c]
  <2>1. PICK kept : kept = heap'
    OBVIOUS
  <2>2. Lists(g, DeviceInfoList, head, rec, S, Q) /\ kept = Kept(g, DeviceInfoList, head)
    BY <1>2, <1>4, <1>9, <2>1
  <2>3. /\ Lists(kept, DeviceInfoList, head, rec, S, Q)
        /\ \A c \in On(S) : kept[c] = g[c]
    BY ONLY <1>10, <2>2, ListsKept
  <2>4. QED
    BY ONLY <2>1, <2>3
<1>12. Lists(heap', DeviceInfoList', PersistDeviceInfoList', rec, S, Q)
  BY <1>2, <1>4, <1>11
<1>13. ASSUME NEW q \in Peers, Keyed(heap, On(S), q) PROVE Keyed(heap', On(S), q)
  BY <1>3, <1>4, <1>11, <1>13 DEF Keyed
<1>14. StaysBonded
  BY <1>1, <1>12, <1>13, BondedStays DEF StaysBonded
<1>15. QED
  BY <1>8, <1>12, <1>14 DEF SoundFor, Sound

(* Every action but a restart keeps the lists as they are described, the   *)
(* remote device of a record they hold, and the entries of paired devices  *)
(* it has no reason to drop.                                               *)
LEMMA InvBulbPaired ==
  ASSUME OneOfEach, StoreTypeOK, NEW rec, SoundFor(rec), NEW b \in Bulbs, BulbPaired(b)
  PROVE  SoundFor(rec)' /\ StaysBonded /\ RecordKept(rec)
<1>1. PICK type : type = "BULB"
  OBVIOUS
<1>2. b \in Peers /\ type = Kind(b)
  BY <1>1, StoreSizes DEF Kind, Peers
<1>3. PICK typed : typed = [heap EXCEPT ![Found(b)].device_type = type]
  OBVIOUS
<1>4. PICK old : old = SearchDeviceInfoEntryByType(typed, PersistDeviceInfoList, type)
  OBVIOUS
<1>5. IF Found(b) # NULL /\ old # NULL /\ typed[old].RemoteAddress = b
      THEN /\ heap' = typed
           /\ UNCHANGED <<DeviceInfoList, PersistDeviceInfoList, connected, saved>>
      ELSE Persist(b, type)
  BY <1>1, <1>3, <1>4 DEF BulbPaired
<1>6. CASE Found(b) # NULL /\ old # NULL /\ typed[old].RemoteAddress = b
  <2>1. PICK S, P : Lists(heap, DeviceInfoList, PersistDeviceInfoList, rec, S, P)
    BY DEF SoundFor, Sound
  <2>2. PICK d : d = Found(b)
    OBVIOUS
  <2>3. PICK k \in 1..Len(S) : d = S[k] /\ heap[d].RemoteAddress = b
    BY <1>6, <2>1, <2>2, Looked DEF Lists, Found
  <2>4. d \in On(S) /\ On(S) \subseteq Cells
    BY <2>1, <2>3, OnTypes DEF On, Lists
  <2>5. TypedLists(typed, heap, DeviceInfoList, PersistDeviceInfoList, rec, S, P, d, type)
    <3>1. PICK h, first, other :
            h = heap /\ first = DeviceInfoList /\ other = PersistDeviceInfoList
      OBVIOUS
    <3>2. /\ Lists(h, first, other, rec, S, P) /\ d \in On(S)
          /\ type = Kind(h[d].RemoteAddress)
          /\ typed = [h EXCEPT ![d].device_type = type]
      BY <1>2, <1>3, <2>1, <2>2, <2>3, <2>4, <3>1
    <3>3. TypedLists(typed, h, first, other, rec, S, P, d, type)
      BY ONLY <3>2, OneOfEach, ListsTyped
    <3>4. QED
      BY ONLY <3>1, <3>3
  <2>6. /\ heap' = typed /\ DeviceInfoList' = DeviceInfoList
        /\ PersistDeviceInfoList' = PersistDeviceInfoList /\ saved' = saved
    BY <1>5, <1>6
  <2>7. Lists(heap', DeviceInfoList', PersistDeviceInfoList', rec, S, P)
    BY <2>5, <2>6 DEF TypedLists
  <2>8. ASSUME NEW q \in Peers, Keyed(heap, On(S), q) PROVE Keyed(heap', On(S), q)
    BY <2>4, <2>5, <2>6, <2>8 DEF Keyed, TypedLists
  <2>9. StaysBonded
    BY <2>1, <2>7, <2>8, BondedStays DEF StaysBonded
  <2>10. QED
    BY <2>6, <2>7, <2>9 DEF SoundFor, Sound, RecordKept
<1>7. CASE ~ (Found(b) # NULL /\ old # NULL /\ typed[old].RemoteAddress = b)
  <2>1. /\ Persist(b, type)
        /\ type = "BULB" /\ Found(b) # NULL /\ old # NULL => typed[old].RemoteAddress # b
    BY <1>5, <1>7
  <2>2. QED
    BY ONLY OneOfEach, StoreTypeOK, SoundFor(rec), <1>2, <1>3, <1>4, <2>1, InvPersist
<1>8. QED
  BY <1>6, <1>7

LEMMA InvMobilePaired ==
  ASSUME OneOfEach, StoreTypeOK, NEW rec, SoundFor(rec), NEW m \in Mobiles, MobilePaired(m)
  PROVE  SoundFor(rec)' /\ StaysBonded /\ RecordKept(rec)
<1>1. PICK type : type = "MOBILE"
  OBVIOUS
<1>2. m \in Peers /\ type = Kind(m) /\ Persist(m, type) /\ type # "BULB"
  BY <1>1 DEF Kind, Peers, MobilePaired
<1>3. PICK typed : typed = [heap EXCEPT ![Found(m)].device_type = type]
  OBVIOUS
<1>4. PICK old : old = SearchDeviceInfoEntryByType(typed, PersistDeviceInfoList, type)
  OBVIOUS
<1>5. QED
  BY ONLY OneOfEach, StoreTypeOK, SoundFor(rec), <1>2, <1>3, <1>4, InvPersist

(* What may end a pairing with device p.                                   *)
MayUnpair(p) == Reboot \/ (p \in Bulbs /\ BulbKeyRejected(p))

LEMMA ActionStep ==
  ASSUME OneOfEach, StoreTypeOK, NEW rec, SoundFor(rec), [StoreNext]_storeVars, ~ Reboot
  PROVE  /\ SoundFor(rec)' /\ RecordKept(rec)
         /\ \A q \in Peers : Bonded(heap, DeviceInfoList, q) =>
                              Bonded(heap', DeviceInfoList', q) \/ MayUnpair(q)
<1>1. ASSUME NEW p \in Peers, GattConnection(p)
      PROVE  SoundFor(rec)' /\ StaysBonded /\ RecordKept(rec)
  BY <1>1, InvConnection DEF RecordKept, GattConnection
<1>2. ASSUME NEW p \in Peers, GattDisconnection(p)
      PROVE  SoundFor(rec)' /\ StaysBonded /\ RecordKept(rec)
  BY <1>2, InvDisconnection DEF RecordKept, GattDisconnection
<1>3. ASSUME NEW p \in Peers, EncryptionInformation(p)
      PROVE  SoundFor(rec)' /\ StaysBonded /\ RecordKept(rec)
  <2>1. KeySet(p, p) /\ p \in {p, NullAddr} /\ p # NullAddr
    BY <1>3, StoreSizes DEF EncryptionInformation
  <2>2. /\ SoundFor(rec)'
        /\ \A q \in Peers : Bonded(heap, DeviceInfoList, q) => Bonded(heap', DeviceInfoList', q)
    BY <2>1, InvKeySet
  <2>3. QED
    BY <2>1, <2>2 DEF StaysBonded, RecordKept, KeySet
<1>4. ASSUME NEW m \in Mobiles, MobilePaired(m)
      PROVE  SoundFor(rec)' /\ StaysBonded /\ RecordKept(rec)
  BY <1>4, InvMobilePaired
<1>5. ASSUME NEW b \in Bulbs, BulbPaired(b)
      PROVE  SoundFor(rec)' /\ StaysBonded /\ RecordKept(rec)
  BY <1>5, InvBulbPaired
<1>6. ASSUME NEW b \in Bulbs, BulbKeyRejected(b)
      PROVE  /\ SoundFor(rec)' /\ RecordKept(rec)
             /\ \A q \in Peers : Bonded(heap, DeviceInfoList, q) =>
                                  Bonded(heap', DeviceInfoList', q) \/ MayUnpair(q)
  <2>1. KeySet(b, NullAddr) /\ NullAddr \in {b, NullAddr} /\ b \in Peers
    BY <1>6 DEF BulbKeyRejected, Peers
  <2>2. /\ SoundFor(rec)'
        /\ \A q \in Peers : Bonded(heap, DeviceInfoList, q) =>
             Bonded(heap', DeviceInfoList', q) \/ (q = b /\ NullAddr = NullAddr)
    BY ONLY <2>1, OneOfEach, StoreTypeOK, SoundFor(rec), InvKeySet
  <2>3. QED
    BY <1>6, <2>1, <2>2 DEF MayUnpair, RecordKept, KeySet
<1>7. CASE UNCHANGED storeVars
  BY <1>7, InvUnchanged DEF storeVars, StaysBonded, RecordKept
<1>8. QED
  BY <1>1, <1>2, <1>3, <1>4, <1>5, <1>6, <1>7 DEF StoreNext, StaysBonded

(* The record keeps a remote device that the lists hold.                   *)
KeepsRemote ==
    saved.LastAddress # NullAddr /\ HoldsRemote(heap, PersistDeviceInfoList) =>
      /\ saved'.LastAddress # NullAddr
      /\ HoldsRemote(heap', PersistDeviceInfoList') \/ Reboot

LEMMA InvStep ==
  ASSUME OneOfEach, StoreTypeOK, StoreInv, [StoreNext]_storeVars
  PROVE  /\ StoreInv' /\ KeepsRemote
         /\ \A q \in Peers : Bonded(heap, DeviceInfoList, q) =>
                              Bonded(heap', DeviceInfoList', q) \/ MayUnpair(q)
<1>1. CASE Reboot
  BY <1>1, InvReboot DEF MayUnpair, KeepsRemote, Reboot
<1>2. CASE ~ Reboot
  <2>1. PICK none : none = NoRecord
    OBVIOUS
  <2>2. RecordSound(saved) /\ SoundFor(none)
    BY <2>1 DEF StoreInv
  <2>3. /\ SoundFor(none)' /\ RecordKept(none)
        /\ \A q \in Peers : Bonded(heap, DeviceInfoList, q) =>
                             Bonded(heap', DeviceInfoList', q) \/ MayUnpair(q)
    BY <1>2, <2>2, ActionStep
  <2>4. StoreInv'
    BY <2>1, <2>2, <2>3 DEF StoreInv, SoundFor, RecordKept
  <2>5. ASSUME saved.LastAddress # NullAddr, HoldsRemote(heap, PersistDeviceInfoList)
        PROVE  saved'.LastAddress # NullAddr /\ HoldsRemote(heap', PersistDeviceInfoList')
    <3>1. PICK rec : rec = saved
      OBVIOUS
    <3>2. SoundFor(rec)
      BY <2>2, <2>5, <3>1, RemoteHeld DEF SoundFor
    <3>3. SoundFor(rec)' /\ RecordKept(rec)
      BY <1>2, <3>2, ActionStep
    <3>4. HoldsRemote(heap', PersistDeviceInfoList')
      BY <2>5, <3>1, <3>3, RemoteHeld DEF SoundFor
    <3>5. QED
      BY <2>5, <3>1, <3>3, <3>4 DEF RecordKept
  <2>6. QED
    BY <2>3, <2>4, <2>5 DEF KeepsRemote
<1>3. QED
  BY <1>1, <1>2

LEMMA InvHolds ==
  ASSUME OneOfEach
  PROVE  StoreSpec => []StoreInv
<1>1. StoreInit => StoreInv
  BY InvInit
<1>2. StoreTypeOK /\ StoreInv /\ [StoreNext]_storeVars => StoreInv'
  BY InvStep
<1>3. QED
  BY <1>1, <1>2, StoreTypes, PTL DEF StoreSpec

(* Neither list ever becomes circular, however often entries are copied    *)
(* over others with their pointers: StorePersistentData always returns.    *)
(* With two phones and a bulb a circle can close.                          *)
THEOREM ListsAlwaysEnd ==
  ASSUME OneOfEach
  PROVE  StoreSpec => []ListsEnd
<1>1. StoreInv => ListsEnd
  BY WalkOfList DEF StoreInv, SoundFor, Sound, Lists, Heaps, ListsEnd
<1>2. QED
  BY <1>1, InvHolds, PTL

(* The session's list never holds a device twice, nor an entry the         *)
(* persistent list appended to cells they share: the entry an address is   *)
(* looked up by is the one its link uses.                                  *)
THEOREM DeviceListedOnce ==
  ASSUME OneOfEach
  PROVE  StoreSpec => []OneEntryEach
<1>1. StoreInv => OneEntryEach
  <2> SUFFICES ASSUME StoreInv PROVE OneEntryEach
    OBVIOUS
  <2>1. PICK S, P : Lists(heap, DeviceInfoList, PersistDeviceInfoList, NoRecord, S, P)
    BY DEF StoreInv, SoundFor, Sound
  <2>2. Listed = S /\ S \in Seq(Cells)
    BY <2>1, WalkOfList DEF Lists, Heaps, Listed
  <2>3. /\ \A i, j \in 1..Len(S) : S[i] = S[j] => i = j
        /\ \A c, d \in On(S) : heap[c].RemoteAddress = heap[d].RemoteAddress => c = d
        /\ \A i \in 1..Len(S) : S[i] \in On(S)
    BY <2>1 DEF Lists, IsList, Data, Once, On
  <2>4. DOMAIN S = 1..Len(S)
    BY <2>2
  <2>5. QED
    BY <2>2, <2>3, <2>4 DEF OneEntryEach
<1>2. QED
  BY <1>1, InvHolds, PTL

(* As long as the board runs, a remote device that is in the record and in *)
(* the list the record is written from stays in both: a bulb's pairing,    *)
(* whose entry may be the only one of the persistent list with the remote  *)
(* device behind it, does not write a record without one, and neither does *)
(* a pairing that finds no memory.  A restart that loads the record is the *)
(* beginning of such a time; one that cannot load it is not.               *)
THEOREM RemoteStaysSaved ==
  ASSUME OneOfEach
  PROVE  StoreSpec => SavedRemoteIsKept
<1>1. StoreTypeOK /\ StoreInv /\ [StoreNext]_storeVars
        => [saved.LastAddress # NullAddr /\ HoldsRemote(heap, PersistDeviceInfoList) =>
              /\ saved'.LastAddress # NullAddr
              /\ HoldsRemote(heap', PersistDeviceInfoList') \/ Reboot]_storeVars
  BY InvStep DEF KeepsRemote
<1>2. QED
  BY <1>1, InvHolds, StoreTypes, PTL DEF StoreSpec, SavedRemoteIsKept

(* A device with a valid key keeps its entry in the session's list, and    *)
(* the key, until the key is rejected or the board restarts.               *)
THEOREM PairedEntryIsKept ==
  ASSUME OneOfEach
  PROVE  StoreSpec => PairedEntryStays
<1>1. StoreTypeOK /\ StoreInv /\ [StoreNext]_storeVars
        => [\A p \in Peers :
              Bonded(heap, DeviceInfoList, p) =>
                \/ Bonded(heap', DeviceInfoList', p)
                \/ Reboot
                \/ p \in Bulbs /\ BulbKeyRejected(p)]_storeVars
  BY InvStep DEF MayUnpair
<1>2. QED
  BY <1>1, InvHolds, StoreTypes, PTL DEF StoreSpec, PairedEntryStays

=============================================================================
