------------------------- MODULE HomeControlProofs -------------------------
(***************************************************************************)
(* What the home controller guarantees for every set of phones, and of     *)
(* bulbs where OneBulb is not assumed.                                     *)
(*                                                                         *)
(* Each theorem rests on one inductive invariant.  The steps that search   *)
(* for the bulb change nothing these invariants speak of (SearchKeeps), so *)
(* that only the links, the phone's writes and the sleeping write remain.  *)
(***************************************************************************)
EXTENDS HomeControl, TLAPS

(* Scanning, its timers, and what begins and ends a connection attempt.    *)
SearchStep ==
    \/ \E b \in Bulbs : AdvertisingReport(b) \/ GapBulbConnectionFailed(b)
    \/ \E scanDue \in BOOLEAN : timer_callback(scanDue)
    \/ BSC_Timer_Callback \/ ConnectSavedBulb \/ Conn_Timer_Callback

(* Links of either role come and go.                                       *)
HomeLinkStep ==
    \/ \E m \in Mobiles : \/ \E success \in BOOLEAN : GapMobileConnected(m, success)
                          \/ GapMobileDisconnected(m)
    \/ \E b \in Bulbs : \/ GapBulbConnected(b)
                        \/ GapBulbDisconnected(b)
                        \/ GattBulbDisconnected(b)
    \/ LinkStep

(* A phone writes, or the write that slept goes on.                        *)
WriteStep ==
    \/ \E m \in Mobiles, value \in BOOLEAN :
          \/ WriteLock(m, value) \/ WriteBulb(m, value)
          \/ WriteSmokeConfiguration(m, value) \/ WriteBulbConfiguration(m, value)
    \/ BulbFollowsLock

(* Every step is of one of these kinds, or one of the bulb's own.          *)
LEMMA HomeStepKinds ==
  HomeNext => \/ SearchStep \/ HomeLinkStep \/ WriteStep \/ BulbLost
              \/ \E b \in Bulbs : BLBDPopulateHandles(b)
  BY DEF HomeNext, PhoneNext, BulbNext, SearchStep, HomeLinkStep, WriteStep

restVars == <<viewVars, stateVars, lampVars, phoneVars, bulb_char_handle, advertising>>

(* The search for the bulb leaves links, lamp and phones alone.            *)
LEMMA SearchKeeps == SearchStep \/ UNCHANGED homeVars => UNCHANGED restVars
  BY DEF SearchStep, homeVars, restVars, AdvertisingReport, GapBulbConnectionFailed,
         timer_callback, BSC_Timer_Callback, ConnectSavedBulb, Conn_Timer_Callback, scanVars

-----------------------------------------------------------------------------
(* Type correctness. *)

(* The types by their kind: names and sets, records, Booleans.             *)
NamesOK ==
    /\ state_flags \subseteq StateFlags
    /\ bulb_State \in {"OFF", "ON", "DISCONNECTED"}
    /\ ConnTimerID \in {"unset", "armed", "over"}
    /\ connection_Id \in Mobiles \union {NullAddr}
    /\ connecting \in Bulbs \union {NullAddr}
    /\ lockWrite \in [from : Mobiles \union {NullAddr}, locked : BOOLEAN]

FlagsOK ==
    /\ bulb_char_handle \in BOOLEAN /\ ScanTimerID \in BOOLEAN
    /\ lock_State \in BOOLEAN /\ notify_Thread_Flag \in BOOLEAN
    /\ advertising \in BOOLEAN /\ scanning \in BOOLEAN /\ stopRefused \in BOOLEAN
    /\ bulbAlive \in BOOLEAN /\ lamp \in BOOLEAN /\ lampWritten \in BOOLEAN

LEMMA HomeTypes == HomeTypeOK <=> ViewTypeOK /\ NamesOK /\ FlagsOK
  BY DEF HomeTypeOK, NamesOK, FlagsOK

LEMMA HomeTypeInit == HomeInit => HomeTypeOK
<1>1. HomeInit => ViewTypeOK
  BY DEF HomeInit, ViewInit, ViewTypeOK, Phases
<1>2. HomeInit => NamesOK
  BY DEF HomeInit, NamesOK, StateFlags, NoWrite
<1>3. HomeInit => FlagsOK
  BY DEF HomeInit, FlagsOK
<1>4. QED
  BY <1>1, <1>2, <1>3, HomeTypes

(* The view's actions keep the types of the links.                         *)
LEMMA ViewTypeStep ==
  ASSUME ViewTypeOK,
         \/ \E p \in Peers : GapUp(p) \/ GattUp(p) \/ GapDown(p) \/ GattDown(p)
         \/ \E m \in Mobiles : Encrypt(m)
         \/ \E b \in Bulbs : StartDiscovery(b) \/ EndDiscovery(b)
  PROVE  ViewTypeOK'
<1> USE DEF ViewTypeOK, Phases
<1>1. ASSUME NEW p \in Peers, GapUp(p) PROVE ViewTypeOK'
  BY <1>1 DEF GapUp
<1>2. ASSUME NEW p \in Peers, GattUp(p) PROVE ViewTypeOK'
  BY <1>2 DEF GattUp
<1>3. ASSUME NEW p \in Peers, GapDown(p) PROVE ViewTypeOK'
  BY <1>3 DEF GapDown
<1>4. ASSUME NEW p \in Peers, GattDown(p) PROVE ViewTypeOK'
  BY <1>4 DEF GattDown
<1>5. ASSUME NEW m \in Mobiles, Encrypt(m) PROVE ViewTypeOK'
  BY <1>5 DEF Encrypt
<1>6. ASSUME NEW b \in Bulbs, StartDiscovery(b) \/ EndDiscovery(b) PROVE ViewTypeOK'
  BY <1>6 DEF StartDiscovery, EndDiscovery
<1>7. QED
  BY <1>1, <1>2, <1>3, <1>4, <1>5, <1>6

LEMMA PeersOfHome == Mobiles \subseteq Peers /\ Bulbs \subseteq Peers
  BY DEF Peers

LEMMA HomeTypeStep == HomeTypeOK /\ [HomeNext]_homeVars => HomeTypeOK'
<1> SUFFICES ASSUME HomeTypeOK, [HomeNext]_homeVars PROVE HomeTypeOK'
  OBVIOUS
<1>0. /\ ViewTypeOK /\ NamesOK /\ FlagsOK
      /\ (HomeTypeOK' <=> ViewTypeOK' /\ NamesOK' /\ FlagsOK')
  BY HomeTypes DEF HomeTypeOK, NamesOK, FlagsOK
<1>1. ASSUME UNCHANGED viewVars PROVE ViewTypeOK'
  BY <1>0, <1>1 DEF viewVars, ViewTypeOK
<1> USE PeersOfHome
    DEF stateVars, scanOnly, scanVars, lampVars, phoneVars
<1>2. CASE SearchStep \/ UNCHANGED homeVars
  <2>1. UNCHANGED restVars
    BY <1>2, SearchKeeps
  <2>2. connecting' \in Bulbs \union {NullAddr}
             /\ ConnTimerID' \in {"unset", "armed", "over"}
    BY <1>0, <1>2, HomeAssumption
       DEF NamesOK, SearchStep, AdvertisingReport, GapBulbConnectionFailed,
           timer_callback, BSC_Timer_Callback, ConnectSavedBulb, Conn_Timer_Callback, ConnectLEDevice, homeVars
  <2>3. NamesOK'
    BY <1>0, <2>1, <2>2 DEF NamesOK, restVars
  <2>4. /\ scanning' \in BOOLEAN
        /\ ScanTimerID' \in BOOLEAN
        /\ stopRefused' \in BOOLEAN
    <3>1. /\ scanning \in BOOLEAN
          /\ ScanTimerID \in BOOLEAN
          /\ stopRefused \in BOOLEAN
      BY <1>0 DEF FlagsOK
    <3>2. CASE UNCHANGED scanOnly
      BY <3>1, <3>2
    <3>3. CASE StopScan
      BY <3>1, <3>3, Zenon DEF StopScan
    <3>4. CASE MscStartScan /\ UNCHANGED stopRefused
      BY <3>1, <3>4, Zenon DEF MscStartScan
    <3>5. QED
      BY <1>2, <3>2, <3>3, <3>4
         DEF SearchStep, AdvertisingReport, GapBulbConnectionFailed, timer_callback,
             BSC_Timer_Callback, ConnectSavedBulb, Conn_Timer_Callback, homeVars
  <2>5. FlagsOK'
    BY <1>0, <2>1, <2>4 DEF FlagsOK, restVars
  <2>6. ViewTypeOK'
    BY <1>1, <2>1 DEF restVars
  <2>7. QED
    BY <1>0, <2>3, <2>5, <2>6
<1>3. ASSUME NEW m \in Mobiles, NEW success \in BOOLEAN, GapMobileConnected(m, success)
      PROVE  HomeTypeOK'
  <2>1. ViewTypeOK'
    BY <1>0, <1>1, <1>3, ViewTypeStep DEF GapMobileConnected
  <2>2. NamesOK'
    BY <1>0, <1>3 DEF NamesOK, GapMobileConnected, StateFlags
  <2>3. FlagsOK'
    BY <1>0, <1>3 DEF FlagsOK, GapMobileConnected
  <2>4. QED
    BY <1>0, <2>1, <2>2, <2>3
<1>4. ASSUME NEW m \in Mobiles, GapMobileDisconnected(m) PROVE HomeTypeOK'
  <2>1. ViewTypeOK'
    BY <1>0, <1>4, ViewTypeStep DEF GapMobileDisconnected
  <2>2. NamesOK'
    BY <1>0, <1>4 DEF NamesOK, GapMobileDisconnected
  <2>3. FlagsOK'
    BY <1>0, <1>4 DEF FlagsOK, GapMobileDisconnected
  <2>4. QED
    BY <1>0, <2>1, <2>2, <2>3
<1>5. ASSUME NEW b \in Bulbs, GapBulbConnected(b) PROVE HomeTypeOK'
  <2>1. ViewTypeOK'
    BY <1>0, <1>5, ViewTypeStep DEF GapBulbConnected
  <2>2. NamesOK'
    BY <1>0, <1>5 DEF NamesOK, GapBulbConnected
  <2>3. FlagsOK'
    BY <1>0, <1>5 DEF FlagsOK, GapBulbConnected
  <2>4. QED
    BY <1>0, <2>1, <2>2, <2>3
<1>6. ASSUME NEW b \in Bulbs, GapBulbDisconnected(b) \/ GattBulbDisconnected(b)
      PROVE  HomeTypeOK'
  <2>1. ViewTypeOK'
    BY <1>0, <1>6, ViewTypeStep DEF GapBulbDisconnected, GattBulbDisconnected
  <2>2. NamesOK'
    BY <1>0, <1>6 DEF NamesOK, GapBulbDisconnected, GattBulbDisconnected, StateFlags
  <2>3. FlagsOK'
    BY <1>0, <1>6 DEF FlagsOK, GapBulbDisconnected, GattBulbDisconnected
  <2>4. QED
    BY <1>0, <2>1, <2>2, <2>3
<1>7. CASE LinkStep
  <2>1. ViewTypeOK'
    BY <1>0, <1>7, ViewTypeStep DEF LinkStep
  <2>2. NamesOK'
    BY <1>0, <1>7 DEF NamesOK, LinkStep
  <2>3. FlagsOK'
    BY <1>0, <1>7 DEF FlagsOK, LinkStep
  <2>4. QED
    BY <1>0, <2>1, <2>2, <2>3
<1>8. ASSUME NEW m \in Mobiles, NEW value \in BOOLEAN,
             \/ WriteLock(m, value) \/ WriteBulb(m, value)
             \/ WriteSmokeConfiguration(m, value) \/ WriteBulbConfiguration(m, value)
      PROVE  HomeTypeOK'
  <2>1. ViewTypeOK'
    BY <1>1, <1>8 DEF WriteLock, WriteBulb, WriteSmokeConfiguration,
                WriteBulbConfiguration, serverOnly
  <2>2. CASE WriteLock(m, value)
    <3>1. lockWrite' \in [from : Mobiles \union {NullAddr}, locked : BOOLEAN]
      BY <2>2 DEF WriteLock, NoWrite
    <3>2. NamesOK'
      BY <1>0, <2>2, <3>1 DEF NamesOK, WriteLock, serverOnly
    <3>3. FlagsOK'
      BY <1>0, <2>2 DEF FlagsOK, WriteLock, serverOnly
    <3>4. QED
      BY <1>0, <2>1, <3>2, <3>3
  <2>3. CASE WriteBulb(m, value)
    <3>1. NamesOK'
      BY <1>0, <2>3 DEF NamesOK, WriteBulb, serverOnly
    <3>2. FlagsOK'
      BY <1>0, <2>3, Zenon DEF FlagsOK, WriteBulb, serverOnly, BLBDWriteData
    <3>3. QED
      BY <1>0, <2>1, <3>1, <3>2
  <2>4. CASE WriteSmokeConfiguration(m, value)
    <3>1. NamesOK'
      BY <1>0, <2>4 DEF NamesOK, WriteSmokeConfiguration, serverOnly
    <3>2. FlagsOK'
      BY <1>0, <2>4 DEF FlagsOK, WriteSmokeConfiguration, serverOnly
    <3>3. QED
      BY <1>0, <2>1, <3>1, <3>2
  <2>5. CASE WriteBulbConfiguration(m, value)
    <3>1. NamesOK'
      BY <1>0, <2>5 DEF NamesOK, WriteBulbConfiguration, serverOnly
    <3>2. FlagsOK'
      BY <1>0, <2>5 DEF FlagsOK, WriteBulbConfiguration, serverOnly
    <3>3. QED
      BY <1>0, <2>1, <3>1, <3>2
  <2>6. QED
    BY <1>8, <2>2, <2>3, <2>4, <2>5
<1>9. CASE BulbFollowsLock
  <2>1. ViewTypeOK'
    BY <1>1, <1>9 DEF BulbFollowsLock
  <2>2. NamesOK'
    BY <1>0, <1>9 DEF NamesOK, BulbFollowsLock, NoWrite
  <2>3. FlagsOK'
    BY <1>0, <1>9 DEF FlagsOK, BulbFollowsLock, BLBDWriteData
  <2>4. QED
    BY <1>0, <2>1, <2>2, <2>3
<1>10. CASE BulbLost \/ \E b \in Bulbs : BLBDPopulateHandles(b)
  <2>1. ViewTypeOK'
    BY <1>1, <1>10 DEF BulbLost, BLBDPopulateHandles
  <2>2. NamesOK'
    BY <1>0, <1>10 DEF NamesOK, BulbLost, BLBDPopulateHandles
  <2>3. FlagsOK'
    BY <1>0, <1>10 DEF FlagsOK, BulbLost, BLBDPopulateHandles, BLBDWriteData
  <2>4. QED
    BY <1>0, <2>1, <2>2, <2>3
<1>11. QED
  BY <1>2, <1>3, <1>4, <1>5, <1>6, <1>7, <1>8, <1>9, <1>10, HomeStepKinds
     DEF HomeLinkStep, WriteStep

(* The variables keep their types, for any phones, bulbs and saved bulb.   *)
THEOREM HomeTypeCorrect == HomeSafety => []HomeTypeOK
<1>1. QED
  BY HomeTypeInit, HomeTypeStep, PTL DEF HomeSafety

-----------------------------------------------------------------------------
(* Whose link is up.  GAP makes and ends a link, GATT only follows. *)

Linked == {p \in Peers : phase[p] \in {"gap", "up", "gattDown"}}

LEMMA LinkedSteps ==
  ASSUME ViewTypeOK, NEW p \in Peers
  PROVE  /\ GapUp(p) => Linked' = Linked \union {p}
         /\ GattUp(p) => Linked' = Linked
         /\ GapDown(p) => p \in Linked /\ Linked' = Linked \ {p}
         /\ GattDown(p) => Linked' = Linked
  BY DEF ViewTypeOK, Linked, GapUp, GattUp, GapDown, GattDown

LEMMA LinkedStays == phase' = phase => Linked' = Linked
  BY DEF Linked

(* Of the kinds of steps, the link steps of the stack alone move no link.  *)
LEMMA LinkStepKeepsLinked == ViewTypeOK /\ LinkStep => Linked' = Linked
  BY LinkedSteps, LinkedStays, PeersOfHome
     DEF LinkStep, Encrypt, StartDiscovery, EndDiscovery

-----------------------------------------------------------------------------
(* At most one phone, with its flag. *)

(* The board advertises again only after the phone has left, so there is   *)
(* at most one, and its arrival has set the flag that only its own leaving *)
(* clears.                                                                 *)
PhonesInv ==
    \A m \in Linked \cap Mobiles :
        /\ ~advertising
        /\ "MOBILE_CONNECTED" \in state_flags
        /\ Linked \cap Mobiles = {m}

LEMMA PhonesInit == HomeInit => PhonesInv
  BY DEF HomeInit, ViewInit, PhonesInv, Linked

LEMMA PhonesStep ==
  HomeTypeOK /\ PhonesInv /\ [HomeNext]_homeVars => PhonesInv'
<1> SUFFICES ASSUME HomeTypeOK, PhonesInv, [HomeNext]_homeVars PROVE PhonesInv'
  OBVIOUS
<1>0. ViewTypeOK
  BY DEF HomeTypeOK
<1>1. ASSUME Linked' = Linked, advertising' = advertising,
             "MOBILE_CONNECTED" \in state_flags => "MOBILE_CONNECTED" \in state_flags'
      PROVE  PhonesInv'
  BY <1>1 DEF PhonesInv
<1> USE PeersOfHome, HomeAssumption
<1>2. CASE SearchStep \/ UNCHANGED homeVars
  <2>1. UNCHANGED restVars
    BY <1>2, SearchKeeps
  <2>2. QED
    BY <1>1, <2>1, LinkedStays DEF restVars, viewVars, stateVars
<1>3. ASSUME NEW m \in Mobiles, NEW success \in BOOLEAN, GapMobileConnected(m, success)
      PROVE  PhonesInv'
  <2>1. Linked \cap Mobiles = {} /\ "MOBILE_CONNECTED" \in state_flags'
    BY <1>3 DEF GapMobileConnected, PhonesInv
  <2>2. CASE success
    BY <1>0, <1>3, <2>1, <2>2, LinkedSteps DEF GapMobileConnected, PhonesInv
  <2>3. CASE ~success
    BY <1>3, <2>1, <2>3, LinkedStays DEF GapMobileConnected, PhonesInv, viewVars
  <2>4. QED
    BY <2>2, <2>3
<1>4. ASSUME NEW m \in Mobiles, GapMobileDisconnected(m) PROVE PhonesInv'
  <2>1. m \in Linked /\ Linked' = Linked \ {m}
    BY <1>0, <1>4, LinkedSteps DEF GapMobileDisconnected
  <2>2. QED
    BY <2>1 DEF PhonesInv
<1>5. ASSUME NEW b \in Bulbs, GapBulbConnected(b) PROVE PhonesInv'
  <2>1. Linked' = Linked \union {b} /\ b \notin Mobiles
    BY <1>0, <1>5, LinkedSteps DEF GapBulbConnected
  <2>2. QED
    BY <1>5, <2>1 DEF PhonesInv, GapBulbConnected
<1>6. ASSUME NEW b \in Bulbs, GapBulbDisconnected(b) PROVE PhonesInv'
  <2>1. Linked' = Linked \ {b} /\ b \notin Mobiles
    BY <1>0, <1>6, LinkedSteps DEF GapBulbDisconnected
  <2>2. QED
    BY <1>6, <2>1 DEF PhonesInv, GapBulbDisconnected
<1>7. ASSUME NEW b \in Bulbs, GattBulbDisconnected(b) PROVE PhonesInv'
  BY <1>0, <1>1, <1>7, LinkedSteps DEF GattBulbDisconnected, stateVars
<1>8. CASE LinkStep
  BY <1>0, <1>1, <1>8, LinkStepKeepsLinked DEF LinkStep, stateVars
<1>9. CASE WriteStep
  <2>1. UNCHANGED <<phase, advertising, state_flags>>
    BY <1>9 DEF WriteStep, WriteLock, WriteBulb, WriteSmokeConfiguration,
                WriteBulbConfiguration, BulbFollowsLock, serverOnly, viewVars
  <2>2. QED
    BY <1>1, <2>1, LinkedStays
<1>10. CASE BulbLost \/ \E b \in Bulbs : BLBDPopulateHandles(b)
  BY <1>1, <1>10, LinkedStays DEF BulbLost, BLBDPopulateHandles, viewVars, stateVars
<1>11. QED
  BY <1>2, <1>3, <1>4, <1>5, <1>6, <1>7, <1>8, <1>9, <1>10, HomeStepKinds
     DEF HomeLinkStep

(* MOBILE_CONNECTED is set as long as a phone's link is, whatever comes in *)
(* between: a failed connection, another phone's loss reported late, the   *)
(* bulb.                                                                   *)
THEOREM PhoneFlagStays == HomeSafety => []PhoneKeepsFlag
<1>1. PhonesInv => PhoneKeepsFlag
  BY PeersOfHome DEF PhonesInv, PhoneKeepsFlag, Linked
<1>2. QED
  BY <1>1, HomeTypeCorrect, PhonesInit, PhonesStep, PTL DEF HomeSafety

-----------------------------------------------------------------------------
(* Notifications. *)

LEMMA NotifiesStep ==
  HomeTypeOK /\ NotifiesOnlyConnected /\ [HomeNext]_homeVars => NotifiesOnlyConnected'
<1> SUFFICES ASSUME HomeTypeOK, NotifiesOnlyConnected, [HomeNext]_homeVars
             PROVE  NotifiesOnlyConnected'
  OBVIOUS
<1>0. phase \in [Peers -> Phases]
  BY DEF HomeTypeOK, ViewTypeOK
<1>1. ASSUME notify_Thread_Flag' = notify_Thread_Flag,
             \A m \in Mobiles : phase[m] \in {"up", "gattDown"}
                                 => phase'[m] \in {"up", "gattDown"}
      PROVE  NotifiesOnlyConnected'
  BY <1>1 DEF NotifiesOnlyConnected
<1> USE PeersOfHome, HomeAssumption DEF phoneVars
<1>2. CASE SearchStep \/ UNCHANGED homeVars
  <2>1. UNCHANGED restVars
    BY <1>2, SearchKeeps
  <2>2. QED
    BY <1>1, <2>1 DEF restVars, viewVars
<1>3. ASSUME NEW m \in Mobiles, NEW success \in BOOLEAN, GapMobileConnected(m, success)
      PROVE  NotifiesOnlyConnected'
  BY <1>0, <1>1, <1>3 DEF GapMobileConnected, GapUp, viewVars
<1>4. ASSUME NEW m \in Mobiles, GapMobileDisconnected(m) PROVE NotifiesOnlyConnected'
  BY <1>4 DEF GapMobileDisconnected, NotifiesOnlyConnected
<1>5. ASSUME NEW b \in Bulbs,
             GapBulbConnected(b) \/ GapBulbDisconnected(b) \/ GattBulbDisconnected(b)
      PROVE  NotifiesOnlyConnected'
  <2>1. \A m \in Mobiles : phase'[m] = phase[m]
    BY <1>0, <1>5 DEF GapBulbConnected, GapBulbDisconnected, GattBulbDisconnected,
                      GapUp, GapDown, GattDown
  <2>2. QED
    BY <1>1, <1>5, <2>1 DEF GapBulbConnected, GapBulbDisconnected, GattBulbDisconnected
<1>6. CASE LinkStep
  <2>1. \A m \in Mobiles : phase[m] \in {"up", "gattDown"}
                            => phase'[m] \in {"up", "gattDown"}
    BY <1>0, <1>6 DEF LinkStep, GattUp, GattDown, Encrypt, StartDiscovery, EndDiscovery
  <2>2. QED
    BY <1>1, <1>6, <2>1 DEF LinkStep
<1>7. ASSUME NEW m \in Mobiles, NEW value \in BOOLEAN,
             \/ WriteLock(m, value) \/ WriteBulb(m, value)
             \/ WriteSmokeConfiguration(m, value) \/ WriteBulbConfiguration(m, value)
      PROVE  NotifiesOnlyConnected'
  <2>1. phase[m] = "up" /\ phase' = phase
    BY <1>7 DEF WriteLock, WriteBulb, WriteSmokeConfiguration, WriteBulbConfiguration,
                Request, serverOnly, viewVars
  <2>2. QED
    BY <2>1 DEF NotifiesOnlyConnected
<1>8. CASE BulbFollowsLock \/ BulbLost \/ \E b \in Bulbs : BLBDPopulateHandles(b)
  BY <1>1, <1>8 DEF BulbFollowsLock, BulbLost, BLBDPopulateHandles, viewVars
<1>9. QED
  BY <1>2, <1>3, <1>4, <1>5, <1>6, <1>7, <1>8, HomeStepKinds
     DEF HomeLinkStep, WriteStep

(* Notifications are on only while a phone whose link had come up can      *)
(* still be there.                                                         *)
THEOREM NotificationsEnd == HomeSafety => []NotifiesOnlyConnected
<1>1. HomeInit => NotifiesOnlyConnected
  BY DEF HomeInit, NotifiesOnlyConnected
<1>2. QED
  BY <1>1, HomeTypeCorrect, NotifiesStep, PTL DEF HomeSafety

-----------------------------------------------------------------------------
(* The scan's timer. *)

LEMMA ScanStep ==
  HomeTypeOK /\ ScanIsBounded /\ [HomeNext]_homeVars => ScanIsBounded'
<1> SUFFICES ASSUME HomeTypeOK, ScanIsBounded, [HomeNext]_homeVars PROVE ScanIsBounded'
  OBVIOUS
<1>1. ASSUME UNCHANGED scanOnly PROVE ScanIsBounded'
  BY <1>1 DEF ScanIsBounded, scanOnly
<1>2. ASSUME StopScan PROVE ScanIsBounded'
  BY <1>2, Zenon DEF HomeTypeOK, ScanIsBounded, StopScan
<1>3. ASSUME MscStartScan, UNCHANGED stopRefused PROVE ScanIsBounded'
  BY <1>3 DEF ScanIsBounded, MscStartScan
<1>4. CASE SearchStep \/ UNCHANGED homeVars
  BY <1>1, <1>2, <1>3, <1>4
     DEF SearchStep, AdvertisingReport, GapBulbConnectionFailed, timer_callback, BSC_Timer_Callback,
         ConnectSavedBulb, Conn_Timer_Callback, homeVars, scanVars, scanOnly
<1>5. CASE HomeLinkStep
  BY <1>1, <1>5
     DEF HomeLinkStep, GapMobileConnected, GapMobileDisconnected, GapBulbConnected,
         GapBulbDisconnected, GattBulbDisconnected, LinkStep, scanVars
<1>6. CASE WriteStep \/ BulbLost \/ \E b \in Bulbs : BLBDPopulateHandles(b)
  BY <1>1, <1>6
     DEF WriteStep, WriteLock, WriteBulb, WriteSmokeConfiguration, WriteBulbConfiguration,
         BulbFollowsLock, serverOnly, BulbLost, BLBDPopulateHandles, scanVars
<1>7. QED
  BY <1>4, <1>5, <1>6, HomeStepKinds

(* A scan that runs without a timer is one the stack refused to stop: not  *)
(* one that could not be timed, nor one begun while a timer was taken away *)
(* or its callback ran.                                                    *)
THEOREM ScanHasTimer == HomeSafety => []ScanIsBounded
<1>1. HomeInit => ScanIsBounded
  BY DEF HomeInit, ScanIsBounded
<1>2. QED
  BY <1>1, HomeTypeCorrect, ScanStep, PTL DEF HomeSafety

-----------------------------------------------------------------------------
(* The lock write that sleeps. *)

(* While it sleeps no callback runs, so the phone it is for stays up and   *)
(* encrypted, and the bulb is still taken to be connected.                 *)
SleepInv ==
    lockWrite # NoWrite =>
        /\ lockWrite.from \in Mobiles
        /\ phase[lockWrite.from] = "up"
        /\ lockWrite.from \in encrypted
        /\ bulb_State # "DISCONNECTED"

LEMMA SleepStep == SleepInv /\ [HomeNext]_homeVars => SleepInv'
<1> SUFFICES ASSUME SleepInv, [HomeNext]_homeVars PROVE SleepInv'
  OBVIOUS
<1>1. ASSUME UNCHANGED <<phase, encrypted, bulb_State, lockWrite>> PROVE SleepInv'
  BY <1>1 DEF SleepInv, NoWrite
<1>2. ASSUME lockWrite' = NoWrite PROVE SleepInv'
  BY <1>2 DEF SleepInv, NoWrite
<1> USE DEF viewVars, stateVars, phoneVars
<1>3. CASE SearchStep \/ UNCHANGED homeVars
  <2>1. UNCHANGED restVars
    BY <1>3, SearchKeeps
  <2>2. QED
    BY <1>1, <2>1 DEF restVars
<1>4. CASE HomeLinkStep
  BY <1>2, <1>4
     DEF HomeLinkStep, GapMobileConnected, GapMobileDisconnected, GapBulbConnected,
         GapBulbDisconnected, GattBulbDisconnected, LinkStep, StackRuns, NoWrite
<1>5. ASSUME NEW m \in Mobiles, NEW value \in BOOLEAN, WriteLock(m, value)
      PROVE  SleepInv'
  BY <1>5 DEF WriteLock, Request, CheckEncryptionStatus, serverOnly, SleepInv, NoWrite
<1>6. ASSUME NEW m \in Mobiles, NEW value \in BOOLEAN,
             \/ WriteBulb(m, value)
             \/ WriteSmokeConfiguration(m, value) \/ WriteBulbConfiguration(m, value)
      PROVE  SleepInv'
  BY <1>2, <1>6
     DEF WriteBulb, WriteSmokeConfiguration, WriteBulbConfiguration, Request, StackRuns
<1>7. CASE BulbFollowsLock
  BY <1>2, <1>7 DEF BulbFollowsLock
<1>8. CASE BulbLost
  BY <1>1, <1>8 DEF BulbLost
<1>9. CASE \E b \in Bulbs : BLBDPopulateHandles(b)
  BY <1>2, <1>9 DEF BLBDPopulateHandles, StackRuns
<1>10. QED
  BY <1>3, <1>4, <1>5, <1>6, <1>7, <1>8, <1>9, HomeStepKinds DEF WriteStep

LEMMA SleepInvariant == HomeSafety => []SleepInv
<1>1. HomeInit => SleepInv
  BY DEF HomeInit, SleepInv
<1>2. QED
  BY <1>1, SleepStep, PTL DEF HomeSafety

CommandEncrypted ==
    lock_State' # lock_State \/ (bulb_State' = "OFF" /\ bulb_State # "OFF")
      => \E m \in Mobiles : phase[m] = "up" /\ m \in encrypted

LEMMA CommandStep == SleepInv /\ [HomeNext]_homeVars => [CommandEncrypted]_homeVars
<1> SUFFICES ASSUME SleepInv, [HomeNext]_homeVars PROVE CommandEncrypted
  OBVIOUS
<1>1. ASSUME UNCHANGED <<bulb_State, lock_State>> PROVE CommandEncrypted
  BY <1>1 DEF CommandEncrypted
<1>2. ASSUME lock_State' = lock_State, bulb_State' # "OFF" PROVE CommandEncrypted
  BY <1>2 DEF CommandEncrypted
<1> USE DEF stateVars, phoneVars
<1>3. CASE SearchStep \/ UNCHANGED homeVars
  <2>1. UNCHANGED restVars
    BY <1>3, SearchKeeps
  <2>2. QED
    BY <1>1, <2>1 DEF restVars
<1>4. CASE HomeLinkStep
  BY <1>1, <1>2, <1>4
     DEF HomeLinkStep, GapMobileConnected, GapMobileDisconnected, GapBulbConnected,
         GapBulbDisconnected, GattBulbDisconnected, LinkStep
<1>5. ASSUME NEW m \in Mobiles, Request(m) PROVE CommandEncrypted
  BY <1>5 DEF CommandEncrypted, Request, CheckEncryptionStatus
<1>6. CASE BulbFollowsLock
  BY <1>6 DEF BulbFollowsLock, CommandEncrypted, SleepInv
<1>7. CASE BulbLost \/ \E b \in Bulbs : BLBDPopulateHandles(b)
  BY <1>1, <1>2, <1>7 DEF BulbLost, BLBDPopulateHandles
<1>8. CASE WriteStep
  BY <1>5, <1>6, <1>8
     DEF WriteStep, WriteLock, WriteBulb, WriteSmokeConfiguration, WriteBulbConfiguration
<1>9. QED
  BY <1>3, <1>4, <1>7, <1>8, HomeStepKinds

(* The lock moves, and the bulb goes out, only while an encrypted phone is *)
(* on the link, also when the bulb follows the lock a second later.        *)
THEOREM CommandsAreEncrypted == HomeSafety => OnlyEncryptedPhoneCommands
<1>1. OnlyEncryptedPhoneCommands <=> [][CommandEncrypted]_homeVars
  BY DEF OnlyEncryptedPhoneCommands, CommandEncrypted
<1>2. QED
  BY <1>1, SleepInvariant, CommandStep, PTL DEF HomeSafety

-----------------------------------------------------------------------------
(* The lamp. *)

(* BLBDWriteData reaches the lamp through the current bulb's connection    *)
(* and its handle.  Once it has, both stay for as long as the bulb is in   *)
(* reach, so that a later write reaches the lamp too or is refused.        *)
Reachable == current \in connected /\ bulb_char_handle

LampInv == lampWritten /\ bulbAlive => Reachable /\ (lamp <=> bulb_State = "ON")

(* A handler that sets bulb_State and writes the lamp leaves the two equal *)
(* or knows, by lampWritten, that they need not be.                        *)
LEMMA LampWritten ==
  ASSUME LampInv, NEW on \in BOOLEAN, BLBDWriteData(on), bulb_State' = IF on THEN "ON" ELSE "OFF",
         UNCHANGED <<current, connected, bulbAlive>>,
         bulb_char_handle => bulb_char_handle'
  PROVE  LampInv'
<1>1. CASE current \in connected /\ bulb_char_handle' /\ bulbAlive
  <2>1. Reachable' /\ (lamp' = on \/ lampWritten' = FALSE)
    BY <1>1 DEF BLBDWriteData, Reachable
  <2>2. QED
    BY <2>1 DEF LampInv
<1>2. CASE ~(current \in connected /\ bulb_char_handle' /\ bulbAlive)
  BY <1>2 DEF LampInv, BLBDWriteData, Reachable
<1>3. QED
  BY <1>1, <1>2

(* The loss of a link takes the lamp out of reach.                         *)
LEMMA LampOutOfReach == bulbAlive' = FALSE \/ lampWritten' = FALSE => LampInv'
  BY DEF LampInv

(* Otherwise the link only gets more connections.                          *)
LEMMA LampKept ==
  ASSUME LampInv, UNCHANGED <<current, bulb_State, bulb_char_handle, lampVars>>,
         current \in connected => current \in connected'
  PROVE  LampInv'
  BY DEF LampInv, Reachable, lampVars

LEMMA LampStep == HomeTypeOK /\ LampInv /\ [HomeNext]_homeVars => LampInv'
<1> SUFFICES ASSUME HomeTypeOK, LampInv, [HomeNext]_homeVars PROVE LampInv'
  OBVIOUS
<1>0. ViewTypeOK /\ NamesOK
  BY HomeTypes
<1> USE PeersOfHome, HomeAssumption DEF viewVars, stateVars
<1>1. CASE SearchStep \/ UNCHANGED homeVars
  <2>1. UNCHANGED restVars
    BY <1>1, SearchKeeps
  <2>2. QED
    BY <2>1, LampKept DEF restVars
<1>2. ASSUME NEW m \in Mobiles, NEW success \in BOOLEAN, GapMobileConnected(m, success)
      PROVE  LampInv'
  BY <1>2, LampKept DEF GapMobileConnected, GapUp
<1>3. ASSUME NEW m \in Mobiles, GapMobileDisconnected(m) PROVE LampInv'
  BY <1>3, LampKept DEF GapMobileDisconnected, GapDown
<1>4. ASSUME NEW b \in Bulbs,
             GapBulbConnected(b) \/ GapBulbDisconnected(b) \/ GattBulbDisconnected(b)
      PROVE  LampInv'
  BY <1>4, LampOutOfReach DEF GapBulbConnected, GapBulbDisconnected, GattBulbDisconnected
<1>5. CASE LinkStep
  <2>1. UNCHANGED current /\ (current \in connected => current \in connected')
    BY <1>0, <1>5 DEF LinkStep, ViewTypeOK, GattUp, GattDown, Encrypt,
                      StartDiscovery, EndDiscovery
  <2>2. QED
    BY <1>5, <2>1, LampKept DEF LinkStep
<1>6. ASSUME NEW m \in Mobiles, NEW value \in BOOLEAN, WriteBulb(m, value)
      PROVE  LampInv'
  <2>1. CASE bulb_State # "DISCONNECTED"
    BY <1>6, <2>1, LampWritten DEF WriteBulb, serverOnly
  <2>2. CASE bulb_State = "DISCONNECTED"
    BY <1>6, <2>2, LampKept DEF WriteBulb, serverOnly, lampVars
  <2>3. QED
    BY <2>1, <2>2
<1>7. ASSUME NEW m \in Mobiles, NEW value \in BOOLEAN,
             \/ WriteLock(m, value) \/ WriteSmokeConfiguration(m, value)
             \/ WriteBulbConfiguration(m, value)
      PROVE  LampInv'
  BY <1>7, LampKept DEF WriteLock, WriteSmokeConfiguration, WriteBulbConfiguration,
                        serverOnly, lampVars
<1>8. CASE BulbFollowsLock
  <2> DEFINE on == ~lockWrite.locked
  <2>1. on \in BOOLEAN
    OBVIOUS
  <2>2. CASE bulb_State = IF lockWrite.locked THEN "OFF" ELSE "ON"
    BY <1>8, <2>2, LampKept DEF BulbFollowsLock, lampVars
  <2>3. CASE bulb_State # IF lockWrite.locked THEN "OFF" ELSE "ON"
    BY <1>8, <2>1, <2>3, LampWritten DEF BulbFollowsLock
  <2>4. QED
    BY <2>2, <2>3
<1>9. CASE BulbLost
  BY <1>9, LampOutOfReach DEF BulbLost
<1>10. ASSUME NEW b \in Bulbs, BLBDPopulateHandles(b) PROVE LampInv'
  BY <1>10, LampWritten DEF BLBDPopulateHandles
<1>11. QED
  BY <1>1, <1>2, <1>3, <1>4, <1>5, <1>6, <1>7, <1>8, <1>9, <1>10, HomeStepKinds
     DEF HomeLinkStep, WriteStep

(* From a write the stack took until it refuses one, the lamp is what      *)
(* bulb_State says, in whichever order lock, bulb and discovery come.      *)
THEOREM LampIsWhatStateSays == HomeSafety => []LampFollowsState
<1>1. HomeInit => LampInv
  BY DEF HomeInit, LampInv
<1>2. HomeTypeOK /\ LampInv => LampFollowsState
  BY Zenon DEF HomeTypeOK, LampInv, LampFollowsState
<1>3. QED
  BY <1>1, <1>2, HomeTypeCorrect, LampStep, PTL DEF HomeSafety

-----------------------------------------------------------------------------
(* One bulb. *)

(* The board's README speaks of one bulb.  With more, the second's         *)
(* connection replaces the first's address and its loss clears it.         *)
OneBulb == \A b, c \in Bulbs : b = c

BulbInv ==
    /\ \A b \in Bulbs : b \in Linked <=> current = b
    /\ BulbStateMatchesLink
    /\ discovery \subseteq {b \in Bulbs : phase[b] = "up"}

LEMMA BulbInit == HomeInit => BulbInv
  BY HomeAssumption, PeersOfHome
     DEF HomeInit, ViewInit, BulbInv, BulbStateMatchesLink, Linked

(* Discovery is of bulbs whose link is up, since either loss ends it.      *)
LEMMA DiscoveryStep ==
  ASSUME ViewTypeOK, discovery \subseteq {b \in Bulbs : phase[b] = "up"},
         \/ \E p \in Peers : GapUp(p) \/ GattUp(p) \/ GapDown(p) \/ GattDown(p)
         \/ \E m \in Mobiles : Encrypt(m)
         \/ \E b \in Bulbs : StartDiscovery(b) \/ EndDiscovery(b)
  PROVE  (discovery \subseteq {b \in Bulbs : phase[b] = "up"})'
  BY PeersOfHome DEF ViewTypeOK, GapUp, GattUp, GapDown, GattDown, Encrypt,
                     StartDiscovery, EndDiscovery

LEMMA BulbStep ==
  ASSUME OneBulb, HomeTypeOK, SleepInv, BulbInv, [HomeNext]_homeVars
  PROVE  BulbInv'
<1>0. ViewTypeOK /\ NamesOK /\ discovery \subseteq {b \in Bulbs : phase[b] = "up"}
  BY HomeTypes DEF BulbInv
<1> USE PeersOfHome, HomeAssumption DEF viewVars, stateVars
<1>1. ASSUME UNCHANGED <<phase, current, discovery>>, BulbStateMatchesLink' PROVE BulbInv'
  BY <1>1 DEF BulbInv, Linked
<1>2. ASSUME UNCHANGED <<current, state_flags>>,
             \/ bulb_State' = bulb_State
             \/ current # NullAddr /\ bulb_State' # "DISCONNECTED"
      PROVE  BulbStateMatchesLink'
  BY <1>2 DEF BulbInv, BulbStateMatchesLink
<1>3. CASE SearchStep \/ UNCHANGED homeVars
  <2>1. UNCHANGED restVars
    BY <1>3, SearchKeeps
  <2>2. BulbStateMatchesLink'
    BY <1>2, <2>1 DEF restVars
  <2>3. QED
    BY <1>1, <2>1, <2>2 DEF restVars
<1>4. ASSUME NEW m \in Mobiles, NEW success \in BOOLEAN, GapMobileConnected(m, success)
      PROVE  BulbInv'
  <2>1. BulbStateMatchesLink' /\ UNCHANGED current
    BY <1>4 DEF GapMobileConnected, GapUp, BulbInv, BulbStateMatchesLink
  <2>2. CASE success
    <3>1. Linked' = Linked \union {m} /\ m \notin Bulbs
      BY <1>0, <1>4, <2>2, LinkedSteps DEF GapMobileConnected
    <3>2. (discovery \subseteq {b \in Bulbs : phase[b] = "up"})'
      BY <1>0, <1>4, <2>2, DiscoveryStep DEF GapMobileConnected
    <3>3. QED
      BY <2>1, <3>1, <3>2 DEF BulbInv
  <2>3. CASE ~success
    BY <1>1, <1>4, <2>1, <2>3 DEF GapMobileConnected
  <2>4. QED
    BY <2>2, <2>3
<1>5. ASSUME NEW m \in Mobiles, GapMobileDisconnected(m) PROVE BulbInv'
  <2>1. Linked' = Linked \ {m} /\ m \notin Bulbs
    BY <1>0, <1>5, LinkedSteps DEF GapMobileDisconnected
  <2>2. (discovery \subseteq {b \in Bulbs : phase[b] = "up"})'
    BY <1>0, <1>5, DiscoveryStep DEF GapMobileDisconnected
  <2>3. BulbStateMatchesLink' /\ UNCHANGED current
    BY <1>5 DEF GapMobileDisconnected, GapDown, BulbInv, BulbStateMatchesLink
  <2>4. QED
    BY <2>1, <2>2, <2>3 DEF BulbInv
<1>6. ASSUME NEW b \in Bulbs, GapBulbConnected(b) PROVE BulbInv'
  <2>1. Linked' = Linked \union {b} /\ current' = b
    BY <1>0, <1>6, LinkedSteps DEF GapBulbConnected, GapUp
  <2>2. (discovery \subseteq {c \in Bulbs : phase[c] = "up"})'
    BY <1>0, <1>6, DiscoveryStep DEF GapBulbConnected
  <2>3. bulb_State' = "ON" /\ "SCAN_PERMITTED" \notin state_flags'
    BY <1>6 DEF GapBulbConnected
  <2>4. QED
    BY <2>1, <2>2, <2>3 DEF BulbInv, BulbStateMatchesLink, OneBulb
<1>7. ASSUME NEW b \in Bulbs, GapBulbDisconnected(b) PROVE BulbInv'
  <2>1. Linked' = Linked \ {b} /\ current' = NullAddr
    BY <1>0, <1>7, LinkedSteps DEF GapBulbDisconnected, GapDown
  <2>2. (discovery \subseteq {c \in Bulbs : phase[c] = "up"})'
    BY <1>0, <1>7, DiscoveryStep DEF GapBulbDisconnected
  <2>3. bulb_State' = "DISCONNECTED" /\ "SCAN_PERMITTED" \in state_flags'
    BY <1>7 DEF GapBulbDisconnected
  <2>4. QED
    BY <2>1, <2>2, <2>3 DEF BulbInv, BulbStateMatchesLink, OneBulb
<1>8. CASE LinkStep \/ \E b \in Bulbs : GattBulbDisconnected(b)
  <2>1. Linked' = Linked /\ UNCHANGED <<current, state_flags, bulb_State>>
    BY <1>0, <1>8, LinkStepKeepsLinked, LinkedSteps
       DEF LinkStep, GattBulbDisconnected, GattUp, GattDown, Encrypt,
           StartDiscovery, EndDiscovery
  <2>2. (discovery \subseteq {b \in Bulbs : phase[b] = "up"})'
    BY <1>0, <1>8, DiscoveryStep DEF LinkStep, GattBulbDisconnected
  <2>3. QED
    BY <1>2, <2>1, <2>2 DEF BulbInv
<1>9. ASSUME NEW m \in Mobiles, NEW value \in BOOLEAN,
             \/ WriteLock(m, value) \/ WriteBulb(m, value)
             \/ WriteSmokeConfiguration(m, value) \/ WriteBulbConfiguration(m, value)
      PROVE  BulbInv'
  <2>1. /\ UNCHANGED viewVars /\ UNCHANGED state_flags
        /\ \/ bulb_State' = bulb_State
           \/ bulb_State # "DISCONNECTED" /\ bulb_State' # "DISCONNECTED"
    BY <1>9 DEF WriteLock, WriteBulb, WriteSmokeConfiguration, WriteBulbConfiguration,
                serverOnly
  <2>2. bulb_State # "DISCONNECTED" => current # NullAddr
    BY DEF BulbInv, BulbStateMatchesLink
  <2>3. BulbStateMatchesLink'
    BY <1>2, <2>1, <2>2
  <2>4. QED
    BY <1>1, <2>1, <2>3
<1>10. CASE BulbFollowsLock
  <2>1. current # NullAddr
    BY <1>10 DEF BulbFollowsLock, SleepInv, BulbInv, BulbStateMatchesLink
  <2>2. UNCHANGED viewVars /\ UNCHANGED state_flags
        /\ (bulb_State' = bulb_State \/ bulb_State' # "DISCONNECTED")
    BY <1>10 DEF BulbFollowsLock
  <2>3. BulbStateMatchesLink'
    BY <1>2, <2>1, <2>2
  <2>4. QED
    BY <1>1, <2>2, <2>3
<1>11. CASE BulbLost
  <2>1. UNCHANGED viewVars /\ UNCHANGED stateVars
    BY <1>11 DEF BulbLost
  <2>2. BulbStateMatchesLink'
    BY <1>2, <2>1
  <2>3. QED
    BY <1>1, <2>1, <2>2
<1>12. ASSUME NEW b \in Bulbs, BLBDPopulateHandles(b) PROVE BulbInv'
  <2>1. current # NullAddr
    <3>1. b \in Linked
      BY <1>0, <1>12 DEF BLBDPopulateHandles, Linked
    <3>2. QED
      BY <3>1 DEF BulbInv
  <2>2. QED
    BY <1>1, <1>2, <1>12, <2>1 DEF BLBDPopulateHandles
<1>13. QED
  BY <1>3, <1>4, <1>5, <1>6, <1>7, <1>8, <1>9, <1>10, <1>11, <1>12, HomeStepKinds
     DEF HomeLinkStep, WriteStep

(* With one bulb, its state, its address and the permission to scan for it *)
(* agree, also across the second in which the lock's write sleeps.         *)
THEOREM BulbStateIsLinks ==
  ASSUME OneBulb
  PROVE  HomeSafety => []BulbStateMatchesLink
<1>1. HomeTypeOK /\ SleepInv /\ BulbInv /\ [HomeNext]_homeVars => BulbInv'
  BY BulbStep
<1>2. BulbInv => BulbStateMatchesLink
  BY DEF BulbInv
<1>3. QED
  BY <1>1, <1>2, BulbInit, HomeTypeCorrect, SleepInvariant, PTL DEF HomeSafety

=============================================================================
