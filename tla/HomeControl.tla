---------------------------- MODULE HomeControl ----------------------------
(***************************************************************************)
(* The home controller proper: home_automation.c (who may connect when,    *)
(* scanning for the bulb, the periodic timer) and ble_server.c (the lock,  *)
(* the bulb and the notifications a phone controls).  Links behave as      *)
(* LinkView promises; each handler adds here what it does to the rest.     *)
(*                                                                         *)
(* Threads.  Callbacks of the stack run one at a time, so a handler is one *)
(* action, except the write of the lock, which sleeps for a second between *)
(* reading bulb_State and using it: it is two actions, and meanwhile no    *)
(* other callback runs, but the timer thread does.                         *)
(***************************************************************************)
EXTENDS LinkView

CONSTANT SavedBulb      \* the bulb the saved data names, or NullAddr

ASSUME HomeAssumption ==
    /\ Mobiles \cap Bulbs = {}
    /\ NullAddr \notin Mobiles \union Bulbs
    /\ SavedBulb \in Bulbs \union {NullAddr}

VARIABLES
    \* home_automation.c
    state_flags, bulb_char_handle,
    ConnTimerID,        \* the boot connection's timer: unset, armed or over
    ScanTimerID,        \* the scan's timer is armed
    \* ble_server.c
    bulb_State, lock_State, notify_Thread_Flag, connection_Id,
    lockWrite,          \* the lock write that sleeps, or NoWrite
    \* The stack and the devices (external).
    advertising, scanning,
    stopRefused,        \* the stack was told to stop the scan and refused
    connecting,         \* the bulb of the outstanding create connection
    bulbAlive,          \* the current bulb is still in reach
    lamp,               \* the light is on
    lampWritten         \* the stack took the last write of the lamp

stateVars == <<state_flags, bulb_State>>
scanOnly  == <<scanning, ScanTimerID, stopRefused>>
scanVars  == <<scanOnly, connecting, ConnTimerID>>
lampVars  == <<bulbAlive, lamp, lampWritten>>
phoneVars == <<lock_State, lockWrite, notify_Thread_Flag, connection_Id>>
homeVars  == <<viewVars, stateVars, scanVars, lampVars, phoneVars,
               bulb_char_handle, advertising>>

NoWrite == [from |-> NullAddr, locked |-> FALSE]
StateFlags == {"SCAN_PERMITTED", "MOBILE_CONNECTED"}

HomeInit ==
    /\ ViewInit
    /\ state_flags = {"SCAN_PERMITTED"}
    /\ bulb_State = "DISCONNECTED"
    /\ bulb_char_handle = FALSE     \* TRUE: the handle is known
    /\ ConnTimerID = "unset"
    /\ ScanTimerID = FALSE
    /\ lock_State = FALSE
    /\ notify_Thread_Flag = FALSE
    /\ connection_Id = NullAddr
    /\ lockWrite = NoWrite
    /\ advertising = TRUE           \* AdvertiseLE(1) at boot
    /\ scanning = FALSE
    /\ stopRefused = FALSE
    /\ connecting = NullAddr
    /\ bulbAlive = FALSE
    /\ lamp \in BOOLEAN
    /\ lampWritten = FALSE

(* No callback is asleep, so the stack may make another one.               *)
StackRuns == lockWrite = NoWrite
-----------------------------------------------------------------------------
(* Finding the bulb. *)

(* ConnectLEDevice: one create connection at a time is outstanding, and    *)
(* the stack may refuse it.                                                *)
ConnectLEDevice(b) ==
    \/ connecting = NullAddr /\ phase[b] = "down" /\ connecting' = b
    \/ UNCHANGED connecting

(* Boot: a saved bulb is connected to without a scan.  The time-out is     *)
(* armed even if the stack refused the connection, and may be refused too. *)
ConnectSavedBulb ==
    /\ SavedBulb # NullAddr
    /\ ConnTimerID = "unset"
    /\ ConnectLEDevice(SavedBulb)
    /\ ConnTimerID' \in {"armed", "over"}
    /\ UNCHANGED <<viewVars, stateVars, scanOnly, lampVars, phoneVars,
                   bulb_char_handle, advertising>>

(* Conn_Timer_Callback cancels whatever create connection is outstanding,  *)
(* if the stack lets it.                                                   *)
Conn_Timer_Callback ==
    /\ StackRuns
    /\ ConnTimerID = "armed"
    /\ ConnTimerID' = "over"
    /\ connecting' \in {NullAddr, connecting}
    /\ UNCHANGED <<viewVars, stateVars, scanOnly, lampVars, phoneVars,
                   bulb_char_handle, advertising>>

(* The stack reports that a create connection failed or was cancelled: the *)
(* handler looks at nothing but the status.                                *)
GapBulbConnectionFailed(b) ==
    /\ StackRuns
    /\ connecting = b
    /\ connecting' = NullAddr
    /\ UNCHANGED <<viewVars, stateVars, scanOnly, ConnTimerID, lampVars,
                   phoneVars, bulb_char_handle, advertising>>

(* Mutant: a scan is started although its timer could not be armed. *)
MscStartScanUntimed ==
    \/ UNCHANGED <<scanning, ScanTimerID>>
    \/ scanning' = TRUE /\ ScanTimerID' \in BOOLEAN

(* MscStartScan: the timer is armed first; either call may fail.  A scan   *)
(* that the stack refused to stop goes on, under the new timer.            *)
MscStartScan ==
    \/ UNCHANGED <<scanning, ScanTimerID>>
    \/ ScanTimerID' = TRUE /\ UNCHANGED scanning
    \/ ScanTimerID' = TRUE /\ scanning' = TRUE

(* timer_callback.  When a scan is due is PeriodicTimer's matter, here it  *)
(* may be at any tick.  The notifications a tick sends change no state:    *)
(* they go to connection_Id while notify_Thread_Flag is set.               *)
timer_callback(scanDue) ==
    /\ IF StateFlags \subseteq state_flags /\ scanDue
       THEN MscStartScan
       ELSE UNCHANGED <<scanning, ScanTimerID>>
    /\ UNCHANGED <<viewVars, stateVars, stopRefused, connecting, ConnTimerID,
                   lampVars, phoneVars, bulb_char_handle, advertising>>

(* StopScan: the timer is stopped first; the stack may then refuse to stop *)
(* the scan, and nobody asks it again before the next scan's end.          *)
StopScan ==
    /\ ScanTimerID' = FALSE
    /\ \/ scanning' = FALSE /\ stopRefused' = FALSE
       \/ UNCHANGED scanning /\ stopRefused' = scanning

BSC_Timer_Callback ==
    /\ StackRuns
    /\ ScanTimerID
    /\ StopScan
    /\ UNCHANGED <<viewVars, stateVars, connecting, ConnTimerID, lampVars,
                   phoneVars, bulb_char_handle, advertising>>

(* A report whose name is the bulb's ends the scan and connects.           *)
AdvertisingReport(b) ==
    /\ StackRuns
    /\ scanning
    /\ phase[b] = "down"
    /\ StopScan
    /\ ConnectLEDevice(b)
    /\ UNCHANGED <<viewVars, stateVars, ConnTimerID, lampVars, phoneVars,
                   bulb_char_handle, advertising>>
-----------------------------------------------------------------------------
(* BLBDWriteData reaches the lamp when the current bulb's entry has a      *)
(* connection, the handle is known, the bulb is still in reach and the     *)
(* stack takes the write.  A write it refuses is not tried again, and the  *)
(* caller is not told.                                                     *)
BLBDWriteData(on) ==
    IF current \in connected /\ bulb_char_handle' /\ bulbAlive
    THEN \/ lamp' = on /\ lampWritten' = TRUE
         \/ UNCHANGED lamp /\ lampWritten' = FALSE
    ELSE UNCHANGED <<lamp, lampWritten>>

(* Links of bulbs.  On connection the bulb is taken to be on.              *)
GapBulbConnected(b) ==
    /\ StackRuns
    /\ connecting = b
    /\ GapUp(b)
    /\ connecting' = NullAddr
    /\ ConnTimerID' = IF ConnTimerID = "armed" THEN "over" ELSE ConnTimerID
    /\ state_flags' = state_flags \ {"SCAN_PERMITTED"}
    /\ bulb_State' = "ON"
    /\ bulbAlive' = TRUE
    /\ lampWritten' = FALSE
    /\ UNCHANGED <<scanOnly, lamp, phoneVars, bulb_char_handle, advertising>>

(* Mutants: bulb_State is left alone; scanning is not permitted again. *)
GapBulbDisconnectedStale(b) ==
    /\ StackRuns
    /\ GapDown(b)
    /\ state_flags' = state_flags \union {"SCAN_PERMITTED"}
    /\ bulbAlive' = FALSE
    /\ UNCHANGED <<bulb_State, scanVars, lamp, lampWritten, phoneVars,
                   bulb_char_handle, advertising>>

GapBulbDisconnectedNoScan(b) ==
    /\ StackRuns
    /\ GapDown(b)
    /\ bulb_State' = "DISCONNECTED"
    /\ bulbAlive' = FALSE
    /\ UNCHANGED <<state_flags, scanVars, lamp, lampWritten, phoneVars,
                   bulb_char_handle, advertising>>

GapBulbDisconnected(b) ==
    /\ StackRuns
    /\ GapDown(b)
    /\ state_flags' = state_flags \union {"SCAN_PERMITTED"}
    /\ bulb_State' = "DISCONNECTED"
    /\ bulbAlive' = FALSE
    /\ UNCHANGED <<scanVars, lamp, lampWritten, phoneVars, bulb_char_handle,
                   advertising>>

(* Mutant: the lamp is switched on behind bulb_State's back. *)
BLBDPopulateHandlesOnly(b) ==
    /\ StackRuns
    /\ b \in discovery
    /\ bulb_char_handle' = TRUE
    /\ BLBDWriteData(TRUE)
    /\ UNCHANGED <<viewVars, stateVars, scanVars, bulbAlive, phoneVars,
                   advertising>>

(* The characteristic's handle was discovered: the lamp is switched on.    *)
BLBDPopulateHandles(b) ==
    /\ StackRuns
    /\ b \in discovery
    /\ bulb_char_handle' = TRUE
    /\ BLBDWriteData(TRUE)
    /\ bulb_State' = "ON"
    /\ UNCHANGED <<viewVars, state_flags, scanVars, bulbAlive, phoneVars,
                   advertising>>

(* The bulb goes out of reach, perhaps for want of power; the stack finds  *)
(* out later.                                                              *)
BulbLost ==
    /\ bulbAlive
    /\ bulbAlive' = FALSE
    /\ lamp' \in BOOLEAN
    /\ UNCHANGED <<viewVars, stateVars, scanVars, lampWritten, phoneVars,
                   bulb_char_handle, advertising>>
-----------------------------------------------------------------------------
(* Mutant: the board still advertises to other phones. *)
GapMobileConnectedAdvertising(m, success) ==
    /\ StackRuns
    /\ advertising
    /\ IF success THEN GapUp(m) ELSE UNCHANGED viewVars
    /\ state_flags' = state_flags \union {"MOBILE_CONNECTED"}
    /\ UNCHANGED <<bulb_State, scanVars, lampVars, phoneVars,
                   bulb_char_handle, advertising>>

(* Links of phones.  A connection ends advertising.  The flag is set for a *)
(* failed connection too.                                                  *)
GapMobileConnected(m, success) ==
    /\ StackRuns
    /\ advertising
    /\ IF success
       THEN GapUp(m) /\ advertising' = FALSE
       ELSE UNCHANGED viewVars /\ advertising' \in BOOLEAN
    /\ state_flags' = state_flags \union {"MOBILE_CONNECTED"}
    /\ UNCHANGED <<bulb_State, scanVars, lampVars, phoneVars,
                   bulb_char_handle>>

(* Mutant: notifications are not stopped. *)
GapMobileDisconnectedNotifies(m) ==
    /\ StackRuns
    /\ GapDown(m)
    /\ state_flags' = state_flags \ {"MOBILE_CONNECTED"}
    /\ advertising' \in {TRUE, advertising}
    /\ UNCHANGED <<bulb_State, scanVars, lampVars, phoneVars, bulb_char_handle>>

(* Advertising is resumed; nobody looks whether that worked.               *)
GapMobileDisconnected(m) ==
    /\ StackRuns
    /\ GapDown(m)
    /\ notify_Thread_Flag' = FALSE
    /\ state_flags' = state_flags \ {"MOBILE_CONNECTED"}
    /\ advertising' \in {TRUE, advertising}
    /\ UNCHANGED <<bulb_State, scanVars, lampVars, lock_State, lockWrite,
                   connection_Id, bulb_char_handle>>

(* GATT may report the loss of the bulb's link before GAP does.            *)
GattBulbDisconnected(b) ==
    /\ StackRuns
    /\ GattDown(b)
    /\ bulbAlive' = FALSE
    /\ UNCHANGED <<stateVars, scanVars, lamp, lampWritten, phoneVars,
                   bulb_char_handle, advertising>>

(* What only changes a link. *)
LinkStep ==
    /\ StackRuns
    /\ \/ \E p \in Peers : GattUp(p)
       \/ \E m \in Mobiles : GattDown(m) \/ Encrypt(m)
       \/ \E b \in Bulbs : StartDiscovery(b) \/ EndDiscovery(b)
    /\ UNCHANGED <<stateVars, scanVars, lampVars, phoneVars,
                   bulb_char_handle, advertising>>
-----------------------------------------------------------------------------
(* GATT_ServerEventCallback_Home_Automation: the writes of a phone.  Every *)
(* one is refused, with no effect, unless CheckEncryptionStatus finds the  *)
(* phone's entry encrypted.  (Mutant: a connected entry is enough.)        *)
CheckConnectionOnly(m) == m \in connected

CheckEncryptionStatus(m) == m \in encrypted

Request(m) ==
    /\ StackRuns
    /\ phase[m] = "up"
    /\ CheckEncryptionStatus(m)

serverOnly == <<viewVars, state_flags, scanVars, bulbAlive, bulb_char_handle,
                advertising>>

(* The lock moves at once.  With a bulb the handler then sleeps; without   *)
(* one it is done.                                                         *)
WriteLock(m, locked) ==
    /\ Request(m)
    /\ lock_State' = locked
    /\ lockWrite' = IF bulb_State = "DISCONNECTED" THEN NoWrite
                    ELSE [from |-> m, locked |-> locked]
    /\ UNCHANGED <<serverOnly, bulb_State, lamp, lampWritten,
                   notify_Thread_Flag, connection_Id>>

(* After the sleep the bulb follows the lock, off when locked and on when  *)
(* unlocked, unless bulb_State says it already is.                         *)
BulbFollowsLock ==
    /\ lockWrite # NoWrite
    /\ LET target == IF lockWrite.locked THEN "OFF" ELSE "ON"
       IN  /\ UNCHANGED bulb_char_handle
           /\ IF bulb_State # target
              THEN /\ bulb_State' = target
                   /\ BLBDWriteData(~lockWrite.locked)
              ELSE UNCHANGED <<bulb_State, lamp, lampWritten>>
    /\ lockWrite' = NoWrite
    /\ UNCHANGED <<viewVars, state_flags, scanVars, bulbAlive, advertising,
                   lock_State, notify_Thread_Flag, connection_Id>>

(* Mutant: a value other than 0 and 1 is stored as it comes. *)
WriteBulbRaw(m, on) ==
    /\ Request(m)
    /\ UNCHANGED bulb_char_handle
    /\ IF bulb_State # "DISCONNECTED"
       THEN bulb_State' \in {"BYTE", "OFF"} /\ BLBDWriteData(on)
       ELSE UNCHANGED <<bulb_State, lamp, lampWritten>>
    /\ UNCHANGED <<serverOnly, phoneVars>>

(* Any value but zero switches the bulb on. *)
WriteBulb(m, on) ==
    /\ Request(m)
    /\ UNCHANGED bulb_char_handle
    /\ IF bulb_State # "DISCONNECTED"
       THEN /\ bulb_State' = IF on THEN "ON" ELSE "OFF"
            /\ BLBDWriteData(on)
       ELSE UNCHANGED <<bulb_State, lamp, lampWritten>>
    /\ UNCHANGED <<serverOnly, phoneVars>>

(* The two client configurations share one flag; only the smoke detector's *)
(* records whom to notify.                                                 *)
WriteSmokeConfiguration(m, enable) ==
    /\ Request(m)
    /\ notify_Thread_Flag' = enable
    /\ connection_Id' = IF enable THEN m ELSE connection_Id
    /\ UNCHANGED <<serverOnly, bulb_State, lamp, lampWritten, lock_State,
                   lockWrite>>

WriteBulbConfiguration(m, enable) ==
    /\ Request(m)
    /\ notify_Thread_Flag' = enable
    /\ UNCHANGED <<serverOnly, bulb_State, lamp, lampWritten, lock_State,
                   lockWrite, connection_Id>>
-----------------------------------------------------------------------------
PhoneNext(m) ==
    \/ \E success \in BOOLEAN : GapMobileConnected(m, success)
    \/ GapMobileDisconnected(m)
    \/ \E value \in BOOLEAN : \/ WriteLock(m, value)
                              \/ WriteBulb(m, value)
                              \/ WriteSmokeConfiguration(m, value)
                              \/ WriteBulbConfiguration(m, value)

BulbNext(b) ==
    \/ AdvertisingReport(b)
    \/ GapBulbConnected(b)
    \/ GapBulbConnectionFailed(b)
    \/ GapBulbDisconnected(b)
    \/ GattBulbDisconnected(b)
    \/ BLBDPopulateHandles(b)

HomeNext ==
    \/ \E m \in Mobiles : PhoneNext(m)
    \/ \E b \in Bulbs : BulbNext(b)
    \/ LinkStep
    \/ BulbFollowsLock
    \/ BulbLost
    \/ \E scanDue \in BOOLEAN : timer_callback(scanDue)
    \/ BSC_Timer_Callback
    \/ ConnectSavedBulb
    \/ Conn_Timer_Callback

HomeSafety == HomeInit /\ [][HomeNext]_homeVars

(* The timer thread ticks on and a scan becomes due again and again        *)
(* (PeriodicTimer); the stack does not refuse a scan for ever, reports a   *)
(* bulb that advertises, and completes what it has begun; a sleeping       *)
(* handler wakes.                                                          *)
Fairness ==
    /\ SF_homeVars(timer_callback(TRUE) /\ scanning')
    /\ WF_homeVars(BSC_Timer_Callback)
    /\ WF_homeVars(Conn_Timer_Callback)
    /\ WF_homeVars(BulbFollowsLock)
    /\ \A b \in Bulbs :
         /\ SF_homeVars(AdvertisingReport(b) /\ connecting' # NullAddr)
         /\ SF_homeVars(GapBulbConnected(b))
         /\ SF_homeVars(GattBulbDisconnected(b))
    /\ \A p \in Peers : SF_homeVars(LinkStep /\ GattUp(p))

HomeSpec == HomeSafety /\ Fairness
-----------------------------------------------------------------------------
HomeTypeOK ==
    /\ ViewTypeOK
    /\ state_flags \subseteq StateFlags
    /\ bulb_State \in {"OFF", "ON", "DISCONNECTED"}
    /\ bulb_char_handle \in BOOLEAN
    /\ ConnTimerID \in {"unset", "armed", "over"}
    /\ ScanTimerID \in BOOLEAN
    /\ lock_State \in BOOLEAN
    /\ notify_Thread_Flag \in BOOLEAN
    /\ connection_Id \in Mobiles \union {NullAddr}
    /\ lockWrite \in [from : Mobiles \union {NullAddr}, locked : BOOLEAN]
    /\ advertising \in BOOLEAN
    /\ scanning \in BOOLEAN
    /\ stopRefused \in BOOLEAN
    /\ connecting \in Bulbs \union {NullAddr}
    /\ bulbAlive \in BOOLEAN
    /\ lamp \in BOOLEAN
    /\ lampWritten \in BOOLEAN

(* bulb_State, the address BLBDWriteData uses and the permission to scan   *)
(* tell the same story about the bulb, although each is written by several *)
(* handlers, one of them after a second's sleep.                           *)
BulbStateMatchesLink ==
    /\ bulb_State = "DISCONNECTED" <=> current = NullAddr
    /\ "SCAN_PERMITTED" \in state_flags <=> current = NullAddr

(* A phone's link is never forgotten: while GAP has not reported its loss  *)
(* MOBILE_CONNECTED is set, so the search for the bulb goes on, even when  *)
(* another phone's connection came and went in between.                    *)
PhoneKeepsFlag ==
    (\E m \in Mobiles : phase[m] \in {"gap", "up", "gattDown"})
      => "MOBILE_CONNECTED" \in state_flags

(* Notifications are on only while a phone that asked for them can still   *)
(* be there: they stop with its link and do not start for the next phone   *)
(* before that one asks.                                                   *)
NotifiesOnlyConnected ==
    notify_Thread_Flag =>
      \E m \in Mobiles : phase[m] \in {"up", "gattDown"}

(* From a write the stack took to one it refuses, bulb_State is what the   *)
(* lamp really does: lock, bulb and discovery all keep the two together,   *)
(* in whichever order they come, and while a lock write sleeps.            *)
LampFollowsState ==
    lampWritten /\ bulbAlive => lamp = (bulb_State = "ON")

(* However many scans begin and end, and whichever call fails, a scan that *)
(* runs without a timer is one the stack was told to stop and refused to.  *)
ScanIsBounded == scanning /\ ~ScanTimerID => stopRefused

(* The lock, and the bulb while its link lasts, are only moved for a phone *)
(* whose link is up and encrypted (README.md:11 of the board: each data    *)
(* transmission is in encrypted form), also across the sleep of the lock.  *)
OnlyEncryptedPhoneCommands ==
    [][lock_State' # lock_State \/ (bulb_State' = "OFF" /\ bulb_State # "OFF")
         => \E m \in Mobiles : phase[m] = "up" /\ m \in encrypted]_homeVars

(* While a phone stays and the bulb advertises, the bulb is found again    *)
(* and again, however often its link, a scan or a connection attempt       *)
(* fails.                                                                  *)
BulbIsFound ==
    <>[]("MOBILE_CONNECTED" \in state_flags) => []<>(current # NullAddr)
=============================================================================
