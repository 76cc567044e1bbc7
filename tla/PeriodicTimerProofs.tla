------------------------ MODULE PeriodicTimerProofs ------------------------
(***************************************************************************)
(* The periods of the timer, proved from the relation between cnt and the  *)
(* two counters of elapsed ticks (TimerInv).                               *)
(***************************************************************************)
EXTENDS PeriodicTimer, TLAPS

(* The initial state satisfies the relation. *)
LEMMA TimerInvInit == TimerInit => TimerInv
<1>1. TimerInit => TimerTypeOK
  <2>1. TimerInit => cnt \in 0..15 /\ sinceSmoke \in {Never} \union (0..14)
                                   /\ sinceScan \in {Never} \union Nat
    BY DEF TimerInit
  <2>2. TimerInit => permitted \in BOOLEAN /\ notify_Thread_Flag \in BOOLEAN
                                           /\ smokeSent \in BOOLEAN
    BY DEF TimerInit
  <2>3. QED
    BY <2>1, <2>2 DEF TimerTypeOK
<1>2. TimerInit => SmokeCounts /\ ScanCounts
  BY DEF TimerInit, SmokeCounts, ScanCounts, Never
<1>3. QED
  BY <1>1, <1>2 DEF TimerInv

(* Every tick of timer_callback keeps it: by the value of cnt, because it  *)
(* decides which of the two tests succeeds.                                *)
LEMMA TickKeepsInv == TimerInv /\ timer_callback => TimerInv'
<1> SUFFICES ASSUME TimerInv, timer_callback PROVE TimerInv'
  OBVIOUS
<1> USE DEF TimerInv, TimerTypeOK, SmokeCounts, ScanCounts, Never,
            timer_callback, nextCnt, smokes
<1>1. cnt \in 0..15
  OBVIOUS
<1>2. /\ smokeDue <=> cnt \in {0, 15}
      /\ scans <=> permitted /\ cnt \in {0, 6, 12}
  BY <1>1 DEF smokeDue, scans
<1>3. CASE cnt \in {0, 15}
  BY <1>2, <1>3
<1>4. CASE cnt \in {6, 12}
  BY <1>2, <1>4
<1>5. CASE cnt \in 1..5 \union 7..11 \union 13..14
  BY <1>2, <1>5
<1>6. QED
  BY <1>1, <1>3, <1>4, <1>5

(* The callbacks of the stack, and stuttering, keep it too.                *)
LEMMA TimerInvStep == TimerInv /\ [TimerNext]_timerVars => TimerInv'
<1> SUFFICES ASSUME TimerInv, [TimerNext]_timerVars PROVE TimerInv'
  OBVIOUS
<1>1. CASE timer_callback
  BY <1>1, TickKeepsInv
<1>2. CASE PermissionChanges
  BY <1>2 DEF PermissionChanges, TimerInv, TimerTypeOK, SmokeCounts,
              ScanCounts, Never
<1>3. CASE NotificationChanges
  BY <1>3 DEF NotificationChanges, TimerInv, TimerTypeOK, SmokeCounts,
              ScanCounts, Never
<1>4. CASE UNCHANGED timerVars
  BY <1>4 DEF timerVars, TimerInv, TimerTypeOK, SmokeCounts, ScanCounts
<1>5. QED
  BY <1>1, <1>2, <1>3, <1>4 DEF TimerNext

(* cnt never leaves 0..15 and both counters of ticks are functions of it.  *)
THEOREM TimerInvariant == TimerSafety => []TimerInv
<1>1. QED
  BY TimerInvInit, TimerInvStep, PTL DEF TimerSafety

(* Two scans are at most nine ticks apart while scanning is permitted.     *)
THEOREM ScanBound == TimerSafety => []ScanWithinNineTicks
<1>1. TimerInv => ScanWithinNineTicks
  BY DEF TimerInv, ScanCounts, ScanWithinNineTicks, Never
<1>2. QED
  BY <1>1, TimerInvariant, PTL

(* A smoke notification is due every fifteen ticks, for any tick of the    *)
(* timer that makes fifteen of them thirty seconds.                        *)
THEOREM SmokePeriod ==
  ASSUME TickMs = 2000
  PROVE  TimerSafety => SmokeEvery30Seconds
<1>1. ASSUME TimerInv, timer_callback, smokeDue
      PROVE  sinceSmoke = Never \/ (sinceSmoke + 1) * TickMs = 30000
  <2>1. cnt \in 0..15 /\ cnt % 15 = 0
    BY <1>1 DEF TimerInv, TimerTypeOK, smokeDue
  <2>2. cnt \in {0, 15}
    BY <2>1
  <2>3. sinceSmoke = Never \/ sinceSmoke = 14
    BY <1>1, <2>2 DEF TimerInv, SmokeCounts, Never
  <2>4. QED
    BY <2>3
<1>2. TimerInv /\ [TimerNext]_timerVars
        => [timer_callback /\ smokeDue =>
              sinceSmoke = Never \/ (sinceSmoke + 1) * TickMs = 30000]_timerVars
  BY <1>1
<1>3. QED
  BY <1>2, TimerInvariant, PTL DEF TimerSafety, SmokeEvery30Seconds
=============================================================================
