--------------------------- MODULE PeriodicTimer ---------------------------
(***************************************************************************)
(* timer_callback of home_automation.c: every tick of a 2 s timer advances *)
(* cnt, which decides when a scan for the bulb and when a smoke            *)
(* notification is due.  The timer runs in a thread of its own; callbacks  *)
(* of the stack change the flags it reads at any time (external here,      *)
(* HomeControl has them in full).                                          *)
(***************************************************************************)
EXTENDS Integers

CONSTANT TickMs             \* period of the timer in milliseconds

ASSUME TimerAssumption == TickMs \in Nat

VARIABLES
    cnt,
    permitted,              \* SCAN_PERMITTED and MOBILE_CONNECTED are set
    notify_Thread_Flag,
    sinceSmoke,             \* ticks since a smoke notification was due
    sinceScan,              \* ticks since a scan, permitted all the time
    smokeSent               \* the last tick sent a smoke notification

timerVars == <<cnt, permitted, notify_Thread_Flag, sinceSmoke, sinceScan,
               smokeSent>>

Never == -1

TimerInit ==
    /\ cnt = 0
    /\ permitted = FALSE
    /\ notify_Thread_Flag = FALSE
    /\ sinceSmoke = Never
    /\ sinceScan = Never
    /\ smokeSent = FALSE

(* Mutants: every tenth tick; every sixteenth; only while scanning is      *)
(* permitted; and a reset that is taken for the tick's own count.          *)
scansEveryTenth == permitted /\ cnt % 10 = 0
smokeDueLate == cnt % 16 = 0
smokesPermitted == cnt % 15 = 0 /\ notify_Thread_Flag /\ permitted
nextCntReset == IF cnt % 15 = 0 THEN 0 ELSE cnt + 1

scans == permitted /\ cnt % 6 = 0
smokeDue == cnt % 15 = 0
smokes == smokeDue /\ notify_Thread_Flag
nextCnt == (IF smokeDue THEN 0 ELSE cnt) + 1

timer_callback ==
    /\ cnt' = nextCnt
    /\ sinceSmoke' = IF smokeDue THEN 0
                     ELSE IF sinceSmoke = Never THEN Never
                     ELSE sinceSmoke + 1
    /\ sinceScan' = IF scans THEN 0
                    ELSE IF sinceScan = Never THEN Never
                    ELSE sinceScan + 1
    /\ smokeSent' = smokes
    /\ UNCHANGED <<permitted, notify_Thread_Flag>>

(* Callbacks of the stack, between two ticks. *)
PermissionChanges ==
    /\ permitted' = ~permitted
    /\ sinceScan' = Never
    /\ UNCHANGED <<cnt, notify_Thread_Flag, sinceSmoke, smokeSent>>

NotificationChanges ==
    /\ notify_Thread_Flag' = ~notify_Thread_Flag
    /\ UNCHANGED <<cnt, permitted, sinceSmoke, sinceScan, smokeSent>>

TimerNext == timer_callback \/ PermissionChanges \/ NotificationChanges

TimerSafety == TimerInit /\ [][TimerNext]_timerVars

(* The timer is reloaded for ever. *)
TimerSpec == TimerSafety /\ WF_timerVars(timer_callback)
-----------------------------------------------------------------------------
TimerTypeOK ==
    /\ cnt \in 0..15
    /\ permitted \in BOOLEAN
    /\ notify_Thread_Flag \in BOOLEAN
    /\ sinceSmoke \in {Never} \union (0..14)
    /\ sinceScan \in {Never} \union Nat
    /\ smokeSent \in BOOLEAN

(* cnt is set back by the smoke notification while the scan counts on it   *)
(* too.  Yet the smoke notification stays due every 30 seconds, as the     *)
(* board's README promises (README.md:11), whenever scans come between.    *)
SmokeEvery30Seconds ==
    [][timer_callback /\ smokeDue
         => sinceSmoke = Never \/ (sinceSmoke + 1) * TickMs = 30000]_timerVars

(* Nine ticks at most pass between two scans while they are permitted: the *)
(* set-back of cnt delays a scan but never skips the next one as well.     *)
ScanWithinNineTicks == sinceScan < 9

(* A phone that keeps notifications on keeps getting smoke data.           *)
SmokeKeepsComing == <>[]notify_Thread_Flag => []<>smokeSent

(* The comment at home_automation.c:3630: "scan at an interval of 20 secs" *)
ScanEvery20Seconds ==
    [][timer_callback /\ scans
         => sinceScan = Never \/ (sinceScan + 1) * TickMs = 20000]_timerVars

(* The counters' relation that makes both bounds inductive: sinceSmoke is  *)
(* cnt itself, and a scan is 6, or across the set-back 9, ticks after the  *)
(* last, while scanning has been permitted all the time.                   *)
SmokeCounts ==
    \/ cnt = 0 /\ sinceSmoke = Never
    \/ cnt \in 1..15 /\ sinceSmoke = cnt - 1

ScanCounts ==
    sinceScan # Never =>
      /\ permitted
      /\ \/ cnt \in 1..6 /\ sinceScan \in {cnt - 1, cnt + 2}
         \/ cnt \in 7..12 /\ sinceScan = cnt - 7
         \/ cnt \in 13..15 /\ sinceScan = cnt - 13

TimerInv == TimerTypeOK /\ SmokeCounts /\ ScanCounts
=============================================================================
