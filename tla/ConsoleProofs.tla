--------------------------- MODULE ConsoleProofs ---------------------------
(***************************************************************************)
(* What holds of the console for any number of receive buffers and command *)
(* threads, and whatever is typed: the receive ring loses nothing, the     *)
(* console thread does not sleep on a filled buffer and processes what was *)
(* typed in its order, a line is read as its words within the line's and   *)
(* the list's limits, and the threads are counted and get the parameters   *)
(* of their own lines.                                                     *)
(***************************************************************************)
EXTENDS Console, CommandLineProofs

LEMMA Sizes ==
  /\ RxBuffers \in Nat \ {0} /\ MaxThreads \in Nat
  /\ IsFiniteSet(CommandThreads) /\ Keystrokes \subseteq Seq(Keys)
  BY ConsoleAssumption

(* The steps of the line's and the menu's, which leave the ring alone and  *)
(* end neither in "wait" nor in "requeue".                                 *)
LineStep ==
    \/ RegisterCommandGroup \/ DisplayCommandList
    \/ TakeLock \/ EndOfBuffer \/ EditLine \/ ProcessCommand \/ RejectLine \/ EnterGroup
    \/ StartCommand \/ CommandReturns
    \/ TooManyThreads \/ ThreadRefused \/ ThreadReady
    \/ \E t \in CommandThreads : CreateThread(t) \/ CopyThreadInfo(t) \/ ThreadFinishes(t)
                                   \/ ThreadStops(t)

RingStep ==
    \/ SignalInit \/ CheckRing \/ WaitForData \/ ReleaseBuffer \/ RequeueBuffer \/ Reset
    \/ \E keys \in Keystrokes : UartRxCB(keys)

LEMMA ConsoleStepKinds ==
  [ConsoleNext]_consoleVars => LineStep \/ RingStep \/ UNCHANGED consoleVars
  BY DEF ConsoleNext, ConsoleThread, LineStep, RingStep

(* The places where the console thread has a filled buffer in its hands.   *)
Holding == {"lock", "feed", "execute", "running", "waitReady", "release"}

LEMMA LineStepKeepsRing ==
  LineStep => /\ UNCHANGED ringVars
              /\ \/ cmdPc' = cmdPc
                 \/ cmdPc = "register" /\ cmdPc' = "check"
                 \/ cmdPc \in Holding /\ cmdPc' \in Holding
<1> USE DEF ringVars, Holding
<1>1. ASSUME RegisterCommandGroup \/ DisplayCommandList
      PROVE  UNCHANGED ringVars /\ (cmdPc' = cmdPc \/ (cmdPc = "register" /\ cmdPc' = "check"))
  BY <1>1 DEF RegisterCommandGroup, DisplayCommandList
<1>2. ASSUME TakeLock \/ EndOfBuffer \/ EditLine \/ ProcessCommand
      PROVE  UNCHANGED ringVars /\ cmdPc \in Holding /\ cmdPc' \in Holding
  BY <1>2 DEF TakeLock, EndOfBuffer, EditLine, ProcessCommand, Feeding
<1>3. ASSUME RejectLine \/ EnterGroup \/ StartCommand \/ CommandReturns
      PROVE  UNCHANGED ringVars /\ cmdPc \in Holding /\ cmdPc' \in Holding
  BY <1>3 DEF RejectLine, EnterGroup, StartCommand, CommandReturns, LineDone
<1>4. ASSUME TooManyThreads \/ ThreadRefused \/ ThreadReady
             \/ \E t \in CommandThreads : CreateThread(t)
      PROVE  UNCHANGED ringVars /\ cmdPc \in Holding /\ cmdPc' \in Holding
  BY <1>4 DEF TooManyThreads, ThreadRefused, ThreadReady, CreateThread, ThreadLine, LineDone
<1>5. ASSUME NEW t \in CommandThreads, CopyThreadInfo(t) \/ ThreadFinishes(t) \/ ThreadStops(t)
      PROVE  UNCHANGED ringVars /\ cmdPc' = cmdPc
  BY <1>5 DEF CopyThreadInfo, ThreadFinishes, ThreadStops
<1>6. QED
  BY <1>1, <1>2, <1>3, <1>4, <1>5 DEF LineStep

-----------------------------------------------------------------------------
(* The ring. *)

(* The console thread holds a buffer only when one is filled, and the one  *)
(* it has released is not with the driver yet.                             *)
RingInv ==
    /\ Rx_In_Index \in 0..(RxBuffers - 1)
    /\ Rx_Out_Index \in 0..(RxBuffers - 1)
    /\ Rx_Buffers_Free \in 0..RxBuffers
    /\ driver \in Seq(Int)
    /\ cmdPc \in Holding => Rx_Buffers_Free < RxBuffers
    /\ cmdPc = "requeue" => Rx_Buffers_Free > 0
    /\ RingAgrees

LEMMA RingInit == ConsoleInit => RingInv
  BY Sizes DEF ConsoleInit, RingInv, RingAgrees, Wrapped, Holding

(* The step of an index and the distance from it, both modulo RxBuffers.   *)
LEMMA NextWraps ==
  ASSUME NEW n \in 0..(RxBuffers - 1), NEW i \in 1..RxBuffers
  PROVE  Wrapped(NextIndex(n) + i - 1) = Wrapped(n + i)
  BY Sizes DEF Wrapped, NextIndex

LEMMA RingStepKeepsInv == RingInv /\ RingStep => RingInv'
<1> SUFFICES ASSUME RingInv, RingStep PROVE RingInv'
  OBVIOUS
<1> USE Sizes
<1>1. ASSUME SignalInit \/ CheckRing \/ WaitForData PROVE RingInv'
  BY <1>1 DEF SignalInit, CheckRing, WaitForData, RingEmpty, RingInv, RingAgrees, Holding,
              ringVars
<1>2. CASE ReleaseBuffer
  <2>1. /\ cmdPc' = "requeue" /\ Rx_Buffers_Free' = Rx_Buffers_Free + 1
        /\ Rx_Buffers_Free' \in 1..RxBuffers
        /\ UNCHANGED <<driver, Rx_In_Index>> /\ cmdPc # "requeue"
    BY <1>2 DEF ReleaseBuffer, RingInv, Holding
  <2>2. Rx_Out_Index' \in 0..(RxBuffers - 1)
    BY <1>2 DEF ReleaseBuffer, NextIndex, RingInv
  <2>3. Rx_In_Index = Wrapped(Rx_Out_Index' + RxBuffers - Rx_Buffers_Free')
    BY <1>2, <2>1 DEF ReleaseBuffer, NextIndex, RingInv, RingAgrees, Wrapped
  <2>4. Len(driver) = Rx_Buffers_Free' - 1
        /\ \A i \in DOMAIN driver : driver[i] = Wrapped(Rx_In_Index + i - 1)
    BY <2>1 DEF RingInv, RingAgrees
  <2>5. RingAgrees'
    BY <2>1, <2>3, <2>4 DEF RingAgrees, Wrapped
  <2>6. QED
    BY <2>1, <2>2, <2>5 DEF RingInv, Holding
<1>3. CASE RequeueBuffer
  <2>1. /\ cmdPc' = "check" /\ UNCHANGED <<Rx_In_Index, Rx_Out_Index, Rx_Buffers_Free>>
        /\ driver' = Append(driver, CurrentIndex) /\ Len(driver) = Rx_Buffers_Free - 1
    BY <1>3 DEF RequeueBuffer, RingInv, RingAgrees
  <2>2. CurrentIndex \in Int /\ CurrentIndex = Wrapped(Rx_In_Index + Rx_Buffers_Free - 1)
    BY <1>3 DEF RequeueBuffer, CurrentIndex, RingInv, RingAgrees, Wrapped
  <2>3. driver' \in Seq(Int) /\ Len(driver') = Rx_Buffers_Free
    BY <2>1, <2>2 DEF RingInv
  <2>4. ASSUME NEW i \in DOMAIN driver' PROVE driver'[i] = Wrapped(Rx_In_Index + i - 1)
    <3>1. CASE i \in DOMAIN driver
      BY <2>1, <2>2, <3>1 DEF RingInv, RingAgrees
    <3>2. CASE i = Rx_Buffers_Free
      BY <2>1, <2>2, <3>2 DEF RingInv
    <3>3. QED
      BY <2>1, <2>3, <3>1, <3>2 DEF RingInv
  <2>5. QED
    BY <2>1, <2>3, <2>4 DEF RingInv, RingAgrees, Wrapped, Holding
<1>4. ASSUME NEW keys \in Keystrokes, UartRxCB(keys) PROVE RingInv'
  <2>1. driver # <<>> /\ driver' = Tail(driver)
        /\ UNCHANGED <<cmdPc, Rx_Out_Index>>
    BY <1>4 DEF UartRxCB
  <2>2. Len(driver) \in Nat \ {0} /\ driver' \in Seq(Int) /\ Len(driver') = Len(driver) - 1
        /\ \A i \in DOMAIN driver' : i + 1 \in DOMAIN driver /\ driver'[i] = driver[i + 1]
    BY <2>1 DEF RingInv
  <2>3. Rx_Buffers_Free # 0
    BY <2>2 DEF RingInv, RingAgrees
  <2>4. Rx_In_Index' = NextIndex(Rx_In_Index) /\ Rx_Buffers_Free' = Rx_Buffers_Free - 1
    BY <1>4, <2>3 DEF UartRxCB
  <2>5. Rx_In_Index' \in 0..(RxBuffers - 1) /\ Rx_Buffers_Free' \in 0..RxBuffers
    BY <2>3, <2>4 DEF RingInv, NextIndex
  <2>6. Rx_In_Index' = Wrapped(Rx_Out_Index + RxBuffers - Rx_Buffers_Free')
    BY <2>4, <2>3 DEF RingInv, RingAgrees, Wrapped, NextIndex
  <2>7. ASSUME NEW i \in DOMAIN driver' PROVE driver'[i] = Wrapped(Rx_In_Index' + i - 1)
    <3>1. Len(driver) <= RxBuffers /\ Rx_In_Index \in 0..(RxBuffers - 1)
      BY DEF RingInv, RingAgrees
    <3>2. DOMAIN driver' = 1..Len(driver')
      BY <2>2
    <3>3. i \in 1..RxBuffers
      BY <2>2, <3>1, <3>2
    <3>4. driver'[i] = Wrapped(Rx_In_Index + (i + 1) - 1)
      BY <2>2 DEF RingInv, RingAgrees
    <3>5. Rx_In_Index + (i + 1) - 1 = Rx_In_Index + i
      BY <3>1, <3>3
    <3>6. QED
      BY <2>4, <3>1, <3>3, <3>4, <3>5, NextWraps
  <2>8. cmdPc = "requeue" => Rx_Buffers_Free' > 0
    BY <2>2, <2>4 DEF RingInv, RingAgrees
  <2>9. QED
    BY <2>1, <2>2, <2>4, <2>5, <2>6, <2>7, <2>8 DEF RingInv, RingAgrees, Wrapped
<1>5. CASE Reset
  BY <1>5 DEF Reset, RingInv, RingAgrees, Wrapped, Holding
<1>6. QED
  BY <1>1, <1>2, <1>3, <1>4, <1>5 DEF RingStep

LEMMA RingInvStep == RingInv /\ [ConsoleNext]_consoleVars => RingInv'
<1> SUFFICES ASSUME RingInv, LineStep \/ UNCHANGED consoleVars PROVE RingInv'
  BY ConsoleStepKinds, RingStepKeepsInv
<1>1. UNCHANGED ringVars
      /\ (cmdPc' = cmdPc \/ (cmdPc = "register" /\ cmdPc' = "check")
            \/ (cmdPc \in Holding /\ cmdPc' \in Holding))
  BY LineStepKeepsRing DEF consoleVars
<1>2. QED
  BY <1>1 DEF RingInv, RingAgrees, ringVars, Holding

(* The ring, its counter and the driver's queue describe the same buffers, *)
(* so that a filled buffer always finds room, for any number of buffers.   *)
THEOREM RingAgreesAlways == ConsoleSpec => []RingAgrees
<1>1. RingInv => RingAgrees
  BY DEF RingInv
<1>2. QED
  BY <1>1, RingInit, RingInvStep, PTL DEF ConsoleSpec

-----------------------------------------------------------------------------
(* The wake-up. *)

LEMMA WakeStep ==
  RingInv /\ NoLostWakeup /\ [ConsoleNext]_consoleVars => NoLostWakeup'
<1> SUFFICES ASSUME RingInv, NoLostWakeup, [ConsoleNext]_consoleVars PROVE NoLostWakeup'
  OBVIOUS
<1>1. CASE LineStep \/ UNCHANGED consoleVars
  <2>1. UNCHANGED <<Rx_Buffers_Free, receive>> /\ (cmdPc' = "wait" => cmdPc = "wait")
    BY <1>1, LineStepKeepsRing DEF ringVars, consoleVars, Holding
  <2>2. QED
    BY <2>1 DEF NoLostWakeup
<1>2. ASSUME NEW keys \in Keystrokes, UartRxCB(keys) PROVE NoLostWakeup'
  <2>1. Rx_Buffers_Free # 0
    BY <1>2 DEF UartRxCB, RingInv, RingAgrees
  <2>2. receive' = TRUE
    BY <1>2, <2>1 DEF UartRxCB
  <2>3. QED
    BY <2>2 DEF NoLostWakeup
<1>3. CASE CheckRing
  BY <1>3 DEF CheckRing, RingEmpty, ringVars, NoLostWakeup
<1>4. CASE SignalInit \/ WaitForData \/ ReleaseBuffer \/ RequeueBuffer \/ Reset
  <2>1. cmdPc' # "wait"
    BY <1>4 DEF SignalInit, WaitForData, ReleaseBuffer, RequeueBuffer, Reset
  <2>2. QED
    BY <2>1 DEF NoLostWakeup
<1>5. QED
  BY <1>1, <1>2, <1>3, <1>4, ConsoleStepKinds DEF RingStep

(* The console thread never sleeps on a filled buffer without its event.   *)
THEOREM WakeupNotLost == ConsoleSpec => []NoLostWakeup
<1>1. ConsoleInit => NoLostWakeup
  BY DEF ConsoleInit, NoLostWakeup
<1>2. QED
  BY <1>1, RingInit, RingInvStep, WakeStep, PTL DEF ConsoleSpec

-----------------------------------------------------------------------------
(* The command threads. *)

Existing == {t \in CommandThreads : threadPc[t] # "stopped"}

ThreadStates == {"stopped", "created", "running", "finished"}

ThreadInv == threadPc \in [CommandThreads -> ThreadStates] /\ ThreadsCounted

(* Who ends or begins is counted; what stays in between does not matter.   *)
LEMMA ExistingSize == IsFiniteSet(Existing) /\ Cardinality(Existing) \in Nat
<1>1. Existing \subseteq CommandThreads /\ IsFiniteSet(CommandThreads)
  BY Sizes DEF Existing
<1>2. QED
  BY <1>1, FS_Subset, FS_CardinalityType

LEMMA ThreadInit == ConsoleInit => ThreadInv
<1> SUFFICES ASSUME ConsoleInit PROVE ThreadInv
  OBVIOUS
<1>1. Existing = {} /\ Thread_Count = 0 /\ threadPc \in [CommandThreads -> ThreadStates]
  BY DEF ConsoleInit, Existing, ThreadStates
<1>2. Cardinality({}) = 0 /\ 0 <= MaxThreads
  BY FS_EmptySet, Sizes
<1>3. QED
  BY <1>1, <1>2 DEF ThreadInv, ThreadsCounted, Existing

LEMMA ThreadStep == ThreadInv /\ [ConsoleNext]_consoleVars => ThreadInv'
<1> SUFFICES ASSUME ThreadInv, [ConsoleNext]_consoleVars PROVE ThreadInv'
  OBVIOUS
<1>0. /\ Thread_Count = Cardinality(Existing) /\ Thread_Count <= MaxThreads
      /\ threadPc \in [CommandThreads -> ThreadStates]
  BY DEF ThreadInv, ThreadsCounted, Existing
<1>1. ASSUME threadPc' \in [CommandThreads -> ThreadStates], Existing' = Existing,
             Thread_Count' = Thread_Count
      PROVE  ThreadInv'
  BY <1>0, <1>1 DEF ThreadInv, ThreadsCounted, Existing
<1>2. ASSUME UNCHANGED <<threadPc, Thread_Count>> PROVE ThreadInv'
  BY <1>0, <1>1, <1>2 DEF Existing
<1> USE DEF threadVars
<1>3. CASE UNCHANGED consoleVars
  BY <1>2, <1>3 DEF consoleVars
<1>4. CASE SignalInit \/ CheckRing \/ WaitForData \/ ReleaseBuffer \/ RequeueBuffer
             \/ \E keys \in Keystrokes : UartRxCB(keys)
  BY <1>2, <1>4 DEF SignalInit, CheckRing, WaitForData, ReleaseBuffer, RequeueBuffer,
                    UartRxCB
<1>5. CASE Reset
  <2>1. /\ Existing' = {} /\ Thread_Count' = 0
        /\ threadPc' \in [CommandThreads -> ThreadStates]
    BY <1>5 DEF Reset, Existing, ThreadStates
  <2>2. Cardinality({}) = 0 /\ 0 <= MaxThreads
    BY FS_EmptySet, Sizes
  <2>3. QED
    BY <2>1, <2>2 DEF ThreadInv, ThreadsCounted, Existing
<1>6. CASE RegisterCommandGroup \/ DisplayCommandList \/ TakeLock \/ EndOfBuffer
             \/ EditLine \/ ProcessCommand \/ RejectLine \/ EnterGroup \/ StartCommand
             \/ CommandReturns \/ TooManyThreads \/ ThreadReady
  BY <1>2, <1>6 DEF RegisterCommandGroup, DisplayCommandList, TakeLock, EndOfBuffer,
       EditLine, ProcessCommand, RejectLine, EnterGroup, StartCommand, CommandReturns,
       TooManyThreads, ThreadReady
<1>7. CASE ThreadRefused
  BY <1>2, <1>7 DEF ThreadRefused, Refused
<1>8. ASSUME NEW t \in CommandThreads, CreateThread(t) PROVE ThreadInv'
  <2>1. /\ t \notin Existing /\ Existing' = Existing \union {t}
        /\ threadPc' \in [CommandThreads -> ThreadStates]
    BY <1>0, <1>8 DEF CreateThread, Existing, ThreadStates
  <2>2. Cardinality(Existing') = Cardinality(Existing) + 1
    BY <2>1, ExistingSize, FS_AddElement
  <2>3. Thread_Count < MaxThreads /\ Thread_Count' = Thread_Count + 1
    BY <1>8 DEF CreateThread
  <2>4. Thread_Count' <= MaxThreads
    BY <1>0, <2>3, ExistingSize, Sizes
  <2>5. QED
    BY <1>0, <2>1, <2>2, <2>3, <2>4 DEF ThreadInv, ThreadsCounted, Existing
<1>9. ASSUME NEW t \in CommandThreads, CopyThreadInfo(t) \/ ThreadFinishes(t)
      PROVE  ThreadInv'
  BY <1>0, <1>1, <1>9 DEF CopyThreadInfo, MayCopy, ThreadFinishes, Existing, ThreadStates
<1>10. ASSUME NEW t \in CommandThreads, ThreadStops(t) PROVE ThreadInv'
  <2>1. /\ t \in Existing /\ Existing' = Existing \ {t}
        /\ threadPc' \in [CommandThreads -> ThreadStates]
    BY <1>0, <1>10 DEF ThreadStops, Existing, ThreadStates
  <2>2. Cardinality(Existing') = Cardinality(Existing) - 1
    BY <2>1, ExistingSize, FS_RemoveElement
  <2>3. Thread_Count' = Thread_Count - 1
    BY <1>10 DEF ThreadStops
  <2>4. Thread_Count' <= MaxThreads
    BY <1>0, <2>3, ExistingSize, Sizes
  <2>5. QED
    BY <1>0, <2>1, <2>2, <2>3, <2>4 DEF ThreadInv, ThreadsCounted, Existing
<1>11. QED
  BY <1>3, <1>4, <1>5, <1>6, <1>7, <1>8, <1>9, <1>10, ConsoleStepKinds
     DEF LineStep, RingStep

(* Thread_Count is the number of command threads that exist and stays      *)
(* within MAXIMUM_THREAD_COUNT, for any number of threads.                 *)
THEOREM CountOfThreads == ConsoleSpec => []ThreadsCounted
<1>1. ThreadInv => ThreadsCounted
  BY DEF ThreadInv
<1>2. QED
  BY <1>1, ThreadInit, ThreadStep, PTL DEF ConsoleSpec

-----------------------------------------------------------------------------
(* The order of what is processed. *)

(* The filled buffers in the order the console thread takes them, and what *)
(* it does with the first: the line's steps by their effect on position.   *)
Filled == RxBuffers - Rx_Buffers_Free
Buf(k) == Rx_Buffer[Wrapped(Rx_Out_Index + k)]

Within == {"execute", "running", "waitReady"}
Taking == Within \union {"feed"}

Consumes ==
    /\ cmdPc \in Within \/ (cmdPc = "feed" /\ position <= Len(Rx_Buffer[Reading]))
    /\ cmdPc' = "feed" /\ position' = position + 1 /\ taken' = taken + 1

Keeps ==
    /\ UNCHANGED <<position, taken>>
    /\ \/ cmdPc' = cmdPc
       \/ cmdPc = "register" /\ cmdPc' = "check"
       \/ cmdPc = "feed" /\ position <= Len(Rx_Buffer[Reading]) /\ cmdPc' \in Within
       \/ cmdPc \in Within /\ cmdPc' \in Within
       \/ cmdPc = "feed" /\ position > Len(Rx_Buffer[Reading]) /\ cmdPc' = "release"

BeginsBuffer == cmdPc = "lock" /\ cmdPc' = "feed" /\ position' = 1 /\ taken' = taken

LEMMA LineStepPosition == LineStep => Consumes \/ Keeps \/ BeginsBuffer
<1> USE DEF Within
<1>1. ASSUME RegisterCommandGroup \/ DisplayCommandList PROVE Keeps
  BY <1>1 DEF RegisterCommandGroup, DisplayCommandList, Keeps
<1>2. ASSUME TakeLock PROVE BeginsBuffer
  BY <1>2 DEF TakeLock, BeginsBuffer
<1>3. ASSUME EndOfBuffer PROVE Keeps
  BY <1>3 DEF EndOfBuffer, Keeps
<1>4. ASSUME EditLine PROVE Consumes
  BY <1>4 DEF EditLine, Feeding, Consumes
<1>5. ASSUME ProcessCommand PROVE Keeps
  BY <1>5 DEF ProcessCommand, Feeding, Keeps
<1>6. ASSUME StartCommand \/ \E t \in CommandThreads : CreateThread(t) PROVE Keeps
  BY <1>6 DEF StartCommand, CreateThread, ThreadLine, Keeps
<1>7. ASSUME RejectLine \/ EnterGroup \/ CommandReturns PROVE Consumes
  BY <1>7 DEF RejectLine, EnterGroup, CommandReturns, LineDone, Consumes
<1>8. ASSUME TooManyThreads \/ ThreadRefused \/ ThreadReady PROVE Consumes
  BY <1>8 DEF TooManyThreads, ThreadRefused, ThreadReady, ThreadLine, LineDone, Consumes
<1>9. ASSUME NEW t \in CommandThreads,
             CopyThreadInfo(t) \/ ThreadFinishes(t) \/ ThreadStops(t)
      PROVE  Keeps
  BY <1>9 DEF CopyThreadInfo, ThreadFinishes, ThreadStops, Keeps
<1>10. QED
  BY <1>1, <1>2, <1>3, <1>4, <1>5, <1>6, <1>7, <1>8, <1>9 DEF LineStep

(* start[k] is how much was typed before the k-th filled buffer.           *)
Starts(start) ==
    /\ start \in [0..Filled -> 0..Len(typed)]
    /\ start[Filled] = Len(typed)
    /\ \A k \in 0..(Filled - 1) :
          /\ start[k + 1] = start[k] + Len(Buf(k))
          /\ \A j \in 1..Len(Buf(k)) : Buf(k)[j] = typed[start[k] + j]

Progress ==
    IF cmdPc \in Taking THEN position - 1
    ELSE IF cmdPc = "release" THEN Len(Buf(0)) ELSE 0

OrderTypes ==
    /\ Rx_Buffer \in [0..(RxBuffers - 1) -> Seq(Keys)]
    /\ typed \in Seq(Keys)
    /\ position \in Nat \ {0}
    /\ cmdPc \in Within => position <= Len(Buf(0))
    /\ cmdPc = "feed" => position <= Len(Buf(0)) + 1

OrderInv == OrderTypes /\ \E start : Starts(start) /\ taken = start[0] + Progress

LEMMA FirstBuffer == RingInv => Buf(0) = Rx_Buffer[Reading]
<1> SUFFICES ASSUME RingInv PROVE Wrapped(Rx_Out_Index + 0) = Rx_Out_Index
  BY DEF Buf, Reading
<1>1. QED
  BY Sizes DEF RingInv, Wrapped

LEMMA OrderInit == ConsoleInit => OrderInv
<1> SUFFICES ASSUME ConsoleInit PROVE OrderInv
  OBVIOUS
<1> USE Sizes
<1>1. OrderTypes
  <2>1. /\ Rx_Buffer = [i \in 0..(RxBuffers - 1) |-> <<>>]
        /\ typed = <<>> /\ position = 1 /\ cmdPc = "boot"
    BY DEF ConsoleInit
  <2>2. Rx_Buffer \in [0..(RxBuffers - 1) -> Seq(Keys)]
    BY <2>1
  <2>3. typed \in Seq(Keys)
    BY <2>1
  <2>4. QED
    BY <2>1, <2>2, <2>3 DEF OrderTypes, Within
<1>2. Filled = 0 /\ Progress = 0 /\ taken = 0 /\ Len(typed) = 0
  BY DEF ConsoleInit, Filled, Progress, Taking, Within
<1>3. Starts([k \in 0..0 |-> 0])
  BY <1>2 DEF Starts
<1>4. QED
  BY <1>1, <1>2, <1>3 DEF OrderInv

LEMMA OrderLineStep == RingInv /\ OrderInv /\ LineStep => OrderInv'
<1> SUFFICES ASSUME RingInv, OrderInv, LineStep PROVE OrderInv'
  OBVIOUS
<1>1. UNCHANGED <<Rx_Buffer, Rx_Out_Index, Rx_Buffers_Free, typed>>
  BY LineStepKeepsRing DEF ringVars
<1>2. PICK start : Starts(start) /\ taken = start[0] + Progress
  BY DEF OrderInv
<1>3. UNCHANGED <<Filled, Buf(0)>> /\ Starts(start)'
  BY <1>1, <1>2 DEF Filled, Buf, Starts
<1>4. start[0] \in Nat /\ Len(Buf(0)) \in Nat /\ OrderTypes /\ Buf(0) = Rx_Buffer[Reading]
  BY <1>2, FirstBuffer, Sizes
     DEF Starts, Filled, RingInv, OrderInv, OrderTypes, Reading
<1>5. OrderTypes' /\ taken' = start[0] + Progress'
  <2> USE DEF OrderTypes, Progress, Taking, Within
  <2>1. CASE Consumes
    <3>1. cmdPc \in Taking /\ position <= Len(Buf(0)) /\ position \in Nat \ {0}
          /\ cmdPc' = "feed" /\ position' = position + 1 /\ taken' = taken + 1
      BY <1>4, <2>1 DEF Consumes
    <3>2. taken = start[0] + (position - 1) /\ Progress' = position' - 1
      BY <1>2, <3>1
    <3>3. taken' = start[0] + Progress'
      BY <1>4, <3>1, <3>2
    <3>4. OrderTypes'
      BY <1>1, <1>3, <1>4, <3>1
    <3>5. QED
      BY <3>3, <3>4
  <2>2. CASE Keeps
    BY <1>1, <1>2, <1>3, <1>4, <2>2 DEF Keeps
  <2>3. CASE BeginsBuffer
    BY <1>1, <1>2, <1>3, <1>4, <2>3 DEF BeginsBuffer
  <2>4. QED
    BY <2>1, <2>2, <2>3, LineStepPosition
<1>6. QED
  BY <1>3, <1>5 DEF OrderInv

(* Releasing the first buffer, the others move up.                         *)
LEMMA OrderRelease == RingInv /\ OrderInv /\ ReleaseBuffer => OrderInv'
<1> SUFFICES ASSUME RingInv, OrderInv, ReleaseBuffer PROVE OrderInv'
  OBVIOUS
<1>1. /\ cmdPc = "release" /\ cmdPc' = "requeue"
      /\ Rx_Out_Index' = NextIndex(Rx_Out_Index)
      /\ Rx_Buffers_Free' = Rx_Buffers_Free + 1
      /\ UNCHANGED <<Rx_Buffer, typed, position, taken>>
  BY DEF ReleaseBuffer
<1>2. PICK start : Starts(start) /\ taken = start[0] + Progress
  BY DEF OrderInv
<1>3. Filled \in Nat \ {0} /\ Filled \in 1..RxBuffers /\ Filled' = Filled - 1
  BY <1>1, Sizes DEF RingInv, Filled, Holding
<1>4. ASSUME NEW k \in 0..(Filled - 2) PROVE Buf(k)' = Buf(k + 1)
  <2>0. Rx_Out_Index \in 0..(RxBuffers - 1) /\ k + 1 \in 1..RxBuffers
    BY <1>3, Sizes DEF RingInv
  <2>1. Wrapped(NextIndex(Rx_Out_Index) + (k + 1) - 1) = Wrapped(Rx_Out_Index + (k + 1))
    BY <2>0, NextWraps
  <2>2. NextIndex(Rx_Out_Index) + (k + 1) - 1 = NextIndex(Rx_Out_Index) + k
    BY <1>3, Sizes DEF RingInv, NextIndex
  <2>3. Wrapped(Rx_Out_Index + k)' = Wrapped(NextIndex(Rx_Out_Index) + k)
    BY <1>1 DEF Wrapped
  <2>4. QED
    BY <1>1, <2>1, <2>2, <2>3 DEF Buf
<1> PICK moved : moved = [k \in 0..(Filled - 1) |-> start[k + 1]]
  OBVIOUS
<1>5. Starts(moved)'
  <2>1. moved \in [0..Filled' -> 0..Len(typed')] /\ moved[Filled'] = Len(typed')
    BY <1>1, <1>2, <1>3 DEF Starts
  <2>2. ASSUME NEW k \in 0..(Filled' - 1)
        PROVE  /\ moved[k + 1] = moved[k] + Len(Buf(k)')
               /\ \A j \in 1..Len(Buf(k)') : Buf(k)'[j] = typed'[moved[k] + j]
    <3>1. k \in 0..(Filled - 2) /\ k + 1 \in 0..(Filled - 1)
      BY <1>3
    <3>2. moved[k] = start[k + 1] /\ moved[k + 1] = start[(k + 1) + 1]
      BY <1>3, <3>1
    <3>3. Buf(k)' = Buf(k + 1)
      BY <1>4, <3>1
    <3>4. QED
      BY <1>1, <1>2, <3>1, <3>2, <3>3 DEF Starts
  <2>3. QED
    BY <2>1, <2>2 DEF Starts
<1>6. taken' = moved[0] + Progress'
  <2>1. taken = start[0] + Len(Buf(0)) /\ Progress' = 0
    BY <1>1, <1>2 DEF Progress, Taking, Within
  <2>2. start[0 + 1] = start[0] + Len(Buf(0)) /\ moved[0] = start[0 + 1]
    BY <1>2, <1>3 DEF Starts
  <2>3. start[0 + 1] \in Nat
    BY <1>2, <1>3 DEF Starts
  <2>4. QED
    BY <1>1, <2>1, <2>2, <2>3
<1>7. OrderTypes'
  BY <1>1 DEF OrderInv, OrderTypes, Within
<1>8. QED
  BY <1>5, <1>6, <1>7 DEF OrderInv

(* A buffer that the UART has filled is the last.                          *)
LEMMA OrderReceive ==
  ASSUME RingInv, OrderInv, NEW keys \in Keystrokes, UartRxCB(keys)
  PROVE  OrderInv'
<1>0. keys \in Seq(Keys) /\ typed \in Seq(Keys)
  BY Sizes DEF OrderInv, OrderTypes
<1>1. driver # <<>> /\ Rx_Buffers_Free > 0 /\ Head(driver) = Rx_In_Index
  <2>1. driver # <<>> /\ driver \in Seq(Int)
    BY DEF UartRxCB, RingInv
  <2>2. 1 \in DOMAIN driver /\ Head(driver) = driver[1] /\ Len(driver) > 0
    BY <2>1
  <2>3. driver[1] = Wrapped(Rx_In_Index + 1 - 1) /\ Wrapped(Rx_In_Index + 1 - 1) = Rx_In_Index
    BY <2>2, Sizes DEF RingInv, RingAgrees, Wrapped
  <2>4. Rx_Buffers_Free > 0
    BY <2>2 DEF RingInv, RingAgrees
  <2>5. QED
    BY <2>1, <2>2, <2>3, <2>4
<1>2. /\ Rx_Buffer' = [Rx_Buffer EXCEPT ![Rx_In_Index] = keys]
      /\ Rx_Buffers_Free' = Rx_Buffers_Free - 1
      /\ typed' = typed \o keys
      /\ UNCHANGED <<Rx_Out_Index, cmdPc, position, taken>>
  <2>1. Rx_Buffer' = [Rx_Buffer EXCEPT ![Head(driver)] = keys] /\ typed' = typed \o keys
    BY DEF UartRxCB
  <2>2. Rx_Buffers_Free' = Rx_Buffers_Free - 1
    BY <1>1 DEF UartRxCB, RingInv
  <2>3. UNCHANGED <<Rx_Out_Index, cmdPc, position, taken>>
    BY DEF UartRxCB
  <2>4. QED
    BY <1>1, <2>1, <2>2, <2>3
<1>3. Filled \in 0..(RxBuffers - 1) /\ Filled' = Filled + 1
  BY <1>1, <1>2, Sizes DEF Filled, RingInv
<1>4. Rx_In_Index = Wrapped(Rx_Out_Index + Filled)
      /\ \A k \in 0..(Filled - 1) : Wrapped(Rx_Out_Index + k) # Rx_In_Index
                                     /\ Wrapped(Rx_Out_Index + k) \in 0..(RxBuffers - 1)
  BY <1>3, Sizes DEF Filled, RingInv, RingAgrees, Wrapped
<1> PICK n : n = Filled
  OBVIOUS
<1>5. Buf(n)' = keys /\ \A k \in 0..(n - 1) : Buf(k)' = Buf(k)
  <2>1. Rx_Buffer \in [0..(RxBuffers - 1) -> Seq(Keys)] /\ Rx_In_Index \in 0..(RxBuffers - 1)
    BY DEF OrderInv, OrderTypes, RingInv
  <2>2. ASSUME NEW k PROVE Buf(k)' = [Rx_Buffer EXCEPT ![Rx_In_Index] = keys][Wrapped(Rx_Out_Index + k)]
    BY <1>2 DEF Buf, Wrapped
  <2>3. Buf(n)' = keys
    <3>1. Wrapped(Rx_Out_Index + n) = Rx_In_Index
      BY <1>4
    <3>2. Buf(n)' = [Rx_Buffer EXCEPT ![Rx_In_Index] = keys][Rx_In_Index]
      BY <2>2, <3>1
    <3>3. QED
      BY <2>1, <3>2
  <2>4. ASSUME NEW k \in 0..(n - 1) PROVE Buf(k)' = Buf(k)
    BY <1>4, <2>1, <2>2 DEF Buf
  <2>5. QED
    BY <2>3, <2>4
<1>6. PICK start : Starts(start) /\ taken = start[0] + Progress
  BY DEF OrderInv
<1>7. PICK longer : longer = [k \in 0..(Filled + 1) |->
                                IF k <= Filled THEN start[k] ELSE Len(typed) + Len(keys)]
  OBVIOUS
<1>8. Len(typed') = Len(typed) + Len(keys) /\ Len(typed) \in Nat /\ Len(keys) \in Nat
  BY <1>0, <1>2
<1>9. Starts(longer)'
  <2>1. longer \in [0..Filled' -> 0..Len(typed')] /\ longer[Filled'] = Len(typed')
    BY <1>3, <1>6, <1>7, <1>8 DEF Starts
  <2>2. ASSUME NEW k \in 0..(Filled' - 1)
        PROVE  /\ longer[k + 1] = longer[k] + Len(Buf(k)')
               /\ \A j \in 1..Len(Buf(k)') : Buf(k)'[j] = typed'[longer[k] + j]
    <3>1. CASE k = n
      <4>1. longer[k] = Len(typed) /\ longer[k + 1] = Len(typed) + Len(keys) /\ Buf(k)' = keys
        BY <1>3, <1>5, <1>6, <1>7, <3>1 DEF Starts
      <4>2. QED
        BY <1>0, <1>2, <1>8, <4>1
    <3>2. CASE k \in 0..(n - 1)
      <4>1. /\ longer[k] = start[k] /\ longer[k + 1] = start[k + 1] /\ Buf(k)' = Buf(k)
            /\ start[k] \in 0..Len(typed) /\ start[k + 1] \in 0..Len(typed)
        BY <1>3, <1>5, <1>6, <1>7, <3>2 DEF Starts
      <4>2. start[k + 1] = start[k] + Len(Buf(k))
            /\ \A j \in 1..Len(Buf(k)) : Buf(k)[j] = typed[start[k] + j]
        BY <1>6, <3>2 DEF Starts
      <4>3. Buf(k) \in Seq(Keys)
        BY <1>4, <3>2 DEF OrderInv, OrderTypes, Buf
      <4>4. ASSUME NEW j \in 1..Len(Buf(k))
            PROVE  Buf(k)[j] = (typed \o keys)[start[k] + j]
        <5>1. start[k] + j \in 1..Len(typed)
          BY <4>1, <4>2, <4>3, <1>8
        <5>2. QED
          BY <1>0, <4>2, <5>1
      <4>5. QED
        BY <1>2, <4>1, <4>2, <4>4
    <3>3. QED
      BY <1>3, <3>1, <3>2
  <2>3. QED
    BY <2>1, <2>2 DEF Starts
<1>10. cmdPc \in Taking \union {"release"} => Buf(0)' = Buf(0)
  BY <1>3, <1>5, Sizes DEF RingInv, Holding, Taking, Within, Filled
<1>11. taken' = longer[0] + Progress'
  BY <1>2, <1>3, <1>6, <1>7, <1>10 DEF Progress
<1>12. OrderTypes'
  <2>1. Rx_Buffer' \in [0..(RxBuffers - 1) -> Seq(Keys)]
    BY <1>0, <1>2 DEF OrderInv, OrderTypes, RingInv
  <2>3. typed' \in Seq(Keys)
    BY <1>0, <1>2
  <2>2. QED
    BY <1>2, <1>10, <2>1, <2>3 DEF OrderInv, OrderTypes, Taking, Within
<1>13. QED
  BY <1>9, <1>11, <1>12 DEF OrderInv

(* The other steps of the ring come between two buffers.                   *)
LEMMA OrderBetween ==
  OrderInv /\ (SignalInit \/ CheckRing \/ WaitForData \/ RequeueBuffer) => OrderInv'
<1> SUFFICES ASSUME OrderInv, SignalInit \/ CheckRing \/ WaitForData \/ RequeueBuffer
             PROVE  OrderInv'
  OBVIOUS
<1>1. /\ cmdPc \notin Taking \union {"release"} /\ cmdPc' \notin Taking \union {"release"}
      /\ UNCHANGED <<Rx_Buffer, Rx_Out_Index, Rx_Buffers_Free, typed, position, taken>>
  BY DEF SignalInit, CheckRing, WaitForData, RequeueBuffer, ringVars, Taking, Within
<1>2. PICK start : Starts(start) /\ taken = start[0] + Progress
  BY DEF OrderInv
<1>3. Starts(start)'
  BY <1>1, <1>2 DEF Starts, Filled, Buf
<1>4. Progress = 0 /\ Progress' = 0
  BY <1>1 DEF Progress
<1>5. OrderTypes'
  BY <1>1 DEF OrderInv, OrderTypes, Taking
<1>6. QED
  BY <1>1, <1>2, <1>3, <1>4, <1>5 DEF OrderInv

LEMMA OrderReset == Reset => OrderInv'
<1> SUFFICES ASSUME Reset PROVE OrderInv'
  OBVIOUS
<1> USE Sizes
<1>1. OrderTypes'
  <2>1. /\ Rx_Buffer' = [i \in 0..(RxBuffers - 1) |-> <<>>]
        /\ typed' = <<>> /\ position' = 1 /\ cmdPc' = "boot"
    BY DEF Reset
  <2>2. Rx_Buffer' \in [0..(RxBuffers - 1) -> Seq(Keys)]
    BY <2>1
  <2>3. typed' \in Seq(Keys)
    BY <2>1
  <2>4. QED
    BY <2>1, <2>2, <2>3 DEF OrderTypes, Within
<1>2. Filled' = 0 /\ Progress' = 0 /\ taken' = 0 /\ Len(typed') = 0
  BY DEF Reset, Filled, Progress, Taking, Within
<1> PICK start : start = [k \in 0..0 |-> 0]
  OBVIOUS
<1>3. Starts(start)'
  BY <1>2 DEF Starts
<1>4. QED
  BY <1>1, <1>2, <1>3 DEF OrderInv

LEMMA OrderStep == RingInv /\ OrderInv /\ [ConsoleNext]_consoleVars => OrderInv'
<1> SUFFICES ASSUME RingInv, OrderInv, [ConsoleNext]_consoleVars PROVE OrderInv'
  OBVIOUS
<1>1. CASE UNCHANGED consoleVars
  <2>1. UNCHANGED <<Rx_Buffer, Rx_Out_Index, Rx_Buffers_Free, typed, cmdPc, position, taken>>
    BY <1>1 DEF consoleVars, ringVars
  <2>2. PICK start : Starts(start) /\ taken = start[0] + Progress
    BY DEF OrderInv
  <2>3. Starts(start)'
    BY <2>1, <2>2 DEF Starts, Filled, Buf
  <2>4. Progress' = Progress
    BY <2>1 DEF Progress, Buf, Wrapped
  <2>5. OrderTypes'
    BY <2>1 DEF OrderInv, OrderTypes, Buf, Wrapped
  <2>6. QED
    BY <2>1, <2>2, <2>3, <2>4, <2>5 DEF OrderInv
<1>2. CASE LineStep
  BY <1>2, OrderLineStep
<1>3. CASE RingStep
  BY <1>3, OrderRelease, OrderReceive, OrderBetween, OrderReset DEF RingStep
<1>4. QED
  BY <1>1, <1>2, <1>3, ConsoleStepKinds

(* The next character processed is the next one typed, whatever arrives    *)
(* meanwhile, for any number of receive buffers and any contents of them.  *)
THEOREM ProcessedInOrder == ConsoleSpec => []ProcessesWhatWasTyped
<1>1. ASSUME RingInv, OrderInv PROVE ProcessesWhatWasTyped
  <2> SUFFICES ASSUME cmdPc \in Taking, position <= Len(Rx_Buffer[Reading])
               PROVE  Key = typed[taken + 1]
    BY DEF ProcessesWhatWasTyped, Taking, Within
  <2>1. PICK start : Starts(start) /\ taken = start[0] + Progress
    BY <1>1 DEF OrderInv
  <2>2. Filled \in 1..RxBuffers
    BY <1>1, Sizes DEF RingInv, Filled, Holding, Taking, Within
  <2>3. Buf(0) = Rx_Buffer[Reading] /\ Progress = position - 1 /\ start[0] \in Nat
    BY <1>1, <2>1, <2>2, FirstBuffer DEF Progress, Starts
  <2>4. position \in 1..Len(Buf(0))
    <3>1. Buf(0) \in Seq(Keys) /\ position \in Nat \ {0}
      BY <1>1, <2>3 DEF RingInv, OrderInv, OrderTypes, Reading
    <3>2. QED
      BY <2>3, <3>1
  <2>5. Buf(0)[position] = typed[start[0] + position]
    BY <2>1, <2>2, <2>4 DEF Starts
  <2>6. taken + 1 = start[0] + position
    BY <2>1, <2>3, <2>4
  <2>7. QED
    BY <2>3, <2>5, <2>6 DEF Key
<1>2. QED
  BY <1>1, RingInit, RingInvStep, OrderInit, OrderStep, PTL DEF ConsoleSpec

-----------------------------------------------------------------------------
(* The menu and the line. *)

(* What a command or a group is found under: menu entries only where a     *)
(* group was registered.                                                   *)
MenuInv ==
    /\ subgroups \in [Menu -> Seq(Groups)]
    /\ \A p \in Menu : subgroups[p] # <<>> => IsRegistered(p)
    /\ registered \in 0..Len(Registrations)
    /\ IsRegistered(Current_Group)
    /\ Executing_Group \in Menu

LEMMA RegisteredIsGroup ==
  ASSUME subgroups \in [Menu -> Seq(Groups)], NEW g, IsRegistered(g)
  PROVE  g \in Menu /\ (g # Root => Parent(g) \in Menu /\ subgroups[Parent(g)] # <<>>)
<1>1. g # Root => g \in Groups /\ Parent(g) \in Menu /\ subgroups[Parent(g)] # <<>>
  <2> SUFFICES ASSUME g # Root
               PROVE  g \in Groups /\ Parent(g) \in Menu /\ subgroups[Parent(g)] # <<>>
    OBVIOUS
  <2>1. PICK p \in Menu : \E i \in DOMAIN subgroups[p] : subgroups[p][i] = g
    BY DEF IsRegistered
  <2>2. g \in Groups
    BY <2>1
  <2>3. PICK q : q = Parent(g)
    OBVIOUS
  <2>4. q \in DOMAIN subgroups /\ \E i \in DOMAIN subgroups[q] : subgroups[q][i] = g
    BY <2>1, <2>3 DEF Parent
  <2>5. q \in Menu /\ subgroups[q] # <<>>
    BY <2>4
  <2>6. QED
    BY <2>2, <2>3, <2>5
<1>2. QED
  BY <1>1 DEF Menu

(* What is listed under a group is a group only if it was registered.      *)
LEMMA ListedTypes ==
  ASSUME subgroups \in [Menu -> Seq(Groups)], NEW g \in Menu
  PROVE  /\ Listed(g) \in Seq(Entries)
         /\ Common(g) \in Seq(Entries) /\ GroupCommands[g] \in Seq(Entries)
         /\ subgroups[g] \in Seq(Entries)
         /\ \A i \in DOMAIN Common(g) : Common(g)[i] \notin Menu
         /\ \A i \in DOMAIN GroupCommands[g] : GroupCommands[g][i] \notin Menu
         /\ \A i \in DOMAIN subgroups[g] : IsRegistered(subgroups[g][i])
<1>1. Builtins \subseteq Entries /\ Groups \subseteq Entries
  BY DEF Entries, Menu
<1>2. Common(g) \in Seq(Builtins)
  <2>1. "Ver" \in Builtins /\ "Help" \in Builtins /\ "Exit" \in Builtins
        /\ "Up" \in Builtins /\ "Root" \in Builtins
    BY DEF Builtins
  <2>2. RootCommands \in Seq(Builtins) /\ CommonCommands \in Seq(Builtins)
    BY <2>1 DEF RootCommands, CommonCommands
  <2>3. QED
    BY <2>2 DEF Common
<1>3. \A h \in Menu : h \notin Builtins
  BY ConsoleAssumption DEF Menu
<1>4. Common(g) \in Seq(Entries) /\ \A i \in DOMAIN Common(g) : Common(g)[i] \notin Menu
  BY <1>1, <1>2, <1>3
<1>5. GroupCommands[g] \in Seq(STRING)
  BY ConsoleAssumption DEF Menu
<1>6. \A i \in DOMAIN GroupCommands[g] :
         GroupCommands[g][i] \in Entries /\ GroupCommands[g][i] \notin Menu
  <2>1. ASSUME NEW i \in DOMAIN GroupCommands[g] PROVE GroupCommands[g][i] \in Entries
    BY <2>1 DEF Entries
  <2>2. ASSUME NEW i \in DOMAIN GroupCommands[g] PROVE GroupCommands[g][i] \notin Menu
    BY <2>2, ConsoleAssumption DEF Menu
  <2>3. QED
    BY <2>1, <2>2
<1>7. GroupCommands[g] \in Seq(Entries)
  BY <1>5, <1>6
<1>8. subgroups[g] \in Seq(Entries)
  BY <1>1
<1>9. \A i \in DOMAIN subgroups[g] : IsRegistered(subgroups[g][i])
  BY DEF IsRegistered
<1>10. QED
  BY <1>4, <1>6, <1>7, <1>8, <1>9 DEF Listed

(* FindCommand: what is found is an entry of the menu, by number and by    *)
(* name.                                                                   *)
IsFound(find) ==
    /\ find.found \in BOOLEAN
    /\ find.found => find.entry \in Entries /\ (find.entry \in Menu => IsRegistered(find.entry))

LEMMA FoundTypes ==
  ASSUME NEW entry \in Entries, entry \in Menu => IsRegistered(entry), NEW number
  PROVE  IsFound(Found(entry, number))
  BY DEF IsFound, Found

LEMMA NotFoundTypes == IsFound(NotFound)
  BY DEF IsFound, NotFound

LEMMA FindByNumberTypes ==
  ASSUME subgroups \in [Menu -> Seq(Groups)], NEW g \in Menu, NEW number \in Int
  PROVE  IsFound(FindByNumber(g, number))
<1>1. PICK common \in Seq(Entries), own \in Seq(Entries), sub \in Seq(Entries) :
        /\ common = Common(g) /\ own = GroupCommands[g] /\ sub = subgroups[g]
        /\ \A i \in DOMAIN common : common[i] \notin Menu
        /\ \A i \in DOMAIN own : own[i] \notin Menu
        /\ \A i \in DOMAIN sub : IsRegistered(sub[i])
  BY ListedTypes
<1> PICK inGroup, inList : inGroup = number - Len(common) /\ inList = inGroup - Len(own)
  OBVIOUS
<1>2. inGroup \in Int /\ inList \in Int
      /\ inGroup = number - Len(common) /\ inList = inGroup - Len(own)
  <2>1. Len(common) \in Nat /\ Len(own) \in Nat
    BY <1>1
  <2>2. QED
    BY <2>1
<1>3. CASE number < 0
  <2>1. FindByNumber(g, number) = NotFound
    BY <1>1, <1>2, <1>3 DEF FindByNumber
  <2>2. QED
    BY <2>1, NotFoundTypes
<1>4. CASE number >= 0 /\ inGroup < 0
  <2>1. FindByNumber(g, number) = Found(common[number + 1], number)
    BY <1>1, <1>2, <1>4 DEF FindByNumber
  <2>2. number + 1 \in DOMAIN common
    BY <1>2, <1>4
  <2>3. QED
    BY <1>1, <2>1, <2>2, FoundTypes
<1>5. CASE number >= 0 /\ inGroup >= 0 /\ inList < 0
  <2>1. FindByNumber(g, number) = Found(own[inGroup + 1], number)
    BY <1>1, <1>2, <1>5 DEF FindByNumber
  <2>2. inGroup + 1 \in DOMAIN own
    BY <1>2, <1>5
  <2>3. QED
    BY <1>1, <2>1, <2>2, FoundTypes
<1>6. CASE number >= 0 /\ inGroup >= 0 /\ inList \in 0..(Len(sub) - 1)
  <2>1. FindByNumber(g, number) = Found(sub[inList + 1], number)
    BY <1>1, <1>2, <1>6 DEF FindByNumber
  <2>2. inList + 1 \in DOMAIN sub
    BY <1>2, <1>6
  <2>3. IsRegistered(sub[inList + 1])
    BY ONLY <1>1, <2>2, Zenon
  <2>4. IsFound(Found(sub[inList + 1], number))
    <3>1. sub[inList + 1] \in Entries
      BY <2>2
    <3>2. QED
      BY <2>3, <3>1, FoundTypes
  <2>5. QED
    BY <2>1, <2>4
<1>7. CASE number >= 0 /\ inGroup >= 0 /\ inList >= Len(sub)
  <2>1. FindByNumber(g, number) = NotFound
    BY <1>1, <1>2, <1>7 DEF FindByNumber
  <2>2. QED
    BY <2>1, NotFoundTypes
<1>8. QED
  BY <1>2, <1>3, <1>4, <1>5, <1>6, <1>7

LEMMA FindByNameTypes ==
  ASSUME subgroups \in [Menu -> Seq(Groups)], NEW g \in Menu, NEW word
  PROVE  IsFound(FindByName(g, word))
<1>1. PICK listed \in Seq(Entries) : listed = Listed(g)
  BY ListedTypes
<1>2. ASSUME NEW i \in DOMAIN listed PROVE listed[i] \in Menu => IsRegistered(listed[i])
  <2>1. /\ Common(g) \in Seq(Entries) /\ GroupCommands[g] \in Seq(Entries)
        /\ subgroups[g] \in Seq(Entries)
        /\ \A j \in DOMAIN Common(g) : Common(g)[j] \notin Menu
        /\ \A j \in DOMAIN GroupCommands[g] : GroupCommands[g][j] \notin Menu
        /\ \A j \in DOMAIN subgroups[g] : IsRegistered(subgroups[g][j])
    BY ListedTypes
  <2>2. PICK common \in Seq(Entries), own \in Seq(Entries), sub \in Seq(Entries) :
          common = Common(g) /\ own = GroupCommands[g] /\ sub = subgroups[g]
    BY <2>1
  <2>3. listed = common \o own \o sub
    BY <1>1, <2>2 DEF Listed
  <2>4. \/ \E j \in DOMAIN common : listed[i] = common[j]
        \/ \E j \in DOMAIN own : listed[i] = own[j]
        \/ \E j \in DOMAIN sub : listed[i] = sub[j]
    <3>1. CASE i <= Len(common)
      BY <2>3, <3>1
    <3>2. CASE i > Len(common) /\ i <= Len(common) + Len(own)
      <4>1. i - Len(common) \in DOMAIN own /\ listed[i] = own[i - Len(common)]
        BY <2>3, <3>2
      <4>2. QED
        BY <4>1
    <3>3. CASE i > Len(common) + Len(own)
      <4>1. i - Len(common) - Len(own) \in DOMAIN sub
            /\ listed[i] = sub[i - Len(common) - Len(own)]
        BY <2>3, <3>3
      <4>2. QED
        BY <4>1
    <3>4. QED
      BY <3>1, <3>2, <3>3
  <2>5. QED
    BY <2>1, <2>2, <2>4
<1>3. PICK named : named = {i \in DOMAIN listed : NameOf[listed[i]] = word}
  OBVIOUS
<1>4. CASE named = {}
  <2>1. FindByName(g, word) = NotFound
    BY <1>1, <1>3, <1>4 DEF FindByName
  <2>2. QED
    BY <2>1, NotFoundTypes
<1>5. CASE named # {}
  <2>1. named \in SUBSET Nat /\ named \subseteq DOMAIN listed
    BY <1>3
  <2>2. \E m \in named : \A k \in named : m <= k
    BY <1>5, <2>1, LeastNatural
  <2>3. PICK first : first = CHOOSE i \in named : \A j \in named : i <= j
    OBVIOUS
  <2>4. first \in named
    BY <2>2, <2>3
  <2>5. FindByName(g, word) = Found(listed[first], first - 1)
    BY <1>1, <1>3, <1>5, <2>3 DEF FindByName
  <2>6. listed[first] \in Entries /\ (listed[first] \in Menu => IsRegistered(listed[first]))
    BY <1>2, <2>1, <2>4
  <2>7. QED
    BY <2>5, <2>6, FoundTypes
<1>6. QED
  BY <1>4, <1>5

LEMMA FindCommandTypes ==
  ASSUME subgroups \in [Menu -> Seq(Groups)], NEW g \in Menu, NEW word \in Seq(Texts)
  PROVE  IsFound(FindCommand(g, word))
<1>1. StringToInteger(word).valid \in BOOLEAN /\ StringToInteger(word).value \in Int
  BY IntegerTypes
<1>2. QED
  BY <1>1, FindByNumberTypes, FindByNameTypes DEF FindCommand

(* Process_Command follows the words: it reads at least the first, and     *)
(* never more than there are.                                              *)
Follows(n, r) ==
    /\ r \in Results
    /\ r.used <= n
    /\ n = 0 => r.ok /\ r.entry \in Menu
    /\ n >= 1 => r.used >= 1
    /\ r.ok /\ r.entry \in Menu => IsRegistered(r.entry)

LEMMA ResultFields ==
  ASSUME NEW r \in Results
  PROVE  r.ok \in BOOLEAN /\ r.entry \in Entries /\ r.group \in Menu /\ r.used \in Nat
  BY DEF Results

LEMMA NextWordFollows ==
  ASSUME subgroups \in [Menu -> Seq(Groups)], NEW word \in Seq(Texts),
         NEW r \in Results
  PROVE  /\ NextWord(word)[r] \in Results
         /\ \A n \in Nat : Follows(n, r) => Follows(n + 1, NextWord(word)[r])
<1>1. r.ok \in BOOLEAN /\ r.entry \in Entries /\ r.group \in Menu /\ r.used \in Nat
  BY ResultFields
<1>2. PICK find : find = FindCommand(r.group, word)
  OBVIOUS
<1>3. IsFound(find)
  BY <1>1, <1>2, FindCommandTypes
<1> PICK next : next = NextWord(word)[r]
  OBVIOUS
<1>4. next = IF ~r.ok \/ r.entry \notin Menu THEN r
             ELSE IF ~find.found THEN [r EXCEPT !.ok = FALSE, !.used = @ + 1]
             ELSE [ok |-> TRUE, entry |-> find.entry, used |-> r.used + 1,
                   group |-> IF find.entry \in Menu THEN find.entry ELSE r.group]
  BY <1>2 DEF NextWord
<1>5. CASE ~r.ok \/ r.entry \notin Menu
  <2>1. next = r
    BY <1>4, <1>5
  <2>2. ASSUME NEW n \in Nat, Follows(n, r) PROVE Follows(n + 1, r)
    BY <1>1, <1>5, <2>2 DEF Follows
  <2>3. QED
    BY <2>1, <2>2
<1>6. CASE r.ok /\ r.entry \in Menu /\ ~find.found
  <2>1. next = [r EXCEPT !.ok = FALSE, !.used = @ + 1]
    BY <1>4, <1>6
  <2>2. next \in Results /\ next.ok = FALSE /\ next.used = r.used + 1
    <3>1. r = [ok |-> r.ok, entry |-> r.entry, group |-> r.group, used |-> r.used]
      BY DEF Results
    <3>2. next = [ok |-> FALSE, entry |-> r.entry, group |-> r.group, used |-> r.used + 1]
      BY ONLY <2>1, <3>1, Zenon
    <3>3. QED
      BY <1>1, <3>2 DEF Results
  <2>3. ASSUME NEW n \in Nat, Follows(n, r) PROVE Follows(n + 1, next)
    BY <1>1, <2>2, <2>3 DEF Follows
  <2>4. QED
    BY <2>2, <2>3
<1>7. CASE r.ok /\ r.entry \in Menu /\ find.found
  <2>1. PICK group : group = IF find.entry \in Menu THEN find.entry ELSE r.group
    OBVIOUS
  <2>2. group \in Menu /\ find.entry \in Entries
        /\ (find.entry \in Menu => IsRegistered(find.entry))
    BY <1>1, <1>3, <1>7, <2>1 DEF IsFound
  <2>3. next = [ok |-> TRUE, entry |-> find.entry, used |-> r.used + 1, group |-> group]
    BY <1>4, <1>7, <2>1
  <2>4. next \in Results /\ next.used = r.used + 1 /\ next.entry = find.entry
    BY <1>1, <2>2, <2>3 DEF Results
  <2>5. ASSUME NEW n \in Nat, Follows(n, r) PROVE Follows(n + 1, next)
    BY <1>1, <2>2, <2>4, <2>5 DEF Follows
  <2>6. QED
    BY <2>4, <2>5
<1>8. QED
  BY <1>1, <1>3, <1>5, <1>6, <1>7 DEF IsFound

LEMMA FollowTypes ==
  ASSUME MenuInv, NEW words \in Seq(Seq(Texts)), words # <<>>
  PROVE  /\ Follow[words] \in Results
         /\ Follow[words].used \in 1..Len(words)
         /\ Follow[words].ok /\ Follow[words].entry \in Menu => IsRegistered(Follow[words].entry)
<1>1. PICK first : first = [ok |-> TRUE, entry |-> Current_Group, group |-> Current_Group,
                            used |-> 0]
  OBVIOUS
<1>2. Current_Group \in Menu /\ IsRegistered(Current_Group)
      /\ subgroups \in [Menu -> Seq(Groups)]
  BY RegisteredIsGroup DEF MenuInv
<1>3. first \in Results /\ Follows(0, first)
  <2>1. Current_Group \in Entries
    BY <1>2 DEF Entries
  <2>2. first \in Results
    BY <1>1, <1>2, <2>1 DEF Results
  <2>3. QED
    BY <1>1, <1>2, <2>2 DEF Follows
<1>4. PICK turns : turns = [i \in DOMAIN words |-> NextWord(words[i])]
  OBVIOUS
<1>5. Len(words) \in Nat \ {0} /\ DOMAIN words = 1..Len(words)
      /\ \A i \in 1..Len(words) : words[i] \in Seq(Texts)
  OBVIOUS
<1>6. Len(turns) = Len(words) /\ \A i \in 1..Len(words) : turns[i] = NextWord(words[i])
  BY <1>4, <1>5
<1>7. Follow[words] = Through(turns, first)
  BY <1>1, <1>4 DEF Follow, Texts
<1>8. \A n \in 1..Len(words) : \A r \in Results : turns[n][r] \in Results
  BY <1>2, <1>5, <1>6, NextWordFollows
<1>9. PICK N \in Nat : N = Len(words)
  BY <1>5
<1>10. PICK f : Turning(f, Results, first, turns, N)
  BY <1>3, <1>6, <1>8, <1>9, ThroughSteps
<1>11. /\ f \in [0..N -> Results] /\ f[0] = first
       /\ \A n \in 1..N : f[n] = turns[n][f[n - 1]]
       /\ Through(turns, first) = f[N]
  BY <1>10 DEF Turning
<1> DEFINE T == {n \in 0..N : Follows(n, f[n])}
<1>12. 0 \in T
  BY <1>3, <1>9, <1>11
<1>13. ASSUME NEW n \in (0 + 1)..N, n - 1 \in T PROVE n \in T
  <2>1. n \in 1..N /\ n \in 0..N /\ n - 1 \in Nat /\ (n - 1) + 1 = n
        /\ Follows(n - 1, f[n - 1]) /\ n - 1 \in 0..N
    BY <1>13
  <2>2. f[n - 1] \in Results /\ words[n] \in Seq(Texts)
    BY <1>5, <1>9, <1>11, <2>1
  <2>3. Follows((n - 1) + 1, NextWord(words[n])[f[n - 1]])
    BY <1>2, <2>1, <2>2, NextWordFollows
  <2>4. f[n] = NextWord(words[n])[f[n - 1]]
    BY <1>6, <1>9, <1>11, <2>1
  <2>5. QED
    BY <2>1, <2>3, <2>4
<1> HIDE DEF T
<1>14. 0..N \subseteq T
  BY <1>12, <1>13, 0 \in Nat, InductionUpTo
<1>15. Follows(N, f[N])
  <2>1. N \in 0..N
    OBVIOUS
  <2>2. QED
    BY <1>14, <2>1 DEF T
<1>16. f[N] \in Results /\ f[N].used \in 1..N
       /\ (f[N].ok /\ f[N].entry \in Menu => IsRegistered(f[N].entry))
  BY <1>5, <1>9, <1>15, ResultFields DEF Follows
<1>17. QED
  BY <1>7, <1>9, <1>11, <1>16

LineInv ==
    /\ Input_String \in Lines
    /\ Parameter_List \in Seq(Seq(Texts))
    /\ Len(Parameter_List) <= MaxParameters + 1

(* What was found is in the parameters that were read, while it is used.   *)
ResultInv ==
    /\ result \in Results
    /\ cmdPc = "execute" /\ result.ok =>
          /\ result.used \in 1..Len(Parameter_List)
          /\ result.entry \in Menu => IsRegistered(result.entry)

InterpreterInv == MenuInv /\ LineInv /\ ResultInv

menuState == <<subgroups, registered, Current_Group, Executing_Group>>

(* The steps that leave the menu and the line alone, and those that only   *)
(* end a line.                                                             *)
Quiet ==
    /\ UNCHANGED <<menuState, Input_String, Parameter_List, result>>
    /\ cmdPc' = cmdPc \/ cmdPc' # "execute"

EndsLine == LineDone /\ UNCHANGED menuState

LEMMA InterpreterSteps ==
  [ConsoleNext]_consoleVars =>
      \/ Quiet \/ EndsLine
      \/ RegisterCommandGroup \/ EditLine \/ ProcessCommand \/ EnterGroup
      \/ CommandReturns \/ Reset
<1> USE DEF menuState, menuVars, lineVars
<1>1. ASSUME UNCHANGED consoleVars PROVE Quiet
  BY <1>1 DEF consoleVars, Quiet
<1>2. ASSUME SignalInit \/ CheckRing \/ WaitForData \/ ReleaseBuffer \/ RequeueBuffer
             \/ DisplayCommandList \/ TakeLock \/ EndOfBuffer \/ StartCommand
      PROVE  Quiet
  BY <1>2 DEF SignalInit, CheckRing, WaitForData, ReleaseBuffer, RequeueBuffer,
              DisplayCommandList, TakeLock, EndOfBuffer, StartCommand, Quiet
<1>3. ASSUME \E keys \in Keystrokes : UartRxCB(keys) PROVE Quiet
  BY <1>3 DEF UartRxCB, Quiet
<1>4. ASSUME NEW t \in CommandThreads,
             CreateThread(t) \/ CopyThreadInfo(t) \/ ThreadFinishes(t) \/ ThreadStops(t)
      PROVE  Quiet
  BY <1>4 DEF CreateThread, ThreadLine, CopyThreadInfo, ThreadFinishes, ThreadStops, Quiet
<1>5. ASSUME RejectLine \/ TooManyThreads \/ ThreadRefused \/ ThreadReady PROVE EndsLine
  BY <1>5 DEF RejectLine, TooManyThreads, ThreadRefused, ThreadReady, ThreadLine, EndsLine
<1>6. QED
  BY <1>1, <1>2, <1>3, <1>4, <1>5 DEF ConsoleNext, ConsoleThread

LEMMA NoResultTypes == NoResult \in Results
  BY DEF NoResult, Results, Entries, Menu

LEMMA InterpreterInit == ConsoleInit => InterpreterInv
<1> SUFFICES ASSUME ConsoleInit PROVE InterpreterInv
  OBVIOUS
<1>1. /\ subgroups = [g \in Menu |-> <<>>] /\ registered = 0 /\ cmdPc = "boot"
      /\ Current_Group = Root /\ Executing_Group = Root
      /\ Input_String = <<>> /\ Parameter_List = <<>> /\ result = NoResult
  BY DEF ConsoleInit
<1>2. MenuInv
  <2>1. subgroups \in [Menu -> Seq(Groups)] /\ \A p \in Menu : subgroups[p] = <<>>
    BY <1>1
  <2>2. registered \in 0..Len(Registrations)
    <3>1. Len(Registrations) \in Nat
      BY ConsoleAssumption
    <3>2. QED
      BY <1>1, <3>1
  <2>3. IsRegistered(Current_Group) /\ Executing_Group \in Menu
    BY <1>1 DEF IsRegistered, Menu
  <2>4. QED
    BY <2>1, <2>2, <2>3 DEF MenuInv
<1>3. LineInv
  <2>1. Len(<<>>) = 0 /\ MaxLength \in Nat /\ MaxParameters \in Nat
    BY CommandLineAssumption
  <2>2. <<>> \in Seq(Characters) /\ <<>> \in Seq(Seq(Texts))
    OBVIOUS
  <2>3. QED
    BY <1>1, <2>1, <2>2 DEF LineInv, Lines
<1>4. ResultInv
  BY <1>1, NoResultTypes DEF ResultInv
<1>5. QED
  BY <1>2, <1>3, <1>4 DEF InterpreterInv

(* Registering a group, whose parent must be there.                        *)
LEMMA InterpreterRegister == InterpreterInv /\ RegisterCommandGroup => InterpreterInv'
<1> SUFFICES ASSUME InterpreterInv, RegisterCommandGroup PROVE InterpreterInv'
  OBVIOUS
<1> PICK parent, group : /\ parent = Registrations[registered + 1][1]
                         /\ group = Registrations[registered + 1][2]
  OBVIOUS
<1>1. /\ cmdPc = "register" /\ cmdPc' = cmdPc /\ registered' = registered + 1
      /\ registered < Len(Registrations)
      /\ UNCHANGED <<Current_Group, Executing_Group, Input_String, Parameter_List, result>>
      /\ \/ /\ IsRegistered(parent)
            /\ subgroups' = [subgroups EXCEPT ![parent] = Append(@, group)]
         \/ UNCHANGED subgroups
  BY DEF RegisterCommandGroup, lineVars
<1>2. Registrations \in Seq(Menu \X Groups)
  BY ConsoleAssumption DEF Menu
<1>3. /\ subgroups \in [Menu -> Seq(Groups)]
      /\ \A p \in Menu : subgroups[p] # <<>> => IsRegistered(p)
      /\ registered \in 0..Len(Registrations)
      /\ IsRegistered(Current_Group) /\ Executing_Group \in Menu
  BY DEF InterpreterInv, MenuInv
<1>4. registered' \in 0..Len(Registrations) /\ registered + 1 \in DOMAIN Registrations
  <2>1. Len(Registrations) \in Nat /\ DOMAIN Registrations = 1..Len(Registrations)
    BY <1>2
  <2>2. QED
    BY <1>1, <1>3, <2>1
<1>5. parent \in Menu /\ group \in Groups
  <2>1. Registrations[registered + 1] \in Menu \X Groups
    BY <1>2, <1>4
  <2>2. QED
    BY <2>1
<1>6. CASE UNCHANGED subgroups
  <2>2. MenuInv'
    BY <1>1, <1>3, <1>4, <1>6 DEF MenuInv, IsRegistered
  <2>3. QED
    BY <1>1, <2>2 DEF InterpreterInv, LineInv, ResultInv
<1>7. CASE /\ IsRegistered(parent)
           /\ subgroups' = [subgroups EXCEPT ![parent] = Append(@, group)]
  <2>1. Append(subgroups[parent], group) \in Seq(Groups)
    BY <1>3, <1>5
  <2>2. /\ subgroups' \in [Menu -> Seq(Groups)]
        /\ subgroups'[parent] = Append(subgroups[parent], group)
        /\ \A p \in Menu : p # parent => subgroups'[p] = subgroups[p]
    BY <1>3, <1>5, <1>7, <2>1
  <2>3. ASSUME NEW g, IsRegistered(g) PROVE IsRegistered(g)'
    <3>1. CASE g = Root
      BY <3>1 DEF IsRegistered
    <3>2. CASE \E p \in DOMAIN subgroups : \E i \in DOMAIN subgroups[p] : subgroups[p][i] = g
      <4>1. PICK p \in Menu : \E i \in DOMAIN subgroups[p] : subgroups[p][i] = g
        BY <1>3, <3>2
      <4>2. PICK i \in DOMAIN subgroups[p] : subgroups[p][i] = g
        BY <4>1
      <4>3. i \in DOMAIN subgroups'[p] /\ subgroups'[p][i] = g
        <5>1. CASE p = parent
          <6>1. subgroups[p] \in Seq(Groups) /\ subgroups'[p] = Append(subgroups[p], group)
            BY <1>3, <2>2, <5>1
          <6>2. QED
            BY <4>2, <6>1
        <5>2. CASE p # parent
          BY <2>2, <4>2, <5>2
        <5>3. QED
          BY <5>1, <5>2
      <4>4. p \in DOMAIN subgroups'
        BY <2>2
      <4>5. QED
        BY <4>3, <4>4 DEF IsRegistered
    <3>3. QED
      BY <2>3, <3>1, <3>2 DEF IsRegistered
  <2>4. \A p \in Menu : subgroups'[p] # <<>> => IsRegistered(p)'
    <3>1. ASSUME NEW p \in Menu, subgroups'[p] # <<>> PROVE IsRegistered(p)
      BY <1>3, <1>7, <2>2, <3>1
    <3>2. QED
      BY <2>3, <3>1
  <2>5. IsRegistered(Current_Group)'
    <3>1. PICK g : g = Current_Group
      OBVIOUS
    <3>2. IsRegistered(g)'
      BY <1>3, <2>3, <3>1
    <3>3. QED
      BY <1>1, <3>1, <3>2 DEF IsRegistered
  <2>6. MenuInv'
    BY <1>1, <1>3, <1>4, <2>2, <2>4, <2>5 DEF MenuInv, IsRegistered
  <2>7. QED
    BY <1>1, <2>6 DEF InterpreterInv, LineInv, ResultInv
<1>8. QED
  BY <1>1, <1>6, <1>7

(* The next character is one that can be typed.                            *)
LEMMA KeyTypes ==
  ASSUME RingInv, OrderInv, Feeding
  PROVE  Key \in Keys
<1>1. Rx_Out_Index \in 0..(RxBuffers - 1) /\ position \in Nat \ {0}
      /\ Rx_Buffer \in [0..(RxBuffers - 1) -> Seq(Keys)]
  BY DEF RingInv, OrderInv, OrderTypes
<1>2. PICK buffer \in Seq(Keys) : buffer = Rx_Buffer[Rx_Out_Index]
  BY <1>1
<1>3. position \in DOMAIN buffer
  BY <1>1, <1>2 DEF Feeding, Reading
<1>4. QED
  BY <1>2, <1>3 DEF Key, Reading

LEMMA InterpreterEdit ==
  RingInv /\ OrderInv /\ InterpreterInv /\ EditLine => InterpreterInv'
<1> SUFFICES ASSUME RingInv, OrderInv, InterpreterInv, EditLine PROVE InterpreterInv'
  OBVIOUS
<1>1. /\ UNCHANGED <<menuState, Parameter_List, result>> /\ cmdPc' = "feed"
      /\ Input_String' = IF Key = BackSpace
                         THEN SubSeq(Input_String, 1, Len(Input_String) - 1)
                         ELSE IF HasRoom THEN Append(Input_String, Key) ELSE Input_String
  BY DEF EditLine, Feeding, menuState, menuVars
<1>2. Key \in Keys /\ Key # EndOfLine
  BY KeyTypes DEF EditLine
<1>3. Input_String \in Seq(Characters) /\ Len(Input_String) <= MaxLength /\ MaxLength \in Nat
  BY CommandLineAssumption DEF InterpreterInv, LineInv, Lines
<1>4. Input_String' \in Lines
  <2>1. CASE Key = BackSpace
    <3>1. Input_String' = SubSeq(Input_String, 1, Len(Input_String) - 1)
      BY <1>1, <2>1
    <3>2. Input_String' \in Seq(Characters) /\ Len(Input_String') <= MaxLength
      BY <1>3, <3>1
    <3>3. QED
      BY <3>2 DEF Lines
  <2>2. CASE Key # BackSpace /\ HasRoom
    <3>1. Key \in Characters /\ Input_String' = Append(Input_String, Key)
      BY <1>1, <1>2, <2>2 DEF Keys
    <3>2. Input_String' \in Seq(Characters) /\ Len(Input_String') = Len(Input_String) + 1
      BY <1>3, <3>1
    <3>3. QED
      BY <1>3, <2>2, <3>2 DEF Lines, HasRoom
  <2>3. CASE Key # BackSpace /\ ~HasRoom
    BY <1>1, <1>3, <2>3 DEF Lines
  <2>4. QED
    BY <2>1, <2>2, <2>3
<1>5. MenuInv'
  BY <1>1 DEF InterpreterInv, MenuInv, IsRegistered, menuState
<1>6. LineInv' /\ ResultInv'
  BY <1>1, <1>4 DEF InterpreterInv, LineInv, ResultInv
<1>7. QED
  BY <1>5, <1>6 DEF InterpreterInv

LEMMA InterpreterProcess == InterpreterInv /\ ProcessCommand => InterpreterInv'
<1> SUFFICES ASSUME InterpreterInv, ProcessCommand PROVE InterpreterInv'
  OBVIOUS
<1>1. PICK line : line = Parse(Input_String)
  OBVIOUS
<1>2. /\ Parameter_List' = line.words
      /\ IF line.ok /\ line.words # <<>>
         THEN result' = Follow[line.words]
         ELSE result' = [NoResult EXCEPT !.group = Executing_Group]
      /\ Executing_Group' = result'.group
      /\ UNCHANGED <<subgroups, registered, Current_Group, Input_String>>
  BY <1>1 DEF ProcessCommand, menuVars
<1>3. line.ok \in BOOLEAN /\ line.words \in Seq(Seq(Texts))
      /\ Len(line.words) <= MaxParameters + 1
  BY <1>1, ParseTypes DEF InterpreterInv, LineInv
<1>4. /\ result' \in Results
      /\ result'.ok =>
            /\ result'.used \in 1..Len(Parameter_List')
            /\ result'.entry \in Menu => IsRegistered(result'.entry)
  <2>1. CASE line.ok /\ line.words # <<>>
    BY <1>2, <1>3, <2>1, FollowTypes DEF InterpreterInv
  <2>2. CASE ~(line.ok /\ line.words # <<>>)
    <3>1. result' = [NoResult EXCEPT !.group = Executing_Group] /\ Executing_Group \in Menu
      BY <1>2, <2>2 DEF InterpreterInv, MenuInv
    <3>2. result' \in Results
      BY <3>1, NoResultTypes DEF Results
    <3>3. result'.ok = FALSE
      BY <3>1 DEF NoResult
    <3>4. QED
      BY <3>2, <3>3
  <2>3. QED
    BY <2>1, <2>2
<1>5. MenuInv'
  BY <1>2, <1>4, ResultFields DEF InterpreterInv, MenuInv, IsRegistered
<1>6. LineInv' /\ ResultInv'
  BY <1>2, <1>3, <1>4 DEF InterpreterInv, LineInv, ResultInv, IsRegistered
<1>7. QED
  BY <1>5, <1>6 DEF InterpreterInv

LEMMA LineDoneTypes == InterpreterInv /\ LineDone => LineInv' /\ ResultInv'
<1> SUFFICES ASSUME InterpreterInv, LineDone PROVE LineInv' /\ ResultInv'
  OBVIOUS
<1>1. /\ Input_String' = <<>> /\ result' = NoResult /\ cmdPc' = "feed"
      /\ Parameter_List' = [i \in DOMAIN Parameter_List |-> <<>>]
  BY DEF LineDone
<1>2. Parameter_List' \in Seq(Seq(Texts)) /\ Len(Parameter_List') <= MaxParameters + 1
  <2>1. Parameter_List \in Seq(Seq(Texts)) /\ Len(Parameter_List) <= MaxParameters + 1
    BY DEF InterpreterInv, LineInv
  <2>2. <<>> \in Seq(Texts) /\ Len(Parameter_List) \in Nat
        /\ DOMAIN Parameter_List = 1..Len(Parameter_List)
    BY <2>1
  <2>3. QED
    BY <1>1, <2>1, <2>2
<1>3. Input_String' \in Lines
  <2>1. <<>> \in Seq(Characters) /\ Len(<<>>) = 0 /\ MaxLength \in Nat
    BY CommandLineAssumption
  <2>2. QED
    BY <1>1, <2>1 DEF Lines
<1>4. QED
  BY <1>1, <1>2, <1>3, NoResultTypes DEF LineInv, ResultInv

LEMMA InterpreterEndsLine ==
  InterpreterInv /\ (EndsLine \/ EnterGroup \/ CommandReturns) => InterpreterInv'
<1> SUFFICES ASSUME InterpreterInv, EndsLine \/ EnterGroup \/ CommandReturns
             PROVE  InterpreterInv'
  OBVIOUS
<1>1. LineDone /\ UNCHANGED <<subgroups, registered, Executing_Group>>
  BY DEF EndsLine, EnterGroup, CommandReturns, menuState, menuVars
<1>2. LineInv' /\ ResultInv'
  BY <1>1, LineDoneTypes
<1>3. subgroups \in [Menu -> Seq(Groups)] /\ \A p \in Menu : subgroups[p] # <<>> => IsRegistered(p)
  BY DEF InterpreterInv, MenuInv
<1>4. \E g : Current_Group' = g /\ IsRegistered(g)
  <2>1. IsRegistered(Current_Group) /\ IsRegistered(Root)
    BY DEF InterpreterInv, MenuInv, IsRegistered
  <2>2. CASE EndsLine
    BY <2>1, <2>2 DEF EndsLine, menuState
  <2>3. CASE EnterGroup
    BY <2>3 DEF EnterGroup, InterpreterInv, ResultInv
  <2>4. CASE CommandReturns
    <3>1. \/ Current_Group # Root /\ Current_Group' = Parent(Current_Group)
          \/ Current_Group' = Root \/ Current_Group' = Current_Group
      BY <2>4 DEF CommandReturns
    <3>2. Current_Group # Root => IsRegistered(Parent(Current_Group))
      BY <1>3, <2>1, RegisteredIsGroup
    <3>3. QED
      BY <2>1, <3>1, <3>2
  <2>5. QED
    BY <2>2, <2>3, <2>4
<1>5. MenuInv'
  <2>1. PICK g : Current_Group' = g /\ IsRegistered(g)
    BY <1>4
  <2>2. IsRegistered(Current_Group)'
    BY <1>1, <2>1 DEF IsRegistered
  <2>3. QED
    BY <1>1, <2>2 DEF InterpreterInv, MenuInv, IsRegistered
<1>6. QED
  BY <1>2, <1>5 DEF InterpreterInv

LEMMA InterpreterReset == Reset => InterpreterInv'
<1> SUFFICES ASSUME Reset PROVE InterpreterInv'
  OBVIOUS
<1>1. /\ subgroups' = [g \in Menu |-> <<>>] /\ registered' = 0 /\ cmdPc' = "boot"
      /\ Current_Group' = Root /\ Executing_Group' = Root
      /\ Input_String' = <<>> /\ Parameter_List' = <<>> /\ result' = NoResult
  BY DEF Reset
<1>2. MenuInv'
  <2>1. subgroups' \in [Menu -> Seq(Groups)] /\ \A p \in Menu : subgroups'[p] = <<>>
    BY <1>1
  <2>2. registered' \in 0..Len(Registrations)
    <3>1. Len(Registrations) \in Nat
      BY ConsoleAssumption
    <3>2. QED
      BY <1>1, <3>1
  <2>3. IsRegistered(Current_Group)' /\ Executing_Group' \in Menu
    BY <1>1 DEF IsRegistered, Menu
  <2>4. QED
    BY <2>1, <2>2, <2>3 DEF MenuInv
<1>3. LineInv'
  <2>1. Len(<<>>) = 0 /\ MaxLength \in Nat /\ MaxParameters \in Nat
    BY CommandLineAssumption
  <2>2. <<>> \in Seq(Characters) /\ <<>> \in Seq(Seq(Texts))
    OBVIOUS
  <2>3. QED
    BY <1>1, <2>1, <2>2 DEF LineInv, Lines
<1>4. ResultInv'
  BY <1>1, NoResultTypes DEF ResultInv
<1>5. QED
  BY <1>2, <1>3, <1>4 DEF InterpreterInv

LEMMA InterpreterQuiet == InterpreterInv /\ Quiet => InterpreterInv'
  BY DEF InterpreterInv, MenuInv, LineInv, ResultInv, IsRegistered, Quiet, menuState

LEMMA InterpreterStep ==
  RingInv /\ OrderInv /\ InterpreterInv /\ [ConsoleNext]_consoleVars => InterpreterInv'
  BY InterpreterSteps, InterpreterQuiet, InterpreterEndsLine, InterpreterRegister,
     InterpreterEdit, InterpreterProcess, InterpreterReset

(* The flags and the places of the console thread.                         *)
FlagInv ==
    /\ receive \in BOOLEAN /\ ready \in BOOLEAN /\ CLI_Mutex \in BOOLEAN
    /\ cmdPc \in CmdPcs

LEMMA FlagInit == ConsoleInit => FlagInv
  BY DEF ConsoleInit, FlagInv, CmdPcs

LEMMA FlagStep == FlagInv /\ [ConsoleNext]_consoleVars => FlagInv'
<1> SUFFICES ASSUME FlagInv, [ConsoleNext]_consoleVars PROVE FlagInv'
  OBVIOUS
<1> USE DEF FlagInv, ringVars, threadVars
<1>1. CASE UNCHANGED consoleVars
  BY <1>1 DEF consoleVars
<1>2. CASE SignalInit \/ CheckRing \/ WaitForData \/ ReleaseBuffer \/ RequeueBuffer \/ Reset
  BY <1>2 DEF SignalInit, CheckRing, WaitForData, ReleaseBuffer, RequeueBuffer, Reset, CmdPcs
<1>3. ASSUME NEW keys \in Keystrokes, UartRxCB(keys) PROVE FlagInv'
  BY <1>3 DEF UartRxCB
<1>4. CASE RegisterCommandGroup \/ DisplayCommandList \/ TakeLock \/ EndOfBuffer
             \/ EditLine \/ ProcessCommand \/ StartCommand
  BY <1>4 DEF RegisterCommandGroup, DisplayCommandList, TakeLock, EndOfBuffer, EditLine,
              ProcessCommand, StartCommand, ReleaseMutexForCommand, CmdPcs
<1>5. CASE RejectLine \/ EnterGroup \/ CommandReturns \/ TooManyThreads \/ ThreadRefused
             \/ ThreadReady
  BY <1>5 DEF RejectLine, EnterGroup, CommandReturns, TooManyThreads, ThreadRefused,
              ThreadReady, ThreadLine, ClearReady, LineDone, CmdPcs
<1>6. ASSUME NEW t \in CommandThreads,
             CreateThread(t) \/ CopyThreadInfo(t) \/ ThreadFinishes(t) \/ ThreadStops(t)
      PROVE  FlagInv'
  BY <1>6 DEF CreateThread, ThreadLine, ClearReady, CopyThreadInfo, ThreadFinishes,
              ThreadStops, CmdPcs
<1>7. QED
  BY <1>1, <1>2, <1>3, <1>4, <1>5, <1>6 DEF ConsoleNext, ConsoleThread

(* Type correctness: whatever is typed, the line stays within Input_String *)
(* and its words within Parameter_List, and the console's groups are those *)
(* that were registered, for any menu, any sizes and any contents of the   *)
(* receive buffers.                                                        *)
THEOREM ConsoleTypes == ConsoleSpec => []ConsoleTypeOK
<1>1. ASSUME RingInv, InterpreterInv, FlagInv, ThreadInv PROVE ConsoleTypeOK
  <2>1. Rx_In_Index \in 0..(RxBuffers - 1) /\ Rx_Out_Index \in 0..(RxBuffers - 1)
        /\ Rx_Buffers_Free \in 0..RxBuffers
    BY <1>1 DEF RingInv
  <2>2. Current_Group \in Menu /\ Executing_Group \in Menu
    BY <1>1, RegisteredIsGroup DEF InterpreterInv, MenuInv
  <2>3. Len(Input_String) <= MaxLength /\ Len(Parameter_List) <= MaxParameters + 1
    BY <1>1 DEF InterpreterInv, LineInv, Lines
  <2>4. Thread_Count \in 0..MaxThreads
        /\ threadPc \in [CommandThreads -> {"stopped", "created", "running", "finished"}]
    <3>1. Thread_Count \in Nat /\ Thread_Count <= MaxThreads
      BY <1>1, ExistingSize DEF ThreadInv, ThreadsCounted, Existing
    <3>2. QED
      BY <1>1, <3>1, Sizes DEF ThreadInv, ThreadStates
  <2>5. QED
    BY <1>1, <2>1, <2>2, <2>3, <2>4 DEF ConsoleTypeOK, FlagInv
<1>2. QED
  BY <1>1, RingInit, RingInvStep, OrderInit, OrderStep, InterpreterInit, InterpreterStep,
     FlagInit, FlagStep, ThreadInit, ThreadStep, PTL DEF ConsoleSpec

-----------------------------------------------------------------------------
(* The parameters of a command thread. *)

(* While a thread has not copied them, the line stays as it was and no     *)
(* other thread is waited for; the words that name the command make the    *)
(* rest fit the thread's own list.                                         *)
Created(t) ==
    /\ cmdPc = "waitReady" /\ ~ready
    /\ asked[t] = SubSeq(Parameter_List, Thread_Info.first,
                         Thread_Info.first + Thread_Info.count - 1)
    /\ \A u \in CommandThreads : threadPc[u] = "created" => u = t

ArgumentLists == {list \in Seq(Seq(Texts)) : Len(list) <= MaxParameters}

ArgumentsInv ==
    /\ threadPc \in [CommandThreads -> ThreadStates]
    /\ asked \in [CommandThreads -> ArgumentLists]
    /\ threadArguments \in [CommandThreads -> ArgumentLists]
    /\ \A t \in CommandThreads : threadPc[t] = "created" => Created(t)
    /\ \A t \in CommandThreads :
          threadPc[t] \in {"running", "finished"} => threadArguments[t] = asked[t]

(* The steps of the console thread with no thread waiting for its copy.    *)
ThreadsKept ==
    /\ UNCHANGED <<threadPc, threadArguments, asked>>
    /\ \/ cmdPc # "waitReady" \/ ready
       \/ UNCHANGED <<cmdPc, Parameter_List, ready, Thread_Info>>

LEMMA ArgumentSteps ==
  [ConsoleNext]_consoleVars =>
      \/ ThreadsKept \/ Reset
      \/ \E t \in CommandThreads : CreateThread(t) \/ CopyThreadInfo(t) \/ ThreadFinishes(t)
                                     \/ ThreadStops(t)
<1> USE DEF threadVars, lineVars, ThreadsKept
<1>1. ASSUME UNCHANGED consoleVars PROVE ThreadsKept
  BY <1>1 DEF consoleVars
<1>2. ASSUME SignalInit \/ CheckRing \/ WaitForData \/ ReleaseBuffer \/ RequeueBuffer
             \/ \E keys \in Keystrokes : UartRxCB(keys)
      PROVE  ThreadsKept
  BY <1>2 DEF SignalInit, CheckRing, WaitForData, ReleaseBuffer, RequeueBuffer, UartRxCB
<1>3. ASSUME RegisterCommandGroup \/ DisplayCommandList \/ TakeLock \/ EndOfBuffer
             \/ EditLine \/ ProcessCommand \/ StartCommand
      PROVE  ThreadsKept
  BY <1>3 DEF RegisterCommandGroup, DisplayCommandList, TakeLock, EndOfBuffer, EditLine,
              ProcessCommand, StartCommand, Feeding
<1>4. ASSUME RejectLine \/ EnterGroup \/ CommandReturns \/ TooManyThreads \/ ThreadRefused
             \/ ThreadReady
      PROVE  ThreadsKept
  BY <1>4 DEF RejectLine, EnterGroup, CommandReturns, TooManyThreads, ThreadRefused,
              ThreadReady, ThreadLine
<1>5. QED
  BY <1>1, <1>2, <1>3, <1>4 DEF ConsoleNext, ConsoleThread

LEMMA NoArguments == <<>> \in ArgumentLists
<1>1. MaxParameters \in Nat /\ Len(<<>>) = 0 /\ <<>> \in Seq(Seq(Texts))
  BY CommandLineAssumption
<1>2. QED
  BY <1>1 DEF ArgumentLists

LEMMA ArgumentsInit == ConsoleInit => ArgumentsInv
<1> SUFFICES ASSUME ConsoleInit PROVE ArgumentsInv
  OBVIOUS
<1>1. /\ threadPc = [t \in CommandThreads |-> "stopped"]
      /\ threadArguments = [t \in CommandThreads |-> <<>>]
      /\ asked = [t \in CommandThreads |-> <<>>]
  BY DEF ConsoleInit
<1>2. QED
  BY <1>1, NoArguments DEF ArgumentsInv, ThreadStates

LEMMA ArgumentsKept == ArgumentsInv /\ ThreadsKept => ArgumentsInv'
<1> SUFFICES ASSUME ArgumentsInv, ThreadsKept PROVE ArgumentsInv'
  OBVIOUS
<1>1. UNCHANGED <<threadPc, threadArguments, asked>>
  BY DEF ThreadsKept
<1>2. ASSUME NEW t \in CommandThreads, threadPc[t] = "created" PROVE Created(t)'
  <2>1. Created(t)
    BY <1>2 DEF ArgumentsInv
  <2>2. UNCHANGED <<cmdPc, Parameter_List, ready, Thread_Info>>
    BY <2>1 DEF Created, ThreadsKept
  <2>3. QED
    BY <1>1, <2>1, <2>2 DEF Created
<1>3. QED
  BY <1>1, <1>2 DEF ArgumentsInv

LEMMA ArgumentsReset == Reset => ArgumentsInv'
<1> SUFFICES ASSUME Reset PROVE ArgumentsInv'
  OBVIOUS
<1>1. /\ threadPc' = [t \in CommandThreads |-> "stopped"]
      /\ threadArguments' = [t \in CommandThreads |-> <<>>]
      /\ asked' = [t \in CommandThreads |-> <<>>]
  BY DEF Reset
<1>2. QED
  BY <1>1, NoArguments DEF ArgumentsInv, ThreadStates

LEMMA ArgumentsCreate ==
  ASSUME ArgumentsInv, InterpreterInv, NEW t \in CommandThreads, CreateThread(t)
  PROVE  ArgumentsInv'
<1>1. PICK used, list : used = result.used /\ list = Parameter_List
  OBVIOUS
<1>2. /\ cmdPc = "execute" /\ result.ok /\ threadPc[t] = "stopped"
      /\ ready' = FALSE /\ cmdPc' = "waitReady" /\ Parameter_List' = list
      /\ threadArguments' = threadArguments
      /\ threadPc' = [threadPc EXCEPT ![t] = "created"]
      /\ asked' = [asked EXCEPT ![t] = SubSeq(list, used + 1, Len(list))]
  BY <1>1 DEF CreateThread, ThreadLine, ClearReady, Arguments
<1>3. Thread_Info'.first = used + 1 /\ Thread_Info'.count = Len(list) - used
  BY <1>1 DEF CreateThread, ThreadInfo
<1>4. /\ list \in Seq(Seq(Texts)) /\ Len(list) <= MaxParameters + 1
      /\ used \in 1..Len(list) /\ MaxParameters \in Nat /\ Len(list) \in Nat
  BY <1>1, <1>2, CommandLineAssumption DEF InterpreterInv, LineInv, ResultInv
<1>5. /\ threadPc \in [CommandThreads -> ThreadStates]
      /\ asked \in [CommandThreads -> ArgumentLists]
      /\ threadArguments \in [CommandThreads -> ArgumentLists]
  BY DEF ArgumentsInv
<1>6. SubSeq(list, used + 1, Len(list)) \in ArgumentLists
  <2>1. PICK rest : rest = SubSeq(list, used + 1, Len(list))
    OBVIOUS
  <2>2. rest \in Seq(Seq(Texts)) /\ Len(rest) = Len(list) - used
    BY <1>4, <2>1
  <2>3. QED
    BY <1>4, <2>1, <2>2 DEF ArgumentLists
<1>7. /\ asked' \in [CommandThreads -> ArgumentLists]
      /\ asked'[t] = SubSeq(list, used + 1, Len(list))
      /\ \A u \in CommandThreads : u # t => asked'[u] = asked[u]
  BY <1>2, <1>5, <1>6
<1>8. /\ threadPc' \in [CommandThreads -> ThreadStates] /\ threadPc'[t] = "created"
      /\ \A u \in CommandThreads : u # t => threadPc'[u] = threadPc[u]
  BY <1>2, <1>5 DEF ThreadStates
<1>9. \A u \in CommandThreads : threadPc'[u] = "created" => u = t
  BY <1>2, <1>8 DEF ArgumentsInv, Created
<1>10. Created(t)'
  <2>1. (used + 1) + (Len(list) - used) - 1 = Len(list)
    BY <1>4
  <2>2. asked'[t] = SubSeq(Parameter_List', Thread_Info'.first,
                           Thread_Info'.first + Thread_Info'.count - 1)
    BY <1>2, <1>3, <1>7, <2>1
  <2>3. QED
    BY <1>2, <1>9, <2>2 DEF Created
<1>11. ASSUME NEW u \in CommandThreads, threadPc'[u] \in {"running", "finished"}
       PROVE  threadArguments'[u] = asked'[u]
  <2>1. u # t
    BY <1>8, <1>11
  <2>2. QED
    BY <1>2, <1>7, <1>8, <1>11, <2>1 DEF ArgumentsInv
<1>12. QED
  BY <1>2, <1>5, <1>7, <1>8, <1>9, <1>10, <1>11 DEF ArgumentsInv

LEMMA ArgumentsCopy ==
  ASSUME ArgumentsInv, NEW t \in CommandThreads, CopyThreadInfo(t)
  PROVE  ArgumentsInv'
<1>1. Created(t)
  BY DEF ArgumentsInv, CopyThreadInfo, MayCopy
<1>2. /\ asked' = asked
      /\ threadArguments' = [threadArguments EXCEPT ![t] = asked[t]]
      /\ threadPc' = [threadPc EXCEPT ![t] = "running"]
  BY <1>1 DEF CopyThreadInfo, Created
<1>3. /\ threadPc \in [CommandThreads -> ThreadStates]
      /\ asked \in [CommandThreads -> ArgumentLists]
      /\ threadArguments \in [CommandThreads -> ArgumentLists]
      /\ \A u \in CommandThreads :
            threadPc[u] \in {"running", "finished"} => threadArguments[u] = asked[u]
  BY DEF ArgumentsInv
<1>4. /\ threadPc' \in [CommandThreads -> ThreadStates] /\ threadPc'[t] = "running"
      /\ \A u \in CommandThreads : u # t => threadPc'[u] = threadPc[u]
  BY <1>2, <1>3 DEF ThreadStates
<1>5. /\ threadArguments' \in [CommandThreads -> ArgumentLists] /\ threadArguments'[t] = asked[t]
      /\ \A u \in CommandThreads : u # t => threadArguments'[u] = threadArguments[u]
  BY <1>2, <1>3
<1>6. \A u \in CommandThreads : threadPc'[u] # "created"
  BY <1>1, <1>4 DEF Created
<1>7. QED
  BY <1>2, <1>3, <1>4, <1>5, <1>6 DEF ArgumentsInv

LEMMA ArgumentsEnd ==
  ASSUME ArgumentsInv, NEW t \in CommandThreads, ThreadFinishes(t) \/ ThreadStops(t)
  PROVE  ArgumentsInv'
<1>1. /\ UNCHANGED <<asked, threadArguments, cmdPc, ready, Parameter_List, Thread_Info>>
      /\ threadPc[t] \in {"running", "finished"}
      /\ \E pc \in {"finished", "stopped"} : threadPc' = [threadPc EXCEPT ![t] = pc]
  BY DEF ThreadFinishes, ThreadStops, lineVars
<1>2. threadPc \in [CommandThreads -> ThreadStates]
  BY DEF ArgumentsInv
<1>3. /\ threadPc' \in [CommandThreads -> ThreadStates] /\ threadPc'[t] # "created"
      /\ \A u \in CommandThreads : u # t => threadPc'[u] = threadPc[u]
  BY <1>1, <1>2 DEF ThreadStates
<1>4. ASSUME NEW u \in CommandThreads, threadPc'[u] = "created" PROVE Created(u)'
  <2>1. u # t /\ Created(u)
    BY <1>3, <1>4 DEF ArgumentsInv
  <2>2. \A v \in CommandThreads : threadPc'[v] = "created" => v = u
    BY <1>3, <2>1 DEF Created
  <2>3. QED
    BY <1>1, <2>1, <2>2 DEF Created
<1>5. ASSUME NEW u \in CommandThreads, threadPc'[u] \in {"running", "finished"}
      PROVE  threadArguments'[u] = asked'[u]
  <2>1. threadPc[u] \in {"running", "finished"}
    BY <1>1, <1>3, <1>5
  <2>2. QED
    BY <1>1, <2>1 DEF ArgumentsInv
<1>6. QED
  BY <1>1, <1>3, <1>4, <1>5 DEF ArgumentsInv

LEMMA ArgumentsStep ==
  InterpreterInv /\ ArgumentsInv /\ [ConsoleNext]_consoleVars => ArgumentsInv'
  BY ArgumentSteps, ArgumentsKept, ArgumentsReset, ArgumentsCreate, ArgumentsCopy, ArgumentsEnd

(* A command thread runs with the parameters of the line that started it,  *)
(* although it copies them from the one input line, and they fit its list, *)
(* for any number of threads and any sizes of the two lists.               *)
THEOREM ThreadParameters == ConsoleSpec => []ThreadGetsItsParameters
<1>1. ASSUME ArgumentsInv PROVE ThreadGetsItsParameters
  <2> SUFFICES ASSUME NEW t \in CommandThreads, threadPc[t] \in {"running", "finished"}
               PROVE  threadArguments[t] = asked[t] /\ Len(threadArguments[t]) <= MaxParameters
    BY DEF ThreadGetsItsParameters
  <2>1. threadArguments[t] \in ArgumentLists /\ threadArguments[t] = asked[t]
    BY <1>1 DEF ArgumentsInv
  <2>2. QED
    BY <2>1 DEF ArgumentLists
<1>2. QED
  BY <1>1, RingInit, RingInvStep, OrderInit, OrderStep, InterpreterInit, InterpreterStep,
     ArgumentsInit, ArgumentsStep, PTL DEF ConsoleSpec

-----------------------------------------------------------------------------
(* The words of a line. *)

(* A line without quotes and backslashes is read as its words, whatever    *)
(* its length and however many they are: none is empty, split, joined with *)
(* another or out of its order, and only words past the list's end are     *)
(* lost.                                                                   *)
THEOREM LinesAreReadAsWords == ConsoleSpec => []PlainLinesAreWords
<1>1. ASSUME InterpreterInv PROVE PlainLinesAreWords
  <2> PICK input : input = Input_String
    OBVIOUS
  <2> SUFFICES ASSUME \A i \in DOMAIN input : input[i] \notin {Quote, Backslash}
               PROVE  PlainLinesAreWords
    BY DEF PlainLinesAreWords
  <2>1. input \in PlainLines
    BY <1>1 DEF InterpreterInv, LineInv, PlainLines
  <2> PICK line : line = Parse(input)
    OBVIOUS
  <2> DEFINE starts == {i \in DOMAIN Input_String :
                           /\ Input_String[i] # Space
                           /\ i = 1 \/ Input_String[i - 1] = Space}
             kept   == {i \in starts : Cardinality({j \in starts : j < i}) <= MaxParameters}
  <2>2. starts = Begins(input)
    BY DEF Begins
  <2>3. \A i : {j \in starts : j < i} = Before(input, i) /\ {j \in starts : j <= i} = UpTo(input, i)
    BY <2>2 DEF Before, UpTo
  <2>4. kept = Kept(input)
    BY <2>2, <2>3 DEF Kept
  <2>5. /\ line.ok = TRUE /\ line.index <= Len(input) + 1
        /\ Len(line.words) = Cardinality(Kept(input))
        /\ \A i \in Kept(input) : WordAt(input, i, line.words[Cardinality(UpTo(input, i))])
    BY <2>1, PlainLineWords
  <2>6. ASSUME NEW i \in kept
        PROVE  LET word == line.words[Cardinality({j \in starts : j <= i})]
                   end  == i + Len(word)
               IN /\ word = SubSeq(Input_String, i, end - 1)
                  /\ SpaceCount(word) = 0
                  /\ end > Len(Input_String) \/ Input_String[end] = Space
    <3>1. PICK word : word = line.words[Cardinality({j \in starts : j <= i})]
      OBVIOUS
    <3>2. WordAt(input, i, word)
      BY <2>3, <2>4, <2>5, <3>1
    <3>3. {k \in DOMAIN word : word[k] = Space} = {}
      BY <3>2 DEF WordAt
    <3>4. SpaceCount(word) = 0
      BY <3>3, FS_EmptySet DEF SpaceCount
    <3>5. /\ word = SubSeq(Input_String, i, (i + Len(word)) - 1)
          /\ i + Len(word) > Len(Input_String) \/ Input_String[i + Len(word)] = Space
      BY <3>2 DEF WordAt
    <3>6. QED
      BY ONLY <3>1, <3>4, <3>5, Zenon
  <2> HIDE DEF kept
  <2>7. /\ line.ok /\ line.index <= Len(Input_String) + 1
        /\ Len(line.words) = Cardinality(kept)
    BY <2>4, <2>5
  <2>8. QED
    BY <2>6, <2>7 DEF PlainLinesAreWords, kept
<1>2. QED
  BY <1>1, RingInit, RingInvStep, OrderInit, OrderStep, InterpreterInit, InterpreterStep,
     PTL DEF ConsoleSpec

=============================================================================
