----------------------------- MODULE BoardStart -----------------------------
(***************************************************************************)
(* A board from power-on: app_init and app_start (pal.c), the registration *)
(* of the menus, InitializeBluetooth and Initialize_Home_Automation        *)
(* (home_automation.c), BLE_IOService (ble_server.c), the loop that reads  *)
(* the smoke detector, and the console thread.  Every call of the SDK that *)
(* may fail does, up to MaxFaults times.  All of it prints, through        *)
(* ConsoleOutput.                                                          *)
(*                                                                         *)
(* Four threads print: the one that starts the board and then watches the  *)
(* smoke detector; the stack's, whose callbacks come once the board        *)
(* advertises; the periodic timer's; and the console thread.  Messages of  *)
(* one thread that follow each other and end their lines are one call.     *)
(***************************************************************************)
EXTENDS ConsoleOutput

CONSTANTS
    main, stack, timer, console,    \* the threads
    Peripherals, ADC, PWM, BLE      \* the groups

ASSUME BoardAssumption ==
    /\ Threads = {main, stack, timer, console}
    /\ main \notin {stack, timer, console}
    /\ stack \notin {timer, console}
    /\ timer # console
    /\ Groups = {Peripherals, ADC, PWM, BLE}

VARIABLES
    mainPc,             \* what the main thread does next
    handle,             \* the handles QCLI_Register_Command_Group returned
    BluetoothStackID, pairable, authenticates, serves, loaded, advertising,
    timerSet,           \* the periodic timer runs
    consolePc           \* the console thread: "none" until it is created

startVars == <<handle, BluetoothStackID, pairable, authenticates, serves, loaded,
               advertising, timerSet, consolePc>>
boardVars == <<outputVars, faults, mainPc, startVars>>

Line       == <<"text", "nl">>
TwoLines   == <<"text", "nl", "text", "nl">>
Unfinished == <<"text">>
Prompt     == <<"nl", "text">>

BoardInit ==
    /\ OutputInit
    /\ mainPc = "uart"
    /\ handle = [g \in Groups |-> NoGroup]
    /\ BluetoothStackID = 0
    /\ pairable = FALSE /\ authenticates = FALSE /\ serves = FALSE
    /\ loaded = FALSE /\ advertising = FALSE /\ timerSet = FALSE
    /\ consolePc = "none"

\* The main thread takes its next step once it has printed for the last one.
MainAt(at) == mainPc = at /\ pc[main] = "idle"
Continue(next) == mainPc' = next
Log(format) == QCLIPrintf(main, handle[BLE], format)
Succeeds == UNCHANGED faults
Fails    == faults < MaxFaults /\ faults' = faults + 1
Silent   == UNCHANGED outputVars

-----------------------------------------------------------------------------
(* app_init, up to Initialize_Home_Automation.                             *)

\* PAL_Initialize.  Without the UART nothing else is started.
OpenUart ==
    /\ MainAt("uart")
    /\ \/ Succeeds /\ Continue("greet")
       \/ Fails /\ Continue("ended")
    /\ Silent
    /\ UNCHANGED startVars

\* Initialize_Samples' own message, and then Initialize_Demo's.
Greet ==
    /\ MainAt("greet")
    /\ WriteLiteral(main, Line)
    /\ Continue("peripherals")
    /\ UNCHANGED <<faults, startVars>>

\* Initialize_Peripherals_Demo: the groups under it are registered only if it
\* is.  ADC and PWM say so by their own handles, the peripherals in the end.
RegisterPeripherals ==
    /\ MainAt("peripherals")
    /\ Silent
    /\ \/ /\ Succeeds
          /\ handle' = [handle EXCEPT ![Peripherals] = Peripherals]
          /\ Continue("adc")
       \/ Fails /\ UNCHANGED handle /\ Continue("registered")      \* malloc
    /\ UNCHANGED <<BluetoothStackID, pairable, authenticates, serves, loaded, advertising,
                   timerSet, consolePc>>

RegisterUnder(g, next) ==
    /\ \/ Succeeds /\ handle' = [handle EXCEPT ![g] = g]
       \/ Fails /\ UNCHANGED handle
    /\ QCLIPrintf(main, handle'[g], Line)
    /\ Continue(next)
    /\ UNCHANGED <<BluetoothStackID, pairable, authenticates, serves, loaded, advertising,
                   timerSet, consolePc>>

RegisterGroups ==
    \/ MainAt("adc") /\ RegisterUnder(ADC, "pwm")
    \/ MainAt("pwm") /\ RegisterUnder(PWM, "registered")

PeripheralsRegistered ==
    /\ MainAt("registered")
    /\ QCLIPrintf(main, handle[Peripherals], Line)
    /\ Continue("welcome")
    /\ UNCHANGED <<faults, startVars>>

Welcome ==
    /\ MainAt("welcome")
    /\ WriteLiteral(main, TwoLines)
    /\ Continue("ble")
    /\ UNCHANGED <<faults, startVars>>

-----------------------------------------------------------------------------
(* Initialize_Home_Automation and InitializeBluetooth.                     *)

RegisterBle ==
    /\ MainAt("ble")
    /\ \/ Succeeds /\ handle' = [handle EXCEPT ![BLE] = BLE]
       \/ Fails /\ UNCHANGED handle
    /\ Silent
    /\ Continue("open")
    /\ UNCHANGED <<BluetoothStackID, pairable, authenticates, serves, loaded, advertising,
                   timerSet, consolePc>>

\* OpenStack.  The stack's ID is taken back if GATT cannot be initialised; a
\* failure of GAPS or of the storage is printed and left at that.
OpenStack ==
    /\ MainAt("open")
    /\ Log(TwoLines)
    /\ \/ /\ Succeeds
          /\ BluetoothStackID' = 1
          /\ Continue("pairable")
       \/ /\ Fails
          /\ UNCHANGED BluetoothStackID
          /\ Continue("failed")
    /\ UNCHANGED <<handle, pairable, authenticates, serves, loaded, advertising, timerSet,
                   consolePc>>

SetPairable ==
    /\ MainAt("pairable")
    /\ \/ /\ Succeeds
          /\ pairable' = TRUE /\ authenticates' = TRUE
          /\ Silent
          /\ Continue("service")
       \/ /\ Fails
          /\ pairable' \in BOOLEAN /\ UNCHANGED authenticates
          /\ Log(Line)
          /\ Continue("close")
    /\ UNCHANGED <<handle, BluetoothStackID, serves, loaded, advertising, timerSet, consolePc>>

\* BLE_IOService's result: the service's, a negative one if the service is
\* refused, and 0 if the stack cannot be locked.
BLE_IOService(result) ==
    \/ result > 0 /\ Succeeds /\ serves' = TRUE
    \/ result <= 0 /\ Fails /\ UNCHANGED serves

\* SetDisc and SetConnect cannot fail.  On 0 InitializeBluetooth returns and
\* leaves the stack open; a negative result counts as done.
RegisterService ==
    /\ MainAt("service")
    /\ Log(<<"text", "text", "nl">>)
    /\ \E result \in {-1, 0, 1} :
          /\ BLE_IOService(result)
          /\ Continue(IF result = 0 THEN "failed" ELSE "load")
    /\ UNCHANGED <<handle, BluetoothStackID, pairable, authenticates, loaded, advertising,
                   timerSet, consolePc>>

\* Mutant: the ID is kept.
KeepStackID == UNCHANGED BluetoothStackID

ClearStackID == BluetoothStackID' = 0

CloseStack ==
    /\ MainAt("close")
    /\ ClearStackID
    /\ pairable' = FALSE /\ authenticates' = FALSE /\ serves' = FALSE
    /\ Log(Line)
    /\ Continue("failed")
    /\ UNCHANGED <<faults, handle, loaded, advertising, timerSet, consolePc>>

\* LoadPersistentData, for one list and then for the other.
LoadRecords ==
    /\ MainAt("load")
    /\ loaded' = TRUE
    /\ Log(<<"text", "nl", "nl", "text", "nl">>)
    /\ Continue("advertise")
    /\ UNCHANGED <<faults, handle, BluetoothStackID, pairable, authenticates, serves,
                   advertising, timerSet, consolePc>>

\* AdvertiseLE(1): its data, its scan response, or advertising may be refused.
Advertise ==
    /\ MainAt("advertise")
    /\ Log(TwoLines)
    /\ \/ Succeeds /\ advertising' = TRUE /\ Continue("timer")
       \/ Fails /\ UNCHANGED advertising /\ Continue("return")
    /\ UNCHANGED <<handle, BluetoothStackID, pairable, authenticates, serves, loaded,
                   timerSet, consolePc>>

\* BLE_timer_init.
StartTimer ==
    /\ MainAt("timer")
    /\ timerSet' = TRUE
    /\ Log(TwoLines)
    /\ Continue("connect")
    /\ UNCHANGED <<faults, handle, BluetoothStackID, pairable, authenticates, serves, loaded,
                   advertising, consolePc>>

\* The saved bulb, if there is one, is connected to; then the loop begins.
ConnectSavedBulb ==
    /\ MainAt("connect")
    /\ Log(<<"text", "nl", "nl", "text", "nl">>)
    /\ Continue("smoke")
    /\ UNCHANGED <<faults, startVars>>

\* One turn of the loop: the value read last is printed, and read again.
LogSmoke ==
    /\ MainAt("smoke")
    /\ Log(<<"text", "nl", "nl">>)
    /\ Continue("read")
    /\ UNCHANGED <<faults, startVars>>

ReadSmoke ==
    /\ MainAt("read")
    /\ \/ Silent
       \/ QCLIPrintf(main, handle[ADC], Line)       \* "ADC fails"
    /\ Continue("smoke")
    /\ UNCHANGED <<faults, startVars>>

InitializationFailed ==
    /\ MainAt("failed")
    /\ Log(Line)
    /\ Continue("return")
    /\ UNCHANGED <<faults, startVars>>

\* app_init has returned, and app_start creates the console thread.
AppStart ==
    /\ MainAt("return")
    /\ \/ Succeeds /\ consolePc' = "list" /\ Silent
       \/ Fails /\ UNCHANGED consolePc /\ WriteLiteral(main, <<"text", "nl", "nl">>)
    /\ Continue("ended")
    /\ UNCHANGED <<handle, BluetoothStackID, pairable, authenticates, serves, loaded,
                   advertising, timerSet>>

-----------------------------------------------------------------------------
(* The other threads.                                                      *)

\* A callback of the stack: a message, and then the prompt.
StackPrints ==
    /\ advertising
    /\ pc[stack] = "idle"
    /\ \/ \E format \in {Line, TwoLines, Unfinished} : QCLIPrintf(stack, handle[BLE], format)
       \/ QCLIPrintf(stack, Main, Prompt)
    /\ UNCHANGED <<faults, mainPc, startVars>>

\* timer_callback: the scan's messages and those of the notifications.
TimerPrints ==
    /\ timerSet
    /\ pc[timer] = "idle"
    /\ QCLIPrintf(timer, handle[BLE], Line)
    /\ UNCHANGED <<faults, mainPc, startVars>>

ConsoleAt(at) == consolePc = at /\ pc[console] = "idle"

\* QCLI_Display_Command_List, which ends with the prompt.
ListCommands ==
    /\ ConsoleAt("list")
    /\ QCLIPrintf(console, Main, <<"nl", "text", "nl", "nl", "text">>)
    /\ consolePc' = "prompt"
    /\ UNCHANGED <<faults, mainPc, handle, BluetoothStackID, pairable, authenticates, serves,
                   loaded, advertising, timerSet>>

\* What is typed is echoed; the end of the line starts a command.
Typed ==
    /\ ConsoleAt("prompt")
    /\ \/ Echo(console, Unfinished) /\ UNCHANGED consolePc
       \/ Echo(console, <<"nl">>) /\ consolePc' = "command"
    /\ UNCHANGED <<faults, mainPc, handle, BluetoothStackID, pairable, authenticates, serves,
                   loaded, advertising, timerSet>>

\* Exit writes its message; any other command prints as its group or as the
\* console, and as often as it likes.  Then the prompt is back.
Exit ==
    /\ ConsoleAt("command")
    /\ Echo(console, <<"text", "nl", "text", "nl", "nl">>)
    /\ consolePc' = "returned"
    /\ UNCHANGED <<faults, mainPc, handle, BluetoothStackID, pairable, authenticates, serves,
                   loaded, advertising, timerSet>>

CommandPrints ==
    /\ ConsoleAt("command") \/ ConsoleAt("returned")
    /\ \/ /\ consolePc = "command"
          /\ \E g \in {Main, handle[ADC], handle[PWM]} : QCLIPrintf(console, g, Line)
          /\ UNCHANGED consolePc
       \/ QCLIPrintf(console, Main, Prompt) /\ consolePc' = "prompt"
    /\ UNCHANGED <<faults, mainPc, handle, BluetoothStackID, pairable, authenticates, serves,
                   loaded, advertising, timerSet>>

-----------------------------------------------------------------------------

MainThread ==
    \/ OpenUart \/ Greet \/ RegisterPeripherals \/ RegisterGroups \/ PeripheralsRegistered
    \/ Welcome \/ RegisterBle
    \/ OpenStack \/ SetPairable \/ RegisterService \/ CloseStack
    \/ LoadRecords \/ Advertise \/ StartTimer \/ ConnectSavedBulb \/ LogSmoke \/ ReadSmoke
    \/ InitializationFailed \/ AppStart

Printing == \E t \in Threads : OutputStep(t) /\ UNCHANGED <<mainPc, startVars>>
Interrupt == \E sent \in 1..uartLeft : UartTxCB(sent) /\ UNCHANGED <<mainPc, startVars>>

BoardNext ==
    \/ MainThread
    \/ StackPrints \/ TimerPrints
    \/ ListCommands \/ Typed \/ Exit \/ CommandPrints
    \/ Printing \/ Interrupt

\* The threads run, the UART sends, and every thread gets the mutex in its turn
\* although the others take it again and again.
BoardFairness ==
    /\ WF_boardVars(MainThread)
    /\ WF_boardVars(Interrupt)
    /\ \A t \in Threads :
          /\ SF_boardVars(TakeLock(t) /\ UNCHANGED <<mainPc, startVars>>)
          /\ WF_boardVars(OutputStep(t) /\ UNCHANGED <<mainPc, startVars>>)

BoardSpec == BoardInit /\ [][BoardNext]_boardVars /\ BoardFairness

-----------------------------------------------------------------------------
(* Properties.                                                             *)

MainPcs == {"uart", "greet", "peripherals", "adc", "pwm", "registered", "welcome", "ble",
            "open", "pairable", "service", "close", "load", "advertise", "timer", "connect",
            "smoke", "read", "failed", "return", "ended"}

\* Type correctness; a call under way is one of a group that has a handle.
BoardTypeOK ==
    /\ owner \in Threads \union {NoThread}
    /\ printfGroup \in Groups \union {Main, NoGroup}
    /\ newLine \in BOOLEAN
    /\ pc \in [Threads -> {"idle", "lock", "write", "wait"}]
    /\ \A t \in Threads : call[t].group \in Groups \union {Main}
    /\ bytesToTx \in 0..Bytes
    /\ transmitSignal \in BOOLEAN
    /\ uartLeft \in Nat
    /\ faults \in Nat
    /\ mainPc \in MainPcs
    /\ handle \in [Groups -> Groups \union {NoGroup}]
    /\ BluetoothStackID \in {0, 1}
    /\ pairable \in BOOLEAN /\ authenticates \in BOOLEAN /\ serves \in BOOLEAN
    /\ loaded \in BOOLEAN /\ advertising \in BOOLEAN /\ timerSet \in BOOLEAN
    /\ consolePc \in {"none", "list", "prompt", "command", "returned"}

\* One transmission at a time, although start-up writes without the mutex: the
\* one event and the one count of bytes in PAL_Context
\* then mean the piece of the thread that waits, and its wake-up is not lost.
Waiting == {t \in Threads : pc[t] = "wait"}
TransmitAgrees ==
    /\ \A t, u \in Waiting : t = u
    /\ Waiting # {} => bytesToTx = uartLeft /\ (transmitSignal <=> uartLeft = 0)
    /\ Waiting = {} => uartLeft = 0 /\ ~transmitSignal

\* However the threads' calls interleave, a line of the terminal holds the text
\* of one group, the one it names, or the console's own text and no name; unless
\* the UART refused a piece of it.
TextUnderItsGroup == ~line.damaged => line.texts \subseteq {line.group}

\* A board becomes the controller or falls back to the console, never both and
\* never half of one: it advertises only with the stack open, pairable and
\* authenticating and the records loaded; the timer runs only then; there is
\* no console thread then; and a board with a console left the stack open only
\* if it had got past pairing (the service or advertising was refused).
ControllerOrConsole ==
    /\ advertising => BluetoothStackID # 0 /\ authenticates /\ loaded /\ consolePc = "none"
    /\ timerSet => advertising
    /\ authenticates => pairable
    /\ pairable \/ serves => BluetoothStackID # 0
    /\ consolePc # "none" /\ BluetoothStackID # 0 => authenticates

\* Every print ends: the thread gets the mutex, and the event of every piece
\* it waits for, so the board never stops in a message.
PrintsFinish == \A t \in Threads : pc[t] # "idle" ~> pc[t] = "idle"

=============================================================================
