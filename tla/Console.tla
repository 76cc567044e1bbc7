------------------------------ MODULE Console ------------------------------
(***************************************************************************)
(* The command console: the receive side of the UART (pal.c), the console  *)
(* thread, and the interpreter it feeds (qcli.c): groups and commands,     *)
(* finding and executing a command, command threads.                       *)
(*                                                                         *)
(* Threads.  The console thread runs cmd_thread; each command thread runs  *)
(* Command_Thread; the UART's callback interrupts either.  CLI_Mutex is    *)
(* held by the console thread over several steps; a command thread takes   *)
(* it for one.  What is printed, and when, is the matter of ConsoleOutput. *)
(***************************************************************************)
EXTENDS CommandLine, FiniteSets

CONSTANTS
    RxBuffers,      \* PAL_RECIEVE_BUFFER_COUNT
    MaxThreads,     \* MAXIMUM_THREAD_COUNT
    CommandThreads, \* the threads the system can create
    Root, Groups,   \* the root of the menu, and the groups under it
    Registrations,  \* <<parent, group>> in the order start-up registers them
    GroupCommands,  \* the commands of a group's table
    StartThread,    \* the commands that run in a thread of their own
    NameOf,         \* what is typed for a command or a group
    Keystrokes,     \* what may arrive in one receive buffer
    MaxTyped,       \* bound: characters typed from a reset on
    MaxFaults       \* bound: failures of malloc and of thread creation

EndOfLine == "CR"
BackSpace == "BS"
Keys      == Characters \union {EndOfLine, BackSpace}

RootCommands   == <<"Ver", "Help", "Exit">>
CommonCommands == <<"Ver", "Help", "Up", "Root">>
Builtins       == {"Ver", "Help", "Exit", "Up", "Root"}

ASSUME ConsoleAssumption ==
    /\ RxBuffers \in Nat \ {0}
    /\ MaxThreads \in Nat
    /\ IsFiniteSet(CommandThreads)
    /\ MaxThreads <= Cardinality(CommandThreads)
    /\ Root \notin Groups
    /\ Registrations \in Seq((Groups \union {Root}) \X Groups)
    /\ GroupCommands \in [Groups \union {Root} -> Seq(STRING)]
    /\ \A g \in Groups \union {Root} :
          /\ g \notin Builtins
          /\ \A h \in Groups \union {Root} : \A i \in DOMAIN GroupCommands[h] :
                GroupCommands[h][i] # g
    /\ StartThread \cap Builtins = {}
    /\ Keystrokes \subseteq Seq(Keys)
    /\ MaxTyped \in Nat
    /\ MaxFaults \in Nat

VARIABLES
    \* pal.c: the receive ring and the driver's queue of buffers (external).
    Rx_Buffer, Rx_In_Index, Rx_Out_Index, Rx_Buffers_Free, driver,
    receive,            \* PAL_EVENT_MASK_RECEIVE is set
    \* The console thread: where it is, and in the buffer it processes.
    cmdPc, position,
    \* qcli.c
    CLI_Mutex,          \* the console thread holds it
    subgroups, registered, Current_Group, Executing_Group,
    Input_String, Parameter_List,
    result,             \* what Process_Command found
    executing,          \* the command the console thread runs itself
    Thread_Count, Thread_Info, ready, threadPc, threadArguments,
    \* History: what was typed, how much of it was processed, what each
    \* command thread was asked for; and the failures so far.
    typed, taken, asked, faults

ringVars   == <<Rx_Buffer, Rx_In_Index, Rx_Out_Index, Rx_Buffers_Free, driver, receive, typed>>
menuVars   == <<subgroups, registered>>
lineVars   == <<Current_Group, Executing_Group, Input_String, Parameter_List, result>>
threadVars == <<Thread_Count, Thread_Info, ready, threadPc, threadArguments, asked>>
consoleVars == <<ringVars, menuVars, lineVars, threadVars, cmdPc, position,
                 CLI_Mutex, executing, taken, faults>>

Menu      == Groups \union {Root}
Entries   == Menu \union Builtins \union {"none"} \union
             UNION {{GroupCommands[g][i] : i \in DOMAIN GroupCommands[g]} : g \in Menu}
NoCommand == [command |-> "none", arguments |-> <<>>]
NoResult  == [ok |-> FALSE, entry |-> "none", group |-> Root, used |-> 0]

\* PAL_Initialize and QCLI_Initialize: both buffers are queued with the driver.
ConsoleInit ==
    /\ Rx_Buffer = [i \in 0..(RxBuffers - 1) |-> <<>>]
    /\ Rx_In_Index = 0 /\ Rx_Out_Index = 0
    /\ Rx_Buffers_Free = RxBuffers
    /\ driver = [i \in 1..RxBuffers |-> i - 1]
    /\ receive = FALSE
    /\ cmdPc = "boot" /\ position = 1
    /\ CLI_Mutex = FALSE
    /\ subgroups = [g \in Menu |-> <<>>] /\ registered = 0
    /\ Current_Group = Root /\ Executing_Group = Root
    /\ Input_String = <<>> /\ Parameter_List = <<>>
    /\ result = NoResult /\ executing = NoCommand
    /\ Thread_Count = 0
    /\ Thread_Info = [command |-> "none", first |-> 1, count |-> 0]
    /\ ready = FALSE
    /\ threadPc = [t \in CommandThreads |-> "stopped"]
    /\ threadArguments = [t \in CommandThreads |-> <<>>]
    /\ typed = <<>> /\ taken = 0
    /\ asked = [t \in CommandThreads |-> <<>>]
    /\ faults = 0

-----------------------------------------------------------------------------
(* Receiving.                                                              *)

NextIndex(i) == IF i + 1 = RxBuffers THEN 0 ELSE i + 1

\* Uart_Rx_CB: the driver has filled its first buffer.
UartRxCB(keys) ==
    /\ driver # <<>>
    /\ Len(typed) + Len(keys) <= MaxTyped
    /\ Rx_Buffer' = [Rx_Buffer EXCEPT ![Head(driver)] = keys]
    /\ driver' = Tail(driver)
    /\ typed' = typed \o keys
    /\ \/ /\ Rx_Buffers_Free # 0
          /\ Rx_In_Index' = NextIndex(Rx_In_Index)
          /\ Rx_Buffers_Free' = Rx_Buffers_Free - 1
          /\ receive' = TRUE
       \/ /\ Rx_Buffers_Free = 0
          /\ UNCHANGED <<Rx_In_Index, Rx_Buffers_Free, receive>>
    /\ UNCHANGED <<Rx_Out_Index, menuVars, lineVars, threadVars, cmdPc, position,
                   CLI_Mutex, executing, taken, faults>>

\* app_init creates the event only after the UART has begun to receive.
SignalInit ==
    /\ cmdPc = "boot"
    /\ receive' = FALSE
    /\ cmdPc' = "register"
    /\ UNCHANGED <<Rx_Buffer, Rx_In_Index, Rx_Out_Index, Rx_Buffers_Free, driver, typed,
                   menuVars, lineVars, threadVars, position, CLI_Mutex, executing,
                   taken, faults>>

\* Mutant: a buffer is free, when all of them should be.
RingHasRoom == Rx_Buffers_Free # 0

RingEmpty == Rx_Buffers_Free = RxBuffers

\* cmd_thread's loop: "check" the ring, "wait" for a buffer, process it,
\* "release" it and "requeue" it with the driver.
CheckRing ==
    /\ cmdPc = "check"
    /\ cmdPc' = IF RingEmpty THEN "wait" ELSE "lock"
    /\ UNCHANGED <<ringVars, menuVars, lineVars, threadVars, position, CLI_Mutex,
                   executing, taken, faults>>

WaitForData ==
    /\ cmdPc = "wait"
    /\ receive
    /\ receive' = FALSE
    /\ cmdPc' = "check"
    /\ UNCHANGED <<Rx_Buffer, Rx_In_Index, Rx_Out_Index, Rx_Buffers_Free, driver, typed,
                   menuVars, lineVars, threadVars, position, CLI_Mutex, executing,
                   taken, faults>>

ReleaseBuffer ==
    /\ cmdPc = "release"
    /\ Rx_Out_Index' = NextIndex(Rx_Out_Index)
    /\ Rx_Buffers_Free' = Rx_Buffers_Free + 1
    /\ cmdPc' = "requeue"
    /\ UNCHANGED <<Rx_Buffer, Rx_In_Index, driver, receive, typed, menuVars, lineVars,
                   threadVars, position, CLI_Mutex, executing, taken, faults>>

\* Mutant: the index after it was moved on.
NextOutIndex == Rx_Out_Index

\* CurrentIndex is the index before Rx_Out_Index.
CurrentIndex == IF Rx_Out_Index = 0 THEN RxBuffers - 1 ELSE Rx_Out_Index - 1

RequeueBuffer ==
    /\ cmdPc = "requeue"
    /\ driver' = Append(driver, CurrentIndex)
    /\ cmdPc' = "check"
    /\ UNCHANGED <<Rx_Buffer, Rx_In_Index, Rx_Out_Index, Rx_Buffers_Free, receive, typed,
                   menuVars, lineVars, threadVars, position, CLI_Mutex, executing,
                   taken, faults>>

-----------------------------------------------------------------------------
(* The menu.                                                               *)

IsRegistered(g) ==
    \/ g = Root
    \/ \E p \in DOMAIN subgroups : \E i \in DOMAIN subgroups[p] : subgroups[p][i] = g

\* QCLI_Register_Command_Group, called by start-up for one group after the
\* other; a group whose parent was refused is not tried.
RegisterCommandGroup ==
    /\ cmdPc = "register"
    /\ registered < Len(Registrations)
    /\ registered' = registered + 1
    /\ LET parent == Registrations[registered + 1][1]
           group  == Registrations[registered + 1][2]
       IN \/ /\ IsRegistered(parent)
             /\ subgroups' = [subgroups EXCEPT ![parent] = Append(@, group)]
             /\ UNCHANGED faults
          \/ /\ IsRegistered(parent)        \* malloc fails
             /\ faults < MaxFaults
             /\ faults' = faults + 1
             /\ UNCHANGED subgroups
          \/ /\ ~IsRegistered(parent)
             /\ UNCHANGED <<subgroups, faults>>
    /\ UNCHANGED <<ringVars, lineVars, threadVars, cmdPc, position, CLI_Mutex,
                   executing, taken>>

\* QCLI_Display_Command_List ends start-up: the console thread runs.
DisplayCommandList ==
    /\ cmdPc = "register"
    /\ registered = Len(Registrations)
    /\ cmdPc' = "check"
    /\ UNCHANGED <<ringVars, menuVars, lineVars, threadVars, position, CLI_Mutex,
                   executing, taken, faults>>

Common(g) == IF g = Root THEN RootCommands ELSE CommonCommands

\* Display_Command_List numbers from COMMAND_START_INDEX, which is 0, the
\* common commands, the group's own and its subgroups.
Listed(g) == Common(g) \o GroupCommands[g] \o subgroups[g]

NotFound == [found |-> FALSE]
Found(entry, number) == [found |-> TRUE, entry |-> entry, number |-> number]

FindByNumber(g, number) ==
    LET inGroup == number - Len(Common(g))
        inList  == inGroup - Len(GroupCommands[g])
    IN CASE number < 0 -> NotFound
         [] number >= 0 /\ inGroup < 0 -> Found(Common(g)[number + 1], number)
         [] inGroup >= 0 /\ inList < 0 -> Found(GroupCommands[g][inGroup + 1], number)
         [] inList \in 0..(Len(subgroups[g]) - 1) -> Found(subgroups[g][inList + 1], number)
         [] inList >= Len(subgroups[g]) -> NotFound

\* The first entry of that name; Integer_Value becomes its number.
FindByName(g, word) ==
    LET named == {i \in DOMAIN Listed(g) : NameOf[Listed(g)[i]] = word}
        first == CHOOSE i \in named : \A j \in named : i <= j
    IN IF named = {} THEN NotFound ELSE Found(Listed(g)[first], first - 1)

FindCommand(g, word) ==
    LET integer == StringToInteger(word)
    IN IF integer.valid THEN FindByNumber(g, integer.value) ELSE FindByName(g, word)

\* Process_Command follows the words down the groups from Current_Group until
\* one names a command; group is Executing_Group, used the words read.
Results == [ok : BOOLEAN, entry : Entries, group : Menu, used : Nat]
NextWord(word) == [r \in Results |->
    LET find == FindCommand(r.group, word)
    IN IF ~r.ok \/ r.entry \notin Menu THEN r
       ELSE IF ~find.found THEN [r EXCEPT !.ok = FALSE, !.used = @ + 1]
       ELSE [ok |-> TRUE, entry |-> find.entry, used |-> r.used + 1,
             group |-> IF find.entry \in Menu THEN find.entry ELSE r.group]]

Follow[words \in Seq(Seq(Characters \union {Nul}))] ==
    Through([i \in DOMAIN words |-> NextWord(words[i])],
            [ok |-> TRUE, entry |-> Current_Group, group |-> Current_Group, used |-> 0])

-----------------------------------------------------------------------------
(* The input line: QCLI_Process_Input_Data keeps the mutex over a whole    *)
(* buffer, except while it runs a command itself.                          *)

\* Mutant: the newest buffer.
ReadingNewest == IF Rx_In_Index = 0 THEN RxBuffers - 1 ELSE Rx_In_Index - 1

\* The buffer being processed.
Reading == Rx_Out_Index

\* Mutant: the place of the terminating null is used too.
HasRoomForNull == Len(Input_String) <= MaxLength

HasRoom == Len(Input_String) < MaxLength

TakeLock ==
    /\ cmdPc = "lock"
    /\ ~CLI_Mutex
    /\ CLI_Mutex' = TRUE
    /\ position' = 1
    /\ cmdPc' = "feed"
    /\ UNCHANGED <<ringVars, menuVars, lineVars, threadVars, executing, taken, faults>>

EndOfBuffer ==
    /\ cmdPc = "feed"
    /\ position > Len(Rx_Buffer[Reading])
    /\ CLI_Mutex' = FALSE
    /\ cmdPc' = "release"
    /\ UNCHANGED <<ringVars, menuVars, lineVars, threadVars, position, executing,
                   taken, faults>>

Feeding == cmdPc = "feed" /\ position <= Len(Rx_Buffer[Reading])
Key     == Rx_Buffer[Reading][position]

\* A character that finds the line full is dropped, as is a control code.
EditLine ==
    /\ Feeding
    /\ Key # EndOfLine
    /\ Input_String' =
          IF Key = BackSpace
          THEN SubSeq(Input_String, 1, Len(Input_String) - 1)
          ELSE IF HasRoom THEN Append(Input_String, Key) ELSE Input_String
    /\ position' = position + 1
    /\ taken' = taken + 1
    /\ UNCHANGED <<ringVars, menuVars, threadVars, cmdPc, CLI_Mutex, executing, faults,
                   Current_Group, Executing_Group, Parameter_List, result>>

\* Process_Command parses the line and looks the words up; result is what its
\* locals then say.
ProcessCommand ==
    /\ Feeding
    /\ Key = EndOfLine
    /\ LET line == Parse(Input_String)
       IN /\ Parameter_List' = line.words
          /\ IF line.ok /\ line.words # <<>>
             THEN result' = Follow[line.words]
             ELSE result' = [NoResult EXCEPT !.group = Executing_Group]
          /\ Executing_Group' = result'.group
    /\ cmdPc' = "execute"
    /\ UNCHANGED <<ringVars, menuVars, threadVars, Current_Group, Input_String, position,
                   CLI_Mutex, executing, taken, faults>>

\* After the line: Input_String is zeroed, and with it the text of the
\* parameters, which point into it.
LineDone ==
    /\ Input_String' = <<>>
    /\ Parameter_List' = [i \in DOMAIN Parameter_List |-> <<>>]
    /\ position' = position + 1
    /\ taken' = taken + 1
    /\ result' = NoResult
    /\ cmdPc' = "feed"

\* The line cannot be parsed, is empty, or names nothing.
RejectLine ==
    /\ cmdPc = "execute"
    /\ ~result.ok
    /\ LineDone
    /\ UNCHANGED <<ringVars, menuVars, threadVars, Current_Group, Executing_Group,
                   CLI_Mutex, executing, faults>>

EnterGroup ==
    /\ cmdPc = "execute"
    /\ result.ok /\ result.entry \in Menu
    /\ Current_Group' = result.entry
    /\ LineDone
    /\ UNCHANGED <<ringVars, menuVars, threadVars, Executing_Group, CLI_Mutex, executing,
                   faults>>

-----------------------------------------------------------------------------
(* Execute_Command without a thread: the mutex is released for the call.   *)

Arguments == SubSeq(Parameter_List, result.used + 1, Len(Parameter_List))

\* Mutant: the mutex is kept.
KeepMutexForCommand == UNCHANGED CLI_Mutex

ReleaseMutexForCommand == CLI_Mutex' = FALSE

StartCommand ==
    /\ cmdPc = "execute"
    /\ result.ok /\ result.entry \notin Menu \union StartThread
    /\ executing' = [command |-> result.entry, arguments |-> Arguments]
    /\ ReleaseMutexForCommand
    /\ cmdPc' = "running"
    /\ UNCHANGED <<ringVars, menuVars, threadVars, lineVars, position, result,
                   taken, faults>>

Parent(g) == CHOOSE p \in DOMAIN subgroups : \E i \in DOMAIN subgroups[p] : subgroups[p][i] = g

\* Exit with parameter 1 resets the board instead of returning.
Resets == /\ executing.command = "Exit"
          /\ executing.arguments # <<>>
          /\ LET n == StringToInteger(executing.arguments[1])
             IN n.valid /\ n.value = 1

\* The command returns and Execute_Command takes the mutex back.  Command_Up
\* and Command_Root move Current_Group; the rest leave the console alone.
CommandReturns ==
    /\ cmdPc = "running"
    /\ ~Resets
    /\ ~CLI_Mutex
    /\ CLI_Mutex' = TRUE
    /\ Current_Group' =
          CASE executing.command = "Up" /\ Current_Group # Root -> Parent(Current_Group)
            [] executing.command = "Root" -> Root
            [] OTHER -> Current_Group
    /\ executing' = NoCommand
    /\ LineDone
    /\ UNCHANGED <<ringVars, menuVars, threadVars, Executing_Group, faults>>

\* PAL_Reset: the board starts again, and what was typed ahead is gone.
Reset ==
    /\ cmdPc = "running"
    /\ Resets
    /\ ~CLI_Mutex
    /\ Rx_Buffer' = [i \in 0..(RxBuffers - 1) |-> <<>>]
    /\ Rx_In_Index' = 0 /\ Rx_Out_Index' = 0
    /\ Rx_Buffers_Free' = RxBuffers
    /\ driver' = [i \in 1..RxBuffers |-> i - 1]
    /\ receive' = FALSE
    /\ cmdPc' = "boot" /\ position' = 1
    /\ subgroups' = [g \in Menu |-> <<>>] /\ registered' = 0
    /\ Current_Group' = Root /\ Executing_Group' = Root
    /\ Input_String' = <<>> /\ Parameter_List' = <<>>
    /\ result' = NoResult /\ executing' = NoCommand
    /\ Thread_Count' = 0
    /\ Thread_Info' = [command |-> "none", first |-> 1, count |-> 0]
    /\ ready' = FALSE
    /\ threadPc' = [t \in CommandThreads |-> "stopped"]
    /\ threadArguments' = [t \in CommandThreads |-> <<>>]
    /\ asked' = threadArguments'
    /\ typed' = <<>> /\ taken' = 0
    /\ UNCHANGED <<CLI_Mutex, faults>>

-----------------------------------------------------------------------------
(* Execute_Command with a thread, under the mutex.                         *)

ThreadLine ==
    /\ cmdPc = "execute"
    /\ result.ok /\ result.entry \in StartThread
    /\ UNCHANGED <<ringVars, menuVars, Current_Group, Executing_Group, CLI_Mutex, executing>>

\* Mutant: the signal is left as it is.
KeepReady == UNCHANGED ready

\* A late signal of an earlier thread must not stand for this one's.
ClearReady == ready' = FALSE

ThreadInfo == [command |-> result.entry, first |-> result.used + 1,
               count |-> Len(Parameter_List) - result.used]

\* "Max threads reached."
TooManyThreads ==
    /\ ThreadLine
    /\ Thread_Count >= MaxThreads
    /\ LineDone
    /\ UNCHANGED <<threadVars, faults>>

\* Mutant: the thread is counted before its creation is known.
RefusedButCounted == Thread_Count' = Thread_Count + 1

\* A thread that could not be created is not counted.
Refused == UNCHANGED Thread_Count

ThreadRefused ==
    /\ ThreadLine
    /\ Thread_Count < MaxThreads
    /\ faults < MaxFaults
    /\ faults' = faults + 1
    /\ ClearReady
    /\ Thread_Info' = ThreadInfo
    /\ LineDone
    /\ Refused
    /\ UNCHANGED <<threadPc, threadArguments, asked>>

CreateThread(t) ==
    /\ ThreadLine
    /\ Thread_Count < MaxThreads
    /\ threadPc[t] = "stopped"
    /\ Thread_Count' = Thread_Count + 1
    /\ ClearReady
    /\ Thread_Info' = ThreadInfo
    /\ threadPc' = [threadPc EXCEPT ![t] = "created"]
    /\ asked' = [asked EXCEPT ![t] = Arguments]
    /\ cmdPc' = "waitReady"
    /\ UNCHANGED <<threadArguments, Input_String, Parameter_List, position, result, taken,
                   faults>>

\* Mutant: under the mutex, like the end of the thread.
MayCopyUnderMutex(t) == threadPc[t] = "created" /\ ~CLI_Mutex

\* Command_Thread copies what Thread_Info points to before it signals, and does
\* not ask for the mutex: the console thread holds it and waits.
MayCopy(t) == threadPc[t] = "created"

CopyThreadInfo(t) ==
    /\ MayCopy(t)
    /\ threadArguments' = [threadArguments EXCEPT ![t] =
          SubSeq(Parameter_List, Thread_Info.first, Thread_Info.first + Thread_Info.count - 1)]
    /\ ready' = TRUE
    /\ threadPc' = [threadPc EXCEPT ![t] = "running"]
    /\ UNCHANGED <<ringVars, menuVars, lineVars, cmdPc, position, CLI_Mutex, executing,
                   Thread_Count, Thread_Info, asked, taken, faults>>

ThreadReady ==
    /\ cmdPc = "waitReady"
    /\ ready
    /\ LineDone
    /\ UNCHANGED <<ringVars, menuVars, threadVars, Current_Group, Executing_Group, CLI_Mutex,
                   executing, faults>>

\* The thread's command is over; whether it ever is, is its own affair.
ThreadFinishes(t) ==
    /\ threadPc[t] = "running"
    /\ threadPc' = [threadPc EXCEPT ![t] = "finished"]
    /\ UNCHANGED <<ringVars, menuVars, lineVars, cmdPc, position, CLI_Mutex, executing,
                   Thread_Count, Thread_Info, ready, threadArguments, asked, taken, faults>>

ThreadStops(t) ==
    /\ threadPc[t] = "finished"
    /\ ~CLI_Mutex
    /\ Thread_Count' = Thread_Count - 1
    /\ threadPc' = [threadPc EXCEPT ![t] = "stopped"]
    /\ UNCHANGED <<ringVars, menuVars, lineVars, cmdPc, position, CLI_Mutex, executing,
                   Thread_Info, ready, threadArguments, asked, taken, faults>>

-----------------------------------------------------------------------------

ConsoleThread ==
    \/ SignalInit \/ RegisterCommandGroup \/ DisplayCommandList
    \/ CheckRing \/ WaitForData \/ ReleaseBuffer \/ RequeueBuffer
    \/ TakeLock \/ EndOfBuffer \/ EditLine \/ ProcessCommand \/ RejectLine \/ EnterGroup
    \/ StartCommand \/ TooManyThreads \/ ThreadRefused \/ ThreadReady
    \/ \E t \in CommandThreads : CreateThread(t)

ConsoleNext ==
    \/ ConsoleThread
    \/ CommandReturns \/ Reset
    \/ \E keys \in Keystrokes : UartRxCB(keys)
    \/ \E t \in CommandThreads : CopyThreadInfo(t) \/ ThreadFinishes(t) \/ ThreadStops(t)

\* The console thread keeps running, and so does a command thread outside its
\* command, which gets the mutex in its turn although the console thread takes it
\* again and again.  A command need not return, except the built-in ones.
ConsoleFairness ==
    /\ WF_consoleVars(ConsoleThread)
    /\ WF_consoleVars(executing.command \in Builtins /\ (CommandReturns \/ Reset))
    /\ \A t \in CommandThreads :
          /\ WF_consoleVars(CopyThreadInfo(t))
          /\ SF_consoleVars(ThreadStops(t))

ConsoleSpec == ConsoleInit /\ [][ConsoleNext]_consoleVars /\ ConsoleFairness

-----------------------------------------------------------------------------
(* Properties.                                                             *)

CmdPcs == {"boot", "register", "check", "wait", "lock", "feed", "execute", "running",
           "waitReady", "release", "requeue"}

\* Type correctness, with the sizes of the C arrays: the line fits
\* Input_String and the words fit Parameter_List.
ConsoleTypeOK ==
    /\ Rx_In_Index \in 0..(RxBuffers - 1) /\ Rx_Out_Index \in 0..(RxBuffers - 1)
    /\ Rx_Buffers_Free \in 0..RxBuffers
    /\ receive \in BOOLEAN /\ ready \in BOOLEAN /\ CLI_Mutex \in BOOLEAN
    /\ cmdPc \in CmdPcs
    /\ Current_Group \in Menu /\ Executing_Group \in Menu
    /\ Len(Input_String) <= MaxLength
    /\ Len(Parameter_List) <= MaxParameters + 1
    /\ Thread_Count \in 0..MaxThreads
    /\ threadPc \in [CommandThreads -> {"stopped", "created", "running", "finished"}]

\* The ring, its counter and the driver's queue describe the same buffers: every
\* buffer is queued with the driver, filled, or about to be queued again, and
\* the driver fills them in the order the console thread empties them.  So
\* Uart_Rx_CB never finds Rx_Buffers_Free at zero and drops what was typed.
Wrapped(i) == IF i >= RxBuffers THEN i - RxBuffers ELSE i
RingAgrees ==
    /\ Len(driver) = IF cmdPc = "requeue" THEN Rx_Buffers_Free - 1 ELSE Rx_Buffers_Free
    /\ \A i \in DOMAIN driver : driver[i] = Wrapped(Rx_In_Index + i - 1)
    /\ Rx_In_Index = Wrapped(Rx_Out_Index + RxBuffers - Rx_Buffers_Free)

\* Whatever arrives while a buffer is processed, also while a command runs or a
\* thread starts, the next character processed is the next one typed.
ProcessesWhatWasTyped ==
    /\ cmdPc \in {"feed", "execute", "running", "waitReady"}
    /\ position <= Len(Rx_Buffer[Reading])
    => Key = typed[taken + 1]

\* The console thread looks at the ring and then waits, and the event is created
\* after the first buffers are queued: yet it never sleeps on a filled buffer
\* without its event set.
NoLostWakeup == cmdPc = "wait" /\ Rx_Buffers_Free # RxBuffers => receive

\* Thread_Count counts the command threads that exist, through refused creations
\* and late ends; it never passes MAXIMUM_THREAD_COUNT.
ThreadsCounted ==
    /\ Thread_Count = Cardinality({t \in CommandThreads : threadPc[t] # "stopped"})
    /\ Thread_Count <= MaxThreads

\* A command thread runs with the parameters of the line that started it, although
\* Thread_Info points into the one input line, and they fit the thread's own
\* list, which is one shorter than Parameter_List.
ThreadGetsItsParameters ==
    \A t \in CommandThreads :
        threadPc[t] \in {"running", "finished"} =>
            /\ threadArguments[t] = asked[t]
            /\ Len(threadArguments[t]) <= MaxParameters

\* A line without quotes and backslashes is read as its words: no word begins or
\* ends with a space or is empty, nothing but spaces lies between them, and only
\* words past the list's end are lost; the parser stops at the line's null.
SpaceCount(s) == Cardinality({i \in DOMAIN s : s[i] = Space})
PlainLinesAreWords ==
    (\A i \in DOMAIN Input_String : Input_String[i] \notin {Quote, Backslash}) =>
        LET line   == Parse(Input_String)
            starts == {i \in DOMAIN Input_String :
                          /\ Input_String[i] # Space
                          /\ i = 1 \/ Input_String[i - 1] = Space}
            kept   == {i \in starts : Cardinality({j \in starts : j < i}) <= MaxParameters}
        IN /\ line.ok
           /\ line.index <= Len(Input_String) + 1
           /\ Len(line.words) = Cardinality(kept)
           /\ \A i \in kept :
                 LET word == line.words[Cardinality({j \in starts : j <= i})]
                     end  == i + Len(word)
                 IN /\ word = SubSeq(Input_String, i, end - 1)
                    /\ SpaceCount(word) = 0
                    /\ end > Len(Input_String) \/ Input_String[end] = Space

\* Everything typed is processed once typing pauses, unless a command runs on for
\* ever: no buffer stays filled, no command thread keeps the console waiting.
LinesProcessed == []<>(taken = Len(typed) \/ cmdPc = "running")

\* A command thread that is done ends, even if the console runs a command that
\* never does.
ThreadsStop ==
    \A t \in CommandThreads : threadPc[t] = "finished" ~> threadPc[t] # "finished"

=============================================================================
