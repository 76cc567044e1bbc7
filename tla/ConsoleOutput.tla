--------------------------- MODULE ConsoleOutput ---------------------------
(***************************************************************************)
(* Printing on the console: QCLI_Printf (qcli.c) with the mutex it holds   *)
(* while it writes, PAL_Console_Write (pal.c), which waits until the UART  *)
(* has sent what it was given, and the UART's interrupts.                  *)
(*                                                                         *)
(* A format is a sequence of "text" and "nl".  What is written comes in    *)
(* pieces, one for each transmission: the end of a line, a group's name    *)
(* with the colon behind it, and a run of text.                            *)
(***************************************************************************)
EXTENDS Integers, SequencesExt

CONSTANTS
    Threads, NoThread,  \* who prints
    Groups,             \* the groups that have a handle to print with
    Main,               \* MAIN_PRINTF_HANDLE
    NoGroup,            \* NULL
    Bytes,              \* the length of a piece
    MaxFaults           \* bound: failures of any call that may fail once

ASSUME OutputAssumption ==
    /\ NoThread \notin Threads
    /\ Main \notin Groups /\ NoGroup \notin Groups \union {Main}
    /\ Bytes \in Nat \ {0}
    /\ MaxFaults \in Nat

VARIABLES
    \* qcli.c: CLI_Mutex, Current_Printf_Group, Printf_New_Line.
    owner, printfGroup, newLine,
    \* Each thread: where it is, what it prints, the pieces left to write.
    pc, call, pieces,
    \* pal.c: BytesToTx, PAL_EVENT_MASK_TRANSMIT; the driver's bytes to send
    \* (external).
    bytesToTx, transmitSignal, uartLeft,
    \* History: the line the terminal shows; and the failures so far.
    line, faults

outputVars == <<owner, printfGroup, newLine, pc, call, pieces,
                bytesToTx, transmitSignal, uartLeft, line>>

Eol       == [kind |-> "eol", group |-> Main]
Prefix(g) == [kind |-> "prefix", group |-> g]
Text(g)   == [kind |-> "text", group |-> g]

\* What a line shows: the group it names, whose text it holds, and whether a
\* piece of it could not be transmitted.
FreshLine == [group |-> Main, texts |-> {}, damaged |-> FALSE]

NoCall == [group |-> Main, format |-> <<>>, echo |-> FALSE]

OutputInit ==
    /\ owner = NoThread /\ printfGroup = NoGroup /\ newLine = FALSE
    /\ pc = [t \in Threads |-> "idle"]
    /\ call = [t \in Threads |-> NoCall]
    /\ pieces = [t \in Threads |-> <<>>]
    /\ bytesToTx = 0 /\ transmitSignal = FALSE /\ uartLeft = 0
    /\ line = FreshLine
    /\ faults = 0

-----------------------------------------------------------------------------
(* What QCLI_Printf writes.                                                *)

\* Mutant: every group goes on where another one stopped.
EndsOthersLineNever(g) == FALSE

EndsOthersLine(g) == g # printfGroup /\ newLine

Header(g, format) ==
    (IF EndsOthersLine(g) THEN <<Eol>> ELSE <<>>) \o
    (IF g # printfGroup /\ g # Main /\ Head(format) # "nl" THEN <<Prefix(g)>> ELSE <<>>)

\* A line that is followed by more than an empty line names the group again.
Body(g, format) ==
    FlattenSeq([i \in DOMAIN format |->
        IF format[i] = "text" THEN <<Text(g)>>
        ELSE IF g # Main /\ i < Len(format) /\ format[i + 1] # "nl"
             THEN <<Eol, Prefix(g)>> ELSE <<Eol>>])

\* Written without the prefixes: PAL_Console_Write itself.
Plain(format) ==
    [i \in DOMAIN format |-> IF format[i] = "text" THEN Text(Main) ELSE Eol]

Shows(shown, piece) ==
    IF piece.kind = "eol" THEN FreshLine
    ELSE IF shown.damaged THEN shown
    ELSE IF piece.kind = "prefix" THEN [shown EXCEPT !.group = piece.group]
    ELSE [shown EXCEPT !.texts = @ \union {piece.group}]

-----------------------------------------------------------------------------
(* The calls.  Each is a conjunct of a step of the thread that calls.      *)

\* Mutant: a NULL handle is not looked at.
MayPrintAlways(g) == TRUE

\* A group that could not be registered prints nothing.
MayPrint(g) == g # NoGroup

QCLIPrintf(t, g, format) ==
    /\ IF MayPrint(g)
       THEN /\ pc' = [pc EXCEPT ![t] = "lock"]
            /\ call' = [call EXCEPT ![t] = [group |-> g, format |-> format, echo |-> FALSE]]
       ELSE UNCHANGED <<pc, call>>
    /\ UNCHANGED <<owner, printfGroup, newLine, pieces, bytesToTx, transmitSignal,
                   uartLeft, line>>

\* QCLI_Process_Input_Data echoes what was typed, and Exit takes its leave,
\* under the mutex.
Echo(t, format) ==
    /\ pc' = [pc EXCEPT ![t] = "lock"]
    /\ call' = [call EXCEPT ![t] = [group |-> Main, format |-> format, echo |-> TRUE]]
    /\ UNCHANGED <<owner, printfGroup, newLine, pieces, bytesToTx, transmitSignal,
                   uartLeft, line>>

\* PAL_CONSOLE_WRITE_STRING_LITERAL: nothing keeps other threads away.
WriteLiteral(t, format) ==
    /\ pc' = [pc EXCEPT ![t] = "write"]
    /\ pieces' = [pieces EXCEPT ![t] = Plain(format)]
    /\ UNCHANGED <<owner, printfGroup, newLine, call, bytesToTx, transmitSignal,
                   uartLeft, line>>

-----------------------------------------------------------------------------
(* The steps of a thread that prints.                                      *)

\* Mutant: the mutex is not waited for.
MutexFreeAlways == TRUE

MutexFree == owner = NoThread

TakeLock(t) ==
    /\ pc[t] = "lock"
    /\ MutexFree
    /\ owner' = t
    /\ pc' = [pc EXCEPT ![t] = "write"]
    /\ LET format == call[t].format
           g      == call[t].group
       IN IF call[t].echo
          THEN /\ pieces' = [pieces EXCEPT ![t] = Plain(format)]
               /\ UNCHANGED <<printfGroup, newLine>>
          ELSE /\ pieces' = [pieces EXCEPT ![t] = Header(g, format) \o Body(g, format)]
               /\ newLine' = (Last(format) = "text")
               /\ printfGroup' = IF newLine' THEN g ELSE Main
    /\ call' = [call EXCEPT ![t] = NoCall]
    /\ UNCHANGED <<bytesToTx, transmitSignal, uartLeft, line, faults>>

\* PAL_Console_Write notes the length before it transmits.
Transmit(t) ==
    /\ pc[t] = "write"
    /\ pieces[t] # <<>>
    /\ bytesToTx' = Bytes
    /\ uartLeft' = uartLeft + Bytes
    /\ line' = Shows(line, Head(pieces[t]))
    /\ pieces' = [pieces EXCEPT ![t] = Tail(@)]
    /\ pc' = [pc EXCEPT ![t] = "wait"]
    /\ UNCHANGED <<owner, printfGroup, newLine, call, transmitSignal, faults>>

\* The driver refuses: the piece is lost and nothing is waited for.
TransmitRefused(t) ==
    /\ pc[t] = "write"
    /\ pieces[t] # <<>>
    /\ faults < MaxFaults
    /\ faults' = faults + 1
    /\ bytesToTx' = Bytes
    /\ line' = [FreshLine EXCEPT !.damaged = TRUE]
    /\ pieces' = [pieces EXCEPT ![t] = Tail(@)]
    /\ UNCHANGED <<owner, printfGroup, newLine, pc, call, transmitSignal, uartLeft>>

\* Mutant: what is left is looked at before it goes down.
AllSentBefore(sent) == bytesToTx = 0

AllSent(sent) == bytesToTx - sent = 0

\* Uart_Tx_CB: an interrupt after some bytes, or after all of them.
UartTxCB(sent) ==
    /\ sent \in 1..uartLeft
    /\ uartLeft' = uartLeft - sent
    /\ IF bytesToTx # 0
       THEN /\ bytesToTx' = bytesToTx - sent
            /\ transmitSignal' = (transmitSignal \/ AllSent(sent))
       ELSE UNCHANGED <<bytesToTx, transmitSignal>>
    /\ UNCHANGED <<owner, printfGroup, newLine, pc, call, pieces, line, faults>>

WaitSent(t) ==
    /\ pc[t] = "wait"
    /\ transmitSignal
    /\ transmitSignal' = FALSE
    /\ pc' = [pc EXCEPT ![t] = "write"]
    /\ UNCHANGED <<owner, printfGroup, newLine, call, pieces, bytesToTx, uartLeft, line,
                   faults>>

\* Everything is written; QCLI_Printf releases the mutex.
Printed(t) ==
    /\ pc[t] = "write"
    /\ pieces[t] = <<>>
    /\ pc' = [pc EXCEPT ![t] = "idle"]
    /\ owner' = IF owner = t THEN NoThread ELSE owner
    /\ UNCHANGED <<printfGroup, newLine, call, pieces, bytesToTx, transmitSignal, uartLeft,
                   line, faults>>

OutputStep(t) ==
    TakeLock(t) \/ Transmit(t) \/ TransmitRefused(t) \/ WaitSent(t) \/ Printed(t)

=============================================================================
