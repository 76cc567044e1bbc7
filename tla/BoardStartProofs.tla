-------------------------- MODULE BoardStartProofs --------------------------
(***************************************************************************)
(* What holds of the board's start, whichever calls of the SDK fail and    *)
(* however often: what it becomes, that one thread at a time transmits     *)
(* although start-up writes without the mutex, and that every line that    *)
(* came through whole names the group of its text.                         *)
(***************************************************************************)
EXTENDS BoardStart, Iteration

(* The steps by what they change: the board, or only what is printed.      *)
OthersStep == StackPrints \/ TimerPrints \/ ListCommands \/ Typed \/ Exit \/ CommandPrints

LEMMA BoardStepKinds ==
  [BoardNext]_boardVars =>
      \/ MainThread \/ OthersStep \/ UNCHANGED boardVars
      \/ Printing \/ Interrupt
  BY DEF BoardNext, OthersStep

-----------------------------------------------------------------------------
(* The controller or the console. *)

(* What start-up has reached where it stands; each step relies on what the *)
(* one before it has left.                                                 *)
StartInv ==
    /\ mainPc \in MainPcs
    /\ mainPc \in {"uart", "greet", "peripherals", "adc", "pwm", "registered", "welcome",
                  "ble", "open"} => BluetoothStackID = 0
    /\ mainPc = "pairable" => ~authenticates
    /\ advertising <=> mainPc \in {"timer", "connect", "smoke", "read"}
    /\ timerSet => advertising
    /\ advertising \/ mainPc = "advertise" => loaded
    /\ advertising \/ mainPc \in {"service", "load", "advertise"} => authenticates
    /\ authenticates => pairable
    /\ pairable \/ serves \/ mainPc \in {"pairable", "close"} => BluetoothStackID # 0
    /\ BluetoothStackID # 0 => authenticates \/ mainPc \in {"pairable", "close"}
    /\ consolePc # "none" => mainPc = "ended"

LEMMA StartInit == BoardInit => StartInv
  BY DEF BoardInit, StartInv, MainPcs

LEMMA StartStep == StartInv /\ [BoardNext]_boardVars => StartInv'
<1> SUFFICES ASSUME StartInv, [BoardNext]_boardVars PROVE StartInv'
  OBVIOUS
<1> USE DEF StartInv, MainPcs, startVars, MainAt, Continue
<1>1. CASE UNCHANGED <<mainPc, startVars>>
  BY <1>1
<1>2. CASE OpenUart \/ Greet \/ RegisterPeripherals \/ RegisterGroups
             \/ PeripheralsRegistered \/ Welcome \/ RegisterBle
  BY <1>2 DEF OpenUart, Greet, RegisterPeripherals, RegisterGroups, RegisterUnder,
              PeripheralsRegistered, Welcome, RegisterBle
<1>3. CASE OpenStack
  BY <1>3 DEF OpenStack
<1>4. CASE SetPairable
  BY <1>4 DEF SetPairable
<1>5. CASE RegisterService
  BY <1>5 DEF RegisterService, BLE_IOService
<1>6. CASE CloseStack
  BY <1>6 DEF CloseStack, ClearStackID
<1>7. CASE LoadRecords
  BY <1>7 DEF LoadRecords
<1>8. CASE Advertise
  BY <1>8 DEF Advertise
<1>9. CASE StartTimer
  BY <1>9 DEF StartTimer
<1>10. CASE ConnectSavedBulb \/ LogSmoke \/ ReadSmoke
  BY <1>10 DEF ConnectSavedBulb, LogSmoke, ReadSmoke
<1>11. CASE InitializationFailed \/ AppStart
  BY <1>11 DEF InitializationFailed, AppStart
<1>12. CASE OthersStep
  BY <1>12 DEF OthersStep, StackPrints, TimerPrints, ListCommands, Typed, Exit,
               CommandPrints, ConsoleAt
<1>13. QED
  BY <1>1, <1>2, <1>3, <1>4, <1>5, <1>6, <1>7, <1>8, <1>9, <1>10, <1>11, <1>12,
     BoardStepKinds DEF MainThread, Printing, Interrupt, boardVars

LEMMA StartInvariant == BoardSpec => []StartInv
<1>1. QED
  BY StartInit, StartStep, PTL DEF BoardSpec

(* A board is the controller, whole, or falls back to the console.         *)
THEOREM ControllerOrConsoleHolds == BoardSpec => []ControllerOrConsole
<1>1. StartInv => ControllerOrConsole
  BY DEF StartInv, ControllerOrConsole
<1>2. QED
  BY <1>1, StartInvariant, PTL

-----------------------------------------------------------------------------
(* One transmission at a time. *)

(* Who prints at all: the main thread alone until the board advertises or  *)
(* has its console.  So whoever writes has the mutex, except start-up.     *)
Alone == ~advertising /\ consolePc = "none"

WriterInv ==
    /\ \A t \in Threads : pc[t] # "idle" => t = main \/ ~Alone
    /\ \A t \in Threads : pc[t] \in {"write", "wait"} => owner = t \/ (t = main /\ Alone)

OutputTypes ==
    /\ pc \in [Threads -> {"idle", "lock", "write", "wait"}]
    /\ bytesToTx \in Int /\ uartLeft \in Nat /\ transmitSignal \in BOOLEAN

OutputInv == OutputTypes /\ WriterInv /\ TransmitAgrees

LEMMA OutputInvInit == BoardInit => OutputInv
<1> SUFFICES ASSUME BoardInit PROVE OutputInv
  OBVIOUS
<1>0. pc \in [Threads -> {"idle", "lock", "write", "wait"}]
      /\ \A t \in Threads : pc[t] = "idle"
  BY DEF BoardInit, OutputInit
<1>1. bytesToTx = 0 /\ transmitSignal = FALSE /\ uartLeft = 0
  BY DEF BoardInit, OutputInit
<1>2. WriterInv /\ Waiting = {}
  BY <1>0 DEF WriterInv, Waiting
<1>3. OutputTypes
  <2>1. transmitSignal \in BOOLEAN
    BY <1>1
  <2>2. bytesToTx \in Int /\ uartLeft \in Nat
    BY <1>1
  <2>3. QED
    BY <1>0, <2>1, <2>2 DEF OutputTypes
<1>4. QED
  BY <1>1, <1>2, <1>3 DEF OutputInv, TransmitAgrees

(* No two threads write or wait.                                           *)
LEMMA OneWriter ==
  ASSUME OutputInv, NEW t \in Threads, NEW u \in Threads,
         pc[t] \in {"write", "wait"}, pc[u] \in {"write", "wait"}
  PROVE  t = u
  BY DEF OutputInv, WriterInv

(* A thread that is idle may call: it goes for the mutex, or, if it is the *)
(* main thread and stays alone, it writes.                                 *)
Calls(t) ==
    /\ pc[t] = "idle"
    /\ \/ pc' = pc
       \/ pc' = [pc EXCEPT ![t] = "lock"]
       \/ pc' = [pc EXCEPT ![t] = "write"] /\ t = main /\ Alone'
    /\ UNCHANGED <<owner, bytesToTx, transmitSignal, uartLeft>>

LEMMA MainCalls == StartInv /\ MainThread => Calls(main) /\ (Alone' => Alone)
<1> SUFFICES ASSUME StartInv, MainThread PROVE Calls(main) /\ (Alone' => Alone)
  OBVIOUS
<1> USE DEF Calls, QCLIPrintf, WriteLiteral, outputVars, startVars, MainAt, Silent, Log, Alone
<1>1. CASE OpenUart \/ RegisterPeripherals \/ RegisterBle
  BY <1>1 DEF OpenUart, RegisterPeripherals, RegisterBle
<1>2. CASE Greet \/ Welcome
  BY <1>2 DEF Greet, Welcome, StartInv, MainPcs
<1>3. CASE RegisterGroups \/ PeripheralsRegistered
  BY <1>3 DEF RegisterGroups, RegisterUnder, PeripheralsRegistered
<1>4. CASE OpenStack \/ SetPairable \/ RegisterService \/ CloseStack
  BY <1>4 DEF OpenStack, SetPairable, RegisterService, CloseStack
<1>5. CASE LoadRecords \/ StartTimer \/ ConnectSavedBulb \/ LogSmoke \/ ReadSmoke
             \/ InitializationFailed
  BY <1>5 DEF LoadRecords, StartTimer, ConnectSavedBulb, LogSmoke, ReadSmoke,
              InitializationFailed
<1>6. CASE Advertise
  BY <1>6 DEF Advertise, StartInv, MainPcs
<1>7. CASE AppStart
  BY <1>7 DEF AppStart, StartInv, MainPcs
<1>8. QED
  BY <1>1, <1>2, <1>3, <1>4, <1>5, <1>6, <1>7 DEF MainThread

LEMMA OthersCall ==
  StartInv /\ OthersStep => ~Alone /\ ~Alone' /\ \E t \in Threads \ {main} : Calls(t)
<1> SUFFICES ASSUME StartInv, OthersStep
             PROVE  ~Alone /\ ~Alone' /\ \E t \in Threads \ {main} : Calls(t)
  OBVIOUS
<1> USE BoardAssumption DEF Calls, QCLIPrintf, Echo, outputVars, startVars, Alone, ConsoleAt
<1>1. CASE StackPrints
  BY <1>1 DEF StackPrints
<1>2. CASE TimerPrints
  BY <1>2 DEF TimerPrints, StartInv
<1>3. CASE ListCommands \/ Typed \/ Exit \/ CommandPrints
  BY <1>3 DEF ListCommands, Typed, Exit, CommandPrints
<1>4. QED
  BY <1>1, <1>2, <1>3 DEF OthersStep

LEMMA CallKeepsInv ==
  ASSUME OutputInv, NEW t \in Threads, Calls(t), Alone' => Alone,
         t = main \/ ~Alone
  PROVE  OutputInv'
<1>1. OutputTypes'
  BY DEF OutputInv, OutputTypes, Calls
<1>2. WriterInv'
  BY DEF OutputInv, OutputTypes, WriterInv, Calls
<1>3. Waiting' = Waiting
  BY DEF OutputInv, OutputTypes, Waiting, Calls
<1>4. TransmitAgrees'
  <2>1. UNCHANGED <<bytesToTx, transmitSignal, uartLeft>>
    BY DEF Calls
  <2>2. TransmitAgrees
    BY DEF OutputInv
  <2>3. QED
    BY <1>3, <2>1, <2>2 DEF TransmitAgrees
<1>5. QED
  BY <1>1, <1>2, <1>4 DEF OutputInv

(* The steps of a thread that prints, and the UART's interrupt.            *)
LEMMA PrintKeepsInv ==
  ASSUME OutputInv, NEW t \in Threads, OutputStep(t), Alone' <=> Alone
  PROVE  OutputInv'
<1> USE DEF OutputInv, OutputTypes
<1>1. CASE TakeLock(t)
  <2>1. WriterInv'
    BY <1>1, OutputAssumption DEF TakeLock, WriterInv, MutexFree
  <2>2. Waiting' = Waiting
    BY <1>1 DEF TakeLock, Waiting
  <2>3. QED
    BY <1>1, <2>1, <2>2 DEF TakeLock, TransmitAgrees
<1>2. CASE Transmit(t)
  <2>1. Waiting = {}
    BY <1>2, OneWriter DEF Transmit, Waiting
  <2>2. Waiting' = {t}
    BY <1>2, <2>1 DEF Transmit, Waiting
  <2>3. WriterInv'
    BY <1>2 DEF Transmit, WriterInv
  <2>4. QED
    BY <1>2, <2>1, <2>2, <2>3, OutputAssumption DEF Transmit, TransmitAgrees
<1>3. CASE TransmitRefused(t)
  <2>1. Waiting = {}
    BY <1>3, OneWriter DEF TransmitRefused, Waiting
  <2>2. Waiting' = {}
    BY <1>3, <2>1 DEF TransmitRefused, Waiting
  <2>3. WriterInv'
    BY <1>3 DEF TransmitRefused, WriterInv
  <2>4. QED
    BY <1>3, <2>1, <2>2, <2>3, OutputAssumption DEF TransmitRefused, TransmitAgrees
<1>4. CASE WaitSent(t)
  <2>1. Waiting = {t}
    BY <1>4 DEF WaitSent, Waiting, TransmitAgrees
  <2>2. Waiting' = {}
    BY <1>4, <2>1 DEF WaitSent, Waiting
  <2>3. WriterInv'
    BY <1>4 DEF WaitSent, WriterInv
  <2>4. uartLeft = 0
    BY <1>4, <2>1 DEF WaitSent, TransmitAgrees
  <2>5. QED
    BY <1>4, <2>2, <2>3, <2>4 DEF WaitSent, TransmitAgrees
<1>5. CASE Printed(t)
  <2>1. Waiting' = Waiting
    BY <1>5 DEF Printed, Waiting
  <2>2. WriterInv'
    <3>1. \A u \in Threads : pc[u] \in {"write", "wait"} => u = t
      BY <1>5, OneWriter DEF Printed
    <3>2. QED
      BY <1>5, <3>1 DEF Printed, WriterInv
  <2>3. QED
    BY <1>5, <2>1, <2>2 DEF Printed, TransmitAgrees
<1>6. QED
  BY <1>1, <1>2, <1>3, <1>4, <1>5 DEF OutputStep

LEMMA InterruptKeepsInv ==
  ASSUME OutputInv, NEW sent \in 1..uartLeft, UartTxCB(sent), Alone' <=> Alone
  PROVE  OutputInv'
<1> USE DEF OutputInv, OutputTypes
<1>1. Waiting # {} /\ bytesToTx = uartLeft /\ uartLeft # 0 /\ ~transmitSignal
  BY DEF TransmitAgrees
<1>2. /\ uartLeft' = uartLeft - sent /\ bytesToTx' = bytesToTx - sent
      /\ transmitSignal' <=> uartLeft' = 0
  BY <1>1 DEF UartTxCB, AllSent
<1>3. OutputTypes'
  BY <1>1, <1>2 DEF UartTxCB, AllSent
<1>4. WriterInv' /\ Waiting' = Waiting
  BY DEF UartTxCB, WriterInv, Waiting
<1>5. TransmitAgrees'
  BY <1>1, <1>2, <1>4 DEF TransmitAgrees
<1>6. QED
  BY <1>3, <1>4, <1>5

LEMMA OutputInvStep == StartInv /\ OutputInv /\ [BoardNext]_boardVars => OutputInv'
<1> SUFFICES ASSUME StartInv, OutputInv, [BoardNext]_boardVars PROVE OutputInv'
  OBVIOUS
<1>1. UNCHANGED startVars => (Alone' <=> Alone)
  BY DEF Alone, startVars
<1>2. CASE MainThread
  BY <1>2, MainCalls, CallKeepsInv, BoardAssumption
<1>3. CASE OthersStep
  BY <1>3, OthersCall, CallKeepsInv
<1>4. CASE UNCHANGED boardVars
  BY <1>4 DEF boardVars, outputVars, startVars, OutputInv, OutputTypes, WriterInv, Alone,
              TransmitAgrees, Waiting
<1>5. CASE Printing
  BY <1>1, <1>5, PrintKeepsInv DEF Printing
<1>6. CASE Interrupt
  BY <1>1, <1>6, InterruptKeepsInv DEF Interrupt
<1>7. QED
  BY <1>2, <1>3, <1>4, <1>5, <1>6, BoardStepKinds

(* The one event and the one count of bytes mean the piece of the thread   *)
(* that waits, for every length of a piece and any number of failures.     *)
THEOREM OneTransmission == BoardSpec => []TransmitAgrees
<1>1. OutputInv => TransmitAgrees
  BY DEF OutputInv
<1>2. QED
  BY <1>1, StartInvariant, OutputInvInit, OutputInvStep, PTL DEF BoardSpec

-----------------------------------------------------------------------------
(* What a call writes. *)

Formats == Seq({"text", "nl"}) \ {<<>>}
Pieces  == [kind : {"eol", "prefix", "text"}, group : Groups \union {Main}]

(* Which piece may come after which on the terminal.                       *)
Follows(p, q) ==
    \/ q.kind = "eol"
    \/ p.kind = "eol" /\ (q.kind = "prefix" \/ q.group = Main)
    \/ p.kind # "eol" /\ q.kind = "text" /\ q.group = p.group

Linked(s) == \A i \in 2..Len(s) : Follows(s[i - 1], s[i])

LEMMA PieceTypes ==
  ASSUME NEW g \in Groups \union {Main}
  PROVE  /\ Eol \in Pieces /\ Prefix(g) \in Pieces /\ Text(g) \in Pieces
         /\ Eol.kind = "eol" /\ Eol.group = Main
         /\ Prefix(g).kind = "prefix" /\ Prefix(g).group = g
         /\ Text(g).kind = "text" /\ Text(g).group = g
  BY DEF Eol, Prefix, Text, Pieces

(* Sequences that fit where they meet are linked when one follows the other. *)
LEMMA LinkedJoin ==
  ASSUME NEW a \in Seq(Pieces), NEW b \in Seq(Pieces), Linked(a), Linked(b),
         a # <<>>, b # <<>>, Follows(a[Len(a)], b[1])
  PROVE  /\ a \o b \in Seq(Pieces) /\ Linked(a \o b) /\ a \o b # <<>>
         /\ (a \o b)[1] = a[1] /\ (a \o b)[Len(a \o b)] = b[Len(b)]
<1>1. a \o b \in Seq(Pieces) /\ Len(a \o b) = Len(a) + Len(b) /\ Len(a) > 0 /\ Len(b) > 0
  OBVIOUS
<1>2. \A i \in 1..Len(a) : (a \o b)[i] = a[i]
  OBVIOUS
<1>3. \A i \in 1..Len(b) : (a \o b)[Len(a) + i] = b[i]
  OBVIOUS
<1>4. ASSUME NEW i \in 2..Len(a \o b) PROVE Follows((a \o b)[i - 1], (a \o b)[i])
  <2>1. CASE i <= Len(a)
    BY <1>1, <1>2, <2>1 DEF Linked
  <2>2. CASE i = Len(a) + 1
    <3>1. (a \o b)[i - 1] = a[Len(a)] /\ (a \o b)[i] = b[1]
      BY <1>1, <1>2, <1>3, <2>2
    <3>2. QED
      BY <3>1
  <2>3. CASE i > Len(a) + 1
    <3>1. PICK j : j = i - Len(a)
      OBVIOUS
    <3>2. j \in 2..Len(b) /\ i = Len(a) + j /\ i - 1 = Len(a) + (j - 1)
      BY <1>1, <2>3, <3>1
    <3>3. (a \o b)[i - 1] = b[j - 1] /\ (a \o b)[i] = b[j]
      BY <1>3, <3>2
    <3>4. QED
      BY <3>2, <3>3 DEF Linked
  <2>4. QED
    BY <1>1, <2>1, <2>2, <2>3
<1>5. QED
  BY <1>1, <1>2, <1>3, <1>4 DEF Linked

(* FlattenSeq joins the sequences one after the other.                     *)
LEMMA FlattenSteps ==
  ASSUME NEW S, NEW seqs \in Seq(Seq(S)), seqs # <<>>
  PROVE  \E f \in [1..Len(seqs) -> Seq(S)] :
            /\ f[1] = seqs[1]
            /\ \A n \in 2..Len(seqs) : f[n] = f[n - 1] \o seqs[n]
            /\ FlattenSeq(seqs) = f[Len(seqs)]
<1>0. PICK N : N = Len(seqs)
  OBVIOUS
<1> DEFINE Joins(f) == f = [n \in 1..Len(seqs) |->
                          IF n = 1 THEN seqs[n] ELSE f[n - 1] \o seqs[n]]
           flatten == CHOOSE f : Joins(f)
           step == [n \in (1 + 1)..N |-> [s \in Seq(S) |-> s \o seqs[n]]]
<1>1. N \in Nat /\ 1 <= N /\ \A n \in 1..N : seqs[n] \in Seq(S)
  BY <1>0
<1>2. FlattenSeq(seqs) = flatten[N]
  BY <1>0, <1>1 DEF FlattenSeq
<1>3. step \in Steps(Seq(S), 1, N)
  BY <1>1 DEF Steps
<1>4. \A n \in 2..N : \A s \in Seq(S) : step[n][s] = s \o seqs[n]
  OBVIOUS
<1> HIDE DEF step, flatten
<1>5. PICK f : Iterates(f, Seq(S), seqs[1], 1, N, step)
  <2>1. seqs[1] \in Seq(S) /\ 1 \in Nat
    BY <1>1
  <2>2. QED
    BY <1>1, <1>3, <2>1, IterationExists
<1>6. /\ f \in [1..N -> Seq(S)] /\ f[1] = seqs[1]
      /\ \A n \in 2..N : f[n] = f[n - 1] \o seqs[n]
  <2>1. ASSUME NEW n \in 2..N PROVE f[n] = f[n - 1] \o seqs[n]
    <3>1. f[n - 1] \in Seq(S) /\ f[n] = step[n][f[n - 1]]
      BY <1>1, <1>5 DEF Iterates
    <3>2. QED
      BY <1>4, <3>1
  <2>2. QED
    BY <1>5, <2>1 DEF Iterates
<1>7. Joins(f)
  <2>1. \A n \in 1..N : n = 1 \/ (n # 1 /\ n \in 2..N)
    BY <1>1
  <2>2. f = [n \in 1..N |-> f[n]]
    BY <1>6
  <2>3. f = [n \in 1..N |-> IF n = 1 THEN seqs[n] ELSE f[n - 1] \o seqs[n]]
    BY ONLY <1>6, <2>1, <2>2, Zenon
  <2>4. QED
    BY ONLY <1>0, <2>3, Zenon
<1> HIDE DEF Joins
<1>8. Joins(flatten)
  BY ONLY <1>7, Zenon DEF flatten
<1>9. flatten = [n \in 1..N |-> IF n = 1 THEN seqs[n] ELSE flatten[n - 1] \o seqs[n]]
  BY ONLY <1>0, <1>8, Zenon DEF Joins
<1>10. \A n \in 1..N : flatten[n] = IF n = 1 THEN seqs[n] ELSE flatten[n - 1] \o seqs[n]
  BY ONLY <1>9, Zenon
<1>11. flatten[1] = seqs[1] /\ \A n \in 2..N : flatten[n] = flatten[n - 1] \o seqs[n]
  <2>1. flatten[1] = seqs[1]
    BY <1>1, <1>10
  <2>2. \A n \in 2..N : n \in 1..N /\ n # 1
    BY <1>1
  <2>3. QED
    BY ONLY <1>10, <2>1, <2>2, Zenon
<1>12. \A n \in 1..N : flatten[n] \in Seq(S)
  <2> DEFINE T == {m \in 1..N : flatten[m] \in Seq(S)}
  <2>1. 1 \in T /\ 1 \in Nat
    BY <1>1, <1>11
  <2>2. ASSUME NEW m \in (1 + 1)..N, m - 1 \in T PROVE m \in T
    <3>1. m \in 2..N /\ flatten[m - 1] \in Seq(S) /\ seqs[m] \in Seq(S)
      BY <1>1, <2>2
    <3>2. flatten[m] = flatten[m - 1] \o seqs[m]
      BY <1>11, <3>1
    <3>3. flatten[m] \in Seq(S)
      BY <3>1, <3>2
    <3>4. QED
      BY <3>3
  <2> HIDE DEF T
  <2>3. 1..N \subseteq T
    BY <1>1, <2>1, <2>2, InductionUpTo
  <2>4. QED
    BY <2>3 DEF T
<1>13. flatten \in [1..N -> Seq(S)]
  <2>1. DOMAIN flatten = 1..N /\ flatten = [n \in 1..N |-> flatten[n]]
    BY ONLY <1>9, Zenon
  <2>2. QED
    BY <1>12, <2>1
<1>14. QED
  BY <1>0, <1>2, <1>11, <1>13

(* The body of a format begins and ends as the format does.                *)
Shape(element, g) == IF element = "text" THEN Text(g) ELSE Eol

LEMMA BodyLinked ==
  ASSUME NEW g \in Groups \union {Main}, NEW format \in Formats
  PROVE  LET body == Body(g, format) IN
         /\ body \in Seq(Pieces) /\ body # <<>> /\ Linked(body)
         /\ body[1] = Shape(format[1], g)
         /\ body[Len(body)] = Shape(format[Len(format)], g)
<1>0. PICK N : N = Len(format)
  OBVIOUS
<1> DEFINE part(i) ==
             IF format[i] = "text" THEN <<Text(g)>>
             ELSE IF g # Main /\ i < Len(format) /\ format[i + 1] # "nl"
                  THEN <<Eol, Prefix(g)>> ELSE <<Eol>>
           parts == [i \in DOMAIN format |-> part(i)]
<1>1. N \in Nat /\ 1 <= N /\ DOMAIN format = 1..N
      /\ \A i \in 1..N : format[i] \in {"text", "nl"}
  BY <1>0 DEF Formats
<1>2. ASSUME NEW i \in 1..N
      PROVE  /\ part(i) \in Seq(Pieces) /\ part(i) # <<>> /\ Linked(part(i))
             /\ part(i)[1] = Shape(format[i], g)
             /\ format[i] = "text" \/ i = N => part(i)[Len(part(i))] = Shape(format[i], g)
             /\ i < N => Follows(part(i)[Len(part(i))], Shape(format[i + 1], g))
  <2> USE PieceTypes DEF Shape, Follows, Linked
  <2>1. CASE format[i] = "text"
    <3>1. part(i) = <<Text(g)>> /\ Len(part(i)) = 1 /\ part(i)[1] = Text(g)
      BY <2>1
    <3>2. QED
      BY <2>1, <3>1
  <2>2. CASE format[i] # "text" /\ g # Main /\ i < Len(format) /\ format[i + 1] # "nl"
    <3>1. /\ part(i) = <<Eol, Prefix(g)>> /\ Len(part(i)) = 2
          /\ part(i)[1] = Eol /\ part(i)[2] = Prefix(g)
      BY <2>2
    <3>2. part(i) \in Seq(Pieces) /\ i # N
      BY <1>0, <2>2, <3>1
    <3>3. QED
      BY <2>2, <3>1, <3>2
  <2>3. CASE format[i] # "text" /\ ~ (g # Main /\ i < Len(format) /\ format[i + 1] # "nl")
    <3>1. part(i) = <<Eol>> /\ Len(part(i)) = 1 /\ part(i)[1] = Eol
      BY <2>3
    <3>2. i < N => g = Main \/ format[i + 1] = "nl"
      BY <1>0, <1>1, <2>3
    <3>3. QED
      BY <1>1, <2>3, <3>1, <3>2
  <2>4. QED
    BY <2>1, <2>2, <2>3
<1>3. parts \in Seq(Seq(Pieces)) /\ parts # <<>> /\ Len(parts) = N
      /\ \A i \in 1..N : parts[i] = part(i)
  BY <1>1, <1>2
<1>4. Body(g, format) = FlattenSeq(parts)
  BY DEF Body
<1> HIDE DEF parts, part
<1>5. PICK f \in [1..N -> Seq(Pieces)] :
         /\ f[1] = parts[1]
         /\ \A n \in 2..N : f[n] = f[n - 1] \o parts[n]
         /\ FlattenSeq(parts) = f[N]
  BY <1>3, FlattenSteps
<1> DEFINE T == {n \in 1..N :
                    /\ f[n] # <<>> /\ Linked(f[n])
                    /\ f[n][1] = Shape(format[1], g)
                    /\ f[n][Len(f[n])] = part(n)[Len(part(n))]}
<1>6. 1 \in T /\ 1 \in Nat
  BY <1>1, <1>2, <1>3, <1>5
<1>7. ASSUME NEW n \in (1 + 1)..N, n - 1 \in T PROVE n \in T
  <2>1. n \in 2..N /\ n - 1 \in 1..N /\ n \in 1..N /\ n - 1 < N /\ (n - 1) + 1 = n
    BY <1>1
  <2>2. f[n] = f[n - 1] \o part(n)
    <3>1. f[n] = f[n - 1] \o parts[n]
      BY <1>5, <2>1
    <3>2. parts[n] = part(n)
      BY <1>3, <2>1
    <3>3. QED
      BY <3>1, <3>2
  <2>3. /\ f[n - 1] \in Seq(Pieces) /\ f[n - 1] # <<>> /\ Linked(f[n - 1])
        /\ f[n - 1][1] = Shape(format[1], g)
        /\ f[n - 1][Len(f[n - 1])] = part(n - 1)[Len(part(n - 1))]
    BY <1>5, <1>7, <2>1
  <2>4. Follows(f[n - 1][Len(f[n - 1])], part(n)[1])
    <3>1. Follows(part(n - 1)[Len(part(n - 1))], Shape(format[n], g))
      BY <1>2, <2>1
    <3>2. QED
      BY <1>2, <2>1, <2>3, <3>1
  <2>5. part(n) \in Seq(Pieces) /\ part(n) # <<>> /\ Linked(part(n))
    BY <1>2, <2>1
  <2>6. /\ f[n] # <<>> /\ Linked(f[n])
        /\ f[n][1] = f[n - 1][1] /\ f[n][Len(f[n])] = part(n)[Len(part(n))]
    BY <2>2, <2>3, <2>4, <2>5, LinkedJoin
  <2>7. QED
    BY <2>1, <2>3, <2>6
<1> HIDE DEF T
<1>8. N \in T
  <2>1. 1..N \subseteq T
    BY <1>1, <1>6, <1>7, InductionUpTo
  <2>2. QED
    BY <1>1, <2>1
<1>9. part(N)[Len(part(N))] = Shape(format[N], g)
  BY <1>1, <1>2
<1>10. QED
  BY <1>0, <1>1, <1>4, <1>5, <1>8, <1>9 DEF T

(* What a call begins with, where the line is another group's or is over.  *)
Opening(g, format) ==
    IF EndsOthersLine(g) THEN Eol
    ELSE IF g # printfGroup /\ g # Main /\ format[1] = "text" THEN Prefix(g)
    ELSE Shape(format[1], g)

LEMMA CallLinked ==
  ASSUME NEW g \in Groups \union {Main}, NEW format \in Formats
  PROVE  LET written == Header(g, format) \o Body(g, format) IN
         /\ written \in Seq(Pieces) /\ written # <<>> /\ Linked(written)
         /\ written[1] = Opening(g, format)
         /\ written[Len(written)] = Shape(format[Len(format)], g)
<1> DEFINE ends  == IF EndsOthersLine(g) THEN <<Eol>> ELSE <<>>
           names == IF g # printfGroup /\ g # Main /\ Head(format) # "nl"
                    THEN <<Prefix(g)>> ELSE <<>>
           body  == Body(g, format)
           tail  == names \o body
<1>1. Head(format) = format[1] /\ format[1] \in {"text", "nl"}
  BY DEF Formats
<1>2. /\ body \in Seq(Pieces) /\ body # <<>> /\ Linked(body)
      /\ body[1] = Shape(format[1], g)
      /\ body[Len(body)] = Shape(format[Len(format)], g)
  BY BodyLinked
<1>3. Header(g, format) \o body = ends \o tail
  <2>1. Header(g, format) = ends \o names
    BY DEF Header
  <2>2. ends \in Seq(Pieces) /\ names \in Seq(Pieces)
    BY PieceTypes
  <2> HIDE DEF ends, names, body
  <2>3. QED
    BY <1>2, <2>1, <2>2
<1> HIDE DEF body
<1>4. /\ tail \in Seq(Pieces) /\ tail # <<>> /\ Linked(tail)
      /\ tail[1] = (IF g # printfGroup /\ g # Main /\ format[1] = "text"
                    THEN Prefix(g) ELSE Shape(format[1], g))
      /\ tail[Len(tail)] = body[Len(body)]
  <2>1. CASE g # printfGroup /\ g # Main /\ Head(format) # "nl"
    <3>1. names = <<Prefix(g)>> /\ names \in Seq(Pieces) /\ Linked(names) /\ names # <<>>
          /\ names[1] = Prefix(g) /\ names[Len(names)] = Prefix(g)
      BY <2>1, PieceTypes DEF Linked
    <3>2. Follows(Prefix(g), body[1]) /\ format[1] = "text"
      BY <1>1, <1>2, <2>1, PieceTypes DEF Follows, Shape
    <3> HIDE DEF names
    <3>3. QED
      BY <1>2, <2>1, <3>1, <3>2, LinkedJoin
  <2>2. CASE ~ (g # printfGroup /\ g # Main /\ Head(format) # "nl")
    <3>1. tail = body
      BY <1>2, <2>2
    <3> HIDE DEF tail
    <3>2. QED
      BY <1>1, <1>2, <2>2, <3>1
  <2>3. QED
    BY <2>1, <2>2
<1> HIDE DEF tail
<1>5. CASE EndsOthersLine(g)
  <2>1. ends = <<Eol>> /\ ends \in Seq(Pieces) /\ Linked(ends) /\ ends # <<>>
        /\ ends[1] = Eol /\ ends[Len(ends)] = Eol
    BY <1>5, PieceTypes DEF Linked
  <2>2. Follows(Eol, tail[1])
    <3>1. g # printfGroup
      BY <1>5 DEF EndsOthersLine
    <3>2. QED
      BY <1>1, <1>4, <3>1, PieceTypes DEF Follows, Shape
  <2> HIDE DEF ends
  <2>3. /\ ends \o tail \in Seq(Pieces) /\ ends \o tail # <<>> /\ Linked(ends \o tail)
        /\ (ends \o tail)[1] = Eol
        /\ (ends \o tail)[Len(ends \o tail)] = tail[Len(tail)]
    BY <1>4, <2>1, <2>2, LinkedJoin
  <2>4. QED
    BY <1>2, <1>3, <1>4, <1>5, <2>3 DEF Opening, body
<1>6. CASE ~EndsOthersLine(g)
  <2>1. ends \o tail = tail
    BY <1>4, <1>6
  <2>2. QED
    BY <1>2, <1>3, <1>4, <1>6, <2>1 DEF Opening, body
<1>7. QED
  BY <1>5, <1>6

LEMMA PlainLinked ==
  ASSUME NEW format \in Formats
  PROVE  LET written == Plain(format) IN
         /\ written \in Seq(Pieces) /\ written # <<>> /\ Linked(written)
         /\ written[1] = Shape(format[1], Main)
         /\ written[Len(written)] = Shape(format[Len(format)], Main)
<1> DEFINE written == Plain(format)
<1>1. format \in Seq({"text", "nl"}) /\ Len(format) \in Nat \ {0}
      /\ DOMAIN format = 1..Len(format) /\ \A i \in 1..Len(format) : format[i] \in {"text", "nl"}
  BY DEF Formats
<1>2. written = [i \in 1..Len(format) |-> Shape(format[i], Main)]
  BY <1>1 DEF Plain, Shape
<1>3. \A i \in 1..Len(format) : Shape(format[i], Main) \in Pieces
  BY <1>1, PieceTypes DEF Shape
<1> HIDE DEF written
<1>4. written \in Seq(Pieces) /\ Len(written) = Len(format)
  BY <1>1, <1>2, <1>3
<1>5. Linked(written)
  BY <1>1, <1>2, <1>4, PieceTypes DEF Linked, Follows, Shape
<1>6. QED
  BY <1>1, <1>2, <1>4, <1>5 DEF written

-----------------------------------------------------------------------------
(* Who prints what. *)

(* A format that ends its line, and one that leaves it open.               *)
Ends(format)   == format \in Formats /\ format[Len(format)] = "nl"
Leaves(format) == format \in Formats /\ format[Len(format)] = "text"

LEMMA FormatsAre ==
  /\ Ends(Line) /\ Ends(TwoLines) /\ Leaves(Unfinished) /\ Leaves(Prompt)
  /\ Ends(<<"nl">>) /\ Ends(<<"text", "text", "nl">>) /\ Ends(<<"text", "nl", "nl">>)
  /\ Ends(<<"text", "nl", "nl", "text", "nl">>) /\ Ends(<<"text", "nl", "text", "nl", "nl">>)
  /\ Leaves(<<"nl", "text", "nl", "nl", "text">>)
  BY DEF Ends, Leaves, Formats, Line, TwoLines, Unfinished, Prompt

Requests == [group : Groups \union {Main}, format : Seq({"text", "nl"}), echo : BOOLEAN]
Request(g, format, echo) == [group |-> g, format |-> format, echo |-> echo]

(* A thread asks for the mutex, to print.                                  *)
Asks(t, g, format, echo) ==
    /\ g \in Groups \union {Main}
    /\ pc' = [pc EXCEPT ![t] = "lock"]
    /\ call' = [call EXCEPT ![t] = Request(g, format, echo)]
    /\ UNCHANGED <<owner, printfGroup, newLine, pieces, bytesToTx, transmitSignal,
                   uartLeft, line>>

LEMMA PrintfAsks ==
  ASSUME NEW t, NEW g \in Groups \union {Main, NoGroup}, NEW format, QCLIPrintf(t, g, format)
  PROVE  UNCHANGED outputVars \/ (g # NoGroup /\ Asks(t, g, format, FALSE))
<1>1. CASE MayPrint(g)
  BY <1>1 DEF MayPrint, QCLIPrintf, Asks, Request
<1>2. CASE ~MayPrint(g)
  BY <1>2 DEF QCLIPrintf, outputVars
<1>3. QED
  BY <1>1, <1>2

LEMMA EchoAsks ==
  ASSUME NEW t, NEW format, Echo(t, format)
  PROVE  Asks(t, Main, format, TRUE)
  BY DEF Echo, Asks, Request

(* What each variable of the start may be.                                 *)
StartTypes ==
    /\ mainPc \in MainPcs
    /\ handle \in [Groups -> Groups \union {NoGroup}]
    /\ faults \in Nat
    /\ BluetoothStackID \in {0, 1}
    /\ pairable \in BOOLEAN /\ authenticates \in BOOLEAN /\ serves \in BOOLEAN
    /\ loaded \in BOOLEAN /\ advertising \in BOOLEAN /\ timerSet \in BOOLEAN
    /\ consolePc \in {"none", "list", "prompt", "command", "returned"}

LEMMA StartTypesInit == BoardInit => StartTypes
<1> SUFFICES ASSUME BoardInit PROVE StartTypes
  OBVIOUS
<1>1. mainPc = "uart" /\ handle = [g \in Groups |-> NoGroup] /\ BluetoothStackID = 0
      /\ consolePc = "none" /\ faults = 0
  BY DEF BoardInit, OutputInit
<1>2. /\ pairable \in BOOLEAN /\ authenticates \in BOOLEAN /\ serves \in BOOLEAN
      /\ loaded \in BOOLEAN /\ advertising \in BOOLEAN /\ timerSet \in BOOLEAN
  BY DEF BoardInit
<1>3. QED
  BY <1>1, <1>2 DEF StartTypes, MainPcs

LEMMA StartTypesStep == StartTypes /\ [BoardNext]_boardVars => StartTypes'
<1> SUFFICES ASSUME StartTypes, [BoardNext]_boardVars PROVE StartTypes'
  OBVIOUS
<1> USE OutputAssumption, BoardAssumption
    DEF StartTypes, MainPcs, startVars, Continue, Succeeds, Fails
<1>1. CASE UNCHANGED <<faults, mainPc, startVars>>
  BY <1>1
<1>2. CASE OpenUart \/ Greet \/ PeripheralsRegistered \/ Welcome
  BY <1>2 DEF OpenUart, Greet, PeripheralsRegistered, Welcome
<1>3. CASE RegisterPeripherals \/ RegisterGroups \/ RegisterBle
  BY <1>3 DEF RegisterPeripherals, RegisterGroups, RegisterUnder, RegisterBle
<1>4. CASE OpenStack
  BY <1>4 DEF OpenStack
<1>5. CASE SetPairable
  <2>1. pairable' \in BOOLEAN /\ authenticates' \in BOOLEAN
    BY <1>5 DEF SetPairable
  <2>2. mainPc' \in {"service", "close"} /\ faults' \in Nat
    BY <1>5 DEF SetPairable
  <2>3. QED
    BY <1>5, <2>1, <2>2 DEF SetPairable
<1>6. CASE RegisterService
  <2>1. serves' \in BOOLEAN
    BY <1>6 DEF RegisterService, BLE_IOService
  <2>2. mainPc' \in {"failed", "load"} /\ faults' \in Nat
    BY <1>6 DEF RegisterService, BLE_IOService
  <2>3. QED
    BY <1>6, <2>1, <2>2 DEF RegisterService
<1>7. CASE CloseStack
  <2>1. pairable' \in BOOLEAN /\ authenticates' \in BOOLEAN /\ serves' \in BOOLEAN
    BY <1>7 DEF CloseStack
  <2>2. mainPc' = "failed" /\ BluetoothStackID' = 0
    BY <1>7 DEF CloseStack, ClearStackID
  <2>3. QED
    BY <1>7, <2>1, <2>2 DEF CloseStack
<1>8. CASE LoadRecords \/ Advertise \/ StartTimer
  <2>1. loaded' \in BOOLEAN /\ advertising' \in BOOLEAN /\ timerSet' \in BOOLEAN
    BY <1>8 DEF LoadRecords, Advertise, StartTimer
  <2>2. mainPc' \in {"advertise", "timer", "return", "connect"} /\ faults' \in Nat
    BY <1>8 DEF LoadRecords, Advertise, StartTimer
  <2>3. QED
    BY <1>8, <2>1, <2>2 DEF LoadRecords, Advertise, StartTimer
<1>9. CASE ConnectSavedBulb \/ LogSmoke \/ ReadSmoke \/ InitializationFailed
  BY <1>9 DEF ConnectSavedBulb, LogSmoke, ReadSmoke, InitializationFailed
<1>10. CASE AppStart
  BY <1>10 DEF AppStart
<1>11. CASE OthersStep
  BY <1>11 DEF OthersStep, StackPrints, TimerPrints, ListCommands, Typed, Exit, CommandPrints
<1>12. CASE Printing
  BY <1>12 DEF Printing, OutputStep, TakeLock, Transmit, TransmitRefused, WaitSent, Printed
<1>13. CASE Interrupt
  BY <1>13 DEF Interrupt, UartTxCB
<1>14. QED
  BY <1>1, <1>2, <1>3, <1>4, <1>5, <1>6, <1>7, <1>8, <1>9, <1>10, <1>11, <1>12, <1>13,
     BoardStepKinds DEF MainThread, boardVars

(* The main thread's messages end their lines; what it writes without the  *)
(* mutex it writes while it is alone.                                      *)
MainPrints ==
    \/ UNCHANGED outputVars
    \/ \E g \in Groups, format \in Formats : Ends(format) /\ Asks(main, g, format, FALSE)
    \/ /\ Alone /\ Alone'
       /\ \E format \in Formats : Ends(format) /\ WriteLiteral(main, format)

LEMMA LogPrints ==
  ASSUME StartTypes, NEW g \in Groups, NEW format, Ends(format), 
         QCLIPrintf(main, handle[g], format)
  PROVE  MainPrints
<1>1. handle[g] \in Groups \union {NoGroup}
  BY DEF StartTypes
<1>2. CASE handle[g] = NoGroup
  BY <1>1, <1>2, PrintfAsks DEF MainPrints
<1>3. CASE handle[g] # NoGroup
  BY <1>1, <1>3, PrintfAsks DEF MainPrints, Ends
<1>4. QED
  BY <1>2, <1>3

LEMMA MainThreadPrints ==
  ASSUME StartInv, StartTypes, StartTypes', MainThread
  PROVE  /\ MainPrints
         /\ advertising => advertising'
         /\ \/ UNCHANGED consolePc
            \/ /\ Alone /\ pc[main] = "idle" /\ UNCHANGED outputVars
               /\ consolePc' = "list"
<1> USE FormatsAre, BoardAssumption, LogPrints DEF MainAt, Log, Silent, startVars, Continue
<1> DEFINE Rest == /\ advertising => advertising'
                   /\ \/ UNCHANGED consolePc
                      \/ /\ Alone /\ pc[main] = "idle" /\ UNCHANGED outputVars
                         /\ consolePc' = "list"
<1>1. CASE OpenUart \/ RegisterPeripherals \/ RegisterBle
  <2>1. Rest
    BY <1>1 DEF OpenUart, RegisterPeripherals, RegisterBle
  <2>2. UNCHANGED outputVars
    BY <1>1 DEF OpenUart, RegisterPeripherals, RegisterBle
  <2>3. QED
    BY <2>1, <2>2 DEF MainPrints
<1>2. CASE Greet \/ Welcome
  <2>1. Alone /\ Alone' /\ Rest
    BY <1>2 DEF Greet, Welcome, StartInv, MainPcs, Alone
  <2>2. \E format \in Formats : Ends(format) /\ WriteLiteral(main, format)
    BY <1>2 DEF Greet, Welcome, Ends
  <2>3. QED
    BY <2>1, <2>2 DEF MainPrints
<1>3. CASE RegisterGroups
  <2>1. Rest
    BY <1>3 DEF RegisterGroups, RegisterUnder
  <2>2. PICK g \in Groups : QCLIPrintf(main, handle'[g], Line)
    BY <1>3 DEF RegisterGroups, RegisterUnder
  <2>3. handle'[g] \in Groups \union {NoGroup}
    BY DEF StartTypes
  <2>4. MainPrints
    <3>1. PICK h : h = handle'[g]
      OBVIOUS
    <3>2. UNCHANGED outputVars \/ (h # NoGroup /\ Asks(main, h, Line, FALSE))
      BY <2>2, <2>3, <3>1, PrintfAsks
    <3>3. QED
      BY <2>3, <3>1, <3>2 DEF MainPrints, Ends
  <2>5. QED
    BY <2>1, <2>4
<1>4. CASE PeripheralsRegistered
  BY <1>4 DEF PeripheralsRegistered
<1>5. CASE OpenStack \/ RegisterService \/ CloseStack
  BY <1>5 DEF OpenStack, RegisterService, CloseStack
<1>6. CASE SetPairable
  BY <1>6 DEF SetPairable, MainPrints
<1>7. CASE LoadRecords \/ Advertise \/ StartTimer \/ ConnectSavedBulb
  BY <1>7 DEF LoadRecords, Advertise, StartTimer, ConnectSavedBulb
<1>8. CASE LogSmoke \/ InitializationFailed
  BY <1>8 DEF LogSmoke, InitializationFailed
<1>9. CASE ReadSmoke
  BY <1>9 DEF ReadSmoke, MainPrints
<1>10. CASE AppStart
  <2>1. Alone /\ advertising' = advertising
    BY <1>10 DEF AppStart, StartInv, MainPcs, Alone
  <2>2. CASE consolePc' = "list" /\ UNCHANGED outputVars
    BY <1>10, <2>1, <2>2 DEF AppStart, MainPrints
  <2>3. CASE UNCHANGED consolePc /\ WriteLiteral(main, <<"text", "nl", "nl">>)
    <3>1. Alone'
      BY <2>1, <2>3 DEF Alone
    <3>2. MainPrints
      BY <2>1, <2>3, <3>1 DEF MainPrints, Ends
    <3>3. QED
      BY <2>1, <2>3, <3>2
  <2>4. QED
    BY <1>10, <2>2, <2>3 DEF AppStart
<1>11. QED
  BY <1>1, <1>2, <1>3, <1>4, <1>5, <1>6, <1>7, <1>8, <1>9, <1>10 DEF MainThread

(* The callbacks' messages may leave the line open, and go on with the     *)
(* prompt; they come while the board advertises, the console's when it     *)
(* does not.                                                               *)
CallbackPrints ==
    /\ advertising /\ UNCHANGED consolePc
    /\ \E t \in {stack, timer}, g \in Groups \union {Main}, format \in Formats :
          pc[t] = "idle" /\ Asks(t, g, format, FALSE)

ConsolePrints ==
    /\ ~advertising /\ consolePc # "none" /\ pc[console] = "idle"
    /\ \/ /\ consolePc = "command" /\ UNCHANGED consolePc
          /\ \E g \in Groups \union {Main}, format \in Formats :
                Ends(format) /\ Asks(console, g, format, FALSE)
       \/ /\ consolePc' = "prompt"
          /\ \E format \in Formats : Leaves(format) /\ Asks(console, Main, format, FALSE)
       \/ /\ consolePc = "prompt" /\ UNCHANGED consolePc
          /\ \E format \in Formats : Leaves(format) /\ Asks(console, Main, format, TRUE)
       \/ /\ consolePc' \in {"command", "returned"}
          /\ \E format \in Formats : Ends(format) /\ Asks(console, Main, format, TRUE)

LEMMA OthersPrint ==
  ASSUME StartInv, StartTypes, OthersStep
  PROVE  /\ UNCHANGED advertising
         /\ UNCHANGED <<outputVars, consolePc>> \/ CallbackPrints \/ ConsolePrints
<1> USE FormatsAre DEF startVars, ConsoleAt
<1>0. /\ Line \in Formats /\ TwoLines \in Formats /\ Unfinished \in Formats
      /\ Prompt \in Formats
      /\ \A g \in Groups : handle[g] \in Groups \union {NoGroup}
      /\ BLE \in Groups /\ ADC \in Groups /\ PWM \in Groups
  BY BoardAssumption DEF StartTypes, Ends, Leaves
<1>1. CASE StackPrints
  <2>1. PICK g \in Groups \union {Main, NoGroup}, format \in Formats :
           QCLIPrintf(stack, g, format) /\ pc[stack] = "idle" /\ advertising
    BY <1>0, <1>1 DEF StackPrints
  <2>2. UNCHANGED consolePc /\ UNCHANGED advertising
    BY <1>1 DEF StackPrints
  <2>3. QED
    BY <2>1, <2>2, PrintfAsks DEF CallbackPrints, Asks
<1>2. CASE TimerPrints
  <2>1. PICK g \in Groups \union {Main, NoGroup}, format \in Formats :
           QCLIPrintf(timer, g, format) /\ pc[timer] = "idle" /\ advertising
    BY <1>0, <1>2 DEF TimerPrints, StartInv
  <2>2. UNCHANGED consolePc /\ UNCHANGED advertising
    BY <1>2 DEF TimerPrints
  <2>3. QED
    BY <2>1, <2>2, PrintfAsks DEF CallbackPrints, Asks
<1>3. ASSUME ListCommands \/ Typed \/ Exit \/ CommandPrints
      PROVE  ~advertising /\ ~advertising' /\ consolePc # "none" /\ pc[console] = "idle"
  BY <1>3 DEF ListCommands, Typed, Exit, CommandPrints, StartInv
<1>4. CASE ListCommands
  <2>1. /\ QCLIPrintf(console, Main, <<"nl", "text", "nl", "nl", "text">>)
        /\ consolePc' = "prompt" /\ UNCHANGED advertising
    BY <1>4 DEF ListCommands
  <2>2. Asks(console, Main, <<"nl", "text", "nl", "nl", "text">>, FALSE)
    BY <2>1, OutputAssumption DEF QCLIPrintf, MayPrint, Asks, Request
  <2>3. \E format \in Formats : Leaves(format) /\ Asks(console, Main, format, FALSE)
    BY <2>2 DEF Leaves
  <2>4. QED
    BY ONLY <1>3, <1>4, <2>1, <2>3 DEF ConsolePrints
<1>5. CASE Typed
  <2>1. CASE Echo(console, Unfinished) /\ UNCHANGED consolePc
    <3>1. \E format \in Formats : Leaves(format) /\ Asks(console, Main, format, TRUE)
      BY <1>0, <2>1, EchoAsks
    <3>2. QED
      BY <1>3, <1>5, <2>1, <3>1 DEF Typed, ConsolePrints
  <2>2. CASE Echo(console, <<"nl">>) /\ consolePc' = "command"
    <3>1. \E format \in Formats : Ends(format) /\ Asks(console, Main, format, TRUE)
      BY <2>2, EchoAsks DEF Ends
    <3>2. QED
      BY <1>3, <1>5, <2>2, <3>1 DEF Typed, ConsolePrints
  <2>3. QED
    BY <1>5, <2>1, <2>2 DEF Typed
<1>6. CASE Exit
  <2>1. Echo(console, <<"text", "nl", "text", "nl", "nl">>)
    BY <1>6 DEF Exit
  <2>2. \E format \in Formats : Ends(format) /\ Asks(console, Main, format, TRUE)
    BY <2>1, EchoAsks DEF Ends
  <2>3. QED
    BY <1>3, <1>6, <2>2 DEF Exit, ConsolePrints
<1>7. CASE CommandPrints
  <2>1. CASE /\ consolePc = "command" /\ UNCHANGED consolePc
             /\ \E g \in {Main, handle[ADC], handle[PWM]} : QCLIPrintf(console, g, Line)
    <3>1. PICK g \in Groups \union {Main, NoGroup} : QCLIPrintf(console, g, Line)
      BY <1>0, <2>1
    <3>2. UNCHANGED outputVars \/ Asks(console, g, Line, FALSE)
      BY <3>1, PrintfAsks
    <3>3. CASE UNCHANGED outputVars
      BY <1>3, <1>7, <2>1, <3>3 DEF CommandPrints
    <3>4. CASE Asks(console, g, Line, FALSE)
      <4>1. \E h \in Groups \union {Main}, format \in Formats :
               Ends(format) /\ Asks(console, h, format, FALSE)
        BY <1>0, <3>4 DEF Asks
      <4>2. QED
        BY <1>3, <1>7, <2>1, <4>1 DEF CommandPrints, ConsolePrints
    <3>5. QED
      BY <3>2, <3>3, <3>4
  <2>2. CASE QCLIPrintf(console, Main, Prompt) /\ consolePc' = "prompt"
    <3>1. Asks(console, Main, Prompt, FALSE)
      BY <2>2, OutputAssumption DEF QCLIPrintf, MayPrint, Asks, Request
    <3>2. \E format \in Formats : Leaves(format) /\ Asks(console, Main, format, FALSE)
      BY <1>0, <3>1
    <3>3. QED
      BY <1>3, <1>7, <2>2, <3>2 DEF CommandPrints, ConsolePrints
  <2>3. QED
    BY <1>7, <2>1, <2>2 DEF CommandPrints
<1>8. QED
  BY <1>1, <1>2, <1>4, <1>5, <1>6, <1>7 DEF OthersStep

(* What is asked for while a thread waits for the mutex, and the group and *)
(* the open line that QCLI_Printf remembers.  Only text of the stack's is  *)
(* left open by a group; the console's line is open where something is     *)
(* typed; and nothing is open while the main thread writes without the     *)
(* mutex.                                                                  *)
Asked(t) ==
    /\ call[t].format \in Formats
    /\ t = main => Ends(call[t].format)
    /\ ~advertising /\ Leaves(call[t].format) => call[t].group = Main
    /\ call[t].echo => /\ t = console /\ consolePc # "none" /\ call[t].group = Main
                       /\ Leaves(call[t].format) => newLine

Typing ==
    IF pc[console] = "lock" /\ ~call[console].echo
    THEN Leaves(call[console].format) ELSE newLine

CallInv ==
    /\ call \in [Threads -> Requests]
    /\ \A t \in Threads : pc[t] = "lock" => Asked(t)
    /\ consolePc # "none" => \A t \in Threads \ {console} : pc[t] = "idle"
    /\ consolePc = "prompt" => Typing

GroupInv ==
    /\ owner \in Threads \union {NoThread}
    /\ printfGroup \in Groups \union {Main, NoGroup}
    /\ newLine \in BOOLEAN
    /\ newLine => printfGroup # NoGroup
    /\ ~newLine \/ ~advertising => printfGroup \in {Main, NoGroup}
    /\ Alone => ~newLine

LEMMA CallInvInit == BoardInit => CallInv /\ GroupInv
<1> SUFFICES ASSUME BoardInit PROVE CallInv /\ GroupInv
  OBVIOUS
<1>1. /\ call = [t \in Threads |-> NoCall] /\ NoCall \in Requests
      /\ \A t \in Threads : pc[t] = "idle"
      /\ consolePc = "none" /\ owner = NoThread /\ printfGroup = NoGroup
  BY DEF BoardInit, OutputInit, NoCall, Requests
<1>2. ~newLine /\ newLine \in BOOLEAN
  BY DEF BoardInit, OutputInit
<1>3. CallInv
  BY <1>1 DEF CallInv
<1>4. QED
  BY <1>1, <1>2, <1>3 DEF GroupInv

LEMMA MainKeepsCalls ==
  ASSUME StartInv, StartTypes, StartTypes', OutputInv, CallInv, GroupInv, MainThread
  PROVE  CallInv' /\ GroupInv'
<1>1. consolePc = "none"
  BY DEF StartInv, MainThread, MainAt, OpenUart, Greet, RegisterPeripherals, RegisterGroups,
         PeripheralsRegistered, Welcome, RegisterBle, OpenStack, SetPairable,
         RegisterService, CloseStack, LoadRecords, Advertise, StartTimer,
         ConnectSavedBulb, LogSmoke, ReadSmoke, InitializationFailed, AppStart
<1>2. /\ MainPrints
      /\ advertising => advertising'
      /\ \/ UNCHANGED consolePc
         \/ /\ Alone /\ pc[main] = "idle" /\ UNCHANGED outputVars
            /\ consolePc' = "list"
  BY MainThreadPrints
<1>3. UNCHANGED <<owner, printfGroup, newLine>> /\ (Alone' => Alone)
  BY MainCalls, <1>2 DEF MainPrints, outputVars, Asks, WriteLiteral
<1>4. GroupInv'
  <2>1. advertising \in BOOLEAN /\ advertising' \in BOOLEAN
    BY DEF StartTypes
  <2>2. QED
    BY <1>2, <1>3, <2>1 DEF GroupInv
<1>5. main \in Threads /\ main # console
  BY BoardAssumption
<1>6. CASE consolePc' = "list" /\ UNCHANGED outputVars /\ Alone /\ pc[main] = "idle"
  <2>1. UNCHANGED <<pc, call, newLine>> /\ \A t \in Threads : pc[t] = "idle"
    BY <1>6 DEF outputVars, OutputInv, WriterInv
  <2>2. QED
    BY <1>4, <1>6, <2>1 DEF CallInv
<1>7. CASE consolePc' = "none"
  <2>1. CASE UNCHANGED outputVars
    BY <1>2, <1>3, <1>4, <1>7, <1>1, <2>1 DEF CallInv, Asked, outputVars
  <2>2. CASE \E g \in Groups, format \in Formats : Ends(format) /\ Asks(main, g, format, FALSE)
    <3>1. PICK g \in Groups, format \in Formats : Ends(format) /\ Asks(main, g, format, FALSE)
      BY <2>2
    <3>2. /\ Request(g, format, FALSE) \in Requests
          /\ Request(g, format, FALSE).format = format /\ Request(g, format, FALSE).echo = FALSE
      BY DEF Request, Requests, Formats
    <3>3. call' \in [Threads -> Requests]
      BY <3>1, <3>2 DEF Asks, CallInv
    <3>4. ASSUME NEW t \in Threads, pc'[t] = "lock" PROVE Asked(t)'
      <4>1. CASE t = main
        <5>1. call'[t] = Request(g, format, FALSE)
          BY <3>1, <4>1 DEF Asks, CallInv
        <5>2. ~ Leaves(format)
          BY <3>1 DEF Ends, Leaves
        <5>3. QED
          BY <3>1, <3>2, <5>1, <5>2 DEF Asked
      <4>2. CASE t # main
        <5>1. pc[t] = "lock" /\ call'[t] = call[t]
          BY <3>1, <3>4, <4>2 DEF Asks, CallInv, OutputInv, OutputTypes
        <5>2. Asked(t)
          BY <5>1 DEF CallInv
        <5>3. QED
          BY <1>1, <1>2, <5>1, <5>2 DEF Asked
      <4>3. QED
        BY <4>1, <4>2
    <3>5. QED
      BY <1>4, <1>7, <3>3, <3>4 DEF CallInv
  <2>3. CASE \E format \in Formats : Ends(format) /\ WriteLiteral(main, format)
    <3>1. UNCHANGED call /\ pc' = [pc EXCEPT ![main] = "write"]
      BY <2>3 DEF WriteLiteral
    <3>2. \A t \in Threads : pc'[t] = "lock" => pc[t] = "lock"
      BY <3>1 DEF OutputInv, OutputTypes
    <3>3. ASSUME NEW t \in Threads, pc'[t] = "lock" PROVE Asked(t)'
      BY <1>1, <1>2, <1>3, <3>1, <3>2, <3>3 DEF Asked, CallInv
    <3>4. QED
      BY <1>4, <1>7, <3>1, <3>3 DEF CallInv
  <2>4. QED
    BY <1>2, <2>1, <2>2, <2>3 DEF MainPrints
<1>8. QED
  BY <1>1, <1>2, <1>6, <1>7

(* A thread that asks changes nothing of what the others ask for.          *)
LEMMA AskKeepsTypes ==
  ASSUME OutputInv, CallInv, NEW t \in Threads, NEW g, NEW format \in Formats,
         NEW echo \in BOOLEAN, Asks(t, g, format, echo)
  PROVE  /\ call' \in [Threads -> Requests]
         /\ pc'[t] = "lock" /\ call'[t] = Request(g, format, echo)
         /\ call'[t].group = g /\ call'[t].format = format /\ call'[t].echo = echo
         /\ \A u \in Threads \ {t} : pc'[u] = pc[u] /\ call'[u] = call[u]
         /\ UNCHANGED <<owner, printfGroup, newLine>>
<1>1. /\ Request(g, format, echo) \in Requests
      /\ Request(g, format, echo).group = g /\ Request(g, format, echo).format = format
      /\ Request(g, format, echo).echo = echo
  BY DEF Asks, Request, Requests, Formats
<1>2. call'[t] = Request(g, format, echo) /\ pc'[t] = "lock"
  BY DEF Asks, CallInv, OutputInv, OutputTypes
<1>3. QED
  BY <1>1, <1>2 DEF Asks, CallInv, OutputInv, OutputTypes

LEMMA OthersKeepCalls ==
  ASSUME StartInv, StartTypes, StartTypes', OutputInv, CallInv, GroupInv, OthersStep
  PROVE  CallInv' /\ GroupInv'
<1> USE BoardAssumption
<1>1. /\ UNCHANGED advertising
      /\ UNCHANGED <<outputVars, consolePc>> \/ CallbackPrints \/ ConsolePrints
  BY OthersPrint
<1>2. ~Alone /\ ~Alone'
  BY OthersCall
<1>3. CASE UNCHANGED <<outputVars, consolePc>>
  BY <1>1, <1>2, <1>3 DEF CallInv, GroupInv, Asked, Typing, outputVars
<1>4. CASE CallbackPrints
  <2>1. PICK t \in {stack, timer}, g \in Groups \union {Main}, format \in Formats :
           Asks(t, g, format, FALSE)
    BY <1>4 DEF CallbackPrints
  <2>2. advertising /\ advertising' /\ consolePc = "none" /\ consolePc' = "none"
    BY <1>1, <1>4 DEF CallbackPrints, StartInv, MainPcs
  <2>3. t \in Threads /\ t # main /\ t # console /\ FALSE \in BOOLEAN
    OBVIOUS
  <2>4. /\ call' \in [Threads -> Requests]
        /\ call'[t].format = format /\ call'[t].echo = FALSE
        /\ \A u \in Threads \ {t} : pc'[u] = pc[u] /\ call'[u] = call[u]
        /\ UNCHANGED <<owner, printfGroup, newLine>>
    BY ONLY <2>1, <2>3, OutputInv, CallInv, AskKeepsTypes, Zenon
  <2>5. ASSUME NEW u \in Threads, pc'[u] = "lock" PROVE Asked(u)'
    <3>1. CASE u = t
      BY <2>2, <2>3, <2>4, <3>1 DEF Asked
    <3>2. CASE u # t
      BY <2>2, <2>4, <2>5, <3>2 DEF Asked, CallInv
    <3>3. QED
      BY <3>1, <3>2
  <2>6. GroupInv'
    BY <1>1, <1>2, <2>4 DEF GroupInv
  <2>7. QED
    BY <2>2, <2>4, <2>5, <2>6 DEF CallInv
<1>5. CASE ConsolePrints
  <2>1. /\ ~advertising /\ ~advertising' /\ consolePc # "none" /\ pc[console] = "idle"
        /\ consolePc' # "none"
    BY <1>1, <1>5 DEF ConsolePrints
  <2>2. PICK g \in Groups \union {Main}, format \in Formats, echo \in BOOLEAN :
           /\ Asks(console, g, format, echo)
           /\ Leaves(format) => g = Main
           /\ echo => g = Main
           /\ echo /\ Leaves(format) => consolePc = "prompt"
           /\ consolePc' = "prompt" => Leaves(format)
           /\ consolePc' = "prompt" /\ echo => consolePc = "prompt"
    <3>1. CASE \E g \in Groups \union {Main}, format \in Formats :
                  /\ Ends(format) /\ Asks(console, g, format, FALSE)
                  /\ consolePc' = "command"
      BY <3>1 DEF Ends, Leaves
    <3>2. CASE \E format \in Formats : Leaves(format) /\ Asks(console, Main, format, FALSE)
      BY <3>2
    <3>3. CASE consolePc = "prompt" /\ \E format \in Formats :
                  Leaves(format) /\ Asks(console, Main, format, TRUE)
      BY <3>3
    <3>4. CASE consolePc' \in {"command", "returned"} /\ \E format \in Formats :
                  Ends(format) /\ Asks(console, Main, format, TRUE)
      BY <3>4 DEF Ends, Leaves
    <3>5. QED
      BY <1>5, <3>1, <3>2, <3>3, <3>4 DEF ConsolePrints
  <2>3. /\ call' \in [Threads -> Requests] /\ pc'[console] = "lock"
        /\ call'[console].group = g /\ call'[console].format = format
        /\ call'[console].echo = echo
        /\ \A u \in Threads \ {console} : pc'[u] = pc[u] /\ call'[u] = call[u]
        /\ UNCHANGED <<owner, printfGroup, newLine>>
    <3>1. console \in Threads /\ Asks(console, g, format, echo)
          /\ format \in Formats /\ echo \in BOOLEAN
      BY <2>2
    <3>2. CASE echo = TRUE
      BY ONLY <3>1, <3>2, OutputInv, CallInv, AskKeepsTypes, Zenon
    <3>3. CASE echo = FALSE
      BY ONLY <3>1, <3>3, OutputInv, CallInv, AskKeepsTypes, Zenon
    <3>4. QED
      BY <3>1, <3>2, <3>3
  <2>4. consolePc = "prompt" => newLine
    BY <2>1 DEF CallInv, Typing
  <2>5. \A u \in Threads \ {console} : pc'[u] = "idle"
    BY <2>1, <2>3 DEF CallInv
  <2>6. Asked(console)'
    <3>1. console # main
      OBVIOUS
    <3>2. echo /\ Leaves(format) => newLine
      BY <2>2, <2>4
    <3>3. QED
      BY <2>1, <2>2, <2>3, <3>1, <3>2 DEF Asked
  <2>7. consolePc' = "prompt" => Typing'
    <3>1. CASE echo
      BY <2>2, <2>3, <2>4, <3>1 DEF Typing
    <3>2. CASE ~echo
      BY <2>2, <2>3, <3>2 DEF Typing
    <3>3. QED
      BY <3>1, <3>2
  <2>8. GroupInv'
    BY <1>1, <1>2, <2>3 DEF GroupInv
  <2>9. QED
    BY <2>3, <2>5, <2>6, <2>7, <2>8 DEF CallInv
<1>6. QED
  BY <1>1, <1>3, <1>4, <1>5

(* A call once more: it is forgotten when the mutex is taken, and what     *)
(* QCLI_Printf remembers is as the format leaves the line.                 *)
LEMMA LockRemembers ==
  ASSUME CallInv, OutputInv, NEW t \in Threads, TakeLock(t)
  PROVE  /\ call[t].group \in Groups \union {Main} /\ call[t].echo \in BOOLEAN
         /\ call[t].format \in Formats /\ Asked(t) /\ pc[t] = "lock"
         /\ call[t].echo => UNCHANGED <<printfGroup, newLine>>
         /\ ~call[t].echo /\ Leaves(call[t].format) => newLine' /\ printfGroup' = call[t].group
         /\ ~call[t].echo /\ ~Leaves(call[t].format) => ~newLine' /\ printfGroup' = Main
         /\ ~call[t].echo => newLine' \in BOOLEAN
         /\ pc' = [pc EXCEPT ![t] = "write"]
         /\ \A u \in Threads : pc'[u] = "lock" => u # t /\ pc[u] = "lock" /\ call'[u] = call[u]
         /\ call' \in [Threads -> Requests]
<1>1. pc[t] = "lock" /\ Asked(t) /\ call[t] \in Requests
  BY DEF TakeLock, CallInv
<1>2. call[t].format \in Formats /\ call[t].format \in Seq({"text", "nl"})
  BY <1>1 DEF Asked, Formats
<1>3. NoCall \in Requests
  BY DEF NoCall, Requests
<1>4. CASE call[t].echo
  BY <1>1, <1>2, <1>3, <1>4 DEF TakeLock, Requests, CallInv, OutputInv, OutputTypes
<1>5. CASE ~call[t].echo
  <2>1. /\ newLine' = (Last(call[t].format) = "text")
        /\ printfGroup' = IF newLine' THEN call[t].group ELSE Main
    BY <1>5 DEF TakeLock
  <2>2. newLine' <=> Leaves(call[t].format)
    BY <1>2, <2>1 DEF Leaves, Last
  <2>3. newLine' \in BOOLEAN
    BY <2>1
  <2>4. Leaves(call[t].format) => printfGroup' = call[t].group
    BY <2>1, <2>2
  <2>5. ~Leaves(call[t].format) => printfGroup' = Main
    BY <2>1, <2>2
  <2>6. /\ pc' = [pc EXCEPT ![t] = "write"] /\ call' = [call EXCEPT ![t] = NoCall]
    BY DEF TakeLock
  <2>7. /\ \A u \in Threads : pc'[u] = "lock" => u # t /\ pc[u] = "lock" /\ call'[u] = call[u]
        /\ call' \in [Threads -> Requests]
    BY <1>3, <2>6 DEF CallInv, OutputInv, OutputTypes
  <2>8. call[t].group \in Groups \union {Main} /\ call[t].echo \in BOOLEAN
    BY <1>1 DEF Requests
  <2>9. QED
    BY <1>1, <1>2, <1>5, <2>2, <2>3, <2>4, <2>5, <2>6, <2>7, <2>8
<1>6. QED
  BY <1>4, <1>5

LEMMA LockKeepsCalls ==
  ASSUME StartInv, StartTypes, OutputInv, CallInv, GroupInv, UNCHANGED <<mainPc, startVars>>,
         NEW t \in Threads, TakeLock(t)
  PROVE  CallInv' /\ GroupInv'
<1>1. /\ call[t].group \in Groups \union {Main} /\ call[t].echo \in BOOLEAN
      /\ call[t].format \in Formats /\ Asked(t) /\ pc[t] = "lock"
      /\ call[t].echo => UNCHANGED <<printfGroup, newLine>>
      /\ ~call[t].echo /\ Leaves(call[t].format) => newLine' /\ printfGroup' = call[t].group
      /\ ~call[t].echo /\ ~Leaves(call[t].format) => ~newLine' /\ printfGroup' = Main
      /\ ~call[t].echo => newLine' \in BOOLEAN
      /\ pc' = [pc EXCEPT ![t] = "write"]
      /\ \A u \in Threads : pc'[u] = "lock" => u # t /\ pc[u] = "lock" /\ call'[u] = call[u]
      /\ call' \in [Threads -> Requests]
  BY LockRemembers
<1>2. UNCHANGED <<consolePc, advertising>> /\ owner' = t /\ (Alone' <=> Alone)
  BY DEF startVars, TakeLock, Alone
<1>3. CASE consolePc = "none"
  <2>1. ASSUME NEW u \in Threads, pc'[u] = "lock" PROVE Asked(u)'
    <3>1. pc[u] = "lock" /\ call'[u] = call[u] /\ Asked(u)
      BY <1>1, <2>1 DEF CallInv
    <3>2. QED
      BY <1>2, <1>3, <3>1 DEF Asked
  <2>2. CallInv'
    BY <1>1, <1>2, <1>3, <2>1 DEF CallInv
  <2>3. ~call[t].echo
    BY <1>1, <1>3 DEF Asked
  <2>4. Alone => ~newLine'
    <3>1. Alone => t = main
      BY <1>1 DEF OutputInv, WriterInv
    <3>2. Alone => ~Leaves(call[t].format)
      BY <1>1, <3>1 DEF Asked, Ends, Leaves
    <3>3. QED
      BY <1>1, <2>3, <3>2
  <2>5. GroupInv'
    <3>1. CASE Leaves(call[t].format)
      BY <1>1, <1>2, <2>3, <2>4, <3>1, OutputAssumption DEF GroupInv, Asked
    <3>2. CASE ~Leaves(call[t].format)
      BY <1>1, <1>2, <2>3, <2>4, <3>2, OutputAssumption DEF GroupInv, Asked
    <3>3. QED
      BY <3>1, <3>2
  <2>6. QED
    BY <2>2, <2>5
<1>4. CASE consolePc # "none"
  <2>1. t = console /\ ~Alone
    BY <1>1, <1>4 DEF CallInv, Alone
  <2>2. \A u \in Threads \ {console} : pc'[u] = "idle"
    BY <1>1, <1>4, <2>1 DEF CallInv, OutputInv, OutputTypes
  <2>3. \A u \in Threads : pc'[u] # "lock"
    BY <1>1, <2>1, <2>2
  <2>4. consolePc = "prompt" => newLine'
    <3>1. CASE call[t].echo
      BY <1>1, <2>1, <3>1 DEF CallInv, Typing
    <3>2. CASE ~call[t].echo
      BY <1>1, <2>1, <3>2 DEF CallInv, Typing
    <3>3. QED
      BY <3>1, <3>2
  <2>5. CallInv'
    <3>1. console \in Threads
      BY BoardAssumption
    <3>2. QED
      BY <1>1, <1>2, <2>2, <2>3, <2>4, <3>1 DEF CallInv, Typing
  <2>6. ~advertising
    BY <1>4 DEF StartInv, MainPcs
  <2>7. GroupInv'
    <3>1. CASE call[t].echo
      BY <1>1, <1>2, <2>1, <3>1 DEF GroupInv
    <3>2. CASE ~call[t].echo /\ Leaves(call[t].format)
      BY <1>1, <1>2, <2>1, <2>6, <3>2, OutputAssumption DEF GroupInv, Asked
    <3>3. CASE ~call[t].echo /\ ~Leaves(call[t].format)
      BY <1>1, <1>2, <2>1, <3>3, OutputAssumption DEF GroupInv
    <3>4. QED
      BY <3>1, <3>2, <3>3
  <2>8. QED
    BY <2>5, <2>7
<1>5. QED
  BY <1>3, <1>4

LEMMA WriteKeepsCalls ==
  ASSUME OutputInv, CallInv, GroupInv, UNCHANGED <<mainPc, startVars>>,
         \/ \E t \in Threads : Transmit(t) \/ TransmitRefused(t) \/ WaitSent(t) \/ Printed(t)
         \/ Interrupt
  PROVE  CallInv' /\ GroupInv'
<1>1. /\ UNCHANGED <<call, printfGroup, newLine, consolePc, advertising>>
      /\ owner' \in {owner, NoThread}
  BY DEF startVars, Transmit, TransmitRefused, WaitSent, Printed, Interrupt, UartTxCB
<1>2. \A u \in Threads : /\ pc'[u] = "lock" <=> pc[u] = "lock"
                         /\ pc[u] = "idle" => pc'[u] = "idle"
  BY DEF OutputInv, OutputTypes, Transmit, TransmitRefused, WaitSent, Printed, Interrupt,
         UartTxCB
<1>3. console \in Threads
  BY BoardAssumption
<1>4. CallInv'
  <2>1. ASSUME NEW u \in Threads, pc'[u] = "lock" PROVE Asked(u)'
    BY <1>1, <1>2, <2>1 DEF Asked, CallInv
  <2>2. consolePc' = "prompt" => Typing'
    BY <1>1, <1>2, <1>3 DEF Typing, CallInv
  <2>3. QED
    BY <1>1, <1>2, <2>1, <2>2 DEF CallInv
<1>5. GroupInv'
  BY <1>1 DEF GroupInv, Alone
<1>6. QED
  BY <1>4, <1>5

LEMMA CallInvStep ==
  ASSUME StartInv, StartTypes, StartTypes', OutputInv, CallInv, GroupInv, [BoardNext]_boardVars
  PROVE  CallInv' /\ GroupInv'
<1>1. CASE MainThread
  BY <1>1, MainKeepsCalls
<1>2. CASE OthersStep
  BY <1>2, OthersKeepCalls
<1>3. CASE UNCHANGED boardVars
  BY <1>3 DEF boardVars, outputVars, startVars, CallInv, GroupInv, Asked, Typing, Alone
<1>4. CASE Printing
  <2>1. PICK t \in Threads : OutputStep(t) /\ UNCHANGED <<mainPc, startVars>>
    BY <1>4 DEF Printing
  <2>2. QED
    BY <2>1, LockKeepsCalls, WriteKeepsCalls DEF OutputStep
<1>5. CASE Interrupt
  BY <1>5, WriteKeepsCalls DEF Interrupt
<1>6. QED
  BY <1>1, <1>2, <1>3, <1>4, <1>5, BoardStepKinds

-----------------------------------------------------------------------------
(* The terminal's line. *)

Shown == [group : Groups \union {Main}, texts : SUBSET (Groups \union {Main}),
          damaged : BOOLEAN]

(* The piece may come next on a line that shows this.                      *)
Fits(shown, piece) ==
    \/ shown.damaged
    \/ piece.kind = "eol"
    \/ piece.kind = "prefix" /\ shown.texts = {}
    \/ piece.kind = "text" /\ piece.group = shown.group

(* What QCLI_Printf remembers is true of the line, and of the last piece   *)
(* while pieces are left.                                                  *)
Remembered(shown) ==
    \/ shown.damaged
    \/ shown = FreshLine /\ (newLine => printfGroup = Main)
    \/ newLine /\ shown.group = printfGroup

Closes(piece) ==
    \/ piece.kind = "eol" /\ (newLine => printfGroup = Main)
    \/ piece.kind = "text" /\ newLine /\ piece.group = printfGroup

LineInv ==
    /\ pieces \in [Threads -> Seq(Pieces)]
    /\ \A t \in Threads : pieces[t] # <<>> =>
          /\ pc[t] \in {"write", "wait"}
          /\ Linked(pieces[t])
          /\ Fits(line, pieces[t][1])
          /\ Closes(pieces[t][Len(pieces[t])])
    /\ (\A t \in Threads : pieces[t] = <<>>) => Remembered(line)
    /\ line \in Shown
    /\ TextUnderItsGroup

LEMMA LineInvInit == BoardInit => LineInv
<1> SUFFICES ASSUME BoardInit PROVE LineInv
  OBVIOUS
<1>1. pieces = [t \in Threads |-> <<>>] /\ line = FreshLine /\ newLine = FALSE
  BY DEF BoardInit, OutputInit
<1>2. FreshLine \in Shown /\ FreshLine.texts = {}
  BY DEF FreshLine, Shown
<1>3. QED
  BY <1>1, <1>2 DEF LineInv, Remembered, TextUnderItsGroup

(* What the terminal shows of a piece that fits.                           *)
LEMMA ShowsFitting ==
  ASSUME NEW shown \in Shown, NEW piece \in Pieces, Fits(shown, piece),
         ~shown.damaged => shown.texts \subseteq {shown.group}
  PROVE  LET next == Shows(shown, piece) IN
         /\ next \in Shown
         /\ ~next.damaged => next.texts \subseteq {next.group}
         /\ \A q \in Pieces : Follows(piece, q) => Fits(next, q)
         /\ Closes(piece) => Remembered(next)
<1> USE DEF Shows, Shown, Pieces, Fits, Follows, Closes, Remembered
<1>1. CASE piece.kind = "eol"
  <2>1. /\ FreshLine \in Shown /\ FreshLine.texts = {} /\ FreshLine.group = Main
        /\ ~FreshLine.damaged
    BY DEF FreshLine
  <2>2. Shows(shown, piece) = FreshLine
    BY <1>1
  <2> HIDE DEF Shows, Shown
  <2>3. QED
    BY <1>1, <2>1, <2>2
<1>2. CASE piece.kind # "eol" /\ shown.damaged
  BY <1>2
<1>3. CASE piece.kind = "prefix" /\ ~shown.damaged
  <2>1. PICK next : next = [shown EXCEPT !.group = piece.group]
    OBVIOUS
  <2>2. /\ next \in Shown /\ next.group = piece.group /\ next.texts = {} /\ ~next.damaged
        /\ Shows(shown, piece) = next
    BY <1>3, <2>1
  <2> HIDE DEF Shows, Shown
  <2>3. QED
    BY <1>3, <2>2
<1>4. CASE piece.kind = "text" /\ ~shown.damaged
  <2>1. PICK next : next = [shown EXCEPT !.texts = @ \union {piece.group}]
    OBVIOUS
  <2>2. /\ next \in Shown /\ next.group = shown.group /\ ~next.damaged
        /\ next.texts = shown.texts \union {piece.group}
        /\ Shows(shown, piece) = next
    BY <1>4, <2>1
  <2>3. piece.group = shown.group
    BY <1>4
  <2> HIDE DEF Shows, Shown
  <2>4. QED
    BY <1>4, <2>2, <2>3
<1>5. QED
  BY <1>1, <1>2, <1>3, <1>4

(* A thread that begins to write what fits.                                *)
LEMMA BeginsToWrite ==
  ASSUME LineInv, CallInv, OutputInv, NEW t \in Threads, NEW written \in Seq(Pieces),
         \A u \in Threads : pieces[u] = <<>>,
         pieces' = [pieces EXCEPT ![t] = written], pc' = [pc EXCEPT ![t] = "write"],
         UNCHANGED line, written # <<>>, Linked(written),
         Fits(line, written[1]), Closes(written[Len(written)])'
  PROVE  LineInv'
<1>1. pieces' \in [Threads -> Seq(Pieces)] /\ pieces'[t] = written /\ pc'[t] = "write"
  BY DEF LineInv, OutputInv, OutputTypes
<1>2. \A u \in Threads : u # t => pieces'[u] = <<>>
  BY DEF LineInv
<1>3. ASSUME NEW u \in Threads, pieces'[u] # <<>>
      PROVE  /\ pc'[u] \in {"write", "wait"}
             /\ Linked(pieces'[u])
             /\ Fits(line', pieces'[u][1])
             /\ Closes(pieces[u][Len(pieces[u])])'
  <2>1. u = t
    BY <1>2, <1>3
  <2>2. Closes(pieces[u][Len(pieces[u])])'
    BY <1>1, <2>1 DEF Closes
  <2>3. QED
    BY <1>1, <2>1, <2>2
<1>4. QED
  BY <1>1, <1>3 DEF LineInv, TextUnderItsGroup

LEMMA LiteralKeepsLine ==
  ASSUME LineInv, CallInv, GroupInv, OutputInv, Alone, pc[main] = "idle",
         NEW format \in Formats, Ends(format), WriteLiteral(main, format)
  PROVE  LineInv'
<1>1. \A u \in Threads : pieces[u] = <<>>
  BY DEF LineInv, OutputInv, WriterInv
<1>2. PICK written : written = Plain(format)
  OBVIOUS
<1>3. /\ written \in Seq(Pieces) /\ written # <<>> /\ Linked(written)
      /\ written[1] = Shape(format[1], Main)
      /\ written[Len(written)] = Shape(format[Len(format)], Main)
  BY <1>2, PlainLinked
<1>4. UNCHANGED <<newLine, printfGroup, line>> /\ ~newLine
  BY DEF WriteLiteral, GroupInv
<1>5. Fits(line, written[1])
  BY <1>1, <1>3, <1>4, PieceTypes DEF LineInv, Remembered, Fits, Shape, FreshLine
<1>6. Closes(written[Len(written)])'
  BY <1>3, <1>4, PieceTypes DEF Closes, Ends, Shape
<1>7. main \in Threads
  BY BoardAssumption
<1>8. QED
  BY <1>1, <1>2, <1>3, <1>4, <1>5, <1>6, <1>7, BeginsToWrite DEF WriteLiteral

(* Nobody else writes when the mutex is taken; what is written first goes  *)
(* on with the line or ends it, and what is written last is what           *)
(* QCLI_Printf remembers.                                                  *)
LEMMA LockKeepsLine ==
  ASSUME StartInv, OutputInv, CallInv, GroupInv, LineInv, NEW t \in Threads, TakeLock(t)
  PROVE  LineInv'
<1> DEFINE g == call[t].group
           format == call[t].format
<1>1. /\ g \in Groups \union {Main} /\ call[t].echo \in BOOLEAN
      /\ format \in Formats /\ Asked(t) /\ pc[t] = "lock"
      /\ call[t].echo => UNCHANGED <<printfGroup, newLine>>
      /\ ~call[t].echo /\ Leaves(format) => newLine' /\ printfGroup' = g
      /\ ~call[t].echo /\ ~Leaves(format) => ~newLine' /\ printfGroup' = Main
      /\ pc' = [pc EXCEPT ![t] = "write"]
  BY LockRemembers
<1>2. \A u \in Threads : pieces[u] = <<>>
  <2>1. ASSUME NEW u \in Threads, pieces[u] # <<>> PROVE FALSE
    <3>1. pc[u] \in {"write", "wait"}
      BY <2>1 DEF LineInv
    <3>2. owner = NoThread
      BY DEF TakeLock, MutexFree
    <3>3. owner = u \/ (u = main /\ Alone)
      BY <3>1 DEF OutputInv, WriterInv
    <3>4. u = main /\ Alone
      BY <3>2, <3>3, OutputAssumption
    <3>5. t = main
      BY <1>1, <3>4 DEF OutputInv, WriterInv
    <3>6. QED
      BY <1>1, <3>1, <3>4, <3>5
  <2>2. QED
    BY <2>1
<1>3. /\ format[1] \in {"text", "nl"} /\ Head(format) = format[1]
      /\ format[Len(format)] \in {"text", "nl"}
      /\ Leaves(format) <=> format[Len(format)] = "text"
  BY <1>1 DEF Formats, Leaves
<1>4. /\ Remembered(line) /\ UNCHANGED line
      /\ printfGroup \in Groups \union {Main, NoGroup} /\ newLine \in BOOLEAN
      /\ newLine => printfGroup # NoGroup
      /\ ~newLine \/ ~advertising => printfGroup \in {Main, NoGroup}
  BY <1>2 DEF LineInv, GroupInv, TakeLock
<1> HIDE DEF g, format
<1>5. CASE call[t].echo
  <2>1. PICK written : written = Plain(format)
    OBVIOUS
  <2>2. /\ written \in Seq(Pieces) /\ written # <<>> /\ Linked(written)
        /\ written[1] = Shape(format[1], Main)
        /\ written[Len(written)] = Shape(format[Len(format)], Main)
    BY <1>1, <2>1, PlainLinked
  <2>3. pieces' = [pieces EXCEPT ![t] = written]
    BY <1>5, <2>1 DEF TakeLock, format
  <2>4. ~advertising /\ (Leaves(format) => newLine)
    BY <1>1, <1>5 DEF Asked, StartInv, MainPcs, format
  <2>5. newLine => printfGroup = Main
    BY <1>4, <2>4
  <2>6. Fits(line, written[1])
    BY <1>3, <1>4, <2>2, <2>5, PieceTypes DEF Remembered, Fits, Shape, FreshLine
  <2>7. Closes(written[Len(written)])'
    BY <1>1, <1>3, <1>5, <2>2, <2>4, <2>5, PieceTypes DEF Closes, Shape
  <2>8. QED
    BY <1>1, <1>2, <1>4, <2>2, <2>3, <2>6, <2>7, BeginsToWrite
<1>6. CASE ~call[t].echo
  <2>1. PICK written : written = Header(g, format) \o Body(g, format)
    OBVIOUS
  <2>2. /\ written \in Seq(Pieces) /\ written # <<>> /\ Linked(written)
        /\ written[1] = Opening(g, format)
        /\ written[Len(written)] = Shape(format[Len(format)], g)
    BY <1>1, <2>1, CallLinked
  <2>3. pieces' = [pieces EXCEPT ![t] = written]
    BY <1>6, <2>1 DEF TakeLock, format, g
  <2>4. Fits(line, written[1])
    <3> USE PieceTypes
    <3>1. CASE EndsOthersLine(g) \/ format[1] = "nl"
      BY <1>1, <1>3, <2>2, <3>1 DEF Opening, Fits, Shape
    <3>2. CASE ~EndsOthersLine(g) /\ format[1] = "text" /\ g # printfGroup /\ g # Main
      <4>1. ~newLine /\ written[1] = Prefix(g)
        BY <1>4, <2>2, <3>2 DEF EndsOthersLine, Opening
      <4>2. QED
        BY <1>1, <1>4, <4>1 DEF Remembered, Fits, FreshLine
    <3>3. CASE format[1] = "text" /\ g = printfGroup
      <4>1. written[1] = Text(g)
        BY <2>2, <3>3 DEF Opening, Shape, EndsOthersLine
      <4>2. ~newLine => g = Main
        BY <1>1, <1>4, <3>3, OutputAssumption
      <4>3. QED
        BY <1>1, <1>4, <3>3, <4>1, <4>2 DEF Remembered, Fits, FreshLine
    <3>4. CASE ~EndsOthersLine(g) /\ format[1] = "text" /\ g # printfGroup /\ g = Main
      <4>1. ~newLine /\ written[1] = Text(Main)
        BY <1>4, <2>2, <3>4 DEF EndsOthersLine, Opening, Shape
      <4>2. QED
        BY <1>1, <1>4, <4>1 DEF Remembered, Fits, FreshLine
    <3>5. QED
      BY <1>3, <3>1, <3>2, <3>3, <3>4
  <2>5. Closes(written[Len(written)])'
    <3>1. CASE Leaves(format)
      <4>1. written[Len(written)] = Text(g) /\ newLine' /\ printfGroup' = g
        BY <1>1, <1>3, <1>6, <2>2, <3>1 DEF Shape
      <4>2. QED
        BY <1>1, <4>1, PieceTypes DEF Closes
    <3>2. CASE ~Leaves(format)
      <4>1. written[Len(written)] = Eol /\ ~newLine'
        BY <1>1, <1>3, <1>6, <2>2, <3>2 DEF Shape
      <4>2. QED
        BY <4>1, PieceTypes DEF Closes
    <3>3. QED
      BY <3>1, <3>2
  <2>6. QED
    BY <1>1, <1>2, <1>4, <2>2, <2>3, <2>4, <2>5, BeginsToWrite
<1>7. QED
  BY <1>5, <1>6

(* A piece is sent, or refused: the next one fits what is shown then.      *)
LEMMA SendKeepsLine ==
  ASSUME OutputInv, LineInv, NEW t \in Threads, Transmit(t) \/ TransmitRefused(t)
  PROVE  LineInv'
<1>1. /\ pc[t] = "write" /\ pieces[t] # <<>> /\ UNCHANGED <<printfGroup, newLine>>
      /\ pieces' = [pieces EXCEPT ![t] = Tail(@)]
      /\ pc' = pc \/ pc' = [pc EXCEPT ![t] = "wait"]
  BY DEF Transmit, TransmitRefused
<1>2. PICK left : left = pieces[t]
  OBVIOUS
<1>3. /\ left \in Seq(Pieces) /\ left # <<>> /\ Linked(left)
      /\ Fits(line, left[1]) /\ Closes(left[Len(left)])
  BY <1>1, <1>2 DEF LineInv
<1>4. /\ Len(left) \in Nat \ {0} /\ left[1] \in Pieces /\ Head(left) = left[1]
      /\ Tail(left) \in Seq(Pieces) /\ Len(Tail(left)) = Len(left) - 1
      /\ \A n \in 1..(Len(left) - 1) : Tail(left)[n] = left[n + 1]
  BY <1>3
<1>5. /\ line' \in Shown
      /\ ~line'.damaged => line'.texts \subseteq {line'.group}
      /\ \A q \in Pieces : Follows(left[1], q) => Fits(line', q)
      /\ Closes(left[1]) => Remembered(line')
  <2>1. CASE Transmit(t)
    <3>1. line' = Shows(line, left[1])
      BY <1>2, <1>4, <2>1 DEF Transmit
    <3>2. line \in Shown /\ (~line.damaged => line.texts \subseteq {line.group})
      BY DEF LineInv, TextUnderItsGroup
    <3>3. QED
      BY <1>3, <1>4, <3>1, <3>2, ShowsFitting
  <2>2. CASE TransmitRefused(t)
    <3>1. line' = [FreshLine EXCEPT !.damaged = TRUE]
      BY <2>2 DEF TransmitRefused
    <3>2. line'.damaged /\ line' \in Shown
      BY <3>1 DEF FreshLine, Shown
    <3>3. QED
      BY <3>2 DEF Fits, Remembered
  <2>3. QED
    BY <2>1, <2>2
<1>6. \A u \in Threads : u # t => pieces'[u] = <<>>
  <2>1. \A u \in Threads : pc[u] \in {"write", "wait"} => u = t
    BY <1>1, OneWriter
  <2>2. \A u \in Threads : u # t => pieces[u] = <<>>
    BY <2>1 DEF LineInv
  <2>3. QED
    BY <1>1, <2>2 DEF LineInv
<1>7. pieces' \in [Threads -> Seq(Pieces)] /\ pieces'[t] = Tail(left)
  BY <1>1, <1>2, <1>4 DEF LineInv
<1>8. pc'[t] \in {"write", "wait"}
  BY <1>1 DEF OutputInv, OutputTypes
<1>9. CASE Tail(left) = <<>>
  <2>1. Len(left) = 1
    <3>1. PICK n \in Nat : n = Len(left) /\ n # 0
      BY <1>4
    <3>2. PICK rest \in Seq(Pieces) : rest = Tail(left) /\ Len(rest) = n - 1
      BY <1>4, <3>1
    <3>3. rest = <<>>
      BY <1>9, <3>2
    <3>4. Len(rest) = 0
      BY <3>3
    <3>5. QED
      BY ONLY <3>1, <3>2, <3>4
  <2>2. Remembered(line')
    BY <1>3, <1>5, <2>1
  <2>3. Remembered(line)'
    BY <1>1, <2>2 DEF Remembered
  <2>4. \A u \in Threads : pieces'[u] = <<>>
    BY <1>6, <1>7, <1>9
  <2>5. QED
    BY <1>5, <1>7, <2>3, <2>4 DEF LineInv, TextUnderItsGroup
<1>10. CASE Tail(left) # <<>>
  <2>1. Len(left) >= 2
    BY <1>4, <1>10
  <2>2. /\ Tail(left)[1] = left[2] /\ left[2] \in Pieces
        /\ Tail(left)[Len(Tail(left))] = left[Len(left)]
    BY <1>3, <1>4, <2>1
  <2>3. Fits(line', Tail(left)[1])
    <3>1. Follows(left[1], left[2])
      BY <1>3, <1>4, <2>1 DEF Linked
    <3>2. QED
      BY <1>5, <2>2, <3>1
  <2>4. Linked(Tail(left))
    <3>1. ASSUME NEW n \in 2..Len(Tail(left))
          PROVE  Follows(Tail(left)[n - 1], Tail(left)[n])
      <4>1. PICK m : m = n + 1
        OBVIOUS
      <4>2. m \in 2..Len(left) /\ m - 1 = n
            /\ n \in 1..(Len(left) - 1) /\ n - 1 \in 1..(Len(left) - 1)
        BY <1>4, <4>1
      <4>3. Tail(left)[n] = left[m] /\ Tail(left)[n - 1] = left[m - 1]
        BY <1>4, <4>1, <4>2
      <4>4. QED
        BY <1>3, <4>2, <4>3 DEF Linked
    <3>2. QED
      BY <3>1 DEF Linked
  <2>5. Closes(Tail(left)[Len(Tail(left))])'
    BY <1>1, <1>3, <2>2 DEF Closes
  <2>6. ASSUME NEW u \in Threads, pieces'[u] # <<>>
        PROVE  /\ pc'[u] \in {"write", "wait"}
               /\ Linked(pieces'[u])
               /\ Fits(line', pieces'[u][1])
               /\ Closes(pieces[u][Len(pieces[u])])'
    <3>1. u = t
      BY <1>6, <2>6
    <3>2. Closes(pieces[u][Len(pieces[u])])'
      BY <1>7, <2>5, <3>1 DEF Closes
    <3>3. QED
      BY <1>7, <1>8, <2>3, <2>4, <3>1, <3>2
  <2>7. pieces'[t] # <<>>
    BY <1>7, <1>10
  <2>8. QED
    BY <1>5, <1>7, <2>6, <2>7 DEF LineInv, TextUnderItsGroup
<1>11. QED
  BY <1>9, <1>10

(* Where nothing is written or shown, and no writer goes idle.             *)
LEMMA LineStays ==
  ASSUME LineInv, UNCHANGED <<pieces, line, printfGroup, newLine>>,
         \A t \in Threads : pieces[t] # <<>> /\ pc[t] \in {"write", "wait"}
                               => pc'[t] \in {"write", "wait"}
  PROVE  LineInv'
<1>1. \A x : Closes(x)' <=> Closes(x)
  BY DEF Closes
<1>2. ASSUME NEW t \in Threads, pieces'[t] # <<>>
      PROVE  /\ pc'[t] \in {"write", "wait"}
             /\ Linked(pieces'[t])
             /\ Fits(line', pieces'[t][1])
             /\ Closes(pieces[t][Len(pieces[t])])'
  <2>1. Closes(pieces[t][Len(pieces[t])])
    BY <1>2 DEF LineInv
  <2>2. Closes(pieces[t][Len(pieces[t])])'
    BY <2>1 DEF Closes
  <2>3. QED
    BY <1>2, <2>2 DEF LineInv
<1>3. (\A t \in Threads : pieces'[t] = <<>>) => Remembered(line)'
  BY DEF LineInv, Remembered
<1>4. QED
  BY <1>2, <1>3 DEF LineInv, TextUnderItsGroup

LEMMA LineInvStep ==
  ASSUME StartInv, StartTypes, StartTypes', OutputInv, CallInv, GroupInv, LineInv,
         [BoardNext]_boardVars
  PROVE  LineInv'
<1>1. CASE MainThread
  <2>1. MainPrints /\ Calls(main)
    BY <1>1, MainThreadPrints, MainCalls
  <2>2. CASE \E g \in Groups, format \in Formats : Ends(format) /\ Asks(main, g, format, FALSE)
    BY <2>1, <2>2, LineStays DEF Asks, Calls, OutputInv, OutputTypes
  <2>3. CASE Alone /\ \E format \in Formats : Ends(format) /\ WriteLiteral(main, format)
    BY <2>1, <2>3, LiteralKeepsLine DEF Calls
  <2>4. CASE UNCHANGED outputVars
    BY <2>4, LineStays DEF outputVars
  <2>5. QED
    BY <2>1, <2>2, <2>3, <2>4 DEF MainPrints
<1>2. CASE OthersStep
  <2>1. CASE UNCHANGED outputVars
    BY <2>1, LineStays DEF outputVars
  <2>2. CASE CallbackPrints \/ ConsolePrints
    <3>1. PICK t \in Threads, g \in Groups \union {Main}, format \in Formats,
               echo \in BOOLEAN : pc[t] = "idle" /\ Asks(t, g, format, echo)
      <4>1. CASE CallbackPrints
        BY <4>1, BoardAssumption DEF CallbackPrints
      <4>2. CASE ConsolePrints
        <5>1. console \in Threads /\ Main \in Groups \union {Main}
          BY BoardAssumption
        <5>2. QED
          BY <4>2, <5>1 DEF ConsolePrints
      <4>3. QED
        BY <2>2, <4>1, <4>2
    <3>2. QED
      BY <3>1, LineStays DEF Asks, OutputInv, OutputTypes
  <2>3. QED
    BY <1>2, <2>1, <2>2, OthersPrint
<1>3. CASE UNCHANGED boardVars
  BY <1>3, LineStays DEF boardVars, outputVars
<1>4. CASE Printing
  <2>1. PICK t \in Threads : OutputStep(t)
    BY <1>4 DEF Printing
  <2>2. CASE TakeLock(t)
    BY <2>2, LockKeepsLine
  <2>3. CASE Transmit(t) \/ TransmitRefused(t)
    BY <2>3, SendKeepsLine
  <2>4. CASE WaitSent(t) \/ Printed(t)
    BY <2>4, LineStays DEF WaitSent, Printed, OutputInv, OutputTypes
  <2>5. QED
    BY <2>1, <2>2, <2>3, <2>4 DEF OutputStep
<1>5. CASE Interrupt
  BY <1>5, LineStays DEF Interrupt, UartTxCB
<1>6. QED
  BY <1>1, <1>2, <1>3, <1>4, <1>5, BoardStepKinds

(* What PAL_Context counts is never more than a piece, nor less than       *)
(* nothing: the UART has at most that to send.                             *)
CountInv == bytesToTx \in 0..Bytes

LEMMA CountInvStep ==
  ASSUME StartInv, OutputInv, CountInv, [BoardNext]_boardVars
  PROVE  CountInv'
<1>1. CASE MainThread \/ OthersStep
  BY <1>1, MainCalls, OthersCall DEF Calls, CountInv
<1>2. CASE UNCHANGED boardVars
  BY <1>2 DEF boardVars, outputVars, CountInv
<1>3. CASE Printing
  BY <1>3, OutputAssumption
     DEF Printing, OutputStep, TakeLock, Transmit, TransmitRefused, WaitSent, Printed, CountInv
<1>4. CASE Interrupt
  <2>1. PICK sent \in 1..uartLeft : UartTxCB(sent)
    BY <1>4 DEF Interrupt
  <2>2. Waiting # {} /\ bytesToTx = uartLeft
    BY <2>1 DEF OutputInv, OutputTypes, TransmitAgrees
  <2>3. bytesToTx' = bytesToTx \/ bytesToTx' = bytesToTx - sent
    BY <2>1 DEF UartTxCB
  <2>4. QED
    BY <2>1, <2>2, <2>3, OutputAssumption DEF CountInv
<1>5. QED
  BY <1>1, <1>2, <1>3, <1>4, BoardStepKinds

(* All of it together.                                                     *)
BoardInv ==
    StartInv /\ StartTypes /\ OutputInv /\ CountInv /\ CallInv /\ GroupInv /\ LineInv

LEMMA BoardInvariant == BoardSpec => []BoardInv
<1>1. BoardInit => BoardInv
  <2>1. BoardInit => CountInv
    BY OutputAssumption DEF BoardInit, OutputInit, CountInv
  <2>2. QED
    BY <2>1, StartInit, StartTypesInit, OutputInvInit, CallInvInit, LineInvInit DEF BoardInv
<1>2. BoardInv /\ [BoardNext]_boardVars => BoardInv'
  <2> SUFFICES ASSUME BoardInv, [BoardNext]_boardVars PROVE BoardInv'
    OBVIOUS
  <2>1. StartInv' /\ StartTypes' /\ OutputInv' /\ CountInv'
    BY StartStep, StartTypesStep, OutputInvStep, CountInvStep DEF BoardInv
  <2>2. CallInv' /\ GroupInv'
    BY <2>1, CallInvStep DEF BoardInv
  <2>3. LineInv'
    BY <2>1, LineInvStep DEF BoardInv
  <2>4. QED
    BY <2>1, <2>2, <2>3 DEF BoardInv
<1>3. QED
  BY <1>1, <1>2, PTL DEF BoardSpec

(* However the calls interleave, whatever their formats, and however often *)
(* the UART refuses: a line that came through whole holds the text of the  *)
(* one group it names.                                                     *)
THEOREM LinesNameTheirGroup == BoardSpec => []TextUnderItsGroup
<1>1. BoardInv => TextUnderItsGroup
  BY DEF BoardInv, LineInv
<1>2. QED
  BY <1>1, BoardInvariant, PTL

(* Every variable keeps its type; what is left to transmit is never        *)
(* negative, nor more than a piece.                                        *)
THEOREM BoardTypes == BoardSpec => []BoardTypeOK
<1>1. BoardInv => BoardTypeOK
  <2> SUFFICES ASSUME BoardInv PROVE BoardTypeOK
    OBVIOUS
  <2>1. StartTypes /\ OutputTypes
    BY DEF BoardInv, OutputInv
  <2>2. \A t \in Threads : call[t].group \in Groups \union {Main}
    BY DEF BoardInv, CallInv, Requests
  <2>3. QED
    BY <2>1, <2>2 DEF BoardInv, StartTypes, OutputTypes, CountInv, GroupInv, BoardTypeOK
<1>2. QED
  BY <1>1, BoardInvariant, PTL

=============================================================================
