# Verification of the home controller

TLA+ models, TLC configurations and TLAPS proofs for the board application of
this repository (`src/Board-Application/src`): a QCA4020 board that is a BLE
peripheral for phones and a BLE central for one light bulb, drives a servo lock,
reports a smoke detector, and has a command console on its UART.

## The system

| Part | State it keeps | Operations | Talks to |
|---|---|---|---|
| Link book-keeping (`home_automation.c`) | `DeviceInfoList`, `ConnectionCount`, `SelectedRemoteBD_ADDR`, `LocalDeviceIsMaster`, `RemoteAddressType`, the security slots `SecurityRemoteBD_ADDR` and `BLBD_SecurityRemoteBD_ADDR`, `Current_Conn_Addr` | `GATT_Connection_Event_Callback`, `GAP_LE_Event_Callback` (phones), `BLBD_GAP_LE_Event_Callback` (bulbs), the service discovery callback | the BLE stack, which calls back |
| Device store (`home_automation.c`) | `DeviceInfoList`, `PersistDeviceInfoList`, the record in flash | `StorePersistentData`, `LoadPersistentData`, the copies made when a pairing ends | flash |
| Bulb search (`home_automation.c`) | `state_flags`, scan and connection timers | `MscStartScan`, `StopScan`, timer callbacks, `ConnectLEDevice`, advertising reports | timer thread, stack |
| Home service (`ble_server.c`) | `lock_State`, `bulb_State`, `notify_Thread_Flag`, `connection_Id` | writes of the lock, the bulb and the two client configurations | `BLBDWriteData`, the link book-keeping through `CheckEncryptionStatus` |
| Periodic timer (`home_automation.c`) | `cnt` | `timer_callback` every 2 s | scan, notifications |
| Start-up and stack life cycle (`pal/pal.c`, `home_automation.c`, `ble_server.c`) | handles of the menus, `BluetoothStackID`, pairability, the GATT service, whether it advertises | `app_init`, `app_start`, `InitializeBluetooth`, `BLE_IOService`, `CloseStack`, the smoke detector's loop | the SDK, the console output |
| Console output (`qcli/qcli.c`, `pal/pal.c`) | `CLI_Mutex`, `Current_Printf_Group`, `Printf_New_Line`, `BytesToTx`, the transmit event | `QCLI_Printf`, `PAL_Console_Write`, `Uart_Tx_CB` | four threads that print, the UART |
| Console input and commands (`qcli/qcli.c`, `qcli/qcli_util.c`, `pal/pal.c`) | the receive ring, `Input_String`, `Parameter_List`, the groups, `Thread_Count`, `Thread_Info` | `Uart_Rx_CB`, `cmd_thread`, `QCLI_Process_Input_Data`, `Process_Command`, `Execute_Command`, `Command_Thread`, `QCLI_Register_Command_Group` | the UART, the commands' tables |
| GAP client, drivers, power demos | | pure I/O | not modelled |
| Android application and its BLE library | | | not modelled |

What is hard: the stack's callbacks for both roles interleave in any order and
share globals; GAP and GATT report one link separately; the timer thread runs
between the steps of a handler that sleeps; lists are copied with their
pointers; the board restarts with what flash holds. On the console one mutex,
one event and one count of bytes serve every thread that prints; the receive
interrupt and the console thread share a ring; command threads read their
parameters from the one input line. `PROJECT.json` lists each
hazard at its line with the properties that cover it.

## Modules

| Module | What it is |
|---|---|
| `LinkView` | abstract: what the book-keeping promises about links |
| `DeviceLinks` | the book-keeping in full, one action per callback case; implements `LinkView` |
| `DeviceLinksProofs` | its theorems |
| `HomeControl` | EXTENDS `LinkView`; search, connection, lamp, lock, notifications, the sleeping lock handler |
| `PeriodicTimer`, `PeriodicTimerProofs` | the counter of `timer_callback`, and its theorems |
| `DeviceStore` | the two lists as a heap with pointers, the flash record, restarts |
| `DeviceStoreProofs` | its theorems |
| `HomeControlProofs` | theorems about `HomeControl` |
| `ConsoleOutput` | what `QCLI_Printf` writes, the mutex it holds, transmission and its interrupts |
| `BoardStart` | EXTENDS `ConsoleOutput`; the board from power-on, with the four threads that print |
| `BoardStartProofs` | its theorems |
| `CommandLine`, `CommandLineProofs` | pure operators: how a line is split into words and a word read as a number, and lemmas about them |
| `Console` | EXTENDS `CommandLine`; receive ring, console thread, menu, commands, command threads |
| `ConsoleProofs` | its theorems |
| `Iteration` | induction over the naturals, for the proofs about loops |
| `MCDeviceLinks`, `MCHomeControl`, `MCDeviceStore`, `MCBoardStart`, `MCConsole` | instances for TLC |

How state and actions correspond to the code:

- An action is a whole callback case. Callbacks run one at a time, so a case is
  atomic, except the write of the lock (`ble_server.c:333-376`): it sleeps for a
  second between reading and using `bulb_State`, and is `WriteLock` followed by
  `BulbFollowsLock`. Between them no other callback runs (`StackRuns`) while
  the timer thread does.
- `DeviceInfoList` is a function from devices to entries in `DeviceLinks`, where
  its order does not matter, and a linked list in `DeviceStore`, where it does.
  `mayBePersisted` in `DeviceLinks` bounds from above what a search of
  `PersistDeviceInfoList` can find, the entries of the session included that a
  copied pointer leads to (`CopyShares`); `DeviceStore` says exactly what it
  finds.
- `link[p]` (`phase[p]` in `LinkView`) says which of the four connection events
  of a device were delivered. A connection is reported by GAP and then at once
  by GATT, as the code relies on (comment at `home_automation.c:4262`): no
  other connection comes between. The loss is reported in either order.
- A failed call of the stack, a failed `malloc` and a failed read or write of
  flash are choices in the action that makes the call: the code often prints the
  result and goes on, so a scan may go on without its timer, the lamp may not
  follow `bulb_State`, and a restart may come up with either list empty.
- `timer_callback(scanDue)` of `HomeControl` leaves open when a scan is due;
  `PeriodicTimer` says when.
- The console thread's place in `cmd_thread` is `cmdPc`. Its steps end where
  another thread or the UART's interrupt can matter: at a wait, at the mutex, and
  between two writes of shared state. What it does under the mutex to its own line
  is one step for each character.
- `CLI_Mutex` is recursive in the SDK. `Console` holds it over a whole buffer, as
  `QCLI_Process_Input_Data` does. `ConsoleOutput` gives it back after each print
  even where an outer holding would keep it; other threads then come between the
  prints of that holding more often than in the code, never less. Messages of one
  thread that follow each other and end their lines are one call.
- A piece of `ConsoleOutput` is one transmission: the end of a line, a group's
  name, or a run of text. What the text says is left out.
- `CommandLine` takes a line as a sequence of characters, of which only the
  space, the quote, the backslash and the digits are told apart; numbers wrap at
  `Word`. No command table of the firmware has a command that runs in a thread;
  the instance gives it one, since `qcli.c` provides for it.
- On a board whose start succeeds `app_init` never returns, so the console
  thread is only created when start-up fails (`BoardStart`). `Console` is
  that console. Command `Exit 1` resets the board.
- Operators whose comment says "Mutant" are defective variants of the operator
  below them. No specification uses them; they show that each property can
  tell a wrong handler from the right one.

## Runs

| Run | Instance | Shows |
|---|---|---|
| `links` | two phones, one of them saved by an earlier run, one bulb | eight invariants of the book-keeping, and that it implements `LinkView` |
| `home` | two phones, one saved bulb | the lock, lamp, scan and notification state agree with the links, as far as the stack does what it is asked; commands need an encrypted link |
| `bulb_search` | one phone, one bulb | liveness: the bulb is found again and again while a phone stays |
| `timer` | 2 s tick | both bounds on the counter, and that smoke data keeps coming |
| `store` | one phone, one bulb, 4 list cells | no circular list, no double entry, bonded entries stay, a saved device that was loaded is kept |
| `console` | a menu of three groups, one command with a thread, two receive buffers, two threads, 10 characters in seven kinds of buffers, one failure | what is typed is processed once, in order and to the end; threads are counted, get their own parameters and end; lines of up to 6 characters are split into their words |
| `board` | the firmware's four threads and four groups, pieces of two bytes, two failures | controller or console, never half of either; one transmission at a time; no text under another group's name; every print ends |
| `mobile_slot`, `bulb_slot`, `scan_interval`, `entry_lost`, `phone_saved` | | what the code does against what its comments say, see below |

Bounds. Three devices are the smallest system in which links of both roles
overlap and one phone's events fall between another's. `ConnectionCount` needs
no bound, each device has one link. `MaxCells` = 4 holds both devices in both
lists, and also lists in which an unlinked entry is still reached from the
persistent list; the theorems need it to be 2, since a restart makes two
entries. There is no bound on steps or restarts. Time only occurs in
`PeriodicTimer`, in ticks.

In `console` (77 219 states) the line has 6 characters (`MaxLength`) and one
parameter (`MaxParameters`), so that the buffers in `MCKeystrokes` fill both
and pass both; two receive buffers are the firmware's number, and 10 characters
(`MaxTyped`) reuse each of them at least once and let a line span two. A reset
starts the count again. With one command and its thread two lines suffice for
both threads to exist. In `board` (62 631 states) a piece of two bytes
(`Bytes`) is the shortest that an interrupt can cut in two, and `MaxFaults` = 2
lets start-up fail at one call and lose a transmission, or fail twice.

Every run checks for deadlock, except `console` and `board`: nobody need type
any more, and a board whose UART does not open stops.

Where the code departs from its comments:

- `mobile_slot`: the bulb's re-established security completes in the phones'
  callback (`home_automation.c:4509` passes `GAP_LE_Event_Callback`), which
  clears the phones' slot while a phone may be pairing. The bulbs' callback
  has a case for that event (4860-4881) which is never reached.
- `bulb_slot`: a bulb that pairs again although it is persisted leaves the
  handler at 4897 before its slot is cleared and discovery starts. The slot stays
  taken until the next status of a bulb's pairing that does not take that way
  out; until then the bulb's requests for security are refused.
- `scan_interval`: scans are due 12 or 18 s apart, not 20.
- `phone_saved`: a phone pairs while a bulb is connected that has not finished
  pairing. `memcpy` copies the pointer to the bulb's entry into the persistent
  list; `StorePersistentData` follows it, finds no type, and writes the bulb's
  address, beside the phone's key, as the remote device.
- `entry_lost`: with a second phone the same pointer leads the search by type
  to the first phone's entry of the session, which is overwritten. The board's
  README assumes one device of each kind (`README.md:11`). With two phones and a
  bulb the copies can also close a circle, and `StorePersistentData` then never
  returns; with one phone and one bulb they cannot (`ListsEnd`).

Also seen, not stated as a property of their own:

- `StopScan` stops the scan's timer first (`home_automation.c:3480-3486`). When the
  stack then refuses to stop the scan the result is printed (3489-3498) and the scan
  goes on without a timer, until a bulb's report or the timer of a later scan
  makes the board ask again; none is started while a bulb's link lasts.
  `ScanIsBounded` says that nothing else leaves a scan without its timer.
- `LoadPersistentData` may fail to read flash (700), or find no memory for the
  entry, which it reports as a success (736-776). Its result is only printed
  (5141-5144), and the list the record is written from is empty. The next pairing
  that stores it without an entry for the phone (a bulb's, or a phone's for which
  there is no memory) replaces the record by one without the phone and its key. A
  load that works puts the phone in that list, and from then on
  `SavedRemoteIsKept` says that list and record keep it.
- A write of the lamp that the stack refuses (`home_automation.c:3307-3324`) is not
  tried again, and `bulb_State` changes all the same: a lock command then finds the
  bulb already as it should be, and does not write. `LampFollowsState` says that
  the two agree from a write the stack took to one it refuses.
- The bulb's address is loaded after a restart but no entry for it goes to the
  persistent list. If the phone pairs before the bulb has paired again, the
  record is written without the bulb.
- `InitializeBluetooth` leaves the stack open when `BLE_IOService` returns 0 or
  advertising fails, and takes a negative result for success; the comment near
  `home_automation.c:1669` says the stack is shut down. `ControllerOrConsole`
  says what is left open, and when.
- A refused transmission (`pal.c`, `PAL_Console_Write`) leaves `BytesToTx` set and
  loses the piece; `TextUnderItsGroup` excludes the line it was part of.
- `qcli.c:996`: an escaped quote is moved without the null behind it, so
  the line's last character stays twice and `"a\"b"` is refused as not ended.
- `qcli_util.c:246`: the overflow test misses products that wrap past the number;
  6000000000 is read as 1705032704. The empty string, `-` and `0x` are read as 0.
- `Unregister_Command_Group`'s loop over subgroups never advances; nobody calls it.
- `adc.c:52-73`: the handle is not closed when a read fails, and is used when it
  could not be opened.

## Fairness

`bulb_search`, `timer`, `console` and `board` use fairness. The timer is reloaded for ever,
so its ticks are weakly fair; the tick's scan is strongly fair, since it is due
again and again (`ScanWithinNineTicks`) and the stack does not refuse it for
ever. The scan's and the connection's timers expire, and a sleeping handler
wakes (weak). The stack completes what it has begun: it reports a bulb that
advertises, a connection and both halves of a loss, although a phone's callbacks
may delay them (strong). Nothing is assumed of the phones.

The console thread, a command thread outside its command, the main thread and
the UART keep running (weak): the threads are the SDK's and never suspended. The
commands of `qcli.c` itself return (weak); any other command need not. A thread
that waits for `CLI_Mutex` gets it although others take it again and again
(strong), which is assumed of the RTOS, as the code gives up the mutex at the end
of every print and every buffer. Nothing is assumed of the typist,
or of start-up's calls beyond that they return.

## Assumptions

- Callbacks of the stack run one at a time; authentication events go to the
  callback that was passed to the call.
- A resolvable address that `SearchDeviceInfoEntryByBD_ADDR` resolves is the
  same device.
- An encryption change is one to encrypted: the handler does not look at the
  status in the event either (`home_automation.c:2400-2412`).
- Legacy and extended pairing requests are answered alike; the messages inside
  one pairing change nothing the model has and are one procedure.
- The stack's list functions append at the end, and find room when there is
  memory; an entry that is deleted is only unlinked.
- The connection timer is only armed at boot, for a saved bulb.

## Proofs

`DeviceLinksProofs` proves for any finite sets of phones and bulbs, from
`LinksAssumption`:

- `TypeCorrect`: the types.
- `ConnectionsCounted`: `CountsConnections` is not inductive alone, since the
  counter is decremented only if it is not zero and the entry is found.
  `EntryFollowsLink` adds that a connected entry has a link GATT has not yet
  reported lost; each step then adds or takes one element of a finite set.
- `SelectedConnected`: from the counter's invariant, as the counter says whether
  there is anything to select.
- `EncryptionIsCurrent`: with the fact that an encrypted link is one whose loss
  GAP has not reported.
- `RoleIsOwn`: while a connection is half reported the globals belong to it,
  and no other is half reported.
- `OnlyBondedStay`: from the fact that an entry with a lost link passed
  through `DisconnectedEntry`.
- `BulbSlotCovers`, `OutstandingIsLive`: under `OneBulb`, since the slot and
  `Current_Conn_Addr` are single. Both fail with two bulbs.
- `LinksRefineView`: initial states map to initial states, every step to a step
  of `LinkView` or to a stutter, using the invariants above.

`PeriodicTimerProofs` proves `TimerInv` (`sinceSmoke` is `cnt` - 1, and the time
since a scan is one of two functions of `cnt`), and from it the bound of nine
ticks and, for a tick of 2000 ms, the 30 s of the smoke notification.

`HomeControlProofs` proves for any phones and bulbs, from `HomeAssumption`:

- `HomeTypeCorrect`: the types. Names and Booleans are proved apart.
- `PhoneFlagStays`: from `PhonesInv`. The board advertises only while no phone is
  linked, so there is at most one, whose own loss alone clears the flag;
  `PhoneKeepsFlag` itself is not inductive, since a second phone's loss would.
- `NotificationsEnd`: inductive as it stands.
- `ScanHasTimer`: with the types. A refused stop is remembered (`stopRefused`)
  until a stop succeeds; a new timer meanwhile is for the scan that went on.
- `CommandsAreEncrypted`: from `SleepInv`. While the lock's write sleeps the phone
  it is for stays up and encrypted, and the bulb is still taken to be connected.
- `LampIsWhatStateSays`: from `LampInv`. Once the lamp was written on this link
  its handle and connection stay, so a later write misses it only if the stack
  refuses it, and `lampWritten` then says so.
- `BulbStateIsLinks`: under `OneBulb`, from `SleepInv` and the fact that the
  linked bulb is the current one, and discovery is of a bulb that is up.

`BoardStartProofs` proves, for pieces of any length and any number of failures:

- `ControllerOrConsoleHolds`: from `StartInv`, which says what each place in
  start-up relies on.
- `OneTransmission`: from `WriterInv`. Whoever writes has the mutex, except the
  main thread while it is alone: no callback, timer or console thread yet.
- `LinesNameTheirGroup`: by induction over a format, what remains of it after a
  line's end begins with the group's name. `LineInv` says that the next piece fits
  the line as it is shown, that each later piece fits the one before it, and that
  the last leaves what `Current_Printf_Group` and `Printf_New_Line` remember; when
  none is left to write, what they remember is true of the line. Of a line that a
  refused piece damaged nothing is claimed.
- `BoardTypes`: the types. That `BytesToTx` is never negative needs the
  transmission's invariant: while a thread waits it is what the UART still has.

`DeviceStoreProofs` proves, for any number of cells (`MaxCells`) from 2:

- `StoreTypes`: the types, for any phones and bulbs.
- Under `OneOfEach` (one phone and one bulb at most; both `entry_lost` and the
  circle show why), `ListsAlwaysEnd`, `DeviceListedOnce`, `RemoteStaysSaved` and
  `PairedEntryIsKept`.

  A list is a sequence of different cells in which each points to the next
  (`IsList`); by induction over its steps the walk of such a list goes through
  that sequence and ends (`WalkOfList`). `StoreInv` says that both lists are
  lists, and what their entries and the record hold (`Data`). None of the four
  properties is inductive. A copied entry takes its pointer along, so that the
  persistent list shares the rest of the session's; for the next copy not to
  close a circle or overwrite a session's entry three facts are needed:
  - `FirstWasCopied`: if the persistent list shares the session's second
    entry but not the first, it has an entry of the first device's type;
  - `RemoteBesidesBulb`: if it shares the whole of a session's list that begins
    with the bulb, it has an entry for the phone that the session's list has not;
  - `RemoteListed`: a persistent list that holds the remote device of a record
    always holds one. The steps are proved for any record (`SoundFor(rec)`):
    `StoreInv` takes the empty one, which is all a restart that could not load
    leaves, and `RemoteStaysSaved` the one in flash, once the list holds its
    remote device (`RemoteHeld`).

  An entry without a key may be unlinked from one list while the other still
  points to it: what then remains of each list is a lemma of its own, as is what
  an entry appended to one of them does to the other.

`ConsoleProofs` proves, for any number of receive buffers and threads, and
whatever is typed:

- `RingAgreesAlways`: with `RingInv`, that the console thread holds a buffer only
  when one is filled. The indexes are compared modulo `RxBuffers`.
- `WakeupNotLost`: since the interrupt always finds room, it always signals.
- `CountOfThreads`: each creation and end adds or takes one element of a finite
  set; a refused creation does neither.
- `ProcessedInOrder`: `OrderInv` says that the filled buffers, in the order the
  console thread takes them, are the end of what was typed: `start` gives for
  each the number of characters typed before it. A filled buffer is added last,
  a released one taken off first, and nothing in between touches them.
- `ConsoleTypes`: from `InterpreterInv`. The groups are registered ones, the line
  fits `Input_String`, its words fit `Parameter_List`, and what a command is
  found in is one of those words.
- `ThreadParameters`: from `ArgumentsInv`. While a thread was created but has
  not copied its parameters the console waits, the line is unchanged, and no
  other thread is in that state.
- `LinesAreReadAsWords`: by induction over the parser's turns, one for each
  character of the line, against what has been read of the line (`WordsRead`).

`ConsoleAssumption` is what they need of the instance: a buffer holds a sequence
of characters, the tables register groups, and no group has the name of a
command. `Characters`, the characters that can be typed, is any set with the
ones the parser knows. What a line of any length gives is proved in
`CommandLineProofs`.

The theorems hold for the specification with its fairness or, where it only
concerns liveness, without (`HomeSafety`).

Every invariant and every action property without fairness that a run checks is
stated by a theorem. Induction over lists, formats and lines uses `Iteration`,
whose principle is over a set of numbers and rests on the well-foundedness of
inclusion among finite sets. Only model-checked: liveness, which needs fairness;
and, of the findings, that the violated properties are violated. The four
theorems under `OneOfEach`, and those under `OneBulb`, are about the system the
repository's README describes; for more devices the runs show what fails.

## Not modelled

- The GAP service's client and the MTU: `GATT_ClientEventCallback_GAPS` prints
  what it reads and keeps nothing.
- The PWM, ADC and low-power drivers: sequences of calls of the SDK without
  state of their own; the low-power demonstrations are not called.
- `Unregister_Command_Group`: never called. The formatting helpers of
  `qcli_util.c` keep no state, and no property is about wording.
- `qcli/pal.c`: the SDK's version of `pal/pal.c`; the Makefile builds only the
  latter.
- What advertising data holds: nothing the board does depends on it.
- The Android application and its BLE library: a client of Android's Bluetooth
  stack, in another program. `HomeControl` lets phones connect, write and leave
  as they like, so what is shown of the board does not depend on them.

## What could follow

1. A link between `DeviceStore` and `DeviceLinks`: the same list with and
   without pointers, for one device of each kind.
2. The Android library's request service: scan, connect, discovery and the queue
   of reads and writes, against the board's service.
3. `String_To_Integer` against the number a word writes, for words of any length.
