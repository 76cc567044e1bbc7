SPECIFICATION ConsoleSpec
CONSTANTS
    Characters <- MCCharacters
    MaxLength = 6
    MaxParameters = 1
    Word = 65536
    RxBuffers = 2
    MaxThreads = 2
    t1 = t1
    t2 = t2
    CommandThreads = {t1, t2}
    Root = Root
    Groups = {"peripherals", "adc", "ble"}
    Registrations <- MCRegistrations
    GroupCommands <- MCGroupCommands
    StartThread = {"watch"}
    NameOf <- MCNameOf
    Keystrokes <- MCKeystrokes
    MaxTyped = 10
    MaxFaults = 1
INVARIANTS
    ConsoleTypeOK
    RingAgrees
    ProcessesWhatWasTyped
    NoLostWakeup
    ThreadsCounted
    ThreadGetsItsParameters
    PlainLinesAreWords
PROPERTIES
    LinesProcessed
    ThreadsStop
CHECK_DEADLOCK FALSE
