CONSTANT TickMs = 2000
SPECIFICATION TimerSpec
INVARIANTS
    ScanWithinNineTicks
    TimerInv
PROPERTIES
    SmokeEvery30Seconds
    SmokeKeepsComing
