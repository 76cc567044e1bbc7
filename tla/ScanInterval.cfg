CONSTANT TickMs = 2000
SPECIFICATION TimerSafety
PROPERTY ScanEvery20Seconds
