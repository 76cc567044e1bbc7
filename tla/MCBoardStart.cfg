SPECIFICATION BoardSpec
CONSTANTS
    main = main
    stack = stack
    timer = timer
    console = console
    none = none
    root = root
    null = null
    Peripherals = Peripherals
    ADC = ADC
    PWM = PWM
    BLE = BLE
    Threads = {main, stack, timer, console}
    Groups = {Peripherals, ADC, PWM, BLE}
    NoThread = none
    Main = root
    NoGroup = null
    Bytes = 2
    MaxFaults = 2
INVARIANTS
    BoardTypeOK
    TransmitAgrees
    TextUnderItsGroup
    ControllerOrConsole
PROPERTY PrintsFinish
CHECK_DEADLOCK FALSE
