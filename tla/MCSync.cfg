SPECIFICATION SyncSpec
CONSTANTS
    main = main
    a = a
    b = b
    x = x
    Thread = {main, a, b}
    Main = main
    NULL = NULL
    NUM_PRIORITIES = 3
    STATIC_MAX_PRIO = 0
    DYN_MIN_PRIO = 1
    MAIN_PRIO = 1
    QUANTUM_BASE = 1
    MAX_NICE = 0
    CLOCK_TICK = 20
    Calls = {"create", "exit"}
    CreatePrios <- MCCreatePrios
    NiceArgs = {}
    SleepTimes = {}
    Mon = {x}
    SyncCalls = {"lock", "unlock", "wait", "signal"}
SYMMETRY Symmetry
INVARIANTS
    SyncTypeOK
    MutualExclusion
    NoStrandedWaiter
    TurnsBalance
    ListedAreBlocked
PROPERTY
    ImplementsMonitor
