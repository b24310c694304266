SPECIFICATION Spec
CONSTANTS
    m = m
    a = a
    b = b
    Thread = {m, a, b}
    Main = m
    NULL = NULL
    NUM_PRIORITIES = 3
    STATIC_MAX_PRIO = 0
    DYN_MIN_PRIO = 1
    MAIN_PRIO = 1
    QUANTUM_BASE = 2
    MAX_NICE = 1
    CLOCK_TICK = 20
    Calls = {"create", "yield", "sleep", "join", "exit"}
    CreatePrios <- MCCreatePrios
    NiceArgs = {}
    SleepTimes = {1, 4}
SYMMETRY Symmetry
INVARIANTS
    TypeOK
    OnePlace
    QueuedByPriority
    DynamicHaveQuantum
    NoLostJoin
PROPERTIES
    WakesOnTime
    BestThreadRuns
    ImplementsThreadLife
