SPECIFICATION FairSpec
CONSTANTS
    m = m
    a = a
    b = b
    Thread = {m, a, b}
    Main = m
    NULL = NULL
    NUM_PRIORITIES = 4
    STATIC_MAX_PRIO = 0
    DYN_MIN_PRIO = 1
    MAIN_PRIO = 2
    QUANTUM_BASE = 2
    MAX_NICE = 1
    CLOCK_TICK = 20
    Calls = {"create", "nice"}
    CreatePrios <- MCCreatePrios
    NiceArgs = {0, 3}
    SleepTimes = {}
INVARIANT
    PriorityBands
PROPERTIES
    EpochDiscipline
    ReadyThreadsRun
