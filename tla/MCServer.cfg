SPECIFICATION TrickleSpec
CONSTANTS
    c1 = c1
    c2 = c2
    c3 = c3
    Consumer = {c1, c2}
    NULL = NULL
    Producer = producer
    Request = {r1, w1, e1, u1}
    Write = {w1}
    Unknown = {u1}
    Empty = {e1}
    RING_SIZE = 2
INVARIANTS
    ServerTypeOK
    EachRequestOnce
    OneQueueSuffices
    WritesRunAlone
    ReadersExcludeWriters
    CountersMatch

    
    
