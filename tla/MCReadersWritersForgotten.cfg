SPECIFICATION RwSpec
CONSTANTS
    Consumer = {c1, c2, c3}
    NULL = NULL
INVARIANT
    NobodyForgotten
SYMMETRY Symmetry
CHECK_DEADLOCK FALSE
