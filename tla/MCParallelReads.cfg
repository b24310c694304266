SPECIFICATION PrSpec
CONSTANTS
    f = f
    g = g
    NULL = NULL
    Reader = {r1, r2}
    File = {f, g}
    FileBlocks <- MCFileBlocks
    SIZE = 1
    CACHE_SIZE <- MCCacheSize
INVARIANT
    ReadReturnsFile
