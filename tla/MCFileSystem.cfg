SPECIFICATION FsSpec
CONSTANTS
    n1 = n1
    n2 = n2
    v1 = v1
    v2 = v2
    NULL = NULL
    ITAB_SIZE = 4
    NUM_BLOCKS = 5
    RESERVED = 1
    BLOCK_SIZE = 2
    DIR_PAGE_ENTRIES = 1
    INODE_NUM_BLKS = 2
    BLOCK_CACHE_SIZE = 2
    INODE_CACHE_SIZE = 1
    DIR_CACHE_SIZE = 1
    Name = {n1, n2}
    Path <- MCPath
    Data <- MCData
    Offset = {0, 1, 2, 3}
INVARIANTS
    FsTypeOK
    BlocksApart
    CachesAgree
    ReadsContent
    LookupFinds
PROPERTY
    ImplementsFileStore
