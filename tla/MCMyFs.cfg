SPECIFICATION MyFsSpec
CONSTANTS
    c1 = c1
    c2 = c2
    Client = {c1, c2}
    NULL = NULL
    MAX_FILE_NAME_SIZE = 4
    MAX_PATH_NAME_SIZE = 8
    ITAB_SIZE = 5
    Name <- MCName
    MAX_READ_DATA = 2
    MAX_WRITE_DATA = 2
    MAX_READDIR_ENTRIES = 5
    MAX_FILE_SIZE = 4
    DENTRY_SIZE = 1
    Registered = {1, 2, 3}
    READ_SERVERS_M = 1
    SN_RANGE = 16
    MaxStops = 1
    MAX_OPEN_FILES = 2
    OpenPath <- MCOpenPath
    DirPath <- MCDirPath
    ListPath <- MCListPath
    Count = {3}
    MaxCalls = 4
SYMMETRY Symmetry
INVARIANTS
    ClientTypeOK
    OffsetsInFile
    ReadsEnd
    
    OpenedWhatWasNamed
    ReplicasAgree
    AnswersOnTheirWay
PROPERTIES
    ServesFileStore
CONSTRAINT FewCalls
CHECK_DEADLOCK FALSE
