SPECIFICATION HistorySpec
CONSTANTS
    BLOCK_SIZE = 2
    NUMBER_DATA_BLOCKS = 3
    NUM_DIR_ENTRIES = 2
    NUM_OPEN_FILES = 1
    FAT_PER_BLOCK = 2
    DMAP_PER_BLOCK = 3
    Names = {a, b}
    LongNames = {long}
    Modes = {420}
    DefaultMode = 420
    Uids = {0}
    MountUser = 0
    MaxSize = 3
    NULL = NULL
    DANGLING = DANGLING
    Bytes = {0, 1}
    ReadSizes = {3}
    Garbage = {{}}
    Workload = {"fill"}
    Faults = {"write"}
VIEW View
PROPERTIES
    ImplementsTornStore
