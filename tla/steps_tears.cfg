SPECIFICATION HistorySpec
CONSTANTS
    BLOCK_SIZE = 1
    NUMBER_DATA_BLOCKS = 4
    NUM_DIR_ENTRIES = 2
    NUM_OPEN_FILES = 1
    FAT_PER_BLOCK = 2
    DMAP_PER_BLOCK = 4
    Names = {a, b}
    LongNames = {long}
    Modes = {420}
    DefaultMode = 420
    Uids = {0}
    MountUser = 0
    MaxSize = 2
    NULL = NULL
    DANGLING = DANGLING
    Bytes = {0}
    ReadSizes = {1}
    Garbage = {{}, {2}}
    Workload = {"replace", "grow", "straddle", "fill"}
    Faults = {"write", "truncate"}
VIEW View
INVARIANTS
    BlocksNotShared
    MarkedAtRest
PROPERTIES
    TakesFreeBlocks
