SPECIFICATION ClientsSpec
CONSTANTS
    BLOCK_SIZE = 1
    NUMBER_DATA_BLOCKS = 2
    NUM_DIR_ENTRIES = 1
    NUM_OPEN_FILES = 1
    FAT_PER_BLOCK = 2
    DMAP_PER_BLOCK = 2
    a = a
    b = b
    c = c
    long = long
    Names = {a, b}
    LongNames = {long}
    Modes = {420}
    DefaultMode = 420
    Uids = {0}
    MountUser = 0
    MaxSize = 3
    NULL = NULL
    Bytes = {0, 1}
    ReadSizes = {3}
    Workload = {}
INVARIANT
    ReadWithinFile
