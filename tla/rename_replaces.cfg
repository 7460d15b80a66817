SPECIFICATION Spec
CONSTANTS
    BLOCK_SIZE = 2
    NUMBER_DATA_BLOCKS = 4
    NUM_DIR_ENTRIES = 2
    NUM_OPEN_FILES = 1
    FAT_PER_BLOCK = 2
    DMAP_PER_BLOCK = 4
    a = a
    b = b
    c = c
    long = long
    Names = {a, b, c}
    LongNames = {long}
    Modes = {420}
    DefaultMode = 420
    Uids = {0}
    MountUser = 0
    MaxSize = 3
    NULL = NULL
    DANGLING = DANGLING
    Bytes = {0}
    ReadSizes = {3}
    Garbage = {{}, {2}}
    Workload = {"replace"}
INVARIANT
    RenameReplaces
