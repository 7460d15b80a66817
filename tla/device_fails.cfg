SPECIFICATION StepsSpec
CONSTANTS
    BLOCK_SIZE = 1
    NUMBER_DATA_BLOCKS = 3
    NUM_DIR_ENTRIES = 1
    NUM_OPEN_FILES = 1
    FAT_PER_BLOCK = 2
    DMAP_PER_BLOCK = 3
    Names = {a}
    LongNames = {long}
    Modes = {420}
    DefaultMode = 420
    Uids = {0}
    MountUser = 0
    MaxSize = 2
    NULL = NULL
    DANGLING = DANGLING
    Bytes = {0, 1}
    ReadSizes = {1}
    Garbage = {{}}
    Workload = {}
    Faults = {"device"}
INVARIANT
    WritesStored
