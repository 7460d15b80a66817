SPECIFICATION HistorySpec
CONSTANTS
    BLOCK_SIZE = 1
    NUMBER_DATA_BLOCKS = 3
    NUM_DIR_ENTRIES = 2
    NUM_OPEN_FILES = 1
    FAT_PER_BLOCK = 2
    DMAP_PER_BLOCK = 2
    Names = {a, b}
    LongNames = {long}
    Modes = {420}
    DefaultMode = 420
    Uids = {0}
    MountUser = 0
    MaxSize = 2
    NULL = NULL
    DANGLING = DANGLING
    Bytes = {0}
    ReadSizes = {1}
    Garbage = {{}, {2}}
    Workload = {"replace", "shrink", "grow", "straddle", "fill"}
    Faults = {}
VIEW View
INVARIANT
    StepsTypeOK
PROPERTIES
    HandlersReturn
    ImplementsAtomicHandlers
