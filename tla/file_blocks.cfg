SPECIFICATION Spec
CONSTANTS
    BLOCK_SIZE = 2
    NUMBER_DATA_BLOCKS = 12
    NUM_DIR_ENTRIES = 1
    NUM_OPEN_FILES = 1
    FAT_PER_BLOCK = 2
    DMAP_PER_BLOCK = 2
    IntSpan = 32
    MaxSize = 31
    Workload = {}
INVARIANTS
    TypeOK
    SizeCovered
    SpaceBounded
