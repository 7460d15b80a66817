SPECIFICATION DmapSpec
CONSTANTS
    BLOCK_SIZE = 2
    NUMBER_DATA_BLOCKS = 7
    NUM_DIR_ENTRIES = 1
    NUM_OPEN_FILES = 1
    FAT_PER_BLOCK = 2
    DMAP_PER_BLOCK = 3
INVARIANT
    DmapPersisted
