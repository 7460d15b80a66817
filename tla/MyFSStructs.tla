---------------------------- MODULE MyFSStructs ----------------------------
(***************************************************************************)
(* The layout constants of includes/myfs-structs.h and the arithmetic on   *)
(* them.  The code fixes their values (BLOCK_SIZE 512, NUMBER_DATA_BLOCKS  *)
(* 55912, NUM_DIR_ENTRIES 64, NUM_OPEN_FILES 64, 256 FAT entries and 512   *)
(* DMAP entries per device block); here they are parameters.               *)
(***************************************************************************)
EXTENDS Integers

CONSTANTS
    BLOCK_SIZE,          \* bytes in a block
    NUMBER_DATA_BLOCKS,  \* data blocks of the volume
    NUM_DIR_ENTRIES,     \* slots of the root directory
    NUM_OPEN_FILES,      \* slots of the open-file table
    FAT_PER_BLOCK,       \* two-byte FAT entries in a device block
    DMAP_PER_BLOCK       \* one-byte DMAP entries in a device block

(***************************************************************************)
(* Block numbers fit the two bytes of an entry on disc, and the window     *)
(* that DMAP::discWrite copies stays inside the array (in the code:        *)
(* 55911 / 512 + 512 <= 55912).                                            *)
(***************************************************************************)
ASSUME LayoutAssumption ==
    /\ BLOCK_SIZE \in Nat \ {0}
    /\ NUMBER_DATA_BLOCKS \in Nat
    /\ NUMBER_DATA_BLOCKS >= 2
    /\ NUMBER_DATA_BLOCKS <= 65536
    /\ NUM_DIR_ENTRIES \in Nat \ {0}
    /\ NUM_OPEN_FILES \in Nat \ {0}
    /\ FAT_PER_BLOCK \in Nat \ {0}
    /\ DMAP_PER_BLOCK \in Nat \ {0}
    /\ (NUMBER_DATA_BLOCKS - 1) \div DMAP_PER_BLOCK + DMAP_PER_BLOCK
          <= NUMBER_DATA_BLOCKS

\* A FAT entry that ends a chain; also the firstBlock of a file without blocks.
FAT_END == 0

\* The indices of fatArray and dmapArray that the volume can use.
Blocks == 0..(NUMBER_DATA_BLOCKS - 1)

\* The blocks a file can be given: getFirstFreeBlock starts its search at 1.
DataBlocks == 1..(NUMBER_DATA_BLOCKS - 1)

Slots == 0..(NUM_DIR_ENTRIES - 1)

Handles == 0..(NUM_OPEN_FILES - 1)

\* Blocks needed for size bytes.
numBlocks(size) ==
    size \div BLOCK_SIZE + (IF size % BLOCK_SIZE # 0 THEN 1 ELSE 0)
=============================================================================
