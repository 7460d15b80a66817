----------------------------- MODULE FileBlocks -----------------------------
(***************************************************************************)
(* How many blocks a file gets (numBlocks, setFATBlocks, fuseWrite and     *)
(* fuseTruncate of src/myondiskfs.cpp): one file as its size and the       *)
(* length of its chain, with int as wide as it is.  Which blocks these are,*)
(* and what they hold, is left to MyOnDiskFS.                              *)
(***************************************************************************)
EXTENDS MyFSStructs

CONSTANTS
    IntSpan,     \* 2^31: an int holds -IntSpan..(IntSpan - 1)
    MaxSize,     \* bound on the positions that are written
    Workload     \* which of the RiskyCalls the client makes

\* "straddle": a write that starts in front of the last block and needs new
\* blocks; "grow": truncate to a larger size.
RiskyCalls == {"straddle", "grow"}

ASSUME FileBlocksAssumption ==
    /\ IntSpan \in Nat \ {0}
    /\ MaxSize \in Nat
    /\ MaxSize < BLOCK_SIZE * IntSpan   \* block counts fit an int
    /\ Workload \subseteq RiskyCalls

VARIABLES
    st_size,   \* the size in the entry of the file
    chain,     \* the number of blocks in its chain
    free       \* the number of free blocks of the volume

vars == <<st_size, chain, free>>

Volume == NUMBER_DATA_BLOCKS - 1

TypeOK ==
    /\ st_size \in 0..MaxSize
    /\ chain \in 0..Volume
    /\ free \in 0..Volume

Init ==
    /\ st_size = 0
    /\ chain = 0
    /\ free = Volume

\* The conversion of a size_t or off_t to int.
ToInt(x) == ((x + IntSpan) % (2 * IntSpan)) - IntSpan

\* Mutant: the offset of the write is left out of the blocks it needs.
blocksAllNoOffset(size, off, st) ==
    numBlocks(ToInt(size)) - numBlocks(ToInt(st)) + off \div BLOCK_SIZE - st \div BLOCK_SIZE

\* Mutant: the blocks in front of the offset are not taken off again.
blocksAllNoEnd(size, off, st) ==
    numBlocks(ToInt(size + off)) - numBlocks(ToInt(st)) + off \div BLOCK_SIZE

\* The number of blocks setFATBlocks appends, if it is positive; numBlocks
\* takes an int.
blocksAll(size, off, st) ==
    numBlocks(ToInt(size + off)) - numBlocks(ToInt(st)) + off \div BLOCK_SIZE - st \div BLOCK_SIZE

\* setFATBlocks; too few free blocks end the process and are all lost.
setFATBlocks(k, size) ==
    \/ /\ k <= 0
       /\ st_size' = size
       /\ UNCHANGED <<chain, free>>
    \/ /\ 0 < k /\ k <= free
       /\ st_size' = size
       /\ chain' = chain + k
       /\ free' = free - k
    \/ /\ free < k
       /\ free' = 0
       /\ UNCHANGED <<st_size, chain>>

Straddles(off, end) ==
    off \div BLOCK_SIZE < st_size \div BLOCK_SIZE /\ numBlocks(end) > numBlocks(st_size)

\* A write that ends behind the end of the file.
fuseWrite(off, size) ==
    /\ off + size > st_size
    /\ "straddle" \in Workload \/ ~Straddles(off, off + size)
    /\ setFATBlocks(blocksAll(size, off, st_size), off + size)

\* fuseTruncate to a larger size: it is not stored.
Extend(newSize) ==
    /\ newSize >= st_size
    /\ "grow" \in Workload \/ newSize = st_size
    /\ setFATBlocks(blocksAll(newSize, 0, st_size), st_size)

\* Mutant: the entry goes on pointing to the first block.
ClearKeepsFirst ==
    /\ st_size > 0
    /\ st_size' = 0
    /\ free' = free + chain
    /\ UNCHANGED chain

\* fuseTruncate to 0 frees all blocks of the chain.
Clear ==
    /\ st_size > 0
    /\ st_size' = 0
    /\ chain' = 0
    /\ free' = free + chain

Next ==
    \/ \E off \in 0..(MaxSize - 1), size \in 1..MaxSize :
          off + size <= MaxSize /\ fuseWrite(off, size)
    \/ \E newSize \in 0..MaxSize : Extend(newSize)
    \/ Clear

Spec == Init /\ [][Next]_vars
-----------------------------------------------------------------------------
(***************************************************************************)
(* fuseWrite: "Write a given number of bytes to a file starting at a given *)
(* position."  The file has a block for each of its bytes, so none is      *)
(* written to the block a walk behind the end of a chain leads to.  Holds  *)
(* without "straddle", as long as MaxSize fits an int.                     *)
(***************************************************************************)
SizeCovered == numBlocks(st_size) <= chain

(***************************************************************************)
(* However the writes are placed, a file takes no more than twice the      *)
(* blocks it needs: a write behind the end of the file counts the blocks   *)
(* it skips twice, but these excesses do not add up beyond the size.       *)
(* Holds without "grow", as long as MaxSize fits an int.                   *)
(***************************************************************************)
SpaceBounded == chain <= 2 * numBlocks(st_size)
=============================================================================
