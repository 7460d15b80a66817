-------------------------------- MODULE FAT --------------------------------
(***************************************************************************)
(* The file allocation table (src/FAT.cpp): fatArray[b] is the block that  *)
(* follows b in its file, or FAT_END.  fatDisc is what FAT::init would     *)
(* read back from the container.                                           *)
(*                                                                         *)
(* The handlers of MyOnDiskFS change the table in loops of setNext and     *)
(* freeBlock.  The operators below give the table at the end of a loop.    *)
(***************************************************************************)
EXTENDS MyFSStructs, Sequences, Functions

VARIABLES fatArray, fatDisc

BlankFat == [b \in Blocks |-> FAT_END]

FatTypeOK ==
    /\ fatArray \in [Blocks -> Blocks]
    /\ fatDisc \in [Blocks -> Blocks]

\* Mutant: the last entry of each device block is not written.
FatDiscWriteShort(disc, fat, touched) ==
    [b \in Blocks |->
        IF /\ b % FAT_PER_BLOCK # FAT_PER_BLOCK - 1
           /\ \E t \in touched : t \div FAT_PER_BLOCK = b \div FAT_PER_BLOCK
        THEN fat[b] % 65536
        ELSE disc[b]]

(***************************************************************************)
(* The container after FAT::discWrite of every entry in touched: a write   *)
(* replaces the whole device block of the entry, two bytes per entry.      *)
(* Every change of an entry is followed by the write of its device block,  *)
(* so the last of these writes sees the final table.                       *)
(***************************************************************************)
FatDiscWrite(disc, fat, touched) ==
    [b \in Blocks |->
        IF \E t \in touched : t \div FAT_PER_BLOCK = b \div FAT_PER_BLOCK
        THEN fat[b] % 65536
        ELSE disc[b]]

\* FAT::init: the table is read from the container.
FatRestart == fatArray' = fatDisc /\ UNCHANGED fatDisc

\* The block reached from first after n calls of getNext; a walk that has run
\* past the end of a chain goes on from entry 0.
getNth(fat, first, n) ==
    LET walk[i \in 0..n] == IF i = 0 THEN first ELSE fat[walk[i - 1]]
    IN  walk[n]

(***************************************************************************)
(* The blocks that a loop "while (block != FAT_END) block = getNext(block)"*)
(* visits.  A walk that does not end is cut after as many steps as there   *)
(* are blocks; ChainsEnd (MyOnDiskFS) says that there is no such walk.     *)
(***************************************************************************)
Chain(fat, first) ==
    LET ends == {n \in 0..NUMBER_DATA_BLOCKS : getNth(fat, first, n) = FAT_END}
        len  == IF ends = {} THEN NUMBER_DATA_BLOCKS
                ELSE CHOOSE n \in ends : \A m \in ends : n <= m
    IN  [i \in 1..len |-> getNth(fat, first, i - 1)]

\* Entries of the blocks in the set freed become FAT_END.
Unlinked(fat, freed) ==
    [b \in Blocks |-> IF b \in freed THEN FAT_END ELSE fat[b]]

\* Mutant: the last setNext(currentBlock, FAT_END) is missing.
LinkedOpen(fat, chain, new) ==
    [b \in Blocks |->
        IF \E i \in 1..Len(new) - 1 : new[i] = b
        THEN LET i == CHOOSE i \in 1..Len(new) - 1 : new[i] = b
             IN  new[i + 1]
        ELSE IF new # <<>> /\ chain # <<>> /\ b = chain[Len(chain)]
        THEN new[1]
        ELSE fat[b]]

(***************************************************************************)
(* The table after the blocks new have been appended, in this order, behind*)
(* the last block of chain (MyOnDiskFS::setFATBlocks).                     *)
(***************************************************************************)
Linked(fat, chain, new) ==
    [b \in Blocks |->
        IF \E i \in 1..Len(new) : new[i] = b
        THEN LET i == CHOOSE i \in 1..Len(new) : new[i] = b
             IN  IF i < Len(new) THEN new[i + 1] ELSE FAT_END
        ELSE IF new # <<>> /\ chain # <<>> /\ b = chain[Len(chain)]
        THEN new[1]
        ELSE fat[b]]
=============================================================================
