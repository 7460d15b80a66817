-------------------------------- MODULE DMAP --------------------------------
(***************************************************************************)
(* The free-block map (src/DMAP.cpp): dmapArray[b] is TRUE when block b is *)
(* in use.  dmapDisc[k][j] is byte j of the k-th device block of the map.  *)
(*                                                                         *)
(* The operators are used by MyOnDiskFS; DmapSpec is the component on its  *)
(* own, under any sequence of calls and restarts.                          *)
(***************************************************************************)
EXTENDS MyFSStructs, FiniteSets, Sequences

VARIABLES dmapArray, dmapDisc

DmapGroups == 0..((NUMBER_DATA_BLOCKS - 1) \div DMAP_PER_BLOCK)
DmapOffsets == 0..(DMAP_PER_BLOCK - 1)

BlankDmap == [b \in Blocks |-> FALSE]
BlankDmapDisc == [k \in DmapGroups |-> [j \in DmapOffsets |-> FALSE]]

DmapTypeOK ==
    /\ dmapArray \in [Blocks -> BOOLEAN]
    /\ dmapDisc \in [DmapGroups -> [DmapOffsets -> BOOLEAN]]

FreeBlocks(dmap) == {b \in DataBlocks : ~dmap[b]}

(***************************************************************************)
(* What getCertainNumberOfFreeBlocks(k) returns when it succeeds: k times  *)
(* the first free block, each marked as used before the next search; that  *)
(* is, the k smallest free blocks in ascending order.  A set with one      *)
(* element, or none when fewer than k blocks are free (nullptr).           *)
(***************************************************************************)
getCertainNumberOfFreeBlocks(dmap, k) ==
    IF k > Cardinality(FreeBlocks(dmap)) THEN {}
    ELSE {s \in [1..k -> FreeBlocks(dmap)] :
            /\ \A i, j \in 1..k : i < j => s[i] < s[j]
            /\ \A i \in 1..k : \A b \in FreeBlocks(dmap) :
                  b < s[i] => \E j \in 1..k : s[j] = b}

\* Mutant: the loop ends one block early.
MarkedButLast(dmap, s, used) ==
    [b \in Blocks |-> IF \E i \in 1..Len(s) - 1 : s[i] = b THEN used ELSE dmap[b]]

\* The map after the blocks of the sequence s have been set to used.
Marked(dmap, s, used) ==
    [b \in Blocks |-> IF \E i \in 1..Len(s) : s[i] = b THEN used ELSE dmap[b]]

\* Mutant: discWrite comes before the change of the entry.
DmapDiscWriteEarly(disc, dmap, s, used) ==
    [k \in DmapGroups |->
        LET hits == {i \in 1..Len(s) : s[i] \div DMAP_PER_BLOCK = k}
            last == CHOOSE i \in hits : \A h \in hits : h <= i
        IN  IF hits = {} THEN disc[k]
            ELSE [j \in DmapOffsets |->
                    IF \E i \in 1..Len(s) : i < last /\ s[i] = k + j
                    THEN used
                    ELSE dmap[k + j]]]

(***************************************************************************)
(* The container after DMAP::discWrite has followed each of the settings   *)
(* s[1], s[2], ... to used.  discWrite(b) fills device block               *)
(* k = b / BLOCK_SIZE from &dmapArray[k] -- entries k, k+1, ... and not    *)
(* the entries of that device block -- with the values at that moment.     *)
(***************************************************************************)
DmapDiscWrite(disc, dmap, s, used) ==
    [k \in DmapGroups |->
        LET hits == {i \in 1..Len(s) : s[i] \div DMAP_PER_BLOCK = k}
            last == CHOOSE i \in hits : \A h \in hits : h <= i
        IN  IF hits = {} THEN disc[k]
            ELSE [j \in DmapOffsets |->
                    IF \E i \in 1..Len(s) : i <= last /\ s[i] = k + j
                    THEN used
                    ELSE dmap[k + j]]]

\* DMAP::init: the entry of block b is read from its own place.
DmapRead(disc) ==
    [b \in Blocks |-> disc[b \div DMAP_PER_BLOCK][b % DMAP_PER_BLOCK]]

-----------------------------------------------------------------------------
(* The component on its own.                                               *)

dmapVars == <<dmapArray, dmapDisc>>

DmapInit ==
    /\ dmapArray = BlankDmap
    /\ dmapDisc = BlankDmapDisc

SetAll(s, used) ==
    /\ dmapArray' = Marked(dmapArray, s, used)
    /\ dmapDisc' = DmapDiscWrite(dmapDisc, dmapArray, s, used)

\* setBlock(b, used); the handlers only call it to free a block.
setBlock(b, used) == SetAll(<<b>>, used)

\* getCertainNumberOfFreeBlocks(k): on failure every block that was still free
\* has been marked by the time the search fails.
Allocate(k) ==
    \/ \E s \in getCertainNumberOfFreeBlocks(dmapArray, k) : SetAll(s, TRUE)
    \/ /\ k > Cardinality(FreeBlocks(dmapArray))
       /\ \E s \in getCertainNumberOfFreeBlocks(dmapArray,
                        Cardinality(FreeBlocks(dmapArray))) : SetAll(s, TRUE)

\* The process ends and init() reads the map of the existing container.
DmapRestart ==
    /\ dmapArray' = DmapRead(dmapDisc)
    /\ UNCHANGED dmapDisc

DmapNext ==
    \/ \E b \in DataBlocks : setBlock(b, FALSE)
    \/ \E k \in 1..NUMBER_DATA_BLOCKS : Allocate(k)
    \/ DmapRestart

DmapSpec == DmapInit /\ [][DmapNext]_dmapVars

(***************************************************************************)
(* Restarting never changes the entries of the first device block: what a  *)
(* mount reads there (DMAP::init) is what the calls before it left.        *)
(***************************************************************************)
FirstDmapBlockPersisted ==
    \A b \in Blocks : b < DMAP_PER_BLOCK => DmapRead(dmapDisc)[b] = dmapArray[b]

(***************************************************************************)
(* DMAP::init "initialises the existing DMAP": it reads back the map that  *)
(* the calls of setBlock and getCertainNumberOfFreeBlocks have left.       *)
(***************************************************************************)
DmapPersisted == DmapRead(dmapDisc) = dmapArray
=============================================================================
