----------------------- MODULE MyOnDiskFSBlocks_proofs -----------------------
(***************************************************************************)
(* Which file a block belongs to, as long as the first device block of the *)
(* map is enough.  Without truncations that keep some blocks and free      *)
(* others, every block has one owner: no block belongs to two files, and   *)
(* none of a file's counts as free.  Without writes that straddle, a file  *)
(* has a block for each of its bytes.  And for careful clients, from a map *)
(* that starts clean, no block is lost.                                    *)
(***************************************************************************)
EXTENDS MyOnDiskFSDisc_proofs

-----------------------------------------------------------------------------
(* The owners of blocks, for clients that never cut a file to a size above *)
(* zero ("shrink"), as long as the blocks in use have their places in the  *)
(* first device block of the map: a mount misreads the others.             *)

UsedInFirstMapBlock == \A b \in DataBlocks : dmapArray[b] => b < DMAP_PER_BLOCK

\* Each block belongs to the file of one slot, or to none.
Owners == [Blocks -> Slots \cup {NULL}]

\* The table leads from a block to a block of the same owner.
OwnsLinks(own, fat) ==
    \A b \in DataBlocks : own[b] # NULL => fat[b] = FAT_END \/ own[fat[b]] = own[b]

\* A file owns its first block.
OwnsFirsts(own, dir) ==
    \A s \in Slots : dir[s] # NULL =>
        dir[s].firstBlock = FAT_END \/ own[dir[s].firstBlock] = s

\* A block with an owner is marked as used, and the next mount finds the mark.
OwnsMarked(own) ==
    \A b \in DataBlocks : own[b] # NULL =>
        /\ b < DMAP_PER_BLOCK
        /\ dmapDisc[0][b]
        /\ mounted => dmapArray[b]

\* Before a mount no entry has been read.
UnmountedEmpty == ~mounted => rootFiles = EmptyDirectory

Owned(own) ==
    /\ OwnsLinks(own, fatDisc)
    /\ OwnsFirsts(own, rootFiles)
    /\ OwnsFirsts(own, rootDisc)
    /\ OwnsMarked(own)

\* The inductive invariant: there are such owners.  They are no part of the
\* state: a block that leaks keeps its owner, and one that is freed has none.
OwnInv == \E own \in Owners : Owned(own)

\* Each file of the directory d has no first block, or the one it has now, in
\* memory or on disc.
KeepsFirsts(d) ==
    \A s \in Slots : d[s] # NULL =>
        \/ d[s].firstBlock = FAT_END
        \/ rootFiles[s] # NULL /\ d[s].firstBlock = rootFiles[s].firstBlock
        \/ rootDisc[s] # NULL /\ d[s].firstBlock = rootDisc[s].firstBlock

LEMMA FirstsKept ==
    ASSUME NEW own, Owned(own), NEW d, KeepsFirsts(d)
    PROVE  OwnsFirsts(own, d)
BY DEF Owned, OwnsFirsts, KeepsFirsts

\* A step that leaves table and map alone, and gives no file a first block.
LEMMA OwnersKept ==
    ASSUME OwnInv, UNCHANGED <<mounted, fatDisc, dmapArray, dmapDisc>>,
           KeepsFirsts(rootFiles'), KeepsFirsts(rootDisc')
    PROVE  OwnInv'
<1>1. PICK own \in Owners : Owned(own)
  BY DEF OwnInv
<1>2. OwnsFirsts(own, rootFiles') /\ OwnsFirsts(own, rootDisc')
  BY <1>1, FirstsKept
<1>3. Owned(own)'
  BY <1>1, <1>2 DEF Owned, OwnsLinks, OwnsMarked, OwnsFirsts
<1> QED
  BY <1>3 DEF OwnInv, Owners

\* All blocks of a file have the owner its slot stands for.
LEMMA OwnChain ==
    ASSUME TypeOK, FatPersisted, mounted,
           NEW own \in Owners, OwnsLinks(own, fatDisc), OwnsFirsts(own, rootFiles),
           NEW s \in Slots, rootFiles[s] # NULL
    PROVE  \A b \in BlocksOf(s) : b \in DataBlocks /\ own[b] = s
<1> DEFINE first == rootFiles[s].firstBlock
           S == {b \in Blocks : own[b] = s}
<1>1. fatArray \in [Blocks -> Blocks] /\ fatDisc = fatArray
  BY DEF TypeOK, FatTypeOK, FatPersisted
<1>2. first \in Blocks
  BY DEF TypeOK, RootTypeOK, rootFile
<1>3. first = FAT_END \/ first \in S
  BY <1>2 DEF OwnsFirsts
<1>4. \A b \in DataBlocks \cap S : fatArray[b] = FAT_END \/ fatArray[b] \in S
  <2> SUFFICES ASSUME NEW b \in DataBlocks \cap S, fatArray[b] # FAT_END
               PROVE  fatArray[b] \in S
    OBVIOUS
  <2>1. own[b] = s /\ s # NULL /\ fatArray[b] \in Blocks
    BY <1>1, EndIsNoDataBlock, OnDiskAssumption
  <2>2. own[fatArray[b]] = own[b]
    BY <1>1, <2>1 DEF OwnsLinks
  <2> QED
    BY <2>1, <2>2
<1> HIDE DEF S
<1>5. Range(Chain(fatArray, first)) \subseteq DataBlocks \cap S
  BY <1>1, <1>2, <1>3, <1>4, ChainOwned
<1> QED
  BY <1>5 DEF BlocksOf, S

\* A file is removed or loses all its bytes: its blocks, or some of them, are
\* freed, and nothing is left of it.
LEMMA OwnersFree ==
    ASSUME TypeOK, FatPersisted, mounted, UNCHANGED mounted, OwnInv,
           NEW s \in Slots, rootFiles[s] # NULL,
           NEW freed \in Seq(DataBlocks), Range(freed) \subseteq BlocksOf(s),
           fatArray' = Unlinked(fatArray, Range(freed)), fatDisc' = fatArray',
           SetAll(freed, FALSE),
           KeepsFirsts(rootFiles'), KeepsFirsts(rootDisc'),
           rootFiles'[s] = NULL \/ rootFiles'[s].firstBlock = FAT_END,
           rootDisc'[s] = NULL \/ rootDisc'[s].firstBlock = FAT_END
    PROVE  OwnInv'
<1>1. PICK own \in Owners : Owned(own)
  BY DEF OwnInv
<1> DEFINE own2 == [b \in Blocks |-> IF own[b] = s THEN NULL ELSE own[b]]
<1>2. own2 \in Owners
  BY DEF Owners
<1>3. \A b \in Range(freed) : b \in DataBlocks /\ own[b] = s
  BY <1>1, OwnChain DEF Owned
<1>4. ASSUME NEW b \in DataBlocks, own2[b] # NULL
      PROVE  b \in Blocks /\ own[b] # s /\ own[b] # NULL /\ own2[b] = own[b] /\ b \notin Range(freed)
  BY <1>3, <1>4, EndIsNoDataBlock
<1>5. OwnsLinks(own2, fatDisc')
  <2> SUFFICES ASSUME NEW b \in DataBlocks, own2[b] # NULL, fatDisc'[b] # FAT_END
               PROVE  own2[fatDisc'[b]] = own2[b]
    BY DEF OwnsLinks
  <2>1. fatDisc'[b] = fatDisc[b] /\ fatDisc[b] \in Blocks
    BY <1>4 DEF Unlinked, FatPersisted, TypeOK, FatTypeOK
  <2>2. own[fatDisc[b]] = own[b]
    BY <1>1, <1>4, <2>1 DEF Owned, OwnsLinks
  <2> QED
    BY <1>4, <2>1, <2>2
<1>6. \A t \in Slots : /\ rootFiles[t] # NULL => rootFiles[t].firstBlock \in Blocks
                       /\ rootDisc[t] # NULL => rootDisc[t].firstBlock \in Blocks
  BY DEF TypeOK, RootTypeOK, rootFile
<1>7. ASSUME NEW d, KeepsFirsts(d), d[s] = NULL \/ d[s].firstBlock = FAT_END
      PROVE  OwnsFirsts(own2, d)
  <2> SUFFICES ASSUME NEW t \in Slots, d[t] # NULL, d[t].firstBlock # FAT_END
               PROVE  own2[d[t].firstBlock] = t
    BY DEF OwnsFirsts
  <2>1. t # s
    BY <1>7
  <2>2. d[t].firstBlock \in Blocks
    BY <1>6, <1>7 DEF KeepsFirsts
  <2>3. own[d[t].firstBlock] = t
    BY <1>1, <1>7, FirstsKept DEF OwnsFirsts
  <2> QED
    BY <2>1, <2>2, <2>3
<1>8. OwnsFirsts(own2, rootFiles') /\ OwnsFirsts(own2, rootDisc')
  BY <1>7
<1>9. OwnsMarked(own2)'
  <2> SUFFICES ASSUME NEW b \in DataBlocks, own2[b] # NULL
               PROVE  b < DMAP_PER_BLOCK /\ dmapDisc'[0][b] /\ dmapArray'[b]
    BY DEF OwnsMarked
  <2>1. b < DMAP_PER_BLOCK /\ dmapDisc[0][b] /\ dmapArray[b]
    BY <1>1, <1>4 DEF Owned, OwnsMarked
  <2>2. \A i \in 1..Len(freed) : freed[i] # b
    <3>1. b \notin Range(freed)
      BY <1>4
    <3> QED
      BY <3>1 DEF Range
  <2>3. dmapArray'[b]
    BY <1>4, <2>1, <2>2 DEF SetAll, Marked
  <2>4. dmapDisc'[0][b]
    BY <1>4, <2>1, <2>2, FirstMarks DEF SetAll, TypeOK
  <2> QED
    BY <2>1, <2>3, <2>4
<1> HIDE DEF own2
<1>10. Owned(own2)'
  BY <1>5, <1>8, <1>9 DEF Owned, OwnsLinks, OwnsFirsts
<1> QED
  BY <1>2, <1>10 DEF OwnInv, Owners

\* Free blocks are taken and appended to the chain of the file in slot s, which
\* gets the first of them as its first block if it had none.
LEMMA OwnersAppend ==
    ASSUME TypeOK, FatPersisted, mounted, UNCHANGED mounted, OwnInv,
           UsedInFirstMapBlock',
           NEW s \in Slots, rootFiles[s] # NULL,
           NEW k \in Int, NEW new \in getCertainNumberOfFreeBlocks(dmapArray, k),
           setFATBlocks(rootFiles[s], new), fatDisc' = fatArray',
           \A t \in Slots \ {s} : rootFiles'[t] = rootFiles[t] /\ rootDisc'[t] = rootDisc[t],
           rootFiles'[s].firstBlock = FirstBlock(rootFiles[s], new),
           \/ rootDisc'[s] = rootDisc[s]
           \/ rootDisc'[s].firstBlock = FirstBlock(rootFiles[s], new)
    PROVE  OwnInv'
<1>1. PICK own \in Owners : Owned(own)
  BY DEF OwnInv
<1> DEFINE f == rootFiles[s]
           chain == Chain(fatArray, f.firstBlock)
           own2 == [b \in Blocks |-> IF \E i \in 1..Len(new) : new[i] = b THEN s ELSE own[b]]
<1>2. own2 \in Owners
  BY DEF Owners
<1>3. /\ fatArray \in [Blocks -> Blocks] /\ fatDisc = fatArray
      /\ f.firstBlock \in Blocks /\ s # NULL
  BY OnDiskAssumption DEF TypeOK, FatTypeOK, RootTypeOK, rootFile, FatPersisted
<1>4. new \in Seq(DataBlocks) /\ \A i, j \in 1..Len(new) : new[i] = new[j] => i = j
  BY AllocatedBlocks
<1>5. \A i \in 1..Len(new) : new[i] \in DataBlocks /\ ~dmapArray[new[i]]
  <2>1. new \in [1..k -> FreeBlocks(dmapArray)]
    BY DEF getCertainNumberOfFreeBlocks
  <2>2. \A i \in 1..Len(new) : i \in 1..k
    BY AllocatedBlocks
  <2>3. \A i \in 1..Len(new) : new[i] \in FreeBlocks(dmapArray)
    BY <2>1, <2>2
  <2> QED
    BY <2>3 DEF FreeBlocks
<1>6. \A i \in 1..Len(new) : own[new[i]] = NULL
  BY <1>1, <1>5 DEF Owned, OwnsMarked
<1>7. SetAll(new, TRUE) /\ fatArray' = Linked(fatArray, chain, new)
  BY DEF setFATBlocks
<1>8. chain \in Seq(DataBlocks) /\ \A i \in 1..Len(chain) : own[chain[i]] = s
  <2>1. chain \in Seq(DataBlocks)
    BY ChainOfFile
  <2>2. \A i \in 1..Len(chain) : chain[i] \in BlocksOf(s)
    BY <2>1 DEF BlocksOf, Range
  <2> QED
    BY <1>1, <2>1, <2>2, OwnChain DEF Owned
<1> HIDE DEF chain
<1>9. \A i \in 1..Len(new) : own2[new[i]] = s
  BY <1>5, EndIsNoDataBlock
<1>10. \A b \in Blocks : own[b] # NULL => own2[b] = own[b]
  BY <1>6
<1>11. OwnsLinks(own2, fatDisc')
  <2> SUFFICES ASSUME NEW b \in DataBlocks, own2[b] # NULL, fatDisc'[b] # FAT_END
               PROVE  own2[fatDisc'[b]] = own2[b]
    BY DEF OwnsLinks
  <2>1. fatDisc'[b] = Linked(fatArray, chain, new)[b] /\ b \in Blocks
    BY <1>7, EndIsNoDataBlock
  <2>2. CASE \E i \in 1..Len(new) : new[i] = b
    <3>1. PICK i \in 1..Len(new) : new[i] = b
      BY <2>2
    <3>2. fatDisc'[b] = IF i < Len(new) THEN new[i + 1] ELSE FAT_END
      BY <1>3, <1>4, <2>1, <3>1, LinkedNew
    <3>3. i < Len(new) /\ i + 1 \in 1..Len(new)
      BY <1>4, <3>2
    <3> QED
      BY <1>9, <3>1, <3>2, <3>3
  <2>3. CASE ~ \E i \in 1..Len(new) : new[i] = b
    <3>1. own2[b] = own[b]
      BY <2>1, <2>3
    <3>2. fatDisc'[b] = IF new # <<>> /\ chain # <<>> /\ b = chain[Len(chain)]
                        THEN new[1] ELSE fatArray[b]
      BY <1>3, <1>4, <2>1, <2>3, LinkedOld
    <3>3. CASE new # <<>> /\ chain # <<>> /\ b = chain[Len(chain)]
      <4>1. Len(chain) \in 1..Len(chain) /\ 1 \in 1..Len(new)
        BY <1>4, <1>8, <3>3
      <4>2. own[b] = s
        BY <1>8, <3>3, <4>1
      <4> QED
        BY <1>9, <3>1, <3>2, <3>3, <4>1, <4>2
    <3>4. CASE ~(new # <<>> /\ chain # <<>> /\ b = chain[Len(chain)])
      <4>1. fatDisc'[b] = fatDisc[b] /\ fatDisc[b] \in Blocks
        BY <1>3, <2>1, <3>2, <3>4
      <4>2. own[b] # NULL
        BY <3>1
      <4>3. own[fatDisc[b]] = own[b]
        BY <1>1, <4>1, <4>2 DEF Owned, OwnsLinks
      <4> QED
        BY <1>10, <3>1, <4>1, <4>2, <4>3
    <3> QED
      BY <3>3, <3>4
  <2> QED
    BY <2>2, <2>3
<1>12. \A t \in Slots : /\ rootFiles[t] # NULL => rootFiles[t].firstBlock \in Blocks
                        /\ rootDisc[t] # NULL => rootDisc[t].firstBlock \in Blocks
  BY DEF TypeOK, RootTypeOK, rootFile
<1>13. \A t \in Slots, b \in Blocks : own[b] = t => own2[b] = t
  BY <1>10, OnDiskAssumption
<1>14. FirstBlock(f, new) = FAT_END \/ own2[FirstBlock(f, new)] = s
  <2>1. CASE new # <<>> /\ f.firstBlock = FAT_END
    <3>1. 1 \in 1..Len(new)
      BY <1>4, <2>1
    <3> QED
      BY <1>9, <2>1, <3>1 DEF FirstBlock
  <2>2. CASE ~(new # <<>> /\ f.firstBlock = FAT_END)
    <3>1. f.firstBlock = FAT_END \/ own[f.firstBlock] = s
      BY <1>1 DEF Owned, OwnsFirsts
    <3> QED
      BY <1>3, <1>13, <2>2, <3>1 DEF FirstBlock
  <2> QED
    BY <2>1, <2>2
<1> HIDE DEF own2
<1>15. OwnsFirsts(own2, rootFiles')
  <2> SUFFICES ASSUME NEW t \in Slots, rootFiles'[t] # NULL, rootFiles'[t].firstBlock # FAT_END
               PROVE  own2[rootFiles'[t].firstBlock] = t
    BY DEF OwnsFirsts
  <2>1. CASE t = s
    BY <1>14, <2>1
  <2>2. CASE t # s
    BY <1>1, <1>12, <1>13, <2>2 DEF Owned, OwnsFirsts
  <2> QED
    BY <2>1, <2>2
<1>16. OwnsFirsts(own2, rootDisc')
  <2> SUFFICES ASSUME NEW t \in Slots, rootDisc'[t] # NULL, rootDisc'[t].firstBlock # FAT_END
               PROVE  own2[rootDisc'[t].firstBlock] = t
    BY DEF OwnsFirsts
  <2>1. CASE t = s /\ rootDisc'[s] # rootDisc[s]
    BY <1>14, <2>1
  <2>2. CASE rootDisc'[t] = rootDisc[t]
    BY <1>1, <1>12, <1>13, <2>2 DEF Owned, OwnsFirsts
  <2> QED
    BY <2>1, <2>2
<1>17. OwnsMarked(own2)'
  <2> SUFFICES ASSUME NEW b \in DataBlocks, own2[b] # NULL
               PROVE  b < DMAP_PER_BLOCK /\ dmapDisc'[0][b] /\ dmapArray'[b]
    BY DEF OwnsMarked
  <2>1. b \in Blocks /\ DmapTypeOK
    BY EndIsNoDataBlock DEF TypeOK
  <2>2. dmapArray' = Marked(dmapArray, new, TRUE)
        /\ dmapDisc' = DmapDiscWrite(dmapDisc, dmapArray, new, TRUE)
    BY <1>7 DEF SetAll
  <2>3. CASE \E i \in 1..Len(new) : new[i] = b
    <3>1. dmapArray'[b]
      BY <2>1, <2>2, <2>3 DEF Marked
    <3>2. b < DMAP_PER_BLOCK
      BY <3>1 DEF UsedInFirstMapBlock
    <3>3. dmapDisc'[0][b]
      BY <1>4, <2>1, <2>2, <2>3, <3>2, FirstMarks
    <3> QED
      BY <3>1, <3>2, <3>3
  <2>4. CASE ~ \E i \in 1..Len(new) : new[i] = b
    <3>1. own[b] # NULL
      BY <2>1, <2>4 DEF own2
    <3>2. b < DMAP_PER_BLOCK /\ dmapDisc[0][b] /\ dmapArray[b]
      BY <1>1, <3>1 DEF Owned, OwnsMarked
    <3>3. dmapArray'[b]
      BY <2>1, <2>2, <2>4, <3>2 DEF Marked
    <3>4. dmapDisc'[0][b]
      BY <1>4, <2>1, <2>2, <3>2, FirstMarks
    <3> QED
      BY <3>2, <3>3, <3>4
  <2> QED
    BY <2>3, <2>4
<1>18. Owned(own2)'
  BY <1>11, <1>15, <1>16, <1>17 DEF Owned, OwnsLinks, OwnsFirsts
<1> QED
  BY <1>2, <1>18 DEF OwnInv, Owners

\* The process ends; the map may still have been written, with more marks.
LEMMA OwnersEnd ==
    ASSUME TypeOK, mounted, OwnInv, NEW r, ProcessEnds(r), UNCHANGED <<rootDisc, fatDisc>>,
           \/ UNCHANGED dmapDisc
           \/ \E s \in Seq(DataBlocks) : dmapDisc' = DmapDiscWrite(dmapDisc, dmapArray, s, TRUE)
    PROVE  OwnInv'
<1>1. PICK own \in Owners : Owned(own)
  BY DEF OwnInv
<1>2. OwnsFirsts(own, rootFiles')
  BY DEF ProcessEnds, EmptyDirectory, OwnsFirsts
<1>3. ASSUME NEW b \in DataBlocks, own[b] # NULL
      PROVE  b < DMAP_PER_BLOCK /\ dmapDisc'[0][b]
  <2>1. b \in Blocks /\ DmapTypeOK
    BY EndIsNoDataBlock DEF TypeOK
  <2>2. b < DMAP_PER_BLOCK /\ dmapDisc[0][b] /\ dmapArray[b]
    BY <1>1, <1>3 DEF Owned, OwnsMarked
  <2> QED
    BY <2>1, <2>2, FirstMarks
<1>4. OwnsMarked(own)'
  BY <1>3 DEF OwnsMarked, ProcessEnds
<1>5. Owned(own)'
  BY <1>1, <1>2, <1>4 DEF Owned, OwnsLinks, OwnsFirsts
<1> QED
  BY <1>5 DEF OwnInv, Owners

\* The blocks of a file can be freed in any part: OwnersFree, from what the two
\* handlers do that free blocks.
LEMMA OwnersUnlinked ==
    ASSUME TypeOK, FatInv, mounted, OwnInv, Completes("ok"),
           NEW s \in Slots, rootFiles[s] # NULL,
           NEW freed \in Seq(DataBlocks), Range(freed) \subseteq BlocksOf(s),
           fatArray' = Unlinked(fatArray, Range(freed)),
           fatDisc' = FatDiscWrite(fatDisc, fatArray', Range(freed)),
           SetAll(freed, FALSE),
           KeepsFirsts(rootFiles'), KeepsFirsts(rootDisc'),
           rootFiles'[s] = NULL \/ rootFiles'[s].firstBlock = FAT_END,
           rootDisc'[s] = NULL \/ rootDisc'[s].firstBlock = FAT_END
    PROVE  OwnInv'
<1>1. UNCHANGED <<container, mounted>>
  BY DEF Completes
<1>2. FatInv'
  BY <1>1, FatUnlinked
<1>3. FatPersisted /\ fatDisc' = fatArray'
  BY <1>1, <1>2 DEF FatInv, FatPersisted
<1> QED
  BY <1>1, <1>3, OwnersFree

\* A removal takes the owner from all its blocks; entries that share the name,
\* and are deleted with it, leave theirs behind.
LEMMA OwnersUnlink ==
    ASSUME OpenInv, FatInv, OwnInv, mounted, NEW n \in Names, fuseUnlink(n)
    PROVE  OwnInv'
<1>1. TypeOK /\ rootFiles \in RootDirectories /\ rootDisc \in RootDirectories
  BY DEF OpenInv, TypeOK, RootTypeOK, RootDirectories
<1>2. CASE NotFound(n, "ENOENT")
  <2>1. UNCHANGED <<mounted, fatDisc, dmapArray, dmapDisc, rootFiles, rootDisc>>
    BY <1>2 DEF NotFound, Returns, Completes, fsVars
  <2> QED
    BY <2>1, OwnersKept DEF KeepsFirsts
<1>3. ASSUME NEW s \in getRootEntryFile(rootFiles, n),
             LET chain == Chain(fatArray, rootFiles[s].firstBlock)
             IN  /\ fatArray' = Unlinked(fatArray, Range(chain))
                 /\ fatDisc' = FatDiscWrite(fatDisc, fatArray', Range(chain))
                 /\ SetAll(chain, FALSE),
             deleteFile(n), Completes("ok")
      PROVE  OwnInv'
  <2> DEFINE chain == Chain(fatArray, rootFiles[s].firstBlock)
  <2>1. s \in Slots /\ rootFiles[s] # NULL /\ rootFiles[s].name = n
    BY <1>1, <1>3, EntryFound DEF getRootEntryFile, Named
  <2>2. s \in Named(rootFiles, n)
    BY <2>1 DEF Named
  <2>3. /\ rootFiles'[s] = NULL /\ rootDisc'[s] = NULL
        /\ KeepsFirsts(rootFiles') /\ KeepsFirsts(rootDisc')
    BY <1>1, <1>3, <2>1, <2>2 DEF deleteFile, KeepsFirsts
  <2>4. chain \in Seq(DataBlocks)
    BY <1>1, <2>1, ChainOfFile
  <2>5. Range(chain) \subseteq BlocksOf(s)
    BY DEF BlocksOf
  <2>6. /\ fatArray' = Unlinked(fatArray, Range(chain))
        /\ fatDisc' = FatDiscWrite(fatDisc, fatArray', Range(chain))
        /\ SetAll(chain, FALSE)
    BY <1>3
  <2> HIDE DEF chain
  <2> QED
    BY <1>1, <1>3, <2>1, <2>3, <2>4, <2>5, <2>6, OwnersUnlinked
<1> QED
  BY <1>2, <1>3 DEF fuseUnlink

\* A truncation that leaves a file no byte frees all its blocks; any other
\* frees none, without "shrink".
LEMMA OwnersShrink ==
    ASSUME "shrink" \notin Workload, OpenInv, FatInv, OwnInv, mounted,
           NEW s \in Slots, rootFiles[s] # NULL, NEW newSize \in Nat, Shrink(s, newSize)
    PROVE  OwnInv'
<1> DEFINE f == rootFiles[s]
           chain == Chain(fatArray, f.firstBlock)
           spare == SubSeq(chain, numBlocks(newSize) + 1, Len(chain))
           g == [f EXCEPT !.firstBlock = IF newSize = 0 THEN FAT_END ELSE @,
                          !.st_size = newSize]
<1>1. /\ TypeOK /\ rootFiles \in RootDirectories /\ rootDisc \in RootDirectories
      /\ f \in rootFile
  BY DEF OpenInv, TypeOK, RootTypeOK, RootDirectories
<1>2. spare \in Seq(DataBlocks) /\ Range(spare) \subseteq BlocksOf(s)
  BY <1>1, ChainOfFile, numBlocksType, SpareBlocks DEF BlocksOf
<1>3. g.firstBlock = IF newSize = 0 THEN FAT_END ELSE f.firstBlock
  BY <1>1 DEF rootFile
<1>4. /\ newSize = 0 \/ spare = <<>>
      /\ fatArray' = Unlinked(fatArray, Range(spare))
      /\ fatDisc' = FatDiscWrite(fatDisc, fatArray', Range(spare))
      /\ SetAll(spare, FALSE)
      /\ StoreEntry(s, g) /\ Completes("ok")
  BY DEF Shrink
<1> HIDE DEF spare, g
<1>5. rootFiles'[s] = g /\ rootDisc'[s] = g
      /\ \A t \in Slots \ {s} : rootFiles'[t] = rootFiles[t] /\ rootDisc'[t] = rootDisc[t]
  BY <1>1, <1>4 DEF StoreEntry, RootDirectories
<1>6. KeepsFirsts(rootFiles') /\ KeepsFirsts(rootDisc')
  BY <1>3, <1>5 DEF KeepsFirsts
<1>7. CASE newSize = 0
  BY <1>1, <1>2, <1>3, <1>4, <1>5, <1>6, <1>7, OwnersUnlinked
<1>8. CASE spare = <<>>
  <2>1. Range(spare) = {}
    BY <1>8 DEF Range
  <2>2. fatDisc' = fatDisc
    BY <1>1, <1>4, <2>1 DEF FatDiscWrite, TypeOK, FatTypeOK
  <2>3. dmapArray' = dmapArray /\ dmapDisc' = dmapDisc
    <3>1. \A i \in 1..Len(spare) : FALSE
      BY <1>8
    <3>2. dmapArray' = dmapArray
      BY <1>1, <1>4, <3>1 DEF SetAll, Marked, TypeOK, DmapTypeOK
    <3>3. \A k \in DmapGroups : DmapDiscWrite(dmapDisc, dmapArray, spare, FALSE)[k] = dmapDisc[k]
      BY <3>1 DEF DmapDiscWrite
    <3>4. dmapDisc \in [DmapGroups -> [DmapOffsets -> BOOLEAN]]
      BY <1>1 DEF TypeOK, DmapTypeOK
    <3>5. DmapDiscWrite(dmapDisc, dmapArray, spare, FALSE)
             = [k \in DmapGroups |-> DmapDiscWrite(dmapDisc, dmapArray, spare, FALSE)[k]]
      BY DEF DmapDiscWrite
    <3>6. DmapDiscWrite(dmapDisc, dmapArray, spare, FALSE) = dmapDisc
      BY <3>3, <3>4, <3>5
    <3> QED
      BY <1>4, <3>2, <3>6 DEF SetAll
  <2>4. mounted' = mounted
    BY <1>4 DEF Completes
  <2> QED
    BY <1>6, <2>2, <2>3, <2>4, OwnersKept
<1> QED
  BY <1>4, <1>7, <1>8

\* Too few free blocks: those that were free are marked on disc, which leaves
\* the blocks of files marked.
LEMMA OwnersOut ==
    ASSUME TypeOK, mounted, OwnInv, NEW k \in Int, OutOfBlocks(k)
    PROVE  OwnInv'
<1> DEFINE n == Cardinality(FreeBlocks(dmapArray))
<1>1. n \in Int
  BY CountOfFreeBlocks
<1>2. PICK all \in getCertainNumberOfFreeBlocks(dmapArray, n) :
         dmapDisc' = DmapDiscWrite(dmapDisc, dmapArray, all, TRUE)
  BY DEF OutOfBlocks
<1> HIDE DEF n
<1>3. all \in Seq(DataBlocks)
  BY <1>1, <1>2, AllocatedBlocks
<1>4. ProcessEnds("SIGSEGV") /\ UNCHANGED <<rootDisc, fatDisc>>
  BY DEF OutOfBlocks
<1> QED
  BY <1>2, <1>3, <1>4, OwnersEnd

\* OwnersAppend, from what both handlers that append blocks do.
LEMMA OwnersTake ==
    ASSUME TypeOK, FatInv, OwnInv, UsedInFirstMapBlock', mounted, Completes("ok"),
           NEW s \in Slots, rootFiles[s] # NULL,
           NEW k \in Int, NEW new \in getCertainNumberOfFreeBlocks(dmapArray, k),
           setFATBlocks(rootFiles[s], new),
           \A t \in Slots \ {s} : rootFiles'[t] = rootFiles[t] /\ rootDisc'[t] = rootDisc[t],
           rootFiles'[s].firstBlock = FirstBlock(rootFiles[s], new),
           \/ rootDisc'[s] = rootDisc[s]
           \/ rootDisc'[s].firstBlock = FirstBlock(rootFiles[s], new)
    PROVE  OwnInv'
<1>1. UNCHANGED <<container, mounted>>
  BY DEF Completes
<1>2. FatInv'
  BY <1>1, FatLinked
<1>3. FatPersisted /\ fatDisc' = fatArray'
  BY <1>1, <1>2 DEF FatInv, FatPersisted
<1> QED
  BY <1>1, <1>3, OwnersAppend

\* A write, when the blocks it needs are there.
LEMMA OwnersWrite ==
    ASSUME OpenInv, FatInv, OwnInv, UsedInFirstMapBlock', mounted,
           NEW s \in Slots, rootFiles[s] # NULL,
           NEW off \in Nat, NEW size \in Nat, NEW v \in Bytes, WriteFile(s, off, size, v)
    PROVE  OwnInv'
<1> DEFINE f == rootFiles[s]
           end == off + size
           k == IF end > f.st_size THEN blocksAll(size, off, f.st_size) ELSE 0
<1>1. /\ TypeOK /\ rootFiles \in RootDirectories /\ rootDisc \in RootDirectories
      /\ f \in rootFile /\ f.st_size \in Nat
  BY FuseAssumption DEF OpenInv, TypeOK, RootTypeOK, RootDirectories, rootFile
<1>2. k \in Int
  BY <1>1, blocksAllType
<1>3. CASE OutOfBlocks(k)
  BY <1>1, <1>2, <1>3, OwnersOut
<1>4. ASSUME NEW new \in getCertainNumberOfFreeBlocks(dmapArray, k),
             setFATBlocks(f, new), Completes("ok"),
             StoreEntry(s, [f EXCEPT !.firstBlock = FirstBlock(f, new),
                                     !.st_size = IF end > @ THEN end ELSE @])
      PROVE  OwnInv'
  <2> DEFINE g == [f EXCEPT !.firstBlock = FirstBlock(f, new),
                            !.st_size = IF end > @ THEN end ELSE @]
  <2>1. g.firstBlock = FirstBlock(f, new)
    BY <1>1 DEF rootFile
  <2>2. /\ rootFiles'[s].firstBlock = FirstBlock(f, new)
        /\ rootDisc'[s].firstBlock = FirstBlock(f, new)
        /\ \A t \in Slots \ {s} : rootFiles'[t] = rootFiles[t] /\ rootDisc'[t] = rootDisc[t]
    BY <1>1, <1>4, <2>1 DEF StoreEntry, RootDirectories
  <2> QED
    BY <1>1, <1>2, <1>4, <2>2, OwnersTake
<1> QED
  BY <1>3, <1>4 DEF WriteFile

\* An extension gives a file its blocks, and a file without one its first block
\* in memory only.
LEMMA OwnersExtend ==
    ASSUME OpenInv, FatInv, OwnInv, UsedInFirstMapBlock', mounted,
           NEW s \in Slots, rootFiles[s] # NULL, NEW newSize \in Nat, Extend(s, newSize)
    PROVE  OwnInv'
<1> DEFINE f == rootFiles[s]
           k == blocksAll(newSize, 0, f.st_size)
<1>1. /\ TypeOK /\ rootFiles \in RootDirectories /\ rootDisc \in RootDirectories
      /\ f \in rootFile /\ f.st_size \in Nat
  BY FuseAssumption DEF OpenInv, TypeOK, RootTypeOK, RootDirectories, rootFile
<1>2. k \in Int
  BY <1>1, blocksAllType
<1>3. CASE OutOfBlocks(k)
  BY <1>1, <1>2, <1>3, OwnersOut
<1>4. ASSUME NEW new \in getCertainNumberOfFreeBlocks(dmapArray, k),
             setFATBlocks(f, new), Completes("ok"),
             rootFiles' = [rootFiles EXCEPT ![s].firstBlock = FirstBlock(f, new)],
             UNCHANGED rootDisc
      PROVE  OwnInv'
  <2>1. /\ rootFiles'[s].firstBlock = FirstBlock(f, new)
        /\ rootDisc'[s] = rootDisc[s]
        /\ \A t \in Slots \ {s} : rootFiles'[t] = rootFiles[t] /\ rootDisc'[t] = rootDisc[t]
    BY <1>1, <1>4 DEF RootDirectories, rootFile
  <2> QED
    BY <1>1, <1>2, <1>4, <2>1, OwnersTake
<1> QED
  BY <1>3, <1>4 DEF Extend

\* A mount finds each block that has an owner marked; a new container has no file.
LEMMA OwnersInit ==
    ASSUME TypeOK, FatInv, UnmountedEmpty, OwnInv, fuseInit
    PROVE  OwnInv'
<1>1. CASE InitExisting
  <2>1. PICK own \in Owners : Owned(own)
    BY DEF OwnInv
  <2>2. /\ mounted' /\ UNCHANGED <<fatDisc, dmapDisc, rootDisc>>
        /\ rootFiles' = rootDisc /\ dmapArray' = DmapRead(dmapDisc)
    BY <1>1 DEF fuseInit, InitExisting, FatRestart, DmapRestart, initRootDir
  <2>3. \A b \in DataBlocks : own[b] # NULL =>
           b < DMAP_PER_BLOCK /\ dmapDisc[0][b] /\ dmapArray'[b]
    BY <2>1, <2>2, FirstRead, EndIsNoDataBlock DEF Owned, OwnsMarked
  <2>4. Owned(own)'
    BY <2>1, <2>2, <2>3 DEF Owned, OwnsLinks, OwnsFirsts, OwnsMarked
  <2> QED
    BY <2>4 DEF OwnInv, Owners
<1>2. CASE InitNew
  <2> DEFINE own == [b \in Blocks |-> NULL]
  <2>1. own \in Owners /\ \A b \in DataBlocks : own[b] = NULL
    BY EndIsNoDataBlock DEF Owners
  <2>2. rootFiles' = EmptyDirectory /\ rootDisc' = EmptyDirectory
    BY <1>2 DEF fuseInit, InitNew, rootInit, UnmountedEmpty
  <2> HIDE DEF own
  <2>3. Owned(own)'
    BY <2>1, <2>2 DEF Owned, OwnsLinks, OwnsFirsts, OwnsMarked, EmptyDirectory
  <2> QED
    BY <2>1, <2>3 DEF OwnInv, Owners
<1> QED
  BY <1>1, <1>2 DEF fuseInit

\* Steps that neither allocate nor free, and mounts.
LEMMA OwnersQuiet ==
    ASSUME TypeOK, FatInv, UnmountedEmpty, OwnInv, fuseInit \/ Rests \/ Ends \/ Stores
    PROVE  OwnInv'
<1>1. rootFiles \in RootDirectories /\ rootDisc \in RootDirectories
  BY DEF TypeOK, RootTypeOK, RootDirectories
<1>2. CASE fuseInit
  BY <1>2, OwnersInit
<1>3. CASE Rests
  <2>1. UNCHANGED <<mounted, fatDisc, dmapArray, dmapDisc, rootFiles, rootDisc>>
    BY <1>3 DEF Rests
  <2> QED
    BY <2>1, OwnersKept DEF KeepsFirsts
<1>4. CASE Ends
  <2>1. PICK r \in Outcomes : ProcessEnds(r) /\ UNCHANGED <<container, rootDisc, fatDisc, dmapDisc>>
    BY <1>4 DEF Ends
  <2>2. CASE mounted
    BY <2>1, <2>2, OwnersEnd
  <2>3. CASE ~mounted
    <3>1. rootFiles' = rootFiles
      BY <2>1, <2>3 DEF ProcessEnds, UnmountedEmpty
    <3>2. PICK own \in Owners : Owned(own)
      BY DEF OwnInv
    <3>3. Owned(own)'
      BY <2>1, <3>1, <3>2 DEF Owned, OwnsLinks, OwnsFirsts, OwnsMarked, ProcessEnds
    <3> QED
      BY <3>3 DEF OwnInv, Owners
  <2> QED
    BY <2>2, <2>3
<1>5. CASE Stores
  <2>1. UNCHANGED <<mounted, fatDisc, dmapArray, dmapDisc>>
    BY <1>5 DEF Stores
  <2>2. KeepsFirsts(rootFiles') /\ KeepsFirsts(rootDisc')
    BY <1>1, <1>5 DEF Stores, StoreEntry, KeepsFirsts, RootDirectories
  <2> QED
    BY <2>1, <2>2, OwnersKept
<1> QED
  BY <1>2, <1>3, <1>4, <1>5

\* No step breaks the invariant of the owners.
LEMMA OwnInvInductive ==
    ASSUME "shrink" \notin Workload
    PROVE  OpenInv /\ FatInv /\ RootInv /\ OwnInv /\ UsedInFirstMapBlock' /\ [Next]_vars
               => OwnInv'
<1> SUFFICES ASSUME OpenInv, FatInv, RootInv, OwnInv, UsedInFirstMapBlock', [Next]_vars
             PROVE  OwnInv'
  OBVIOUS
<1>1. TypeOK /\ UnmountedEmpty
  BY DEF OpenInv, RootInv, UnmountedEmpty
<1>2. CASE fuseInit \/ Rests \/ Ends \/ Stores
  BY <1>1, <1>2, OwnersQuiet
<1>3. CASE Changes
  BY <1>3, OwnersUnlink, OwnersWrite, OwnersExtend, OwnersShrink DEF Changes
<1> QED
  BY <1>2, <1>3, StepKinds

\* Before the first mount no block has an owner.
LEMMA InitOwnInv == Init => OwnInv
<1> SUFFICES ASSUME Init PROVE OwnInv
  OBVIOUS
<1> DEFINE own == [b \in Blocks |-> NULL]
<1>1. own \in Owners /\ \A b \in DataBlocks : own[b] = NULL
  BY EndIsNoDataBlock DEF Owners
<1>2. rootFiles = EmptyDirectory /\ rootDisc = EmptyDirectory
  BY DEF Init
<1> HIDE DEF own
<1>3. Owned(own)
  BY <1>1, <1>2 DEF Owned, OwnsLinks, OwnsFirsts, OwnsMarked, EmptyDirectory
<1> QED
  BY <1>1, <1>3 DEF OwnInv

\* Files whose blocks have different owners share none.
LEMMA OwnersApart ==
    ASSUME TypeOK, FatPersisted, UnmountedEmpty,
           NEW own \in Owners, OwnsLinks(own, fatDisc), OwnsFirsts(own, rootFiles)
    PROVE  BlocksNotShared
<1>1. CASE ~mounted
  <2>1. Files = {}
    BY <1>1 DEF UnmountedEmpty, EmptyDirectory, Files
  <2> QED
    BY <2>1 DEF BlocksNotShared
<1>2. CASE mounted
  <2> SUFFICES ASSUME NEW s \in Files, NEW t \in Files, s # t,
                      NEW b \in BlocksOf(s) \cap BlocksOf(t)
               PROVE  FALSE
    BY DEF BlocksNotShared
  <2> QED
    BY <1>2, OwnChain DEF Files
<1> QED
  BY <1>1, <1>2

\* Owners are what the two properties need.
LEMMA OwnersSeparate ==
    ASSUME TypeOK, FatInv, RootInv, OwnInv
    PROVE  BlocksNotShared /\ BlocksOfFilesUsed
<1>1. PICK own \in Owners : Owned(own)
  BY DEF OwnInv
<1>2. UnmountedEmpty /\ FatPersisted /\ OwnsLinks(own, fatDisc) /\ OwnsFirsts(own, rootFiles)
  BY <1>1 DEF RootInv, UnmountedEmpty, FatInv, Owned
<1>3. BlocksNotShared
  BY <1>2, OwnersApart
<1>4. BlocksOfFilesUsed
  <2> SUFFICES ASSUME NEW s \in Files, NEW b \in BlocksOf(s)
               PROVE  dmapArray[b]
    BY DEF BlocksOfFilesUsed
  <2>1. mounted
    BY <1>2 DEF UnmountedEmpty, EmptyDirectory, Files
  <2>2. b \in DataBlocks /\ own[b] # NULL
    BY <1>2, <2>1, OwnChain, OnDiskAssumption DEF Files
  <2> QED
    BY <1>1, <2>1, <2>2 DEF Owned, OwnsMarked
<1> QED
  BY <1>3, <1>4

\* The owners exist in each state that is reached with a map whose first device
\* block is enough.
THEOREM OwnInvariant ==
    ASSUME "shrink" \notin Workload
    PROVE  Spec /\ []UsedInFirstMapBlock => []OwnInv
<1>1. Init => FatInv /\ RootInv /\ OwnInv
  BY InitFatInv, InitRootInv, InitOwnInv
<1>2. OpenInv /\ (FatInv /\ RootInv /\ OwnInv) /\ UsedInFirstMapBlock' /\ [Next]_vars
         => (FatInv /\ RootInv /\ OwnInv)'
  BY FatInvInductive, RootInvInductive, OwnInvInductive
<1> QED
  BY <1>1, <1>2, OpenInvariant, PTL DEF Spec

(***************************************************************************)
(* Without "shrink", as long as blocks are used whose marks are in the     *)
(* first device block of the map: no block belongs to two files, over      *)
(* mounts, kills, renames onto existing names, extensions and calls that   *)
(* run out of blocks, whatever a new map shows as used.                    *)
(***************************************************************************)
THEOREM BlocksStayApart ==
    ASSUME "shrink" \notin Workload
    PROVE  Spec /\ []UsedInFirstMapBlock => []BlocksNotShared
<1>1. OpenInv /\ FatInv /\ RootInv /\ OwnInv => BlocksNotShared
  BY OwnersSeparate DEF OpenInv
<1>2. Spec => []RootInv
  BY OpenInvariant, InitRootInv, RootInvInductive, PTL DEF Spec
<1> QED
  BY <1>1, <1>2, OpenInvariant, FatInvariant, OwnInvariant, PTL

\* Under the same conditions no block of a file can be given to another.
THEOREM BlocksStayUsed ==
    ASSUME "shrink" \notin Workload
    PROVE  Spec /\ []UsedInFirstMapBlock => []BlocksOfFilesUsed
<1>1. OpenInv /\ FatInv /\ RootInv /\ OwnInv => BlocksOfFilesUsed
  BY OwnersSeparate DEF OpenInv
<1>2. Spec => []RootInv
  BY OpenInvariant, InitRootInv, RootInvInductive, PTL DEF Spec
<1> QED
  BY <1>1, <1>2, OpenInvariant, FatInvariant, OwnInvariant, PTL

-----------------------------------------------------------------------------
(* What becomes of the chains when blocks are appended and freed.          *)

\* The chain of a file: it ends, and has no block twice.
LEMMA FileChain ==
    ASSUME TypeOK, FatInv, NEW s \in Slots, rootFiles[s] # NULL
    PROVE  /\ Chain(fatArray, rootFiles[s].firstBlock) \in Seq(DataBlocks)
           /\ Distinct(Chain(fatArray, rootFiles[s].firstBlock))
           /\ BlocksOf(s) = Range(Chain(fatArray, rootFiles[s].firstBlock))
           /\ Cardinality(BlocksOf(s)) = Len(Chain(fatArray, rootFiles[s].firstBlock))
<1>1. fatArray \in [Blocks -> Blocks] /\ rootFiles[s].firstBlock \in Blocks
  BY DEF TypeOK, FatTypeOK, RootTypeOK, rootFile
<1>2. \A S \in SUBSET DataBlocks : S # {} => \E b \in S : fatArray[b] \notin S
  BY DEF FatInv, ChainsEnd, Terminates
<1>3. /\ Chain(fatArray, rootFiles[s].firstBlock) \in Seq(DataBlocks)
      /\ Distinct(Chain(fatArray, rootFiles[s].firstBlock))
  BY <1>1, <1>2, ChainEnds
<1> QED
  BY <1>3, DistinctBlocks DEF BlocksOf

\* Appended blocks come behind the blocks the file has, and no other file gets
\* or loses a block.
LEMMA ChainsAppend ==
    ASSUME TypeOK, FatInv, BlocksNotShared, BlocksOfFilesUsed,
           NEW s \in Slots, rootFiles[s] # NULL,
           NEW k \in Int, NEW new \in getCertainNumberOfFreeBlocks(dmapArray, k),
           setFATBlocks(rootFiles[s], new)
    PROVE  /\ Chain(fatArray', FirstBlock(rootFiles[s], new))
                 = Chain(fatArray, rootFiles[s].firstBlock) \o new
           /\ \A t \in Slots \ {s} : rootFiles[t] # NULL =>
                 Chain(fatArray', rootFiles[t].firstBlock)
                    = Chain(fatArray, rootFiles[t].firstBlock)
<1> DEFINE chain == Chain(fatArray, rootFiles[s].firstBlock)
<1>1. /\ fatArray \in [Blocks -> Blocks]
      /\ \A t \in Slots : rootFiles[t] # NULL => rootFiles[t].firstBlock \in Blocks
  BY DEF TypeOK, FatTypeOK, RootTypeOK, rootFile
<1>2. \A S \in SUBSET DataBlocks : S # {} => \E b \in S : fatArray[b] \notin S
  BY DEF FatInv, ChainsEnd, Terminates
<1>3. new \in Seq(DataBlocks) /\ \A i, j \in 1..Len(new) : new[i] = new[j] => i = j
  BY AllocatedBlocks
<1>4. Distinct(new)
  BY <1>3 DEF Distinct
<1>5. \A b \in Range(new) : ~dmapArray[b] /\ b \in DataBlocks
  <2>1. new \in [1..k -> FreeBlocks(dmapArray)]
    BY DEF getCertainNumberOfFreeBlocks
  <2> QED
    BY <2>1 DEF FreeBlocks, Range
<1>6. \A t \in Slots : rootFiles[t] # NULL => Range(new) \cap BlocksOf(t) = {}
  BY <1>5 DEF BlocksOfFilesUsed, Files
<1>7. chain \in Seq(DataBlocks) /\ BlocksOf(s) = Range(chain)
  BY FileChain
<1>8. Range(new) \cap Range(chain) = {}
  BY <1>6, <1>7
<1>9. fatArray' = Linked(fatArray, chain, new)
  BY DEF setFATBlocks
<1>10. Chain(fatArray', FirstBlock(rootFiles[s], new)) = chain \o new
  BY <1>1, <1>2, <1>3, <1>4, <1>8, <1>9, ChainAppended DEF FirstBlock
<1> HIDE DEF chain
<1>11. ASSUME NEW t \in Slots \ {s}, rootFiles[t] # NULL
       PROVE  Chain(fatArray', rootFiles[t].firstBlock) = Chain(fatArray, rootFiles[t].firstBlock)
  <2>1. BlocksOf(t) \cap Range(chain) = {} /\ BlocksOf(t) \cap Range(new) = {}
    BY <1>6, <1>7, <1>11 DEF BlocksNotShared, Files
  <2>2. BlocksOf(t) = Range(Chain(fatArray, rootFiles[t].firstBlock)) /\ BlocksOf(t) \subseteq Blocks
    <3>1. Chain(fatArray, rootFiles[t].firstBlock) \in Seq(DataBlocks)
      BY <1>11, FileChain
    <3> QED
      BY <3>1, EndIsNoDataBlock DEF BlocksOf, Range
  <2>3. ASSUME NEW b \in BlocksOf(t)
        PROVE  fatArray'[b] = fatArray[b]
    <3>1. \A i \in 1..Len(new) : new[i] # b
      BY <1>3, <2>1 DEF Range
    <3>2. chain # <<>> => b # chain[Len(chain)]
      BY <1>7, <2>1 DEF Range
    <3> QED
      BY <1>1, <1>3, <1>9, <2>2, <3>1, <3>2, LinkedOld
  <2>4. fatArray' \in [Blocks -> Blocks]
    BY <1>1, <1>3, <1>9, LinkedType
  <2> QED
    BY <1>1, <1>2, <1>11, <2>2, <2>3, <2>4, ChainSame
<1> QED
  BY <1>10, <1>11 DEF chain

\* Freeing blocks of one file leaves the chains of the others as they are.
LEMMA ChainsFree ==
    ASSUME TypeOK, FatInv, BlocksNotShared,
           NEW s \in Slots, rootFiles[s] # NULL,
           NEW freed \in SUBSET BlocksOf(s), fatArray' = Unlinked(fatArray, freed)
    PROVE  \A t \in Slots \ {s} : rootFiles[t] # NULL =>
              Chain(fatArray', rootFiles[t].firstBlock)
                 = Chain(fatArray, rootFiles[t].firstBlock)
<1> SUFFICES ASSUME NEW t \in Slots \ {s}, rootFiles[t] # NULL
             PROVE  Chain(fatArray', rootFiles[t].firstBlock)
                       = Chain(fatArray, rootFiles[t].firstBlock)
  OBVIOUS
<1>1. fatArray \in [Blocks -> Blocks] /\ rootFiles[t].firstBlock \in Blocks
  BY DEF TypeOK, FatTypeOK, RootTypeOK, rootFile
<1>2. \A S \in SUBSET DataBlocks : S # {} => \E b \in S : fatArray[b] \notin S
  BY DEF FatInv, ChainsEnd, Terminates
<1>3. BlocksOf(t) = Range(Chain(fatArray, rootFiles[t].firstBlock)) /\ BlocksOf(t) \subseteq Blocks
  <2>1. Chain(fatArray, rootFiles[t].firstBlock) \in Seq(DataBlocks)
    BY FileChain
  <2> QED
    BY <2>1, EndIsNoDataBlock DEF BlocksOf, Range
<1>4. BlocksOf(t) \cap freed = {}
  BY DEF BlocksNotShared, Files
<1>5. \A b \in BlocksOf(t) : fatArray'[b] = fatArray[b]
  BY <1>3, <1>4 DEF Unlinked
<1>6. fatArray' \in [Blocks -> Blocks]
  BY <1>1, UnlinkedType
<1> QED
  BY <1>1, <1>2, <1>3, <1>5, <1>6, ChainSame

-----------------------------------------------------------------------------
(* A block for each byte, for clients that neither "straddle" nor "shrink".*)

\* Each file of the directory dir has the blocks its size needs.
Covered(dir, fat) ==
    \A s \in Slots : dir[s] # NULL =>
        numBlocks(dir[s].st_size) <= Len(Chain(fat, dir[s].firstBlock))

\* The inductive invariant: in memory, and for the next mount.
CoverInv == Covered(rootFiles, fatDisc) /\ Covered(rootDisc, fatDisc)

\* An empty file needs no block, and a longer file needs no fewer.
LEMMA numBlocksZero == numBlocks(0) = 0
<1>1. BLOCK_SIZE \in Nat \ {0}
  BY LayoutAssumption
<1> QED
  BY <1>1 DEF numBlocks

LEMMA numBlocksMonotone ==
    ASSUME NEW x \in Nat, NEW y \in Nat, x <= y
    PROVE  numBlocks(x) <= numBlocks(y)
<1> DEFINE qx == x \div BLOCK_SIZE
           qy == y \div BLOCK_SIZE
           rx == IF x % BLOCK_SIZE # 0 THEN 1 ELSE 0
           ry == IF y % BLOCK_SIZE # 0 THEN 1 ELSE 0
<1>0. BLOCK_SIZE \in Nat \ {0}
  BY LayoutAssumption
<1>1. qx <= qy /\ qx \in Nat /\ qy \in Nat
  BY <1>0
<1>2. numBlocks(x) = qx + rx /\ numBlocks(y) = qy + ry
  BY DEF numBlocks
<1>3. rx \in {0, 1} /\ ry \in {0, 1}
  OBVIOUS
<1>4. qx = qy => rx <= ry
  <2> SUFFICES ASSUME qx = qy, x % BLOCK_SIZE # 0, y % BLOCK_SIZE = 0 PROVE FALSE
    OBVIOUS
  <2>1. /\ x = BLOCK_SIZE * qx + (x % BLOCK_SIZE)
        /\ y = BLOCK_SIZE * qy + (y % BLOCK_SIZE)
        /\ x % BLOCK_SIZE \in Nat /\ y % BLOCK_SIZE \in Nat
    BY <1>0
  <2> QED
    BY <2>1, <1>0
<1> HIDE DEF qx, qy, rx, ry
<1> QED
  BY <1>1, <1>2, <1>3, <1>4

\* The blocks that blocksAll asks for are enough for a write that does not
\* straddle, and none are asked for unless they are needed.
LEMMA blocksAllCovers ==
    ASSUME NEW off \in Nat, NEW size \in Nat, NEW st \in Nat, NEW len \in Nat,
           off \div BLOCK_SIZE >= st \div BLOCK_SIZE \/ numBlocks(off + size) <= numBlocks(st),
           numBlocks(st) <= len
    PROVE  LET k == blocksAll(size, off, st)
           IN  numBlocks(off + size) <= len + (IF k >= 0 THEN k ELSE 0)
<1>1. /\ off \div BLOCK_SIZE \in Nat /\ st \div BLOCK_SIZE \in Nat
      /\ numBlocks(off + size) \in Nat /\ numBlocks(st) \in Nat
      /\ size + off = off + size
  <2>1. BLOCK_SIZE \in Nat \ {0} /\ off + size \in Nat
    BY LayoutAssumption
  <2>2. off \div BLOCK_SIZE \in Nat /\ st \div BLOCK_SIZE \in Nat
    BY <2>1
  <2> QED
    BY <2>1, <2>2, numBlocksType
<1> DEFINE k == blocksAll(size, off, st)
<1>2. k = numBlocks(off + size) - numBlocks(st) + off \div BLOCK_SIZE - st \div BLOCK_SIZE
  BY <1>1 DEF blocksAll
<1> HIDE DEF k
<1> QED
  BY <1>1, <1>2 DEF k

\* A step after which each file that is not empty has the size and the chain
\* that it had in memory, or its size is covered by other means.
LEMMA CoverKept ==
    ASSUME NEW fat, Covered(rootFiles, fat), NEW new \in [Blocks -> Blocks],
           NEW d \in RootDirectories,
           \A t \in Slots : d[t] # NULL =>
              \/ d[t].st_size = 0
              \/ /\ rootFiles[t] # NULL
                 /\ d[t].st_size = rootFiles[t].st_size
                 /\ Chain(new, d[t].firstBlock) = Chain(fat, rootFiles[t].firstBlock)
              \/ numBlocks(d[t].st_size) <= Len(Chain(new, d[t].firstBlock))
    PROVE  Covered(d, new)
<1> SUFFICES ASSUME NEW t \in Slots, d[t] # NULL
             PROVE  numBlocks(d[t].st_size) <= Len(Chain(new, d[t].firstBlock))
  BY DEF Covered
<1>1. d[t].firstBlock \in Blocks
  BY DEF RootDirectories, rootFile
<1>2. Len(Chain(new, d[t].firstBlock)) \in Nat
  BY <1>1, ChainBlocks
<1> QED
  BY <1>2, numBlocksZero DEF Covered

\* While the file system is mounted, what covers the files in memory covers
\* those on disc.
LEMMA CoverMounted ==
    ASSUME TypeOK', FatInv', RootInv', mounted', Covered(rootFiles', fatArray')
    PROVE  CoverInv'
<1>1. /\ fatDisc' = fatArray' /\ fatArray' \in [Blocks -> Blocks]
      /\ rootDisc' \in RootDirectories
  BY DEF FatInv, FatPersisted, TypeOK, FatTypeOK, RootTypeOK, RootDirectories
<1>2. Covered(rootDisc', fatArray')
  <2> SUFFICES ASSUME NEW t \in Slots, rootDisc'[t] # NULL
               PROVE  numBlocks(rootDisc'[t].st_size)
                         <= Len(Chain(fatArray', rootDisc'[t].firstBlock))
    BY DEF Covered
  <2>1. CASE rootDisc'[t] = rootFiles'[t]
    BY <2>1 DEF Covered
  <2>2. CASE rootDisc'[t] # rootFiles'[t]
    <3>1. rootFiles'[t] # NULL /\ rootFiles'[t] \in rootFile /\ rootFiles'[t].st_size = 0
          /\ rootDisc'[t] = [rootFiles'[t] EXCEPT !.firstBlock = FAT_END]
      BY <2>2 DEF RootInv, RootPersisted, TypeOK, RootTypeOK
    <3>2. rootDisc'[t].st_size = 0
      BY <3>1 DEF rootFile
    <3>3. rootDisc'[t].firstBlock \in Blocks
      BY <1>1 DEF RootDirectories, rootFile
    <3>4. Len(Chain(fatArray', rootDisc'[t].firstBlock)) \in Nat
      BY <1>1, <3>3, ChainBlocks
    <3> QED
      BY <3>2, <3>4, numBlocksZero
  <2> QED
    BY <2>1, <2>2
<1> QED
  BY <1>1, <1>2 DEF CoverInv, Covered

\* Blocks are appended to a file, which gets a size that they cover.
LEMMA CoverAppend ==
    ASSUME TypeOK, FatInv, BlocksNotShared, BlocksOfFilesUsed, CoverInv, mounted,
           TypeOK', FatInv', RootInv', mounted',
           NEW s \in Slots, rootFiles[s] # NULL,
           NEW k \in Int, NEW new \in getCertainNumberOfFreeBlocks(dmapArray, k),
           setFATBlocks(rootFiles[s], new),
           \A t \in Slots \ {s} : rootFiles'[t] = rootFiles[t],
           rootFiles'[s].firstBlock = FirstBlock(rootFiles[s], new),
           numBlocks(rootFiles'[s].st_size)
              <= Len(Chain(fatArray, rootFiles[s].firstBlock)) + Len(new)
    PROVE  CoverInv'
<1> DEFINE chain == Chain(fatArray, rootFiles[s].firstBlock)
<1>1. /\ Covered(rootFiles, fatArray) /\ fatArray' \in [Blocks -> Blocks]
      /\ rootFiles' \in RootDirectories
  BY DEF CoverInv, FatInv, FatPersisted, TypeOK, FatTypeOK, RootTypeOK, RootDirectories
<1>2. /\ Chain(fatArray', rootFiles'[s].firstBlock) = chain \o new
      /\ \A t \in Slots \ {s} : rootFiles[t] # NULL =>
            Chain(fatArray', rootFiles[t].firstBlock) = Chain(fatArray, rootFiles[t].firstBlock)
  BY ChainsAppend
<1>3. chain \in Seq(DataBlocks) /\ new \in Seq(DataBlocks)
  BY FileChain, AllocatedBlocks
<1>4. Len(chain \o new) = Len(chain) + Len(new)
  BY <1>3
<1>5. numBlocks(rootFiles'[s].st_size) <= Len(Chain(fatArray', rootFiles'[s].firstBlock))
  BY <1>2, <1>4
<1> HIDE DEF chain
<1>6. Covered(rootFiles', fatArray')
  <2>1. ASSUME NEW t \in Slots \ {s}, rootFiles'[t] # NULL
        PROVE  /\ rootFiles[t] # NULL /\ rootFiles'[t].st_size = rootFiles[t].st_size
               /\ Chain(fatArray', rootFiles'[t].firstBlock)
                     = Chain(fatArray, rootFiles[t].firstBlock)
    BY <1>2, <2>1
  <2> QED
    BY <1>1, <1>5, <2>1, CoverKept
<1> QED
  BY <1>6, CoverMounted

\* Blocks of a file are freed that is removed or loses all its bytes.
LEMMA CoverFree ==
    ASSUME TypeOK, FatInv, BlocksNotShared, CoverInv, mounted,
           TypeOK', FatInv', RootInv', mounted',
           NEW s \in Slots, rootFiles[s] # NULL,
           NEW freed \in SUBSET BlocksOf(s), fatArray' = Unlinked(fatArray, freed),
           \A t \in Slots \ {s} : rootFiles'[t] = rootFiles[t] \/ rootFiles'[t] = NULL,
           rootFiles'[s] = NULL \/ rootFiles'[s].st_size = 0
    PROVE  CoverInv'
<1>1. /\ Covered(rootFiles, fatArray) /\ fatArray' \in [Blocks -> Blocks]
      /\ rootFiles' \in RootDirectories
  BY DEF CoverInv, FatInv, FatPersisted, TypeOK, FatTypeOK, RootTypeOK, RootDirectories
<1>2. \A t \in Slots \ {s} : rootFiles[t] # NULL =>
         Chain(fatArray', rootFiles[t].firstBlock) = Chain(fatArray, rootFiles[t].firstBlock)
  BY ChainsFree
<1>3. Covered(rootFiles', fatArray')
  BY <1>1, <1>2, CoverKept
<1> QED
  BY <1>3, CoverMounted

\* A write.
LEMMA CoverWrite ==
    ASSUME "straddle" \notin Workload,
           TypeOK, FatInv, BlocksNotShared, BlocksOfFilesUsed, CoverInv, mounted,
           TypeOK', FatInv', RootInv', mounted',
           NEW s \in Slots, rootFiles[s] # NULL,
           NEW off \in Nat, NEW size \in Nat, NEW v \in Bytes, WriteFile(s, off, size, v)
    PROVE  CoverInv'
<1> DEFINE f == rootFiles[s]
           end == off + size
           k == IF end > f.st_size THEN blocksAll(size, off, f.st_size) ELSE 0
           chain == Chain(fatArray, f.firstBlock)
           g(new) == [f EXCEPT !.firstBlock = FirstBlock(f, new),
                               !.st_size = IF end > @ THEN end ELSE @]
<1>1. f \in rootFile /\ f.st_size \in Nat /\ rootFiles \in RootDirectories
  BY FuseAssumption DEF TypeOK, RootTypeOK, RootDirectories, rootFile
<1>2. k \in Int
  BY <1>1, blocksAllType
<1>3. ~OutOfBlocks(k)
  BY DEF OutOfBlocks, ProcessEnds
<1>4. PICK new \in getCertainNumberOfFreeBlocks(dmapArray, k) :
         setFATBlocks(f, new) /\ StoreEntry(s, g(new))
  BY <1>3 DEF WriteFile
<1>5. /\ \A t \in Slots \ {s} : rootFiles'[t] = rootFiles[t]
      /\ rootFiles'[s] = g(new)
  BY <1>1, <1>4 DEF StoreEntry, RootDirectories
<1>6. /\ rootFiles'[s].firstBlock = FirstBlock(f, new)
      /\ rootFiles'[s].st_size = IF end > f.st_size THEN end ELSE f.st_size
  BY <1>1, <1>5 DEF rootFile
<1>7. chain \in Seq(DataBlocks) /\ numBlocks(f.st_size) <= Len(chain)
  BY FileChain DEF CoverInv, Covered, FatInv, FatPersisted
<1>8. Len(new) = IF k >= 0 THEN k ELSE 0
  BY <1>2, <1>4, AllocatedBlocks
<1>9. \/ off \div BLOCK_SIZE >= f.st_size \div BLOCK_SIZE
      \/ numBlocks(end) <= numBlocks(f.st_size)
  BY DEF WriteFile
<1>10. numBlocks(rootFiles'[s].st_size) <= Len(chain) + Len(new)
  <2>1. Len(chain) \in Nat /\ numBlocks(f.st_size) \in Nat
    <3>1. Len(chain) \in Nat
      BY <1>7
    <3>2. numBlocks(f.st_size) \in Nat
      BY <1>1, numBlocksType
    <3> QED
      BY <3>1, <3>2
  <2>2. CASE end > f.st_size
    <3>1. numBlocks(end) <= Len(chain) + (IF k >= 0 THEN k ELSE 0)
      BY <1>1, <1>7, <1>9, <2>1, <2>2, blocksAllCovers
    <3> QED
      BY <1>6, <1>8, <2>2, <3>1
  <2>3. CASE ~(end > f.st_size)
    <3>1. k = 0 /\ rootFiles'[s].st_size = f.st_size
      BY <1>6, <2>3
    <3> HIDE DEF k, f, chain
    <3> QED
      BY <1>7, <1>8, <2>1, <3>1
  <2> QED
    BY <2>2, <2>3
<1> HIDE DEF k, g
<1> QED
  BY <1>2, <1>4, <1>5, <1>6, <1>10, CoverAppend

\* An extension.
LEMMA CoverExtend ==
    ASSUME TypeOK, FatInv, BlocksNotShared, BlocksOfFilesUsed, CoverInv, mounted,
           TypeOK', FatInv', RootInv', mounted',
           NEW s \in Slots, rootFiles[s] # NULL, NEW newSize \in Nat, Extend(s, newSize)
    PROVE  CoverInv'
<1> DEFINE f == rootFiles[s]
           k == blocksAll(newSize, 0, f.st_size)
           chain == Chain(fatArray, f.firstBlock)
<1>1. f \in rootFile /\ f.st_size \in Nat /\ rootFiles \in RootDirectories
  BY FuseAssumption DEF TypeOK, RootTypeOK, RootDirectories, rootFile
<1>2. k \in Int
  BY <1>1, blocksAllType
<1>3. ~OutOfBlocks(k)
  BY DEF OutOfBlocks, ProcessEnds
<1>4. PICK new \in getCertainNumberOfFreeBlocks(dmapArray, k) :
         /\ setFATBlocks(f, new)
         /\ rootFiles' = [rootFiles EXCEPT ![s].firstBlock = FirstBlock(f, new)]
  BY <1>3 DEF Extend
<1>5. /\ \A t \in Slots \ {s} : rootFiles'[t] = rootFiles[t]
      /\ rootFiles'[s].firstBlock = FirstBlock(f, new)
      /\ rootFiles'[s].st_size = f.st_size
  BY <1>1, <1>4 DEF RootDirectories, rootFile
<1>6. chain \in Seq(DataBlocks) /\ numBlocks(f.st_size) <= Len(chain)
  BY FileChain DEF CoverInv, Covered, FatInv, FatPersisted
<1>7. Len(new) \in Nat /\ numBlocks(f.st_size) \in Nat
  BY <1>1, <1>2, <1>4, AllocatedBlocks, numBlocksType
<1>8. numBlocks(rootFiles'[s].st_size) <= Len(chain) + Len(new)
  <2>1. Len(chain) \in Nat
    BY <1>6
  <2> HIDE DEF chain, f
  <2> QED
    BY <1>5, <1>6, <1>7, <2>1
<1> HIDE DEF k
<1> QED
  BY <1>2, <1>4, <1>5, <1>8, CoverAppend

\* A truncation to a smaller size.
LEMMA CoverShrink ==
    ASSUME "shrink" \notin Workload,
           TypeOK, FatInv, BlocksNotShared, CoverInv, mounted,
           TypeOK', FatInv', RootInv', mounted',
           NEW s \in Slots, rootFiles[s] # NULL,
           NEW newSize \in Nat, newSize < rootFiles[s].st_size, Shrink(s, newSize)
    PROVE  CoverInv'
<1> DEFINE f == rootFiles[s]
           chain == Chain(fatArray, f.firstBlock)
           spare == SubSeq(chain, numBlocks(newSize) + 1, Len(chain))
           g == [f EXCEPT !.firstBlock = IF newSize = 0 THEN FAT_END ELSE @,
                          !.st_size = newSize]
<1>1. f \in rootFile /\ f.st_size \in Nat /\ rootFiles \in RootDirectories
  BY FuseAssumption DEF TypeOK, RootTypeOK, RootDirectories, rootFile
<1>2. Range(spare) \subseteq BlocksOf(s)
  BY FileChain, numBlocksType, SpareBlocks DEF BlocksOf
<1>3. /\ newSize = 0 \/ spare = <<>>
      /\ fatArray' = Unlinked(fatArray, Range(spare))
      /\ StoreEntry(s, g)
  BY DEF Shrink
<1>4. /\ g.st_size = newSize
      /\ g.firstBlock = IF newSize = 0 THEN FAT_END ELSE f.firstBlock
  BY <1>1 DEF rootFile
<1> HIDE DEF g
<1>5. rootFiles'[s] = g /\ \A t \in Slots \ {s} : rootFiles'[t] = rootFiles[t]
  BY <1>1, <1>3 DEF StoreEntry, RootDirectories
<1>6. CASE newSize = 0
  BY <1>2, <1>3, <1>4, <1>5, <1>6, CoverFree
<1>7. CASE newSize # 0
  <2>1. Range(spare) = {}
    <3>1. spare = <<>>
      BY <1>3, <1>7
    <3> HIDE DEF spare
    <3> QED
      BY <3>1 DEF Range
  <2>2. fatArray' = fatArray /\ fatArray \in [Blocks -> Blocks]
    BY <1>3, <2>1 DEF Unlinked, TypeOK, FatTypeOK
  <2>3. Covered(rootFiles, fatArray)
    BY DEF CoverInv, FatInv, FatPersisted
  <2>4. numBlocks(newSize) <= numBlocks(f.st_size)
    BY <1>1, numBlocksMonotone
  <2>5. numBlocks(newSize) \in Nat /\ numBlocks(f.st_size) \in Nat /\ Len(chain) \in Nat
    <3>1. Len(chain) \in Nat
      BY FileChain
    <3>2. numBlocks(newSize) \in Nat /\ numBlocks(f.st_size) \in Nat
      BY <1>1, numBlocksType
    <3> QED
      BY <3>1, <3>2
  <2>6. numBlocks(f.st_size) <= Len(chain)
    BY <2>3 DEF Covered
  <2>7. numBlocks(newSize) <= Len(chain)
    <3> HIDE DEF f, chain
    <3> QED
      BY <2>4, <2>5, <2>6
  <2>8. numBlocks(rootFiles'[s].st_size) <= Len(Chain(fatArray', rootFiles'[s].firstBlock))
    BY <1>4, <1>5, <1>7, <2>2, <2>7
  <2>9. rootFiles' \in RootDirectories
    BY DEF TypeOK, RootTypeOK, RootDirectories
  <2>10. Covered(rootFiles', fatArray')
    BY <1>5, <2>2, <2>3, <2>8, <2>9, CoverKept
  <2> QED
    BY <2>10, CoverMounted
<1> QED
  BY <1>6, <1>7

\* A removal.
LEMMA CoverUnlink ==
    ASSUME TypeOK, FatInv, BlocksNotShared, CoverInv, mounted,
           TypeOK', FatInv', RootInv', mounted', NEW n \in Names, fuseUnlink(n)
    PROVE  CoverInv'
<1>1. rootFiles \in RootDirectories
  BY DEF TypeOK, RootTypeOK, RootDirectories
<1>2. CASE NotFound(n, "ENOENT")
  BY <1>2 DEF NotFound, Returns, Completes, fsVars, CoverInv, Covered
<1>3. ASSUME NEW s \in getRootEntryFile(rootFiles, n),
             fatArray' = Unlinked(fatArray, Range(Chain(fatArray, rootFiles[s].firstBlock))),
             deleteFile(n)
      PROVE  CoverInv'
  <2>1. s \in Slots /\ rootFiles[s] # NULL /\ s \in Named(rootFiles, n)
    BY <1>1, <1>3, EntryFound DEF getRootEntryFile, Named
  <2>2. fatArray' = Unlinked(fatArray, BlocksOf(s))
    BY <1>3 DEF BlocksOf
  <2>3. /\ rootFiles'[s] = NULL
        /\ \A t \in Slots \ {s} : rootFiles'[t] = rootFiles[t] \/ rootFiles'[t] = NULL
    BY <2>1, <1>3 DEF deleteFile
  <2> QED
    BY <2>1, <2>2, <2>3, CoverFree
<1> QED
  BY <1>2, <1>3 DEF fuseUnlink

\* No step breaks the invariant.
LEMMA CoverInvInductive ==
    ASSUME "shrink" \notin Workload, "straddle" \notin Workload
    PROVE  OpenInv /\ FatInv /\ RootInv /\ OwnInv /\ CoverInv /\ [Next]_vars => CoverInv'
<1> SUFFICES ASSUME OpenInv, FatInv, RootInv, OwnInv, CoverInv, [Next]_vars
             PROVE  CoverInv'
  OBVIOUS
<1>1. /\ TypeOK /\ rootFiles \in RootDirectories /\ rootDisc \in RootDirectories
      /\ TypeOK' /\ FatInv' /\ RootInv'
  BY OpenInvInductive, FatInvInductive, RootInvInductive
     DEF OpenInv, TypeOK, RootTypeOK, RootDirectories
<1>2. BlocksNotShared /\ BlocksOfFilesUsed
  BY <1>1, OwnersSeparate
<1>3. CASE fuseInit /\ InitExisting
  BY <1>3 DEF InitExisting, initRootDir, FatRestart, CoverInv, Covered
<1>4. CASE fuseInit /\ InitNew
  <2>1. rootFiles' = EmptyDirectory /\ rootDisc' = EmptyDirectory
    BY <1>4 DEF fuseInit, InitNew, rootInit, RootInv
  <2> QED
    BY <2>1 DEF EmptyDirectory, CoverInv, Covered
<1>5. CASE Rests
  BY <1>5 DEF Rests, CoverInv, Covered
<1>6. CASE Ends
  BY <1>6 DEF Ends, ProcessEnds, EmptyDirectory, CoverInv, Covered
<1>7. CASE Stores
  <2>1. PICK s \in Slots, f \in rootFile :
           /\ StoreEntry(s, f)
           /\ \/ f.st_size = 0
              \/ /\ rootFiles[s] # NULL
                 /\ f.firstBlock = rootFiles[s].firstBlock
                 /\ f.st_size = rootFiles[s].st_size
    BY <1>7 DEF Stores
  <2>2. rootFiles'[s] = f /\ \A t \in Slots \ {s} : rootFiles'[t] = rootFiles[t]
    BY <1>1, <2>1 DEF StoreEntry, RootDirectories
  <2>3. mounted /\ mounted' /\ fatArray' = fatArray /\ fatArray \in [Blocks -> Blocks]
        /\ Covered(rootFiles, fatArray)
    BY <1>1, <1>7 DEF Stores, CoverInv, FatInv, FatPersisted, TypeOK, FatTypeOK
  <2>4. rootFiles' \in RootDirectories
    BY <1>1 DEF TypeOK, RootTypeOK, RootDirectories
  <2>5. Covered(rootFiles', fatArray')
    BY <2>1, <2>2, <2>3, <2>4, CoverKept
  <2> QED
    BY <1>1, <2>3, <2>5, CoverMounted
<1>8. CASE Changes /\ ~mounted'
  <2>1. \A k : OutOfBlocks(k) => CoverInv'
    BY DEF OutOfBlocks, ProcessEnds, EmptyDirectory, CoverInv, Covered
  <2>2. ASSUME NEW n \in Names, fuseUnlink(n), mounted PROVE mounted'
    BY <2>2 DEF fuseUnlink, NotFound, Returns, Completes
  <2>3. ASSUME NEW s \in Slots, NEW newSize \in Nat, Shrink(s, newSize), mounted PROVE mounted'
    BY <2>3 DEF Shrink, Completes
  <2>4. ASSUME NEW s \in Slots, NEW newSize \in Nat, Extend(s, newSize), mounted
        PROVE  mounted' \/ \E k : OutOfBlocks(k)
    BY <2>4 DEF Extend, Completes
  <2>5. ASSUME NEW s \in Slots, NEW off \in Nat, NEW size \in Nat, NEW v \in Bytes,
               WriteFile(s, off, size, v), mounted
        PROVE  mounted' \/ \E k : OutOfBlocks(k)
    BY <2>5 DEF WriteFile, Completes
  <2> QED
    BY <1>8, <2>1, <2>2, <2>3, <2>4, <2>5 DEF Changes
<1>9. CASE Changes /\ mounted'
  <2>1. mounted
    BY <1>9 DEF Changes
  <2> QED
    BY <1>1, <1>2, <1>9, <2>1, CoverUnlink, CoverWrite, CoverExtend, CoverShrink DEF Changes
<1> QED
  BY <1>3, <1>4, <1>5, <1>6, <1>7, <1>8, <1>9, StepKinds DEF fuseInit

(***************************************************************************)
(* Without "straddle" and "shrink", as long as blocks are used whose marks *)
(* are in the first device block of the map: a file has a block for each   *)
(* of its bytes, over mounts, kills, sparse writes, extensions and calls   *)
(* that run out of blocks.  fuseRead and fuseWrite never run past the end  *)
(* of a chain into data block 0.                                           *)
(***************************************************************************)
THEOREM SizesStayCovered ==
    ASSUME "shrink" \notin Workload, "straddle" \notin Workload
    PROVE  Spec /\ []UsedInFirstMapBlock => []ChainCoversSize
<1>1. Init => CoverInv
  BY DEF Init, EmptyDirectory, CoverInv, Covered
<1>2. OpenInv /\ FatInv /\ RootInv /\ OwnInv /\ CoverInv /\ [Next]_vars => CoverInv'
  BY CoverInvInductive
<1>3. Spec => []RootInv
  BY OpenInvariant, InitRootInv, RootInvInductive, PTL DEF Spec
<1>4. OpenInv /\ FatInv /\ RootInv /\ CoverInv => ChainCoversSize
  <2> SUFFICES ASSUME OpenInv, FatInv, RootInv, CoverInv, NEW s \in Files
               PROVE  numBlocks(rootFiles[s].st_size) <= Cardinality(BlocksOf(s))
    BY DEF ChainCoversSize
  <2>1. TypeOK /\ s \in Slots /\ rootFiles[s] # NULL
    BY DEF OpenInv, Files
  <2>2. mounted /\ fatDisc = fatArray
    BY <2>1 DEF RootInv, EmptyDirectory, FatInv, FatPersisted
  <2> QED
    BY <2>1, <2>2, FileChain DEF CoverInv, Covered
<1> QED
  BY <1>1, <1>2, <1>3, <1>4, OpenInvariant, FatInvariant, OwnInvariant, PTL DEF Spec

-----------------------------------------------------------------------------
(* No block leaks, for clients that at most "straddle".                    *)

\* The block b belongs to a file of the directory dir.
InFiles(dir, fat, b) ==
    \E s \in Slots : dir[s] # NULL /\ b \in Range(Chain(fat, dir[s].firstBlock))

\* The inductive invariant: it speaks of what a mount would read, as without
\* "grow" memory and container hold the same directory.
LeakInv ==
    /\ mounted => rootDisc = rootFiles
    /\ \A b \in DataBlocks : b < DMAP_PER_BLOCK /\ dmapDisc[0][b] => InFiles(rootDisc, fatDisc, b)

\* What the rest of the proof needs of a mounted file system.
LEMMA LeakMounted ==
    ASSUME FatInv, MapInv, LeakInv, UsedInFirstMapBlock, mounted
    PROVE  \A b \in DataBlocks : dmapArray[b] => InFiles(rootFiles, fatArray, b)
<1> SUFFICES ASSUME NEW b \in DataBlocks, dmapArray[b]
             PROVE  InFiles(rootFiles, fatArray, b)
  OBVIOUS
<1>1. b \in Blocks /\ b < DMAP_PER_BLOCK
  BY EndIsNoDataBlock DEF UsedInFirstMapBlock
<1>2. dmapDisc[0][b]
  BY <1>1 DEF MapInv, FirstInv
<1> QED
  BY <1>1, <1>2 DEF LeakInv, FatInv, FatPersisted

\* And what establishes the invariant after a handler.
LEMMA LeakStep ==
    ASSUME FatInv', MapInv', mounted', rootDisc' = rootFiles',
           \A b \in DataBlocks : dmapArray'[b] => InFiles(rootFiles', fatArray', b)
    PROVE  LeakInv'
<1>1. fatDisc' = fatArray'
  BY DEF FatInv, FatPersisted
<1>2. ASSUME NEW b \in DataBlocks, b < DMAP_PER_BLOCK, dmapDisc'[0][b]
      PROVE  InFiles(rootDisc', fatDisc', b)
  <2>1. dmapArray'[b]
    BY <1>2, EndIsNoDataBlock DEF MapInv, FirstInv
  <2> QED
    BY <1>1, <2>1
<1> QED
  BY <1>2 DEF LeakInv, InFiles

\* The blocks that are taken belong to the file they are appended to.
LEMMA LeakAppend ==
    ASSUME TypeOK, FatInv, BlocksNotShared, BlocksOfFilesUsed, MapInv, LeakInv,
           UsedInFirstMapBlock, mounted, FatInv', MapInv', mounted',
           NEW s \in Slots, rootFiles[s] # NULL,
           NEW k \in Int, NEW new \in getCertainNumberOfFreeBlocks(dmapArray, k),
           setFATBlocks(rootFiles[s], new),
           rootDisc' = rootFiles',
           \A t \in Slots \ {s} : rootFiles'[t] = rootFiles[t],
           rootFiles'[s] # NULL,
           rootFiles'[s].firstBlock = FirstBlock(rootFiles[s], new)
    PROVE  LeakInv'
<1> DEFINE chain == Chain(fatArray, rootFiles[s].firstBlock)
<1>1. /\ Chain(fatArray', rootFiles'[s].firstBlock) = chain \o new
      /\ \A t \in Slots \ {s} : rootFiles[t] # NULL =>
            Chain(fatArray', rootFiles[t].firstBlock) = Chain(fatArray, rootFiles[t].firstBlock)
  BY ChainsAppend
<1>2. chain \in Seq(DataBlocks) /\ new \in Seq(DataBlocks)
  BY FileChain, AllocatedBlocks
<1>3. Range(chain) \subseteq Range(chain \o new) /\ Range(new) \subseteq Range(chain \o new)
  <2> HIDE DEF chain
  <2>1. /\ \A i \in 1..Len(chain) : (chain \o new)[i] = chain[i] /\ i \in 1..Len(chain \o new)
        /\ \A i \in 1..Len(new) : /\ (chain \o new)[Len(chain) + i] = new[i]
                                  /\ Len(chain) + i \in 1..Len(chain \o new)
    BY <1>2
  <2>2. chain \o new \in Seq(DataBlocks)
    BY <1>2
  <2>3. /\ DOMAIN chain = 1..Len(chain) /\ DOMAIN new = 1..Len(new)
        /\ DOMAIN (chain \o new) = 1..Len(chain \o new)
    BY <1>2, <2>2
  <2>4. ASSUME NEW b \in Range(chain) PROVE b \in Range(chain \o new)
    <3>1. PICK i \in 1..Len(chain) : b = chain[i]
      BY <2>3 DEF Range
    <3> QED
      BY <2>1, <2>3, <3>1 DEF Range
  <2>5. ASSUME NEW b \in Range(new) PROVE b \in Range(chain \o new)
    <3>1. PICK i \in 1..Len(new) : b = new[i]
      BY <2>3 DEF Range
    <3> QED
      BY <2>1, <2>3, <3>1 DEF Range
  <2> QED
    BY <2>4, <2>5
<1>4. ASSUME NEW b \in DataBlocks, dmapArray'[b]
      PROVE  InFiles(rootFiles', fatArray', b)
  <2>1. CASE b \in Range(new)
    BY <1>1, <1>3, <2>1 DEF InFiles
  <2>2. CASE b \notin Range(new)
    <3>1. \A i \in 1..Len(new) : new[i] # b
      BY <1>2, <2>2 DEF Range
    <3>2. dmapArray[b]
      BY <1>4, <3>1, EndIsNoDataBlock DEF setFATBlocks, SetAll, Marked
    <3>3. PICK t \in Slots : rootFiles[t] # NULL /\ b \in Range(Chain(fatArray, rootFiles[t].firstBlock))
      BY <3>2, LeakMounted DEF InFiles
    <3>4. CASE t = s
      BY <1>1, <1>3, <3>3, <3>4 DEF InFiles
    <3>5. CASE t # s
      BY <1>1, <3>3, <3>5 DEF InFiles
    <3> QED
      BY <3>4, <3>5
  <2> QED
    BY <2>1, <2>2
<1> QED
  BY <1>4, LeakStep

\* All blocks of a file are freed, and no entry leads to them any more.
LEMMA LeakFree ==
    ASSUME TypeOK, FatInv, BlocksNotShared, MapInv, LeakInv,
           UsedInFirstMapBlock, mounted, FatInv', MapInv', mounted',
           NEW s \in Slots, rootFiles[s] # NULL,
           NEW freed \in Seq(DataBlocks), Range(freed) = BlocksOf(s), SetAll(freed, FALSE),
           fatArray' = Unlinked(fatArray, Range(freed)),
           rootDisc' = rootFiles',
           \A t \in Slots \ {s} : rootFiles'[t] = rootFiles[t]
    PROVE  LeakInv'
<1>1. \A t \in Slots \ {s} : rootFiles[t] # NULL =>
         Chain(fatArray', rootFiles[t].firstBlock) = Chain(fatArray, rootFiles[t].firstBlock)
  BY ChainsFree
<1>2. ASSUME NEW b \in DataBlocks, dmapArray'[b]
      PROVE  InFiles(rootFiles', fatArray', b)
  <2>1. \A i \in 1..Len(freed) : freed[i] # b
    BY <1>2, EndIsNoDataBlock DEF SetAll, Marked
  <2>2. b \notin BlocksOf(s) /\ dmapArray[b]
    BY <1>2, <2>1, EndIsNoDataBlock DEF SetAll, Marked, Range
  <2>3. PICK t \in Slots : rootFiles[t] # NULL /\ b \in BlocksOf(t)
    BY <2>2, LeakMounted DEF InFiles, BlocksOf
  <2>4. t # s
    BY <2>2, <2>3
  <2> QED
    BY <1>1, <2>3, <2>4 DEF InFiles, BlocksOf
<1> QED
  BY <1>2, LeakStep

\* A step of a mounted file system that leaves map and table alone, and each
\* file its first block.
LEMMA LeakKept ==
    ASSUME FatInv, MapInv, LeakInv, UsedInFirstMapBlock, mounted, FatInv', MapInv', mounted',
           rootDisc' = rootFiles', fatArray' = fatArray, dmapArray' = dmapArray,
           \A t \in Slots : rootFiles[t] # NULL =>
              rootFiles'[t] # NULL /\ rootFiles'[t].firstBlock = rootFiles[t].firstBlock
    PROVE  LeakInv'
<1>1. \A b \in DataBlocks : dmapArray'[b] => InFiles(rootFiles', fatArray', b)
  BY LeakMounted DEF InFiles
<1> QED
  BY <1>1, LeakStep

\* A write, without "fill".
LEMMA LeakWrite ==
    ASSUME "fill" \notin Workload,
           TypeOK, FatInv, BlocksNotShared, BlocksOfFilesUsed, MapInv, LeakInv,
           UsedInFirstMapBlock, mounted, FatInv', MapInv',
           NEW s \in Slots, rootFiles[s] # NULL,
           NEW off \in Nat, NEW size \in Nat, NEW v \in Bytes,
           off + size <= MaxSize, WriteFile(s, off, size, v)
    PROVE  LeakInv'
<1> DEFINE f == rootFiles[s]
           end == off + size
           k == IF end > f.st_size THEN blocksAll(size, off, f.st_size) ELSE 0
           g(new) == [f EXCEPT !.firstBlock = FirstBlock(f, new),
                               !.st_size = IF end > @ THEN end ELSE @]
<1>1. /\ f \in rootFile /\ f.st_size \in Nat
      /\ rootFiles \in RootDirectories /\ rootDisc = rootFiles
  BY FuseAssumption DEF TypeOK, RootTypeOK, RootDirectories, rootFile, LeakInv
<1>2. k \in Int
  BY <1>1, blocksAllType
<1>3. PICK new \in getCertainNumberOfFreeBlocks(dmapArray, k) :
         setFATBlocks(f, new) /\ StoreEntry(s, g(new)) /\ Completes("ok")
  BY DEF WriteFile
<1>4. /\ \A t \in Slots \ {s} : rootFiles'[t] = rootFiles[t]
      /\ rootFiles'[s] = g(new)
      /\ rootDisc' = rootFiles' /\ mounted'
  BY <1>1, <1>3 DEF StoreEntry, RootDirectories, Completes
<1>5. g(new).firstBlock = FirstBlock(f, new)
  BY <1>1 DEF rootFile
<1>6. g(new) # NULL
  <2>1. FirstBlock(f, new) \in Blocks
    BY <1>1, <1>2, <1>3, FirstBlockType
  <2>2. (IF end > f.st_size THEN end ELSE f.st_size) \in 0..MaxSize
    BY <1>1, FuseAssumption DEF rootFile
  <2>3. g(new) \in rootFile
    BY <1>1, <2>1, <2>2 DEF rootFile
  <2> QED
    BY <2>3, NullAssumption
<1> HIDE DEF k, g
<1> QED
  BY <1>2, <1>3, <1>4, <1>5, <1>6, LeakAppend

\* An extension to the size the file has appends nothing.
LEMMA LeakExtend ==
    ASSUME "fill" \notin Workload, "grow" \notin Workload,
           TypeOK, FatInv, BlocksNotShared, BlocksOfFilesUsed, MapInv, LeakInv,
           UsedInFirstMapBlock, mounted, FatInv', MapInv',
           NEW s \in Slots, rootFiles[s] # NULL, NEW newSize \in Nat, Extend(s, newSize)
    PROVE  LeakInv'
<1> DEFINE f == rootFiles[s]
           k == blocksAll(newSize, 0, f.st_size)
<1>1. /\ f \in rootFile /\ f.st_size \in Nat
      /\ rootFiles \in RootDirectories /\ rootDisc = rootFiles
  BY FuseAssumption DEF TypeOK, RootTypeOK, RootDirectories, rootFile, LeakInv
<1>2. k \in Int
  BY <1>1, blocksAllType
<1>3. k <= 0
  <2>1. newSize = f.st_size
    BY DEF Extend
  <2>2. f.st_size \div BLOCK_SIZE \in Nat /\ 0 \div BLOCK_SIZE = 0
    <3>1. BLOCK_SIZE \in Nat \ {0}
      BY LayoutAssumption
    <3> QED
      BY <1>1, <3>1
  <2>3. numBlocks(f.st_size) \in Nat /\ f.st_size + 0 = f.st_size
    BY <1>1, numBlocksType
  <2>4. k = numBlocks(f.st_size) - numBlocks(f.st_size) + 0 - f.st_size \div BLOCK_SIZE
    BY <2>1, <2>2, <2>3 DEF blocksAll
  <2> HIDE DEF k
  <2> QED
    BY <2>2, <2>3, <2>4
<1>4. PICK new \in getCertainNumberOfFreeBlocks(dmapArray, k) :
         /\ setFATBlocks(f, new)
         /\ rootFiles' = [rootFiles EXCEPT ![s].firstBlock = FirstBlock(f, new)]
         /\ UNCHANGED rootDisc /\ Completes("ok")
  BY DEF Extend
<1> HIDE DEF k
<1>5. new = <<>>
  <2>1. new \in Seq(DataBlocks) /\ Len(new) = 0
    BY <1>2, <1>3, <1>4, AllocatedBlocks
  <2> QED
    BY <2>1
<1>6. FirstBlock(f, new) = f.firstBlock
  BY <1>5 DEF FirstBlock
<1>7. rootFiles' = rootFiles /\ rootDisc' = rootFiles' /\ mounted'
  BY <1>1, <1>4, <1>6 DEF RootDirectories, rootFile, Completes
<1> QED
  BY <1>2, <1>4, <1>6, <1>7, LeakAppend

\* A truncation to nothing frees all blocks of the file; any other frees none.
LEMMA LeakShrink ==
    ASSUME "shrink" \notin Workload,
           TypeOK, FatInv, BlocksNotShared, MapInv, LeakInv,
           UsedInFirstMapBlock, mounted, FatInv', MapInv',
           NEW s \in Slots, rootFiles[s] # NULL, NEW newSize \in 0..MaxSize, Shrink(s, newSize)
    PROVE  LeakInv'
<1> DEFINE f == rootFiles[s]
           chain == Chain(fatArray, f.firstBlock)
           spare == SubSeq(chain, numBlocks(newSize) + 1, Len(chain))
           g == [f EXCEPT !.firstBlock = IF newSize = 0 THEN FAT_END ELSE @,
                          !.st_size = newSize]
<1>1. /\ f \in rootFile /\ rootFiles \in RootDirectories /\ rootDisc = rootFiles
  BY DEF TypeOK, RootTypeOK, RootDirectories, LeakInv
<1>2. chain \in Seq(DataBlocks) /\ BlocksOf(s) = Range(chain)
  BY FileChain
<1>3. /\ newSize = 0 \/ spare = <<>>
      /\ fatArray' = Unlinked(fatArray, Range(spare))
      /\ SetAll(spare, FALSE)
      /\ StoreEntry(s, g) /\ Completes("ok")
  BY DEF Shrink
<1>4. /\ g.firstBlock = IF newSize = 0 THEN FAT_END ELSE f.firstBlock
      /\ g \in rootFile /\ g # NULL
  <2>1. g \in rootFile
    BY <1>1, EndIsNoDataBlock DEF rootFile
  <2> QED
    BY <1>1, <2>1, NullAssumption DEF rootFile
<1> HIDE DEF g
<1>5. /\ rootFiles'[s] = g /\ \A t \in Slots \ {s} : rootFiles'[t] = rootFiles[t]
      /\ rootDisc' = rootFiles' /\ mounted'
  BY <1>1, <1>3 DEF StoreEntry, RootDirectories, Completes
<1>6. CASE newSize = 0
  <2>1. numBlocks(newSize) + 1 = 1
    BY <1>6, numBlocksZero
  <2>2. spare = chain
    <3> HIDE DEF chain
    <3>1. SubSeq(chain, 1, Len(chain)) = chain
      BY <1>2
    <3> QED
      BY <2>1, <3>1
  <2> HIDE DEF chain, spare
  <2> QED
    BY <1>2, <1>3, <1>5, <2>2, LeakFree
<1>7. CASE newSize # 0
  <2>1. spare = <<>>
    BY <1>3, <1>7
  <2> HIDE DEF spare
  <2>2. Range(spare) = {} /\ \A i \in 1..Len(spare) : FALSE
    BY <2>1 DEF Range
  <2>3. fatArray' = fatArray
    BY <1>3, <2>2 DEF Unlinked, TypeOK, FatTypeOK
  <2>4. dmapArray' = dmapArray
    BY <1>3, <2>2 DEF SetAll, Marked, TypeOK, DmapTypeOK
  <2>5. \A t \in Slots : rootFiles[t] # NULL =>
           rootFiles'[t] # NULL /\ rootFiles'[t].firstBlock = rootFiles[t].firstBlock
    BY <1>4, <1>5, <1>7
  <2> QED
    BY <1>5, <2>3, <2>4, <2>5, LeakKept
<1> QED
  BY <1>6, <1>7

\* A removal: without "replace" the name is that of one file, whose blocks are
\* freed.
LEMMA LeakUnlink ==
    ASSUME TypeOK, FatInv, BlocksNotShared, NamesOnce(rootFiles), MapInv, LeakInv,
           UsedInFirstMapBlock, mounted, FatInv', MapInv', NEW n \in Names, fuseUnlink(n)
    PROVE  LeakInv'
<1>1. rootFiles \in RootDirectories /\ rootDisc = rootFiles
  BY DEF TypeOK, RootTypeOK, RootDirectories, LeakInv
<1>2. CASE NotFound(n, "ENOENT")
  BY <1>1, <1>2, LeakKept DEF NotFound, Returns, Completes, fsVars
<1>3. ASSUME NEW s \in getRootEntryFile(rootFiles, n),
             LET chain == Chain(fatArray, rootFiles[s].firstBlock)
             IN  /\ fatArray' = Unlinked(fatArray, Range(chain))
                 /\ SetAll(chain, FALSE),
             deleteFile(n), Completes("ok")
      PROVE  LeakInv'
  <2>1. s \in Slots /\ rootFiles[s] # NULL /\ rootFiles[s].name = n
    BY <1>1, <1>3, EntryFound DEF getRootEntryFile, Named
  <2>2. Named(rootFiles, n) = {s}
    BY <2>1 DEF Named, NamesOnce
  <2>3. /\ \A t \in Slots \ {s} : rootFiles'[t] = rootFiles[t]
        /\ rootDisc' = rootFiles' /\ mounted'
    BY <1>1, <1>3, <2>2 DEF deleteFile, Completes
  <2> DEFINE chain == Chain(fatArray, rootFiles[s].firstBlock)
  <2>4. chain \in Seq(DataBlocks) /\ BlocksOf(s) = Range(chain)
    BY <2>1, FileChain
  <2>5. fatArray' = Unlinked(fatArray, Range(chain)) /\ SetAll(chain, FALSE)
    BY <1>3
  <2> HIDE DEF chain
  <2> QED
    BY <2>1, <2>3, <2>4, <2>5, LeakFree
<1> QED
  BY <1>2, <1>3 DEF fuseUnlink

\* No step breaks the invariant.
LEMMA LeakInvInductive ==
    ASSUME Workload \subseteq {"straddle"}, Garbage = {{}}
    PROVE  OpenInv /\ FatInv /\ RootInv /\ NameInv /\ MapInv /\ OwnInv /\ LeakInv
               /\ UsedInFirstMapBlock /\ [Next]_vars => LeakInv'
<1> SUFFICES ASSUME OpenInv, FatInv, RootInv, NameInv, MapInv, OwnInv, LeakInv,
                    UsedInFirstMapBlock, [Next]_vars
             PROVE  LeakInv'
  OBVIOUS
<1>1. /\ TypeOK /\ rootFiles \in RootDirectories /\ rootDisc \in RootDirectories
      /\ NamesOnce(rootFiles) /\ FatInv' /\ MapInv'
  BY FatInvInductive, MapInvInductive
     DEF OpenInv, TypeOK, RootTypeOK, RootDirectories, NameInv
<1>2. BlocksNotShared /\ BlocksOfFilesUsed
  BY <1>1, OwnersSeparate
<1>3. CASE fuseInit /\ InitExisting
  BY <1>3 DEF InitExisting, initRootDir, FatRestart, DmapRestart, LeakInv, InFiles
<1>4. CASE fuseInit /\ InitNew
  <2>1. rootFiles' = EmptyDirectory /\ rootDisc' = EmptyDirectory
    BY <1>4 DEF fuseInit, InitNew, rootInit, RootInv
  <2>2. dmapDisc' = BlankDmapDisc
    BY <1>4 DEF InitNew, MapInv
  <2>3. \A b \in DataBlocks : b < DMAP_PER_BLOCK => ~dmapDisc'[0][b]
    <3>1. \A b \in DataBlocks : b < DMAP_PER_BLOCK => b \in DmapOffsets /\ 0 \in DmapGroups
      BY EndIsNoDataBlock, PlaceOfBlock, PlaceInFirstBlock
    <3> QED
      BY <2>2, <3>1 DEF BlankDmapDisc
  <2> QED
    BY <2>1, <2>3 DEF LeakInv
<1>5. CASE Rests
  BY <1>5 DEF Rests, LeakInv, InFiles
<1>6. CASE Ends
  BY <1>6 DEF Ends, ProcessEnds, LeakInv, InFiles
<1>7. CASE Stores
  <2>1. PICK s \in Slots, f \in rootFile :
           /\ StoreEntry(s, f)
           /\ \/ rootFiles[s] = NULL
              \/ f.firstBlock = rootFiles[s].firstBlock
    BY <1>7 DEF Stores
  <2>2. /\ rootFiles'[s] = f /\ f # NULL
        /\ \A t \in Slots \ {s} : rootFiles'[t] = rootFiles[t]
    BY <1>1, <2>1, NullAssumption DEF StoreEntry, RootDirectories
  <2>3. /\ mounted /\ mounted' /\ fatArray' = fatArray /\ dmapArray' = dmapArray
        /\ rootDisc' = rootFiles'
    BY <1>7, <2>1 DEF Stores, StoreEntry, LeakInv
  <2>4. \A t \in Slots : rootFiles[t] # NULL =>
           rootFiles'[t] # NULL /\ rootFiles'[t].firstBlock = rootFiles[t].firstBlock
    BY <2>1, <2>2
  <2> QED
    BY <1>1, <2>3, <2>4, LeakKept
<1>8. CASE Changes
  <2>1. /\ "fill" \notin Workload /\ "grow" \notin Workload /\ "shrink" \notin Workload
        /\ mounted
    BY <1>8 DEF Changes
  <2>2. ASSUME NEW s \in Slots, NEW newSize \in Nat, rootFiles[s] # NULL,
               newSize < rootFiles[s].st_size, Shrink(s, newSize)
        PROVE  LeakInv'
    <3>1. newSize \in 0..MaxSize
      BY <1>1, <2>2, FuseAssumption DEF RootDirectories, rootFile
    <3> QED
      BY <1>1, <1>2, <2>1, <2>2, <3>1, LeakShrink
  <2> QED
    BY <1>1, <1>2, <1>8, <2>1, <2>2, LeakUnlink, LeakWrite, LeakExtend DEF Changes
<1> QED
  BY <1>3, <1>4, <1>5, <1>6, <1>7, <1>8, StepKinds DEF fuseInit

(***************************************************************************)
(* On a map that starts clean, as long as blocks are used whose marks are  *)
(* in its first device block: clients that at most "straddle" lose no      *)
(* block.  Each one that is marked as used belongs to a file, over mounts  *)
(* and kills, so the space of a removed or emptied file can be used again. *)
(***************************************************************************)
THEOREM NothingLeaks ==
    ASSUME Workload \subseteq {"straddle"}, Garbage = {{}}
    PROVE  Spec /\ []UsedInFirstMapBlock => []NoLeak
<1>1. Init => MapInv /\ LeakInv
  <2>1. ASSUME Init PROVE \A b \in DataBlocks : b < DMAP_PER_BLOCK => ~dmapDisc[0][b]
    <3>1. \A b \in DataBlocks : b < DMAP_PER_BLOCK => b \in DmapOffsets /\ 0 \in DmapGroups
      BY EndIsNoDataBlock, PlaceOfBlock, PlaceInFirstBlock
    <3> QED
      BY <2>1, <3>1 DEF Init, DmapInit, BlankDmapDisc
  <2> QED
    BY <2>1 DEF Init, DmapInit, MapInv, LeakInv
<1>2. OpenInv /\ FatInv /\ RootInv /\ NameInv /\ MapInv /\ OwnInv /\ LeakInv
         /\ UsedInFirstMapBlock /\ [Next]_vars => LeakInv'
  BY LeakInvInductive
<1>3. OpenInv /\ MapInv /\ [Next]_vars => MapInv'
  BY MapInvInductive
<1>4. Spec => []RootInv
  BY OpenInvariant, InitRootInv, RootInvInductive, PTL DEF Spec
<1>5. FatInv /\ MapInv /\ LeakInv /\ UsedInFirstMapBlock => NoLeak
  BY LeakMounted DEF NoLeak, InFiles, BlocksOf, Files
<1>6. "shrink" \notin Workload /\ "replace" \notin Workload
  OBVIOUS
<1> QED
  BY <1>1, <1>2, <1>3, <1>4, <1>5, <1>6, OpenInvariant, FatInvariant, NameInvariant, OwnInvariant,
     PTL DEF Spec

=============================================================================
