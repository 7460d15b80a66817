------------------------ MODULE MyOnDiskFSDisc_proofs ------------------------
(***************************************************************************)
(* What the on-disk file system keeps in the container: the table and the  *)
(* directory that a mount would read are those in memory, and no walk      *)
(* along a chain runs for ever -- for every size of the volume, whatever   *)
(* the clients do, and although the map that a mount reads may be wrong.   *)
(* And what the directory means: without renames onto existing names, a    *)
(* name is there once, and a handle means the file its path leads to.      *)
(* For a map that starts clean, its first device block survives a kill.    *)
(***************************************************************************)
EXTENDS MyOnDiskFS_proofs

-----------------------------------------------------------------------------
(* Walks end.                                                              *)

\* In a new table every walk ends at once.
LEMMA BlankTerminates == Terminates(BlankFat)
BY EndIsNoDataBlock DEF Terminates, BlankFat

\* Freeing blocks only cuts walks short.
LEMMA UnlinkedTerminates ==
    ASSUME NEW fat \in [Blocks -> Blocks], Terminates(fat), NEW freed
    PROVE  Terminates(Unlinked(fat, freed))
<1> SUFFICES ASSUME NEW S \in SUBSET DataBlocks, S # {}
             PROVE  \E b \in S : Unlinked(fat, freed)[b] \notin S
  BY DEF Terminates
<1>1. PICK b \in S : fat[b] \notin S
  BY DEF Terminates
<1>2. Unlinked(fat, freed)[b] \notin S
  BY <1>1, EndIsNoDataBlock DEF Unlinked
<1> QED
  BY <1>2

(***************************************************************************)
(* setFATBlocks closes no cycle, even if the blocks it appends include the *)
(* last block of the very chain it appends to (a freed block that a        *)
(* truncation has left in it).  A set of blocks with a new one among them  *)
(* is left behind its last new block; any other, where it was left before. *)
(***************************************************************************)
LEMMA LinkedTerminates ==
    ASSUME NEW fat \in [Blocks -> Blocks], Terminates(fat), NEW chain,
           NEW new \in Seq(DataBlocks),
           \A i, j \in 1..Len(new) : new[i] = new[j] => i = j
    PROVE  Terminates(Linked(fat, chain, new))
<1> SUFFICES ASSUME NEW S \in SUBSET DataBlocks, S # {}
             PROVE  \E b \in S : Linked(fat, chain, new)[b] \notin S
  BY DEF Terminates
<1> DEFINE I == {i \in 1..Len(new) : new[i] \in S}
<1>1. CASE I # {}
  <2>1. PICK m \in I : \A i \in I : i <= m
    <3>1. I \in SUBSET (1..Len(new)) /\ Len(new) \in Nat
      OBVIOUS
    <3> HIDE DEF I
    <3> QED
      BY <1>1, <3>1, LargestIndex
  <2>2. Linked(fat, chain, new)[new[m]] = IF m < Len(new) THEN new[m + 1] ELSE FAT_END
    BY LinkedNew
  <2>3. m < Len(new) => new[m + 1] \notin S
    <3> SUFFICES ASSUME m < Len(new), new[m + 1] \in S PROVE FALSE
      OBVIOUS
    <3>1. m + 1 \in I
      OBVIOUS
    <3> QED
      BY <2>1, <3>1
  <2> QED
    BY <2>1, <2>2, <2>3, EndIsNoDataBlock
<1>2. CASE I = {}
  <2>1. PICK b \in S : fat[b] \notin S
    BY DEF Terminates
  <2>2. b \in Blocks /\ \A i \in 1..Len(new) : new[i] # b
    BY <1>2, EndIsNoDataBlock
  <2>3. new # <<>> => new[1] \notin S
    BY <1>2
  <2>4. Linked(fat, chain, new)[b] \notin S
    BY <2>1, <2>2, <2>3, LinkedOld
  <2> QED
    BY <2>4
<1> QED
  BY <1>1, <1>2

-----------------------------------------------------------------------------
(* The table.                                                              *)

\* The inductive invariant of the table: what the two properties say, and
\* what memory and container hold before the first and between two mounts.
FatInv ==
    /\ FatPersisted
    /\ ChainsEnd
    /\ ~mounted => fatArray = BlankFat
    /\ ~container => ~mounted /\ fatDisc = BlankFat

\* A step that leaves the table alone.
LEMMA FatSame ==
    ASSUME FatInv, UNCHANGED <<container, mounted, fatArray, fatDisc>>
    PROVE  FatInv'
BY DEF FatInv, FatPersisted, ChainsEnd, Terminates

\* A handler that leaves a table without cycles, and the same on disc.
LEMMA FatChanged ==
    ASSUME FatInv, mounted, UNCHANGED <<container, mounted>>,
           Terminates(fatArray'), fatDisc' = fatArray'
    PROVE  FatInv'
BY DEF FatInv, FatPersisted, ChainsEnd, Terminates

\* The end of the process.
LEMMA FatEnds ==
    ASSUME FatInv, NEW r, ProcessEnds(r), UNCHANGED <<container, fatDisc>>
    PROVE  FatInv'
<1>1. Terminates(fatArray') /\ Terminates(fatDisc')
  BY BlankTerminates DEF FatInv, ChainsEnd, ProcessEnds
<1> QED
  BY <1>1 DEF FatInv, FatPersisted, ChainsEnd, ProcessEnds

\* Freed blocks: the last part of fuseUnlink and of fuseTruncate.
LEMMA FatUnlinked ==
    ASSUME TypeOK, FatInv, mounted, UNCHANGED <<container, mounted>>, NEW freed,
           fatArray' = Unlinked(fatArray, freed),
           fatDisc' = FatDiscWrite(fatDisc, fatArray', freed)
    PROVE  FatInv'
<1>1. fatArray \in [Blocks -> Blocks] /\ fatDisc = fatArray
  BY DEF TypeOK, FatTypeOK, FatInv, FatPersisted
<1>2. fatArray' \in [Blocks -> Blocks]
  BY <1>1, UnlinkedType
<1>3. fatDisc' = fatArray'
  BY <1>1, <1>2, UnlinkedChanges, FatDiscWriteComplete
<1>4. Terminates(fatArray')
  BY <1>1, UnlinkedTerminates DEF FatInv, ChainsEnd
<1> QED
  BY <1>3, <1>4, FatChanged

\* Appended blocks.
LEMMA FatLinked ==
    ASSUME TypeOK, FatInv, mounted, UNCHANGED <<container, mounted>>,
           NEW f, NEW k \in Int, NEW new \in getCertainNumberOfFreeBlocks(dmapArray, k),
           setFATBlocks(f, new)
    PROVE  FatInv'
<1> DEFINE chain == Chain(fatArray, f.firstBlock)
           last == IF new # <<>> /\ chain # <<>> THEN {chain[Len(chain)]} ELSE {}
<1>1. fatArray \in [Blocks -> Blocks] /\ fatDisc = fatArray
  BY DEF TypeOK, FatTypeOK, FatInv, FatPersisted
<1>2. new \in Seq(DataBlocks) /\ \A i, j \in 1..Len(new) : new[i] = new[j] => i = j
  BY AllocatedBlocks
<1>3. /\ fatArray' = Linked(fatArray, chain, new)
      /\ fatDisc' = FatDiscWrite(fatDisc, fatArray', last \cup Range(new))
  BY DEF setFATBlocks
<1> HIDE DEF chain
<1>4. fatArray' \in [Blocks -> Blocks]
  BY <1>1, <1>2, <1>3, LinkedType
<1>5. \A b \in Blocks : b \notin last \cup Range(new) => fatArray'[b] = fatArray[b]
  <2> SUFFICES ASSUME NEW b \in Blocks, b \notin last, b \notin Range(new)
               PROVE  fatArray'[b] = fatArray[b]
    OBVIOUS
  <2>1. \A i \in 1..Len(new) : new[i] # b
    BY <1>2 DEF Range
  <2> QED
    BY <1>1, <1>2, <1>3, <2>1, LinkedOld
<1>6. fatDisc' = fatArray'
  BY <1>1, <1>3, <1>4, <1>5, FatDiscWriteComplete
<1>7. Terminates(fatArray')
  BY <1>1, <1>2, <1>3, LinkedTerminates DEF FatInv, ChainsEnd
<1> QED
  BY <1>6, <1>7, FatChanged

\* Two steps on the table that a call may take: as part of a write or of an
\* extension, and as the failure of both.
LEMMA FatAllocates ==
    ASSUME TypeOK, FatInv, mounted, NEW f, NEW k \in Int,
           \/ OutOfBlocks(k)
           \/ \E new \in getCertainNumberOfFreeBlocks(dmapArray, k) :
                 setFATBlocks(f, new) /\ Completes("ok")
    PROVE  FatInv'
<1>1. CASE OutOfBlocks(k)
  BY <1>1, FatEnds DEF OutOfBlocks
<1>2. ASSUME NEW new \in getCertainNumberOfFreeBlocks(dmapArray, k),
             setFATBlocks(f, new), Completes("ok")
      PROVE  FatInv'
  BY <1>2, FatLinked DEF Completes
<1> QED
  BY <1>1, <1>2

\* The calls that append or free blocks.
LEMMA FatInvChanges ==
    ASSUME OpenInv, FatInv, mounted,
           \/ \E n \in Names : fuseUnlink(n)
           \/ \E s \in Slots, off, size \in Nat, v \in Bytes :
                 rootFiles[s] # NULL /\ WriteFile(s, off, size, v)
           \/ \E s \in Slots, newSize \in Nat :
                 rootFiles[s] # NULL /\ (Extend(s, newSize) \/ Shrink(s, newSize))
    PROVE  FatInv'
<1>1. TypeOK
  BY DEF OpenInv
<1>2. \A s \in Slots : rootFiles[s] # NULL => rootFiles[s].st_size \in Nat
  BY <1>1, FuseAssumption DEF TypeOK, RootTypeOK, rootFile
<1>3. ASSUME NEW n \in Names, fuseUnlink(n)
      PROVE  FatInv'
  <2>1. CASE NotFound(n, "ENOENT")
    BY <2>1, FatSame DEF NotFound, Returns, Completes, fsVars
  <2>2. ASSUME NEW freed,
               fatArray' = Unlinked(fatArray, freed),
               fatDisc' = FatDiscWrite(fatDisc, fatArray', freed),
               Completes("ok")
        PROVE  FatInv'
    BY <1>1, <2>2, FatUnlinked DEF Completes
  <2> QED
    BY <1>3, <2>1, <2>2 DEF fuseUnlink
<1>4. ASSUME NEW s \in Slots, NEW off \in Nat, NEW size \in Nat, NEW v \in Bytes,
             rootFiles[s] # NULL, WriteFile(s, off, size, v)
      PROVE  FatInv'
  <2> DEFINE f == rootFiles[s]
             k == IF off + size > f.st_size THEN blocksAll(size, off, f.st_size) ELSE 0
  <2>1. k \in Int
    BY <1>2, <1>4, blocksAllType
  <2>2. \/ OutOfBlocks(k)
        \/ \E new \in getCertainNumberOfFreeBlocks(dmapArray, k) :
              setFATBlocks(f, new) /\ Completes("ok")
    BY <1>4 DEF WriteFile
  <2> QED
    BY <1>1, <2>1, <2>2, FatAllocates
<1>5. ASSUME NEW s \in Slots, NEW newSize \in Nat, rootFiles[s] # NULL, Extend(s, newSize)
      PROVE  FatInv'
  <2> DEFINE f == rootFiles[s]
             k == blocksAll(newSize, 0, f.st_size)
  <2>1. k \in Int
    BY <1>2, <1>5, blocksAllType
  <2>2. \/ OutOfBlocks(k)
        \/ \E new \in getCertainNumberOfFreeBlocks(dmapArray, k) :
              setFATBlocks(f, new) /\ Completes("ok")
    BY <1>5 DEF Extend
  <2> QED
    BY <1>1, <2>1, <2>2, FatAllocates
<1>6. ASSUME NEW s \in Slots, NEW newSize \in Nat, Shrink(s, newSize)
      PROVE  FatInv'
  <2>1. PICK freed : /\ fatArray' = Unlinked(fatArray, freed)
                     /\ fatDisc' = FatDiscWrite(fatDisc, fatArray', freed)
                     /\ Completes("ok")
    BY <1>6 DEF Shrink
  <2> QED
    BY <1>1, <2>1, FatUnlinked DEF Completes
<1> QED
  BY <1>3, <1>4, <1>5, <1>6

(***************************************************************************)
(* What the other steps do to the table and the directory.  Both           *)
(* invariants below are proved over this case distinction.                 *)
(***************************************************************************)

\* The step leaves the tables alone.
Rests ==
    UNCHANGED <<container, mounted, fatArray, fatDisc, dmapArray, dmapDisc, rootFiles, rootDisc>>

\* The process ends and leaves the container alone.
Ends ==
    \E r \in Outcomes : ProcessEnds(r) /\ UNCHANGED <<container, rootDisc, fatDisc, dmapDisc>>

\* One entry gets another name or other attributes, or is new and empty.
Stores ==
    /\ mounted
    /\ UNCHANGED <<container, mounted, fatArray, fatDisc, dmapArray, dmapDisc>>
    /\ \E s \in Slots, f \in rootFile :
          /\ StoreEntry(s, f)
          /\ \/ rootFiles[s] = NULL /\ f.st_size = 0 /\ f.firstBlock = FAT_END
             \/ /\ rootFiles[s] # NULL
                /\ f.firstBlock = rootFiles[s].firstBlock
                /\ f.st_size = rootFiles[s].st_size

\* The step allocates or frees.
Changes ==
    /\ mounted
    /\ \/ \E n \in Names : fuseUnlink(n)
       \/ \E s \in Slots, off \in Nat, size \in Nat \ {0}, v \in Bytes :
             rootFiles[s] # NULL /\ off + size <= MaxSize /\ WriteFile(s, off, size, v)
       \/ \E s \in Slots, newSize \in Nat :
             rootFiles[s] # NULL /\ Extend(s, newSize)
       \/ \E s \in Slots, newSize \in Nat :
             /\ rootFiles[s] # NULL /\ newSize < rootFiles[s].st_size
             /\ Shrink(s, newSize)

\* The handlers that neither allocate nor free.
QuietCalls ==
    \/ fuseInit
    \/ fuseDestroy
    \/ Kill
    \/ Undefined
    \/ \E n \in Names \cup LongNames, mode \in Modes : fuseMknod(n, mode)
    \/ \E p \in Names, q \in Names \cup LongNames : fuseRename(p, q)
    \/ \E n \in Names : fuseGetattr(n)
    \/ \E n \in Names, mode \in Modes : fuseChmod(n, mode)
    \/ \E n \in Names, uid \in Uids : fuseChown(n, uid)
    \/ fuseReaddir
    \/ \E n \in Names : fuseOpen(n)
    \/ \E h \in Handles : fuseRelease(h)
    \/ \E h \in Handles, off \in 0..MaxSize, size \in ReadSizes : fuseRead(h, off, size)

\* A step of one of these handlers.
LEMMA QuietKinds == OpenInv /\ QuietCalls => fuseInit \/ Rests \/ Ends \/ Stores
<1> SUFFICES ASSUME OpenInv, QuietCalls, ~fuseInit
             PROVE  Rests \/ Ends \/ Stores
  OBVIOUS
<1>1. \A r : Returns(r) => Rests
  BY DEF Returns, Completes, Rests, fsVars
<1>2. \A n, r : NotFound(n, r) => Rests
  BY <1>1 DEF NotFound
<1>3. GoesAstray => Ends
  BY OutcomesOf DEF GoesAstray, Ends
<1>4. rootFiles \in RootDirectories
  BY DEF OpenInv, TypeOK, RootTypeOK, RootDirectories
<1>5. \A s, f : UpdateEntry(s, f) =>
         /\ StoreEntry(s, f)
         /\ UNCHANGED <<container, mounted, fatArray, fatDisc, dmapArray, dmapDisc>>
  BY DEF UpdateEntry, Completes
<1>6. CASE fuseDestroy \/ Kill
  BY <1>6, OutcomesOf DEF fuseDestroy, Kill, Ends
<1>7. CASE UNCHANGED vars \/ fuseReaddir
  BY <1>7 DEF vars, fsVars, Rests, fuseReaddir, Reports
<1>8. ASSUME NEW n \in Names \cup LongNames, NEW mode \in Modes, fuseMknod(n, mode)
      PROVE  Rests \/ Ends \/ Stores
  <2>1. ASSUME ~NameTooLong(n), NEW s \in FreeSlot(rootFiles), UpdateEntry(s, NewFile(n))
        PROVE  Stores
    <3>1. /\ s \in Slots /\ rootFiles[s] = NULL /\ NewFile(n) \in rootFile
          /\ NewFile(n).st_size = 0 /\ NewFile(n).firstBlock = FAT_END
      BY <2>1, NewFileType, FuseAssumption DEF FreeSlot, NameTooLong, NewFile
    <3>2. mounted
      BY <1>8 DEF fuseMknod
    <3> QED
      BY <1>5, <2>1, <3>1, <3>2 DEF Stores
  <2> QED
    BY <1>1, <1>3, <1>8, <2>1 DEF fuseMknod
<1>9. ASSUME NEW p \in Names, NEW q \in Names \cup LongNames, fuseRename(p, q)
       PROVE  Rests \/ Stores
  <2>1. ASSUME ~NameTooLong(q), NEW s \in getRootEntryFile(rootFiles, p),
               StoreEntry(s, [rootFiles[s] EXCEPT !.name = q]), Completes("ok"),
               UNCHANGED <<fatArray, fatDisc, dmapArray, dmapDisc>>
        PROVE  Stores
    <3> DEFINE f == [rootFiles[s] EXCEPT !.name = q]
    <3>1. s \in Slots /\ rootFiles[s] \in rootFile /\ rootFiles[s] # NULL
      BY <1>4, EntryFound
    <3>2. q \in Names
      BY <2>1 DEF NameTooLong
    <3>3. /\ f \in rootFile
          /\ f.firstBlock = rootFiles[s].firstBlock /\ f.st_size = rootFiles[s].st_size
      BY <3>1, <3>2 DEF rootFile
    <3> QED
      BY <1>9, <2>1, <3>1, <3>3 DEF Stores, Completes, fuseRename
  <2> QED
    BY <1>1, <1>2, <1>9, <2>1 DEF fuseRename
<1>10. ASSUME NEW n \in Names, NEW mode \in Modes, NEW uid \in Uids,
              fuseGetattr(n) \/ fuseChmod(n, mode) \/ fuseChown(n, uid)
       PROVE  Rests \/ Stores
  <2>1. ASSUME mounted, NEW s \in getRootEntryFile(rootFiles, n),
               \/ UpdateEntry(s, [rootFiles[s] EXCEPT !.st_mode = mode])
               \/ UpdateEntry(s, [rootFiles[s] EXCEPT !.st_uid = uid])
        PROVE  Stores
    <3>1. s \in Slots /\ rootFiles[s] \in rootFile /\ rootFiles[s] # NULL
      BY <1>4, EntryFound
    <3>2. PICK f \in rootFile :
             /\ UpdateEntry(s, f)
             /\ f.firstBlock = rootFiles[s].firstBlock /\ f.st_size = rootFiles[s].st_size
      <4>1. /\ [rootFiles[s] EXCEPT !.st_mode = mode] \in rootFile
            /\ [rootFiles[s] EXCEPT !.st_mode = mode].firstBlock = rootFiles[s].firstBlock
            /\ [rootFiles[s] EXCEPT !.st_mode = mode].st_size = rootFiles[s].st_size
        BY <3>1 DEF rootFile
      <4>2. /\ [rootFiles[s] EXCEPT !.st_uid = uid] \in rootFile
            /\ [rootFiles[s] EXCEPT !.st_uid = uid].firstBlock = rootFiles[s].firstBlock
            /\ [rootFiles[s] EXCEPT !.st_uid = uid].st_size = rootFiles[s].st_size
        BY <3>1 DEF rootFile
      <4> QED
        BY <2>1, <4>1, <4>2
    <3> QED
      BY <1>5, <2>1, <3>1, <3>2 DEF Stores
  <2>2. fuseGetattr(n) => Rests
    BY <1>1, <1>2 DEF fuseGetattr, Reports, Rests, fsVars
  <2> QED
    BY <1>1, <1>2, <1>10, <2>1, <2>2 DEF fuseChmod, fuseChown
<1>11. ASSUME NEW n \in Names, fuseOpen(n)
       PROVE  Rests
  BY <1>1, <1>2, <1>11 DEF fuseOpen, Rests, Completes, fsVars
<1>12. ASSUME NEW h \in Handles, fuseRelease(h)
       PROVE  Rests
  BY <1>12 DEF fuseRelease, Rests, Completes, fsVars
<1>13. ASSUME NEW h \in Handles, NEW off, NEW size, fuseRead(h, off, size)
       PROVE  Rests \/ Ends
  BY <1>1, <1>2, <1>3, <1>13 DEF fuseRead, Reports, Rests, fsVars
<1>14. DefaultMode \in Modes /\ MountUser \in Uids
  BY FuseAssumption
<1> QED
  BY <1>6, <1>7, <1>8, <1>9, <1>10, <1>11, <1>12, <1>13, <1>14
     DEF QuietCalls, Undefined

\* Every step is one of these, or a mount.
LEMMA StepKinds ==
    OpenInv /\ [Next]_vars => fuseInit \/ Rests \/ Ends \/ Stores \/ Changes
<1> SUFFICES ASSUME OpenInv, [Next]_vars
             PROVE  fuseInit \/ Rests \/ Ends \/ Stores \/ Changes
  OBVIOUS
<1>1. \A r : Returns(r) => Rests
  BY DEF Returns, Completes, Rests, fsVars
<1>2. \A n, r : NotFound(n, r) => Rests
  BY <1>1 DEF NotFound
<1>3. GoesAstray => Ends
  BY OutcomesOf DEF GoesAstray, Ends
<1>4. rootFiles \in RootDirectories
  BY DEF OpenInv, TypeOK, RootTypeOK, RootDirectories
<1>5. ASSUME NEW n \in Names, fuseUnlink(n)
      PROVE  Changes
  BY <1>5 DEF Changes, fuseUnlink
<1>6. ASSUME NEW h \in Handles, NEW off \in 0..(MaxSize - 1), NEW size \in 1..MaxSize,
              NEW v \in Bytes, off + size <= MaxSize, fuseWrite(h, off, size, v)
       PROVE  Rests \/ Ends \/ Changes
  <2>1. CASE openFiles[h] \in Slots /\ WriteFile(openFiles[h], off, size, v)
    <3>1. rootFiles[openFiles[h]] # NULL
      BY <2>1 DEF OpenInv, HandlesRefer
    <3>2. off \in Nat /\ size \in Nat \ {0} /\ mounted
      BY <1>6, FuseAssumption DEF fuseWrite
    <3> QED
      BY <1>6, <2>1, <3>1, <3>2 DEF Changes
  <2> QED
    BY <1>1, <1>3, <1>6, <2>1 DEF fuseWrite
<1>7. ASSUME NEW n \in Names, NEW newSize \in 0..MaxSize, fuseTruncate(n, newSize)
       PROVE  Rests \/ Changes
  <2>1. ASSUME NEW s \in getRootEntryFile(rootFiles, n),
               IF newSize >= rootFiles[s].st_size THEN Extend(s, newSize) ELSE Shrink(s, newSize)
        PROVE  Changes
    <3>1. s \in Slots /\ rootFiles[s] # NULL /\ rootFiles[s].st_size \in Nat
      BY <1>4, EntryFound, FuseAssumption DEF rootFile
    <3>2. mounted /\ newSize \in Nat
      BY <1>7, FuseAssumption DEF fuseTruncate
    <3>3. newSize >= rootFiles[s].st_size \/ newSize < rootFiles[s].st_size
      BY <3>1, <3>2
    <3> QED
      BY <2>1, <3>1, <3>2, <3>3 DEF Changes
  <2> QED
    BY <1>2, <1>7, <2>1 DEF fuseTruncate
<1>8. CASE UNCHANGED vars
  BY <1>8 DEF vars, fsVars, Rests
<1>9. CASE QuietCalls
  BY <1>9, QuietKinds
<1> QED
  BY <1>5, <1>6, <1>7, <1>8, <1>9 DEF Next, QuietCalls

-----------------------------------------------------------------------------
(* The table: theorems.                                                    *)

\* Neither a mount nor any other step breaks the invariant of the table.
LEMMA FatInvInductive == OpenInv /\ FatInv /\ [Next]_vars => FatInv'
<1> SUFFICES ASSUME OpenInv, FatInv, [Next]_vars PROVE FatInv'
  OBVIOUS
<1>1. CASE fuseInit
  BY <1>1 DEF fuseInit, InitExisting, InitNew, FatRestart, FatInv, FatPersisted, ChainsEnd,
     Terminates
<1>2. CASE Rests
  BY <1>2, FatSame DEF Rests
<1>3. CASE Ends
  BY <1>3, FatEnds DEF Ends
<1>4. CASE Stores
  BY <1>4, FatSame DEF Stores
<1>5. CASE Changes
  BY <1>5, FatInvChanges DEF Changes
<1> QED
  BY <1>1, <1>2, <1>3, <1>4, <1>5, StepKinds

\* Before the first mount there is no container.
LEMMA InitFatInv == Init => FatInv
BY BlankTerminates DEF Init, FatInv, FatPersisted, ChainsEnd

\* The invariant of the table (fatArray and its copy on disc) always holds.
THEOREM FatInvariant == Spec => []FatInv
<1> QED
  BY OpenInvariant, InitFatInv, FatInvInductive, PTL DEF Spec

(***************************************************************************)
(* No loop over a chain runs for ever, in fuseUnlink, fuseTruncate or      *)
(* setFATBlocks: no call makes the table, in memory or on disc, contain a  *)
(* cycle.                                                                  *)
(***************************************************************************)
THEOREM WalksEnd == Spec => []ChainsEnd
<1>1. FatInv => ChainsEnd
  BY DEF FatInv
<1> QED
  BY <1>1, FatInvariant, PTL

\* A kill between two calls costs no link: FAT::init reads the table back.
THEOREM TableSurvives == Spec => []FatPersisted
<1>1. FatInv => FatPersisted
  BY DEF FatInv
<1> QED
  BY <1>1, FatInvariant, PTL

-----------------------------------------------------------------------------
(* The directory.                                                          *)

\* A file with bytes has a first block.
HaveFirstBlocks(dir) ==
    \A s \in Slots : dir[s] # NULL /\ dir[s].st_size > 0 => dir[s].firstBlock # FAT_END

\* The inductive invariant of the directory.  Without the first blocks, an
\* extension could change the first block of a file that has bytes, and not
\* write it.
RootInv ==
    /\ RootPersisted
    /\ HaveFirstBlocks(rootFiles)
    /\ HaveFirstBlocks(rootDisc)
    /\ ~mounted => rootFiles = EmptyDirectory

\* An entry that has a first block if it has bytes, stored in memory and on disc.
LEMMA RootStores ==
    ASSUME TypeOK, RootInv, mounted, UNCHANGED mounted,
           NEW s \in Slots, NEW f \in rootFile,
           f.st_size > 0 => f.firstBlock # FAT_END, StoreEntry(s, f)
    PROVE  RootInv'
<1>1. rootFiles \in RootDirectories /\ rootDisc \in RootDirectories
  BY DEF TypeOK, RootTypeOK, RootDirectories
<1>2. /\ rootFiles' = [rootFiles EXCEPT ![s] = f]
      /\ rootDisc' = [rootDisc EXCEPT ![s] = f]
  BY DEF StoreEntry
<1>3. RootPersisted'
  BY <1>1, <1>2 DEF RootInv, RootPersisted, RootDirectories
<1>4. HaveFirstBlocks(rootFiles)' /\ HaveFirstBlocks(rootDisc)'
  BY <1>1, <1>2 DEF RootInv, HaveFirstBlocks, RootDirectories
<1> QED
  BY <1>3, <1>4 DEF RootInv

\* The end of the process.
LEMMA RootEnds ==
    ASSUME RootInv, NEW r, ProcessEnds(r), UNCHANGED rootDisc
    PROVE  RootInv'
BY DEF RootInv, RootPersisted, HaveFirstBlocks, ProcessEnds, EmptyDirectory

\* A removal empties the same slots in memory and on disc.
LEMMA RootUnlink ==
    ASSUME RootInv, mounted, NEW n \in Names, fuseUnlink(n)
    PROVE  RootInv'
<1>1. CASE NotFound(n, "ENOENT")
  BY <1>1 DEF NotFound, Returns, Completes, fsVars, RootInv, RootPersisted, HaveFirstBlocks
<1>2. CASE deleteFile(n) /\ Completes("ok")
  <2>1. RootPersisted'
    BY <1>2 DEF deleteFile, Completes, RootInv, RootPersisted
  <2>2. HaveFirstBlocks(rootFiles)' /\ HaveFirstBlocks(rootDisc)'
    BY <1>2 DEF deleteFile, RootInv, HaveFirstBlocks
  <2> QED
    BY <1>2, <2>1, <2>2 DEF RootInv, Completes
<1> QED
  BY <1>1, <1>2 DEF fuseUnlink

\* A file that has no blocks is given one with its first byte.
LEMMA FirstByteNeedsBlock ==
    ASSUME NEW size \in Nat \ {0}, NEW off \in Nat
    PROVE  blocksAll(size, off, 0) > 0
<1>1. BLOCK_SIZE \in Nat /\ BLOCK_SIZE > 0
  BY LayoutAssumption
<1>2. 0 \div BLOCK_SIZE = 0 /\ 0 % BLOCK_SIZE = 0
  BY <1>1
<1>3. \A n \in Nat : n \div BLOCK_SIZE \in Nat
  BY <1>1
<1>4. \A n \in Nat : n > 0 /\ n \div BLOCK_SIZE = 0 => n % BLOCK_SIZE # 0
  BY <1>1
<1>5. numBlocks(0) = 0
  BY <1>2 DEF numBlocks
<1>6. size + off \in Nat /\ size + off > 0
  OBVIOUS
<1>7. numBlocks(size + off) \in Nat /\ numBlocks(size + off) > 0
  BY <1>3, <1>4, <1>6 DEF numBlocks
<1> QED
  BY <1>2, <1>3, <1>5, <1>7 DEF blocksAll

\* The entry that a write stores has a first block.
LEMMA RootWrite ==
    ASSUME TypeOK, RootInv, mounted, NEW s \in Slots, rootFiles[s] # NULL,
           NEW off \in Nat, NEW size \in Nat \ {0}, NEW v \in Bytes,
           off + size <= MaxSize, WriteFile(s, off, size, v)
    PROVE  RootInv'
<1> DEFINE f == rootFiles[s]
           end == off + size
           k == IF end > f.st_size THEN blocksAll(size, off, f.st_size) ELSE 0
<1>1. f \in rootFile /\ f.st_size \in Nat /\ end \in 0..MaxSize /\ end > 0
  BY FuseAssumption DEF TypeOK, RootTypeOK, rootFile
<1>2. k \in Int
  BY <1>1, blocksAllType
<1>3. CASE OutOfBlocks(k)
  BY <1>3, RootEnds DEF OutOfBlocks
<1>4. ASSUME NEW new \in getCertainNumberOfFreeBlocks(dmapArray, k),
             StoreEntry(s, [f EXCEPT !.firstBlock = FirstBlock(f, new),
                                     !.st_size = IF end > @ THEN end ELSE @]),
             Completes("ok")
      PROVE  RootInv'
  <2> DEFINE g == [f EXCEPT !.firstBlock = FirstBlock(f, new),
                            !.st_size = IF end > @ THEN end ELSE @]
  <2>1. FirstBlock(f, new) \in Blocks
    BY <1>1, <1>2, <1>4, FirstBlockType
  <2>2. g \in rootFile /\ g.firstBlock = FirstBlock(f, new)
    BY <1>1, <2>1 DEF rootFile
  <2>3. FirstBlock(f, new) # FAT_END
    <3>1. CASE f.firstBlock # FAT_END
      BY <3>1 DEF FirstBlock
    <3>2. CASE f.firstBlock = FAT_END
      <4>1. f.st_size = 0
        BY <1>1, <3>2 DEF RootInv, HaveFirstBlocks
      <4>2. k > 0
        BY <1>1, <4>1, FirstByteNeedsBlock
      <4>3. new \in Seq(DataBlocks) /\ Len(new) = k
        BY <1>2, <4>2, AllocatedBlocks
      <4>4. new # <<>> /\ new[1] \in DataBlocks
        BY <1>2, <4>2, <4>3
      <4> QED
        BY <3>2, <4>4, EndIsNoDataBlock DEF FirstBlock
    <3> QED
      BY <3>1, <3>2
  <2> QED
    BY <1>4, <2>2, <2>3, RootStores DEF Completes
<1> QED
  BY <1>3, <1>4 DEF WriteFile

\* An extension may change the first block in memory only, of an empty file.
LEMMA RootExtend ==
    ASSUME TypeOK, RootInv, mounted, NEW s \in Slots, rootFiles[s] # NULL,
           NEW newSize \in Nat, Extend(s, newSize)
    PROVE  RootInv'
<1> DEFINE f == rootFiles[s]
           k == blocksAll(newSize, 0, f.st_size)
<1>1. f \in rootFile /\ f.st_size \in Nat
  BY FuseAssumption DEF TypeOK, RootTypeOK, rootFile
<1>2. k \in Int
  BY <1>1, blocksAllType
<1>3. CASE OutOfBlocks(k)
  BY <1>3, RootEnds DEF OutOfBlocks
<1>4. ASSUME NEW new \in getCertainNumberOfFreeBlocks(dmapArray, k),
             rootFiles' = [rootFiles EXCEPT ![s].firstBlock = FirstBlock(f, new)],
             Completes("ok"), UNCHANGED rootDisc
      PROVE  RootInv'
  <2> DEFINE g == [f EXCEPT !.firstBlock = FirstBlock(f, new)]
  <2>1. FirstBlock(f, new) \in Blocks
    BY <1>1, <1>2, <1>4, FirstBlockType
  <2>2. g \in rootFile /\ g.firstBlock = FirstBlock(f, new) /\ g.st_size = f.st_size
    BY <1>1, <2>1 DEF rootFile
  <2>3. rootFiles \in RootDirectories /\ rootFiles' = [rootFiles EXCEPT ![s] = g]
    BY <1>4 DEF TypeOK, RootTypeOK, RootDirectories
  <2>4. f.st_size > 0 => g = f
    <3>1. f.st_size > 0 => FirstBlock(f, new) = f.firstBlock
      BY DEF RootInv, HaveFirstBlocks, FirstBlock
    <3> QED
      BY <1>1, <3>1 DEF rootFile
  <2>5. g = f \/ (f.firstBlock = FAT_END /\ f.st_size = 0)
    <3>1. CASE f.st_size > 0
      BY <2>4, <3>1
    <3>2. CASE f.st_size = 0 /\ f.firstBlock # FAT_END
      <4>1. FirstBlock(f, new) = f.firstBlock
        BY <3>2 DEF FirstBlock
      <4> QED
        BY <1>1, <4>1 DEF rootFile
    <3> QED
      BY <1>1, <3>1, <3>2
  <2>6. /\ f = [f EXCEPT !.firstBlock = f.firstBlock]
        /\ [g EXCEPT !.firstBlock = FAT_END] = [f EXCEPT !.firstBlock = FAT_END]
    BY <1>1 DEF rootFile
  <2>7. mounted' /\ rootDisc' = rootDisc
    BY <1>4 DEF Completes
  <2>8. rootFiles'[s] = g /\ \A t \in Slots : t # s => rootFiles'[t] = rootFiles[t]
    BY <2>3 DEF RootDirectories
  <2>9. \/ rootDisc[s] = f
        \/ f.st_size = 0 /\ rootDisc[s] = [f EXCEPT !.firstBlock = FAT_END]
    BY DEF RootInv, RootPersisted
  <2>10. g # NULL
    BY <2>2, NullAssumption
  <2>11. rootDisc[s] = g \/ (g.st_size = 0 /\ rootDisc[s] = [g EXCEPT !.firstBlock = FAT_END])
    BY <2>2, <2>5, <2>6, <2>9
  <2>12. RootPersisted'
    BY <2>7, <2>8, <2>10, <2>11 DEF RootInv, RootPersisted
  <2>13. HaveFirstBlocks(rootFiles)' /\ HaveFirstBlocks(rootDisc)'
    BY <2>2, <2>4, <2>7, <2>8 DEF RootInv, HaveFirstBlocks
  <2> QED
    BY <2>7, <2>12, <2>13 DEF RootInv
<1> QED
  BY <1>3, <1>4 DEF Extend

\* A file that keeps bytes had some, and keeps its first block.
LEMMA RootShrink ==
    ASSUME TypeOK, RootInv, mounted, NEW s \in Slots, rootFiles[s] # NULL,
           NEW newSize \in Nat, newSize < rootFiles[s].st_size, Shrink(s, newSize)
    PROVE  RootInv'
<1> DEFINE f == rootFiles[s]
           g == [f EXCEPT !.firstBlock = IF newSize = 0 THEN FAT_END ELSE @,
                          !.st_size = newSize]
<1>1. f \in rootFile /\ f.st_size \in 0..MaxSize
  BY DEF TypeOK, RootTypeOK, rootFile
<1>2. g \in rootFile
  <2>1. newSize \in 0..MaxSize
    BY <1>1, FuseAssumption
  <2>2. (IF newSize = 0 THEN FAT_END ELSE f.firstBlock) \in Blocks
    BY <1>1, EndIsNoDataBlock DEF rootFile
  <2> QED
    BY <1>1, <2>1, <2>2 DEF rootFile
<1>3. f.firstBlock # FAT_END
  BY <1>1, FuseAssumption DEF RootInv, HaveFirstBlocks
<1>4. g.st_size > 0 => g.firstBlock # FAT_END
  BY <1>1, <1>3 DEF rootFile
<1>5. StoreEntry(s, g) /\ Completes("ok")
  BY DEF Shrink
<1> QED
  BY <1>2, <1>4, <1>5, RootStores DEF Completes

\* Neither a mount nor any other step breaks the invariant of the directory.
LEMMA RootInvInductive == OpenInv /\ RootInv /\ [Next]_vars => RootInv'
<1> SUFFICES ASSUME OpenInv, RootInv, [Next]_vars PROVE RootInv'
  OBVIOUS
<1>1. TypeOK
  BY DEF OpenInv
<1>2. CASE fuseInit
  BY <1>2 DEF fuseInit, InitExisting, InitNew, initRootDir, rootInit, EmptyDirectory,
     RootInv, RootPersisted, HaveFirstBlocks
<1>3. CASE Rests
  BY <1>3 DEF Rests, RootInv, RootPersisted, HaveFirstBlocks
<1>4. CASE Ends
  BY <1>4, RootEnds DEF Ends
<1>5. CASE Stores
  <2>1. PICK s \in Slots, f \in rootFile :
           /\ StoreEntry(s, f)
           /\ \/ f.st_size = 0 /\ f.firstBlock = FAT_END
              \/ /\ rootFiles[s] # NULL
                 /\ f.firstBlock = rootFiles[s].firstBlock
                 /\ f.st_size = rootFiles[s].st_size
    BY <1>5 DEF Stores
  <2>2. f.st_size > 0 => f.firstBlock # FAT_END
    BY <2>1 DEF RootInv, HaveFirstBlocks
  <2>3. mounted /\ UNCHANGED mounted
    BY <1>5 DEF Stores
  <2> QED
    BY <1>1, <2>1, <2>2, <2>3, RootStores
<1>6. CASE Changes
  BY <1>1, <1>6, RootUnlink, RootWrite, RootExtend, RootShrink DEF Changes
<1> QED
  BY <1>2, <1>3, <1>4, <1>5, <1>6, StepKinds

\* Before the first mount there is no file.
LEMMA InitRootInv == Init => RootInv
BY DEF Init, EmptyDirectory, RootInv, RootPersisted, HaveFirstBlocks

(***************************************************************************)
(* A kill between two calls costs no name, no attribute and no byte: the   *)
(* entries that initRootDir would read are those in memory, but for the    *)
(* first blocks of files that are empty.                                   *)
(***************************************************************************)
THEOREM DirectorySurvives == Spec => []RootPersisted
<1>1. RootInv => RootPersisted
  BY DEF RootInv
<1> QED
  BY <1>1, OpenInvariant, InitRootInv, RootInvInductive, PTL DEF Spec

-----------------------------------------------------------------------------
(* The names, for clients that never rename onto an existing name.         *)

NamesOnce(dir) ==
    \A s, t \in Slots : dir[s] # NULL /\ dir[t] # NULL /\ dir[s].name = dir[t].name => s = t

\* A handle points to the entry that has the path of the handle.
HandlesNamed ==
    \A h \in Handles : handles[h] # NULL =>
        /\ openFiles[h] \in Slots
        /\ rootFiles[openFiles[h]] # NULL
        /\ rootFiles[openFiles[h]].name = handles[h]

\* The inductive invariant of the names; the container counts, because the
\* next mount reads it.
NameInv == NamesOnce(rootFiles) /\ NamesOnce(rootDisc) /\ HandlesNamed

\* The entries of d are those of dir, but for anything else than the name.
SameNames(d, dir) ==
    \A s \in Slots : /\ d[s] = NULL <=> dir[s] = NULL
                     /\ dir[s] # NULL => d[s].name = dir[s].name

\* Entries that have the same names have each name as often.
LEMMA SameNamesOnce ==
    ASSUME NEW d, NEW dir, NamesOnce(dir), SameNames(d, dir)
    PROVE  NamesOnce(d)
BY DEF NamesOnce, SameNames

\* As long as the process runs, the names on disc are those in memory.
LEMMA DiscNames ==
    ASSUME TypeOK, RootPersisted, mounted
    PROVE  SameNames(rootDisc, rootFiles)
<1> SUFFICES ASSUME NEW s \in Slots
             PROVE  /\ rootDisc[s] = NULL <=> rootFiles[s] = NULL
                    /\ rootFiles[s] # NULL => rootDisc[s].name = rootFiles[s].name
  BY DEF SameNames
<1>1. rootFiles[s] \in rootFile \cup {NULL}
  BY DEF TypeOK, RootTypeOK
<1>2. CASE rootDisc[s] = rootFiles[s]
  BY <1>2
<1>3. CASE rootFiles[s] # NULL /\ rootDisc[s] = [rootFiles[s] EXCEPT !.firstBlock = FAT_END]
  <2>1. rootFiles[s] \in rootFile
    BY <1>1, <1>3
  <2>2. rootDisc[s] \in rootFile /\ rootDisc[s].name = rootFiles[s].name
    BY <1>3, <2>1, EndIsNoDataBlock DEF rootFile
  <2> QED
    BY <1>3, <2>2, NullAssumption
<1> QED
  BY <1>2, <1>3 DEF RootPersisted

\* A step that changes no name and no handle.
LEMMA NamesSame ==
    ASSUME NameInv, SameNames(rootFiles', rootFiles), SameNames(rootDisc', rootDisc),
           UNCHANGED <<openFiles, handles>>
    PROVE  NameInv'
<1>1. NamesOnce(rootFiles)' /\ NamesOnce(rootDisc)'
  BY SameNamesOnce DEF NameInv, NamesOnce
<1>2. HandlesNamed'
  BY DEF NameInv, HandlesNamed, SameNames
<1> QED
  BY <1>1, <1>2 DEF NameInv

\* A handler that changes nothing.
LEMMA NamesIdle ==
    ASSUME NameInv, UNCHANGED <<fsVars, openVars>>
    PROVE  NameInv'
BY DEF fsVars, openVars, NameInv, NamesOnce, HandlesNamed

\* The end of the process.
LEMMA NamesEnd ==
    ASSUME NameInv, NEW r, ProcessEnds(r), UNCHANGED rootDisc
    PROVE  NameInv'
BY DEF ProcessEnds, NothingOpen, EmptyDirectory, NameInv, NamesOnce, HandlesNamed

\* An entry that is stored with the name it has.
LEMMA NamesStored ==
    ASSUME TypeOK, RootPersisted, mounted, NameInv, NEW s \in Slots, NEW f \in rootFile,
           rootFiles[s] # NULL, f.name = rootFiles[s].name,
           StoreEntry(s, f), UNCHANGED <<openFiles, handles>>
    PROVE  NameInv'
<1>1. rootFiles \in RootDirectories /\ rootDisc \in RootDirectories
  BY DEF TypeOK, RootTypeOK, RootDirectories
<1>2. /\ rootFiles' = [rootFiles EXCEPT ![s] = f]
      /\ rootDisc' = [rootDisc EXCEPT ![s] = f]
      /\ f # NULL
  BY NullAssumption DEF StoreEntry
<1>3. SameNames(rootFiles', rootFiles)
  BY <1>1, <1>2 DEF SameNames, RootDirectories
<1>4. rootDisc[s] # NULL /\ rootDisc[s].name = f.name
  BY DiscNames DEF SameNames
<1>5. SameNames(rootDisc', rootDisc)
  BY <1>1, <1>2, <1>4 DEF SameNames, RootDirectories
<1> QED
  BY <1>3, <1>5, NamesSame

\* An entry that is stored with a name that no other entry has.
LEMMA NameTaken ==
    ASSUME TypeOK, RootPersisted, mounted, NameInv, NEW s \in Slots, NEW f \in rootFile,
           Named(rootFiles, f.name) = {}, StoreEntry(s, f)
    PROVE  NamesOnce(rootFiles)' /\ NamesOnce(rootDisc)'
<1>1. rootFiles \in RootDirectories /\ rootDisc \in RootDirectories
  BY DEF TypeOK, RootTypeOK, RootDirectories
<1>2. /\ rootFiles' = [rootFiles EXCEPT ![s] = f]
      /\ rootDisc' = [rootDisc EXCEPT ![s] = f]
  BY DEF StoreEntry
<1>3. \A t \in Slots : rootFiles[t] # NULL => rootFiles[t].name # f.name
  BY DEF Named
<1>4. \A t \in Slots : rootDisc[t] # NULL => rootDisc[t].name # f.name
  BY <1>3, DiscNames DEF SameNames
<1>5. NamesOnce(rootFiles)'
  BY <1>1, <1>2, <1>3 DEF NameInv, NamesOnce, RootDirectories
<1>6. NamesOnce(rootDisc)'
  BY <1>1, <1>2, <1>4 DEF NameInv, NamesOnce, RootDirectories
<1> QED
  BY <1>5, <1>6

\* A mount reads the names that are in the container, and no file is open.
LEMMA NamesInit ==
    ASSUME OpenInv, RootInv, NameInv, fuseInit
    PROVE  NameInv'
<1>1. \A h \in Handles : handles'[h] = NULL
  BY DEF OpenInv, UnmountedClosed, fuseInit, openVars
<1>2. NamesOnce(rootFiles)' /\ NamesOnce(rootDisc)'
  BY DEF fuseInit, InitExisting, InitNew, initRootDir, rootInit, EmptyDirectory,
     NameInv, NamesOnce
<1> QED
  BY <1>1, <1>2 DEF NameInv, HandlesNamed

\* A new file has a name that is not in use.
LEMMA NamesMknod ==
    ASSUME OpenInv, RootInv, NameInv, NEW n \in Names \cup LongNames, NEW mode,
           fuseMknod(n, mode)
    PROVE  NameInv'
<1>1. CASE Returns("EEXIST") \/ Returns("EINVAL") \/ GoesAstray
  BY <1>1, NamesIdle, NamesEnd DEF Returns, GoesAstray
<1>2. ASSUME getRootEntryFile(rootFiles, n) = {}, ~NameTooLong(n),
             NEW s \in FreeSlot(rootFiles), UpdateEntry(s, NewFile(n))
      PROVE  NameInv'
  <2>1. s \in Slots /\ rootFiles[s] = NULL
    BY <1>2 DEF FreeSlot
  <2>2. NewFile(n) \in rootFile /\ NewFile(n).name = n
    BY <1>2, NewFileType, FuseAssumption DEF NameTooLong, NewFile
  <2>3. Named(rootFiles, n) = {}
    BY <1>2, EntryExists
  <2>4. StoreEntry(s, NewFile(n)) /\ UNCHANGED <<openFiles, handles>>
    BY <1>2 DEF UpdateEntry, openVars
  <2>5. TypeOK /\ RootPersisted /\ mounted
    BY DEF OpenInv, RootInv, fuseMknod
  <2>6. NamesOnce(rootFiles)' /\ NamesOnce(rootDisc)'
    BY <2>1, <2>2, <2>3, <2>4, <2>5, NameTaken
  <2>7. \A t \in Slots : rootFiles[t] # NULL => rootFiles'[t] = rootFiles[t]
    BY <2>1, <2>4, <2>5 DEF StoreEntry, TypeOK, RootTypeOK
  <2> QED
    BY <2>4, <2>6, <2>7 DEF NameInv, HandlesNamed
<1> QED
  BY <1>1, <1>2 DEF fuseMknod

\* No handle points to an entry that is removed.
LEMMA NamesUnlink ==
    ASSUME OpenInv, NameInv, NEW n \in Names, fuseUnlink(n)
    PROVE  NameInv'
<1>1. CASE NotFound(n, "ENOENT")
  BY <1>1, NamesIdle DEF NotFound, Returns
<1>2. ASSUME deleteFile(n), UNCHANGED handles,
             openFiles' = [h \in Handles |->
                IF openFiles[h] \in Named(rootFiles, n) THEN DANGLING ELSE openFiles[h]]
      PROVE  NameInv'
  <2>1. NamesOnce(rootFiles)' /\ NamesOnce(rootDisc)'
    BY <1>2 DEF deleteFile, NameInv, NamesOnce
  <2>2. ASSUME NEW h \in Handles, handles[h] # NULL
        PROVE  /\ openFiles'[h] = openFiles[h]
               /\ openFiles[h] \in Slots
               /\ rootFiles'[openFiles[h]] = rootFiles[openFiles[h]]
    <3>1. handles[h] # n
      BY DEF fuseUnlink, IsOpen
    <3>2. openFiles[h] \in Slots /\ openFiles[h] \notin Named(rootFiles, n)
      BY <2>2, <3>1 DEF NameInv, HandlesNamed, Named
    <3> QED
      BY <1>2, <3>2 DEF deleteFile
  <2> QED
    BY <1>2, <2>1, <2>2 DEF NameInv, HandlesNamed
<1> QED
  BY <1>1, <1>2 DEF fuseUnlink

\* The handles of the entry that gets the new name are those of the old path.
LEMMA NamesRename ==
    ASSUME "replace" \notin Workload, OpenInv, RootInv, NameInv,
           NEW p \in Names, NEW q \in Names \cup LongNames, fuseRename(p, q)
    PROVE  NameInv'
<1>1. CASE Returns("EINVAL") \/ NotFound(p, "ENOENT")
  BY <1>1, NamesIdle DEF NotFound, Returns
<1>2. ASSUME ~NameTooLong(q), NEW s \in getRootEntryFile(rootFiles, p),
             StoreEntry(s, [rootFiles[s] EXCEPT !.name = q]),
             handles' = Renamed(p, q), UNCHANGED openFiles
      PROVE  NameInv'
  <2> DEFINE f == [rootFiles[s] EXCEPT !.name = q]
  <2>1. rootFiles \in RootDirectories
    BY DEF OpenInv, TypeOK, RootTypeOK, RootDirectories
  <2>2. s \in Slots /\ rootFiles[s] \in rootFile /\ rootFiles[s] # NULL /\ rootFiles[s].name = p
    BY <1>2, <2>1, EntryFound
  <2>3. f \in rootFile /\ f.name = q /\ f # NULL
    BY <1>2, <2>2, NullAssumption DEF rootFile, NameTooLong
  <2>4. Named(rootFiles, q) = {}
    BY DEF fuseRename
  <2>5. TypeOK /\ RootPersisted /\ mounted
    BY DEF OpenInv, RootInv, fuseRename
  <2>6. NamesOnce(rootFiles)' /\ NamesOnce(rootDisc)'
    BY <1>2, <2>2, <2>3, <2>4, <2>5, NameTaken
  <2>7. rootFiles'[s] = f /\ \A t \in Slots : t # s => rootFiles'[t] = rootFiles[t]
    BY <1>2, <2>1, <2>2 DEF StoreEntry, RootDirectories
  <2>8. HandlesNamed'
    <3> SUFFICES ASSUME NEW h \in Handles, handles'[h] # NULL
                 PROVE  /\ openFiles[h] \in Slots
                        /\ rootFiles'[openFiles[h]] # NULL
                        /\ rootFiles'[openFiles[h]].name = handles'[h]
      BY <1>2 DEF HandlesNamed
    <3>1. p # NULL
      BY FuseAssumption
    <3>2. handles'[h] = IF handles[h] = p THEN q ELSE handles[h]
      BY <1>2 DEF Renamed
    <3>3. /\ openFiles[h] \in Slots
          /\ rootFiles[openFiles[h]] # NULL
          /\ rootFiles[openFiles[h]].name = handles[h]
      BY <3>1, <3>2 DEF NameInv, HandlesNamed
    <3>4. CASE handles[h] = p
      <4>1. openFiles[h] = s
        BY <2>2, <3>3, <3>4 DEF NameInv, NamesOnce
      <4> QED
        BY <2>2, <2>3, <2>7, <3>2, <3>4, <4>1
    <3>5. CASE handles[h] # p
      <4>1. openFiles[h] # s
        BY <2>2, <3>3, <3>5
      <4> QED
        BY <2>7, <3>2, <3>3, <3>5, <4>1
    <3> QED
      BY <3>4, <3>5
  <2> QED
    BY <2>6, <2>8 DEF NameInv
<1> QED
  BY <1>1, <1>2 DEF fuseRename

\* Permissions and owner are not the name.
LEMMA NamesAttributes ==
    ASSUME OpenInv, RootInv, NameInv, NEW n \in Names, NEW mode \in Modes, NEW uid \in Uids,
           fuseChmod(n, mode) \/ fuseChown(n, uid)
    PROVE  NameInv'
<1>1. CASE NotFound(n, "ENOENT")
  BY <1>1, NamesIdle DEF NotFound, Returns
<1>2. ASSUME NEW s \in getRootEntryFile(rootFiles, n),
             \/ UpdateEntry(s, [rootFiles[s] EXCEPT !.st_mode = mode])
             \/ UpdateEntry(s, [rootFiles[s] EXCEPT !.st_uid = uid])
      PROVE  NameInv'
  <2>1. s \in Slots /\ rootFiles[s] \in rootFile /\ rootFiles[s] # NULL
    BY EntryFound DEF OpenInv, TypeOK, RootTypeOK, RootDirectories
  <2>2. /\ [rootFiles[s] EXCEPT !.st_mode = mode] \in rootFile
        /\ [rootFiles[s] EXCEPT !.st_mode = mode].name = rootFiles[s].name
        /\ [rootFiles[s] EXCEPT !.st_uid = uid] \in rootFile
        /\ [rootFiles[s] EXCEPT !.st_uid = uid].name = rootFiles[s].name
    BY <2>1 DEF rootFile
  <2>3. TypeOK /\ RootPersisted /\ mounted
    BY DEF OpenInv, RootInv, fuseChmod, fuseChown
  <2>4. PICK f \in rootFile : UpdateEntry(s, f) /\ f.name = rootFiles[s].name
    BY <1>2, <2>2
  <2>5. StoreEntry(s, f) /\ UNCHANGED <<openFiles, handles>>
    BY <2>4 DEF UpdateEntry, openVars
  <2> QED
    BY <2>1, <2>3, <2>4, <2>5, NamesStored
<1> QED
  BY <1>1, <1>2 DEF fuseChmod, fuseChown

\* A file that is opened is found by its path.
LEMMA NamesOpen ==
    ASSUME OpenInv, NameInv, NEW n \in Names, fuseOpen(n)
    PROVE  NameInv'
<1>1. CASE NotFound(n, "ENOENT") \/ Returns("EMFILE")
  BY <1>1, NamesIdle DEF NotFound, Returns
<1>2. ASSUME NEW s \in getRootEntryFile(rootFiles, n), NEW h \in getIndexOpen,
             openFiles' = [openFiles EXCEPT ![h] = s],
             handles' = [handles EXCEPT ![h] = n],
             UNCHANGED fsVars
      PROVE  NameInv'
  <2>1. s \in Slots /\ rootFiles[s] # NULL /\ rootFiles[s].name = n
    BY <1>2, EntryFound DEF OpenInv, TypeOK, RootTypeOK, RootDirectories
  <2>2. openFiles \in [Handles -> Slots \cup {NULL, DANGLING}]
        /\ handles \in [Handles -> Names \cup {NULL}]
    BY DEF OpenInv, TypeOK, FuseTypeOK
  <2>3. rootFiles' = rootFiles /\ rootDisc' = rootDisc
    BY <1>2 DEF fsVars
  <2>4. HandlesNamed'
    BY <1>2, <2>1, <2>2, <2>3 DEF NameInv, HandlesNamed
  <2> QED
    BY <2>3, <2>4 DEF NameInv, NamesOnce
<1> QED
  BY <1>1, <1>2 DEF fuseOpen

\* A release takes a handle away.
LEMMA NamesRelease ==
    ASSUME OpenInv, NameInv, NEW h \in Handles, fuseRelease(h)
    PROVE  NameInv'
<1>1. openFiles \in [Handles -> Slots \cup {NULL, DANGLING}]
      /\ handles \in [Handles -> Names \cup {NULL}]
  BY DEF OpenInv, TypeOK, FuseTypeOK
<1>2. rootFiles' = rootFiles /\ rootDisc' = rootDisc /\ handles' = [handles EXCEPT ![h] = NULL]
  BY DEF fuseRelease, fsVars
<1>3. \A g \in Handles : g # h => openFiles'[g] = openFiles[g]
  BY <1>1 DEF fuseRelease, CloseHandle
<1>4. HandlesNamed'
  BY <1>1, <1>2, <1>3 DEF NameInv, HandlesNamed
<1> QED
  BY <1>2, <1>4 DEF NameInv, NamesOnce

\* A read changes nothing, or ends in undefined behaviour.
LEMMA NamesRead ==
    ASSUME NameInv, NEW h, NEW off, NEW size, fuseRead(h, off, size)
    PROVE  NameInv'
<1>1. GoesAstray => NameInv'
  BY NamesEnd DEF GoesAstray
<1> QED
  BY <1>1, NamesIdle DEF fuseRead, NotFound, Returns, Reports

\* The three calls that change the size or the blocks of a file keep its name.
LEMMA NamesWrite ==
    ASSUME OpenInv, RootInv, NameInv, mounted, NEW s \in Slots, rootFiles[s] # NULL,
           NEW off \in Nat, NEW size \in Nat, off + size <= MaxSize, NEW v,
           WriteFile(s, off, size, v)
    PROVE  NameInv'
<1> DEFINE f == rootFiles[s]
           end == off + size
           k == IF end > f.st_size THEN blocksAll(size, off, f.st_size) ELSE 0
<1>1. f \in rootFile /\ f.st_size \in Nat /\ end \in 0..MaxSize
  BY FuseAssumption DEF OpenInv, TypeOK, RootTypeOK, rootFile
<1>2. k \in Int
  BY <1>1, blocksAllType
<1>3. CASE OutOfBlocks(k)
  BY <1>3, NamesEnd DEF OutOfBlocks
<1>4. ASSUME NEW new \in getCertainNumberOfFreeBlocks(dmapArray, k),
             StoreEntry(s, [f EXCEPT !.firstBlock = FirstBlock(f, new),
                                     !.st_size = IF end > @ THEN end ELSE @]),
             UNCHANGED openVars
      PROVE  NameInv'
  <2> DEFINE g == [f EXCEPT !.firstBlock = FirstBlock(f, new),
                            !.st_size = IF end > @ THEN end ELSE @]
  <2>1. FirstBlock(f, new) \in Blocks
    BY <1>1, <1>2, <1>4, FirstBlockType
  <2>2. g \in rootFile /\ g.name = f.name
    BY <1>1, <2>1 DEF rootFile
  <2>3. TypeOK /\ RootPersisted
    BY DEF OpenInv, RootInv
  <2>4. UNCHANGED <<openFiles, handles>>
    BY <1>4 DEF openVars
  <2> QED
    BY <1>4, <2>2, <2>3, <2>4, NamesStored
<1> QED
  BY <1>3, <1>4 DEF WriteFile

\* See NamesWrite.
LEMMA NamesExtend ==
    ASSUME OpenInv, NameInv, NEW s \in Slots, rootFiles[s] # NULL,
           NEW newSize \in Nat, Extend(s, newSize)
    PROVE  NameInv'
<1> DEFINE f == rootFiles[s]
           k == blocksAll(newSize, 0, f.st_size)
<1>1. f \in rootFile /\ f.st_size \in Nat
  BY FuseAssumption DEF OpenInv, TypeOK, RootTypeOK, rootFile
<1>2. k \in Int
  BY <1>1, blocksAllType
<1>3. CASE OutOfBlocks(k)
  BY <1>3, NamesEnd DEF OutOfBlocks
<1>4. ASSUME NEW new \in getCertainNumberOfFreeBlocks(dmapArray, k),
             rootFiles' = [rootFiles EXCEPT ![s].firstBlock = FirstBlock(f, new)],
             UNCHANGED <<rootDisc, openVars>>
      PROVE  NameInv'
  <2> DEFINE g == [f EXCEPT !.firstBlock = FirstBlock(f, new)]
  <2>1. FirstBlock(f, new) \in Blocks
    BY <1>1, <1>2, <1>4, FirstBlockType
  <2>2. g \in rootFile /\ g.name = f.name /\ g # NULL
    BY <1>1, <2>1, NullAssumption DEF rootFile
  <2>3. rootFiles \in RootDirectories /\ rootFiles' = [rootFiles EXCEPT ![s] = g]
    BY <1>4 DEF OpenInv, TypeOK, RootTypeOK, RootDirectories
  <2>4. SameNames(rootFiles', rootFiles)
    BY <2>2, <2>3 DEF SameNames, RootDirectories
  <2>5. SameNames(rootDisc', rootDisc) /\ UNCHANGED <<openFiles, handles>>
    BY <1>4 DEF SameNames, openVars
  <2> QED
    BY <2>4, <2>5, NamesSame
<1> QED
  BY <1>3, <1>4 DEF Extend

\* See NamesWrite.
LEMMA NamesShrink ==
    ASSUME OpenInv, RootInv, NameInv, mounted, NEW s \in Slots, rootFiles[s] # NULL,
           NEW newSize \in 0..MaxSize, Shrink(s, newSize)
    PROVE  NameInv'
<1> DEFINE f == rootFiles[s]
           g == [f EXCEPT !.firstBlock = IF newSize = 0 THEN FAT_END ELSE @,
                          !.st_size = newSize]
<1>1. f \in rootFile /\ TypeOK /\ RootPersisted
  BY DEF OpenInv, TypeOK, RootTypeOK, RootInv
<1>2. g \in rootFile /\ g.name = f.name
  BY <1>1, EndIsNoDataBlock DEF rootFile
<1>3. StoreEntry(s, g) /\ UNCHANGED <<openFiles, handles>>
  BY DEF Shrink, openVars
<1> QED
  BY <1>1, <1>2, <1>3, NamesStored

\* No step breaks the invariant of the names.
LEMMA NameInvInductive ==
    ASSUME "replace" \notin Workload
    PROVE  OpenInv /\ RootInv /\ NameInv /\ [Next]_vars => NameInv'
<1> SUFFICES ASSUME OpenInv, RootInv, NameInv, [Next]_vars PROVE NameInv'
  OBVIOUS
<1>1. CASE fuseInit
  BY <1>1, NamesInit
<1>2. CASE fuseDestroy \/ Kill
  BY <1>2, NamesEnd DEF fuseDestroy, Kill
<1>3. CASE UNCHANGED vars \/ fuseReaddir
  BY <1>3, NamesIdle DEF vars, fuseReaddir, Reports
<1>4. ASSUME NEW n \in Names \cup LongNames, NEW mode \in Modes, fuseMknod(n, mode)
      PROVE  NameInv'
  BY <1>4, NamesMknod
<1>5. ASSUME NEW n \in Names, fuseUnlink(n) \/ fuseOpen(n)
      PROVE  NameInv'
  BY <1>5, NamesUnlink, NamesOpen
<1>6. ASSUME NEW p \in Names, NEW q \in Names \cup LongNames, fuseRename(p, q)
      PROVE  NameInv'
  BY <1>6, NamesRename
<1>7. ASSUME NEW n \in Names, NEW mode \in Modes, NEW uid \in Uids,
             fuseChmod(n, mode) \/ fuseChown(n, uid)
      PROVE  NameInv'
  BY <1>7, NamesAttributes
<1>8. ASSUME NEW n \in Names, fuseGetattr(n)
      PROVE  NameInv'
  BY <1>8, NamesIdle DEF fuseGetattr, NotFound, Returns, Reports
<1>9. ASSUME NEW h \in Handles, fuseRelease(h)
      PROVE  NameInv'
  BY <1>9, NamesRelease
<1>10. ASSUME NEW h \in Handles, NEW off, NEW size, fuseRead(h, off, size)
       PROVE  NameInv'
  BY <1>10, NamesRead
<1>11. ASSUME NEW h \in Handles, NEW off \in 0..(MaxSize - 1), NEW size \in 1..MaxSize,
              NEW v \in Bytes, off + size <= MaxSize, fuseWrite(h, off, size, v)
       PROVE  NameInv'
  <2>1. CASE Returns("EBADF") \/ GoesAstray
    BY <2>1, NamesIdle, NamesEnd DEF Returns, GoesAstray
  <2>2. CASE openFiles[h] \in Slots /\ WriteFile(openFiles[h], off, size, v)
    <3>1. rootFiles[openFiles[h]] # NULL
      BY <2>2 DEF OpenInv, HandlesRefer
    <3>2. off \in Nat /\ size \in Nat /\ mounted
      BY <1>11, FuseAssumption DEF fuseWrite
    <3> QED
      BY <1>11, <2>2, <3>1, <3>2, NamesWrite
  <2> QED
    BY <1>11, <2>1, <2>2 DEF fuseWrite
<1>12. ASSUME NEW n \in Names, NEW newSize \in 0..MaxSize, fuseTruncate(n, newSize)
       PROVE  NameInv'
  <2>1. CASE NotFound(n, "ENFILE")
    BY <2>1, NamesIdle DEF NotFound, Returns
  <2>2. ASSUME NEW s \in getRootEntryFile(rootFiles, n),
               Extend(s, newSize) \/ Shrink(s, newSize)
        PROVE  NameInv'
    <3>1. s \in Slots /\ rootFiles[s] # NULL
      BY EntryFound DEF OpenInv, TypeOK, RootTypeOK, RootDirectories
    <3>2. mounted /\ newSize \in Nat
      BY <1>12, FuseAssumption DEF fuseTruncate
    <3> QED
      BY <2>2, <3>1, <3>2, NamesExtend, NamesShrink
  <2> QED
    BY <1>12, <2>1, <2>2 DEF fuseTruncate
<1>13. DefaultMode \in Modes /\ MountUser \in Uids
  BY FuseAssumption
<1> QED
  BY <1>1, <1>2, <1>3, <1>4, <1>5, <1>6, <1>7, <1>8, <1>9, <1>10, <1>11, <1>12, <1>13
     DEF Next, Undefined

\* Before the first mount there is no name.
LEMMA InitNameInv == Init => NameInv
BY DEF Init, FuseInit, EmptyDirectory, NameInv, NamesOnce, HandlesNamed

\* The path of a handle finds the entry the handle points to.
LEMMA NamesResolve ==
    ASSUME NameInv
    PROVE  NamesUnique /\ HandlesResolve
<1>1. NamesUnique
  BY DEF NameInv, NamesOnce, NamesUnique, Files
<1>2. HandlesResolve
  <2> SUFFICES ASSUME NEW h \in Handles, handles[h] # NULL
               PROVE  getRootEntryFile(rootFiles, handles[h]) = {openFiles[h]}
    BY DEF HandlesResolve
  <2>1. Named(rootFiles, handles[h]) = {openFiles[h]} /\ openFiles[h] \in Slots
    BY DEF NameInv, NamesOnce, HandlesNamed, Named
  <2>2. \A s \in Slots : s <= s
    BY LayoutAssumption DEF Slots
  <2> QED
    BY <2>1, <2>2 DEF getRootEntryFile
<1> QED
  BY <1>1, <1>2

\* The invariant of the names holds for clients that do not "replace".
THEOREM NameInvariant ==
    ASSUME "replace" \notin Workload
    PROVE  Spec => []NameInv
<1>1. Init => RootInv /\ NameInv
  BY InitRootInv, InitNameInv
<1>2. OpenInv /\ (RootInv /\ NameInv) /\ [Next]_vars => (RootInv /\ NameInv)'
  BY RootInvInductive, NameInvInductive
<1> QED
  BY <1>1, <1>2, OpenInvariant, PTL DEF Spec

(***************************************************************************)
(* Without renames onto existing names, a name is in the directory once,   *)
(* over creations, renames, removals, kills and mounts.                    *)
(***************************************************************************)
THEOREM NamesStayUnique ==
    ASSUME "replace" \notin Workload
    PROVE  Spec => []NamesUnique
<1>1. NameInv => NamesUnique
  BY NamesResolve
<1> QED
  BY <1>1, NameInvariant, PTL

(***************************************************************************)
(* Without them, handlers that go by the handle (fuseWrite) and handlers   *)
(* that go by the path (fuseRead, fuseTruncate) mean the same file,        *)
(* although files are renamed while they are open.                         *)
(***************************************************************************)
THEOREM HandlesMeanTheirPath ==
    ASSUME "replace" \notin Workload
    PROVE  Spec => []HandlesResolve
<1>1. NameInv => HandlesResolve
  BY NamesResolve
<1> QED
  BY <1>1, NameInvariant, PTL

-----------------------------------------------------------------------------
(* The map.                                                                *)

\* The blocks of a chain are data blocks, and so are those a truncation frees.
LEMMA ChainOfFile ==
    ASSUME TypeOK, NEW s \in Slots, rootFiles[s] # NULL
    PROVE  Chain(fatArray, rootFiles[s].firstBlock) \in Seq(DataBlocks)
<1>1. rootFiles[s].firstBlock \in Blocks
  BY DEF TypeOK, RootTypeOK, rootFile
<1> QED
  BY <1>1, ChainBlocks DEF TypeOK, FatTypeOK

LEMMA SpareBlocks ==
    ASSUME NEW chain \in Seq(DataBlocks), NEW n \in Nat
    PROVE  /\ SubSeq(chain, n + 1, Len(chain)) \in Seq(DataBlocks)
           /\ Range(SubSeq(chain, n + 1, Len(chain))) \subseteq Range(chain)
BY DEF Range

LEMMA numBlocksType ==
    ASSUME NEW size \in Nat
    PROVE  numBlocks(size) \in Nat
<1>1. BLOCK_SIZE \in Nat \ {0}
  BY LayoutAssumption
<1>2. size \div BLOCK_SIZE \in Nat
  BY <1>1
<1> QED
  BY <1>2 DEF numBlocks

\* What a call that allocates or frees does to the map.
LEMMA MapChanges ==
    ASSUME OpenInv, Changes
    PROVE  \/ UNCHANGED <<container, mounted, dmapArray, dmapDisc>>
           \/ /\ UNCHANGED <<container, mounted>>
              /\ \E s \in Seq(DataBlocks), used \in BOOLEAN : SetAll(s, used)
           \/ ~mounted' /\ UNCHANGED container
<1>1. TypeOK /\ rootFiles \in RootDirectories
  BY DEF OpenInv, TypeOK, RootTypeOK, RootDirectories
<1>2. \A s \in Slots : rootFiles[s] # NULL => rootFiles[s].st_size \in Nat
  BY <1>1, FuseAssumption DEF TypeOK, RootTypeOK, rootFile
<1>3. ASSUME NEW f, NEW k \in Int,
             NEW new \in getCertainNumberOfFreeBlocks(dmapArray, k),
             setFATBlocks(f, new), Completes("ok")
      PROVE  /\ UNCHANGED <<container, mounted>>
             /\ \E s \in Seq(DataBlocks), used \in BOOLEAN : SetAll(s, used)
  BY <1>3, AllocatedBlocks DEF setFATBlocks, Completes
<1>4. \A k : OutOfBlocks(k) => ~mounted' /\ UNCHANGED container
  BY DEF OutOfBlocks, ProcessEnds
<1>5. ASSUME NEW n \in Names, fuseUnlink(n)
      PROVE  \/ UNCHANGED <<container, mounted, dmapArray, dmapDisc>>
             \/ /\ UNCHANGED <<container, mounted>>
                /\ \E s \in Seq(DataBlocks), used \in BOOLEAN : SetAll(s, used)
  <2>1. CASE NotFound(n, "ENOENT")
    BY <2>1 DEF NotFound, Returns, Completes, fsVars
  <2>2. ASSUME NEW s \in getRootEntryFile(rootFiles, n),
               SetAll(Chain(fatArray, rootFiles[s].firstBlock), FALSE), Completes("ok")
        PROVE  /\ UNCHANGED <<container, mounted>>
               /\ \E c \in Seq(DataBlocks), used \in BOOLEAN : SetAll(c, used)
    BY <1>1, <2>2, EntryFound, ChainOfFile DEF Completes
  <2> QED
    BY <1>5, <2>1, <2>2 DEF fuseUnlink
<1>6. ASSUME NEW s \in Slots, NEW off \in Nat, NEW size \in Nat, NEW v \in Bytes,
             rootFiles[s] # NULL, WriteFile(s, off, size, v)
      PROVE  \/ /\ UNCHANGED <<container, mounted>>
                /\ \E c \in Seq(DataBlocks), used \in BOOLEAN : SetAll(c, used)
             \/ ~mounted' /\ UNCHANGED container
  <2> DEFINE f == rootFiles[s]
             k == IF off + size > f.st_size THEN blocksAll(size, off, f.st_size) ELSE 0
  <2>1. k \in Int
    BY <1>2, <1>6, blocksAllType
  <2> QED
    BY <1>3, <1>4, <1>6, <2>1 DEF WriteFile
<1>7. ASSUME NEW s \in Slots, NEW newSize \in Nat, rootFiles[s] # NULL, Extend(s, newSize)
      PROVE  \/ /\ UNCHANGED <<container, mounted>>
                /\ \E c \in Seq(DataBlocks), used \in BOOLEAN : SetAll(c, used)
             \/ ~mounted' /\ UNCHANGED container
  <2> DEFINE k == blocksAll(newSize, 0, rootFiles[s].st_size)
  <2>1. k \in Int
    BY <1>2, <1>7, blocksAllType
  <2> QED
    BY <1>3, <1>4, <1>7, <2>1 DEF Extend
<1>8. ASSUME NEW s \in Slots, NEW newSize \in Nat, rootFiles[s] # NULL, Shrink(s, newSize)
      PROVE  /\ UNCHANGED <<container, mounted>>
             /\ \E c \in Seq(DataBlocks), used \in BOOLEAN : SetAll(c, used)
  <2> DEFINE chain == Chain(fatArray, rootFiles[s].firstBlock)
             spare == SubSeq(chain, numBlocks(newSize) + 1, Len(chain))
  <2>1. spare \in Seq(DataBlocks)
    BY <1>1, <1>8, ChainOfFile, numBlocksType, SpareBlocks
  <2>2. SetAll(spare, FALSE) /\ Completes("ok")
    BY <1>8 DEF Shrink
  <2> QED
    BY <2>1, <2>2 DEF Completes
<1> QED
  BY <1>5, <1>6, <1>7, <1>8 DEF Changes

\* The inductive invariant of the map: what the container holds before the first
\* mount is what the memory holds that it does not initialise.
MapInv ==
    /\ mounted => FirstInv
    /\ ~container => ~mounted /\ dmapDisc = BlankDmapDisc

\* Neither a mount nor any other step breaks it.
LEMMA MapInvInductive ==
    ASSUME Garbage = {{}}, OpenInv, MapInv, [Next]_vars
    PROVE  MapInv'
<1>1. TypeOK /\ DmapTypeOK
  BY DEF OpenInv, TypeOK
<1>2. TypeOK'
  BY OpenInvInductive DEF OpenInv
<1>3. CASE fuseInit /\ InitExisting
  <2>1. \A b \in Blocks : b < DMAP_PER_BLOCK => dmapArray'[b] = dmapDisc'[0][b]
    BY <1>3, FirstRead DEF InitExisting, DmapRestart, DmapRead
  <2> QED
    BY <1>2, <1>3, <2>1 DEF MapInv, FirstInv, TypeOK, InitExisting
<1>4. CASE fuseInit /\ InitNew
  <2>1. /\ \A b \in Blocks : ~dmapArray'[b]
        /\ dmapDisc' = BlankDmapDisc /\ container'
    BY <1>4 DEF InitNew, MapInv
  <2>2. 0 \in DmapGroups /\ \A b \in Blocks : b < DMAP_PER_BLOCK => b \in DmapOffsets
    <3>1. 0 \in Blocks
      BY EndIsNoDataBlock DEF FAT_END
    <3> QED
      BY <3>1, PlaceOfBlock, PlaceInFirstBlock, LayoutAssumption
  <2>3. \A b \in Blocks : b < DMAP_PER_BLOCK => dmapDisc'[0][b] = dmapArray'[b]
    <3>1. \A b \in Blocks : dmapArray'[b] \in BOOLEAN
      BY <1>2 DEF TypeOK, DmapTypeOK
    <3>2. \A b \in Blocks : dmapArray'[b] = FALSE
      BY <2>1, <3>1
    <3> QED
      BY <2>1, <2>2, <3>2 DEF BlankDmapDisc
  <2> QED
    BY <1>2, <2>1, <2>3 DEF MapInv, FirstInv, TypeOK
<1>5. CASE Rests \/ Stores
  BY <1>5 DEF Rests, Stores, MapInv, FirstInv, DmapTypeOK
<1>6. CASE Ends
  BY <1>6 DEF Ends, ProcessEnds, MapInv
<1>7. CASE Changes
  <2>1. mounted /\ container /\ FirstInv
    BY <1>7 DEF Changes, MapInv
  <2>2. CASE UNCHANGED <<container, mounted, dmapArray, dmapDisc>>
    BY <2>2 DEF MapInv, FirstInv, DmapTypeOK
  <2>3. ASSUME NEW s \in Seq(DataBlocks), NEW used \in BOOLEAN, SetAll(s, used),
               UNCHANGED <<container, mounted>>
        PROVE  MapInv'
    BY <2>1, <2>3, SetAllFirst DEF MapInv
  <2>4. CASE ~mounted' /\ UNCHANGED container
    BY <2>1, <2>4 DEF MapInv
  <2> QED
    BY <1>7, <2>2, <2>3, <2>4, MapChanges
<1> QED
  BY <1>3, <1>4, <1>5, <1>6, <1>7, StepKinds DEF fuseInit

(***************************************************************************)
(* On a map that starts clean, a kill between two calls costs nothing of   *)
(* the first device block of the map, whatever the clients do: every       *)
(* handler writes what it takes and frees, and DMAP::init reads it back.   *)
(***************************************************************************)
THEOREM MapSurvives ==
    ASSUME Garbage = {{}}
    PROVE  Spec => []MapPersisted
<1>1. Init => MapInv
  BY DEF Init, DmapInit, MapInv
<1>2. OpenInv /\ MapInv /\ [Next]_vars => MapInv'
  BY MapInvInductive
<1>3. MapInv => MapPersisted
  BY FirstRead DEF MapInv, FirstInv, MapPersisted, FirstDmapBlockPersisted
<1> QED
  BY <1>1, <1>2, <1>3, OpenInvariant, PTL DEF Spec
=============================================================================
