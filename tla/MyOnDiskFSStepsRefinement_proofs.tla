----------------- MODULE MyOnDiskFSStepsRefinement_proofs -----------------
EXTENDS MyOnDiskFSStepsRefinement, MyOnDiskFSSteps_proofs

-----------------------------------------------------------------------------
(***************************************************************************)
(* The handlers that change the tables, one read or write of a block at a  *)
(* time, implement the atomic actions of MyOnDiskFS.                       *)
(*                                                                         *)
(* The state seen from outside while a handler runs is the one in which it *)
(* was called (MyOnDiskFSStepsRefinement). So the steps of a handler but   *)
(* the last are stutters, and the last one must take that state to what    *)
(* the atomic action makes of it at once. The inductive invariant says, at *)
(* each place a handler can be, how its state differs from the one in      *)
(* which it was called: which blocks have been taken, how many of them     *)
(* linked, how many blocks written, how many freed in the map and in the   *)
(* table, and which entries deleted (DoneSoFar). One lemma per step keeps  *)
(* it, and at the last step the invariant is the effect of the action.     *)
(***************************************************************************)

-----------------------------------------------------------------------------
(* What is seen from outside.                                              *)

\* The operators of MyOnDiskFS that do not look at the state.
LEMMA SameTables ==
    /\ R!Blocks = Blocks /\ R!DataBlocks = DataBlocks /\ R!FAT_END = FAT_END
    /\ R!BlankFat = BlankFat /\ R!BlankDmap = BlankDmap
    /\ \A d : R!DmapRead(d) = DmapRead(d) /\ R!FreeBlocks(d) = FreeBlocks(d)
    /\ \A d, k : R!getCertainNumberOfFreeBlocks(d, k) = getCertainNumberOfFreeBlocks(d, k)
    /\ \A d, s, u : R!Marked(d, s, u) = Marked(d, s, u)
    /\ \A e, d, s, u : R!DmapDiscWrite(e, d, s, u) = DmapDiscWrite(e, d, s, u)
    /\ \A f, x : R!Chain(f, x) = Chain(f, x) /\ R!Unlinked(f, x) = Unlinked(f, x)
    /\ \A f, x, n : /\ R!getNth(f, x, n) = getNth(f, x, n)
                    /\ R!FatDiscWrite(f, x, n) = FatDiscWrite(f, x, n)
                    /\ R!Linked(f, x, n) = Linked(f, x, n)
<1>1. R!Blocks = Blocks /\ R!DataBlocks = DataBlocks /\ R!FAT_END = FAT_END
  BY DEF R!Blocks, Blocks, R!DataBlocks, DataBlocks, R!FAT_END, FAT_END
<1>2. R!BlankFat = BlankFat /\ R!BlankDmap = BlankDmap
  BY <1>1 DEF R!BlankFat, BlankFat, R!BlankDmap, BlankDmap
<1>3. \A S : R!Cardinality(S) = Cardinality(S)
  BY DEF R!Cardinality, Cardinality, R!IsFiniteSet, IsFiniteSet
<1>4. \A d : R!DmapRead(d) = DmapRead(d) /\ R!FreeBlocks(d) = FreeBlocks(d)
  BY <1>1 DEF R!DmapRead, DmapRead, R!FreeBlocks, FreeBlocks
<1>5. \A d, k : R!getCertainNumberOfFreeBlocks(d, k) = getCertainNumberOfFreeBlocks(d, k)
  BY <1>3, <1>4 DEF R!getCertainNumberOfFreeBlocks, getCertainNumberOfFreeBlocks
<1>6. \A d, s, u : R!Marked(d, s, u) = Marked(d, s, u)
  BY <1>1 DEF R!Marked, Marked
<1>7. R!DmapGroups = DmapGroups /\ R!DmapOffsets = DmapOffsets
  BY DEF R!DmapGroups, DmapGroups, R!DmapOffsets, DmapOffsets
<1>8. \A e, d, s, u : R!DmapDiscWrite(e, d, s, u) = DmapDiscWrite(e, d, s, u)
  BY <1>7 DEF R!DmapDiscWrite, DmapDiscWrite
<1>9. \A f, x, n : R!getNth(f, x, n) = getNth(f, x, n)
  BY DEF R!getNth, getNth
<1>10. \A f, x : R!Chain(f, x) = Chain(f, x)
  BY <1>1, <1>9 DEF R!Chain, Chain
<1>11. \A f, x : R!Unlinked(f, x) = Unlinked(f, x)
  BY <1>1 DEF R!Unlinked, Unlinked
<1>12. \A f, x, n : R!FatDiscWrite(f, x, n) = FatDiscWrite(f, x, n)
  BY <1>1 DEF R!FatDiscWrite, FatDiscWrite
<1>13. \A f, x, n : R!Linked(f, x, n) = Linked(f, x, n)
  BY <1>1 DEF R!Linked, Linked
<1> QED
  BY <1>1, <1>2, <1>4, <1>5, <1>6, <1>8, <1>9, <1>10, <1>11, <1>12, <1>13

\* The operators of MyOnDiskFS on the root directory, on handles and on a file
\* too: they only look at their arguments.
LEMMA SameDirectory ==
    /\ R!Slots = Slots /\ R!Handles = Handles /\ R!EmptyDirectory = EmptyDirectory
    /\ \A S : R!Cardinality(S) = Cardinality(S)
    /\ \A d, n : /\ R!Named(d, n) = Named(d, n)
                 /\ R!getRootEntryFile(d, n) = getRootEntryFile(d, n)
    /\ \A d : R!FreeSlot(d) = FreeSlot(d) /\ R!ListedNames(d) = ListedNames(d)
    /\ \A n : R!NewFile(n) = NewFile(n) /\ (R!NameTooLong(n) <=> NameTooLong(n))
    /\ \A x : R!numBlocks(x) = numBlocks(x)
    /\ \A x, y, z : R!blocksAll(x, y, z) = blocksAll(x, y, z)
    /\ \A f, s : R!FirstBlock(f, s) = FirstBlock(f, s)
<1>1. R!Slots = Slots /\ R!Handles = Handles
  BY DEF R!Slots, Slots, R!Handles, Handles
<1>2. R!EmptyDirectory = EmptyDirectory
  BY <1>1 DEF R!EmptyDirectory, EmptyDirectory
<1>3. \A S : R!Cardinality(S) = Cardinality(S)
  BY DEF R!Cardinality, Cardinality, R!IsFiniteSet, IsFiniteSet
<1>4. \A d, n : R!Named(d, n) = Named(d, n)
  BY <1>1 DEF R!Named, Named
<1>5. \A d, n : R!getRootEntryFile(d, n) = getRootEntryFile(d, n)
  BY <1>1, <1>4 DEF R!getRootEntryFile, getRootEntryFile
<1>6. \A d : R!FreeSlot(d) = FreeSlot(d)
  BY <1>1 DEF R!FreeSlot, FreeSlot
<1>7. \A d : R!ListedNames(d) = ListedNames(d)
  BY DEF R!ListedNames, ListedNames, R!Slots, Slots, R!Cardinality, Cardinality,
     R!IsFiniteSet, IsFiniteSet
<1>8. R!FAT_END = FAT_END
  BY DEF R!FAT_END, FAT_END
<1>9. \A n : R!NewFile(n) = NewFile(n) /\ (R!NameTooLong(n) <=> NameTooLong(n))
  BY <1>8 DEF R!NewFile, NewFile, R!NameTooLong, NameTooLong
<1>10. \A x : R!numBlocks(x) = numBlocks(x)
  BY DEF R!numBlocks, numBlocks
<1>11. \A x, y, z : R!blocksAll(x, y, z) = blocksAll(x, y, z)
  BY <1>10 DEF R!blocksAll, blocksAll
<1>12. \A f, s : R!FirstBlock(f, s) = FirstBlock(f, s)
  BY <1>8 DEF R!FirstBlock, FirstBlock
<1> QED
  BY <1>1, <1>2, <1>3, <1>4, <1>5, <1>6, <1>7, <1>9, <1>10, <1>11, <1>12

\* When no handler runs, the state is seen as it is.
LEMMA SeenIdle ==
    /\ run = NULL =>
          /\ Seen.container = container /\ Seen.mounted = mounted
          /\ Seen.rootFiles = rootFiles /\ Seen.rootDisc = rootDisc
          /\ Seen.fatArray = fatArray /\ Seen.fatDisc = fatDisc
          /\ Seen.dmapArray = dmapArray /\ Seen.dmapDisc = dmapDisc
          /\ Seen.blockData = blockData /\ Seen.openFiles = openFiles
          /\ Seen.openCount = openCount /\ Seen.handles = handles
          /\ Seen.call = call /\ Seen.ret = ret /\ Seen.buf = buf
    /\ run' = NULL =>
          /\ Seen'.container = container' /\ Seen'.mounted = mounted'
          /\ Seen'.rootFiles = rootFiles' /\ Seen'.rootDisc = rootDisc'
          /\ Seen'.fatArray = fatArray' /\ Seen'.fatDisc = fatDisc'
          /\ Seen'.dmapArray = dmapArray' /\ Seen'.dmapDisc = dmapDisc'
          /\ Seen'.blockData = blockData' /\ Seen'.openFiles = openFiles'
          /\ Seen'.openCount = openCount' /\ Seen'.handles = handles'
          /\ Seen'.call = call' /\ Seen'.ret = ret' /\ Seen'.buf = buf'
BY DEF Seen, StateNow

\* A step from a state in which no handler runs to another.
Resting == run = NULL /\ run' = NULL

\* What a handler answers, and the end of the process, look the same from
\* outside when no handler runs before or after.
LEMMA SameReturns ==
    ASSUME Resting
    PROVE  /\ \A r : Replies(r) => R!Replies(r)
           /\ \A r : Completes(r) => R!Completes(r)
           /\ \A r : Returns(r) => R!Returns(r)
           /\ \A b : Reports(b) => R!Reports(b)
           /\ \A r : ProcessEnds(r) => R!ProcessEnds(r)
           /\ \A s, f : StoreEntry(s, f) => R!StoreEntry(s, f)
           /\ \A s, f : UpdateEntry(s, f) => R!UpdateEntry(s, f)
           /\ GoesAstray => R!GoesAstray
           /\ \A n, r : NotFound(n, r) => R!NotFound(n, r)
           /\ \A n : IsOpen(n) <=> R!IsOpen(n)
<1> USE SeenIdle DEF Resting
<1>1. \A r : Replies(r) => R!Replies(r)
  BY DEF Replies, R!Replies
<1>2. \A r : Completes(r) => R!Completes(r)
  BY <1>1 DEF Completes, R!Completes
<1>3. UNCHANGED fsVars => UNCHANGED R!fsVars
  BY DEF fsVars, R!fsVars
<1>4. UNCHANGED openVars => UNCHANGED R!openVars
  BY DEF openVars, R!openVars
<1>5. \A r : Returns(r) => R!Returns(r)
  BY <1>2, <1>3, <1>4 DEF Returns, R!Returns
<1>6. \A b : Reports(b) => R!Reports(b)
  BY <1>3, <1>4 DEF Reports, R!Reports
<1>7. NothingOpen => R!NothingOpen
  BY SameDirectory DEF NothingOpen, R!NothingOpen
<1>8. \A r : ProcessEnds(r) => R!ProcessEnds(r)
  BY <1>1, <1>7, SameDirectory, SameTables DEF ProcessEnds, R!ProcessEnds
<1>9. \A s, f : StoreEntry(s, f) => R!StoreEntry(s, f)
  BY DEF StoreEntry, R!StoreEntry
<1>10. \A s, f : UpdateEntry(s, f) => R!UpdateEntry(s, f)
  BY <1>2, <1>4, <1>9 DEF UpdateEntry, R!UpdateEntry
<1>11. GoesAstray => R!GoesAstray
  BY <1>8 DEF GoesAstray, R!GoesAstray
<1>12. \A n, r : NotFound(n, r) => R!NotFound(n, r)
  BY <1>5, SameDirectory DEF NotFound, R!NotFound
<1>13. \A n : IsOpen(n) <=> R!IsOpen(n)
  BY SameDirectory DEF IsOpen, R!IsOpen
<1> QED
  BY <1>1, <1>2, <1>5, <1>6, <1>8, <1>9, <1>10, <1>11, <1>12, <1>13

\* The handlers that write one block at most are seen as they are.
LEMMA SameShort ==
    ASSUME Resting, ShortHandler
    PROVE  R!Next
<1> USE SeenIdle DEF Resting
<1>1. fuseInit => R!fuseInit
  <2>1. InitExisting => R!InitExisting
    BY SameTables DEF InitExisting, R!InitExisting, initRootDir, R!initRootDir, DmapRestart,
       R!DmapRestart, FatRestart, R!FatRestart
  <2>2. InitNew => R!InitNew
    BY SameTables, SameDirectory DEF InitNew, R!InitNew, rootInit, R!rootInit
  <2> QED
    <3> SUFFICES ASSUME fuseInit PROVE R!fuseInit
      OBVIOUS
    <3>1. R!Replies("ok") /\ (R!InitExisting \/ R!InitNew)
      BY <2>1, <2>2, SameReturns DEF fuseInit
    <3>2. UNCHANGED <<Seen.blockData, R!openVars>>
      BY DEF fuseInit, openVars, R!openVars
    <3> QED
      BY <3>1, <3>2 DEF fuseInit, R!fuseInit
<1>2. fuseDestroy \/ Kill => R!fuseDestroy \/ R!Kill
  BY SameReturns, SameDirectory DEF fuseDestroy, R!fuseDestroy, Kill, R!Kill
<1>3. Undefined => R!Undefined
  BY DEF Undefined, R!Undefined, vars, R!vars, fsVars, R!fsVars, openVars, R!openVars
<1>4. \A n, mode : fuseMknod(n, mode) => R!fuseMknod(n, mode)
  BY SameReturns, SameDirectory DEF fuseMknod, R!fuseMknod
<1>5. \A p, q : fuseRename(p, q) => R!fuseRename(p, q)
  <2>1. \A p, q : R!Renamed(p, q) = Renamed(p, q)
    BY SameDirectory DEF R!Renamed, Renamed
  <2>2. ASSUME NEW p, NEW q, fuseRename(p, q)
        PROVE  R!fuseRename(p, q)
    <3>1. /\ Seen'.call = <<"rename", p, q>> /\ Seen.mounted /\ p # q /\ ~R!IsOpen(q)
          /\ "replace" \in Workload \/ R!Named(Seen.rootFiles, q) = {}
      BY <2>2, SameReturns, SameDirectory DEF fuseRename
    <3>2. CASE NameTooLong(q) /\ Returns("EINVAL")
      BY <3>1, <3>2, SameReturns, SameDirectory DEF R!fuseRename
    <3>3. CASE ~NameTooLong(q) /\ NotFound(p, "ENOENT")
      BY <3>1, <3>3, SameReturns, SameDirectory DEF R!fuseRename
    <3>4. CASE /\ ~NameTooLong(q)
               /\ \E s \in getRootEntryFile(rootFiles, p) :
                     StoreEntry(s, [rootFiles[s] EXCEPT !.name = q])
               /\ handles' = Renamed(p, q)
               /\ Completes("ok")
               /\ UNCHANGED <<fatArray, fatDisc, dmapArray, dmapDisc, blockData, openFiles,
                              openCount>>
      <4>1. ~R!NameTooLong(q) /\ Seen'.handles = R!Renamed(p, q) /\ R!Completes("ok")
        BY <2>1, <3>4, SameReturns, SameDirectory
      <4>2. PICK s \in R!getRootEntryFile(Seen.rootFiles, p) :
               R!StoreEntry(s, [Seen.rootFiles[s] EXCEPT !.name = q])
        BY <3>4, SameReturns, SameDirectory
      <4>3. UNCHANGED <<Seen.fatArray, Seen.fatDisc, Seen.dmapArray, Seen.dmapDisc,
                        Seen.blockData, Seen.openFiles, Seen.openCount>>
        BY <3>4
      <4> QED
        BY <3>1, <4>1, <4>2, <4>3 DEF R!fuseRename
    <3> QED
      BY <2>2, <3>2, <3>3, <3>4 DEF fuseRename
  <2> QED
    BY <2>2
<1>6. \A n : fuseGetattr(n) => R!fuseGetattr(n)
  BY SameReturns, SameDirectory DEF fuseGetattr, R!fuseGetattr
<1>7. \A n, x : (fuseChmod(n, x) => R!fuseChmod(n, x)) /\ (fuseChown(n, x) => R!fuseChown(n, x))
  BY SameReturns, SameDirectory DEF fuseChmod, R!fuseChmod, fuseChown, R!fuseChown
<1>8. fuseReaddir => R!fuseReaddir
  BY SameReturns, SameDirectory DEF fuseReaddir, R!fuseReaddir
<1>9. \A n : fuseOpen(n) => R!fuseOpen(n)
  <2>1. R!getIndexOpen = getIndexOpen
    BY SameDirectory DEF R!getIndexOpen, getIndexOpen
  <2> QED
    <3> SUFFICES ASSUME NEW n, fuseOpen(n) PROVE R!fuseOpen(n)
      OBVIOUS
    <3>1. call' = <<"open", n>> /\ mounted
      BY DEF fuseOpen
    <3>2. CASE NotFound(n, "ENOENT")
      BY <3>1, <3>2, SameReturns DEF R!fuseOpen
    <3>3. CASE getRootEntryFile(rootFiles, n) # {} /\ openCount = NUM_OPEN_FILES /\ Returns("EMFILE")
      BY <3>1, <3>3, SameReturns, SameDirectory DEF R!fuseOpen
    <3>4. ASSUME openCount # NUM_OPEN_FILES,
                 NEW s \in getRootEntryFile(rootFiles, n), NEW h \in getIndexOpen,
                 openFiles' = [openFiles EXCEPT ![h] = s], handles' = [handles EXCEPT ![h] = n],
                 openCount' = openCount + 1, Completes("ok"), UNCHANGED fsVars
          PROVE  R!fuseOpen(n)
      <4>1. R!Completes("ok") /\ UNCHANGED R!fsVars
        BY <3>4, SameReturns DEF fsVars, R!fsVars
      <4>2. s \in R!getRootEntryFile(Seen.rootFiles, n) /\ h \in R!getIndexOpen
        BY <2>1, <3>4, SameDirectory
      <4> QED
        <5>1. \E t \in R!getRootEntryFile(Seen.rootFiles, n), g \in R!getIndexOpen :
                 /\ Seen'.openFiles = [Seen.openFiles EXCEPT ![g] = t]
                 /\ Seen'.handles = [Seen.handles EXCEPT ![g] = n]
          BY <3>4, <4>2
        <5> QED
          BY <3>1, <3>4, <4>1, <5>1 DEF R!fuseOpen
    <3> QED
      BY <3>2, <3>3, <3>4 DEF fuseOpen
<1>10. \A h : fuseRelease(h) => R!fuseRelease(h)
  <2> SUFFICES ASSUME NEW h, fuseRelease(h) PROVE R!fuseRelease(h)
    OBVIOUS
  <2>1. R!getRootEntryFile(Seen.rootFiles, Seen.handles[h]) = getRootEntryFile(rootFiles, handles[h])
    BY SameDirectory
  <2>2. UNCHANGED R!fsVars
    BY DEF fuseRelease, fsVars, R!fsVars
  <2>3. CloseHandle(h) => R!CloseHandle(h)
    BY DEF CloseHandle, R!CloseHandle
  <2>4. \A r : Completes(r) => R!Completes(r)
    BY SameReturns
  <2> QED
    BY <2>1, <2>2, <2>3, <2>4 DEF fuseRelease, R!fuseRelease
<1>11. \A h, off, size : fuseRead(h, off, size) => R!fuseRead(h, off, size)
  <2>1. \A fat, first, i : R!ByteAt(fat, first, i) = ByteAt(fat, first, i)
    BY SameTables DEF R!ByteAt, ByteAt
  <2> QED
    <3> SUFFICES ASSUME NEW h, NEW off, NEW size, fuseRead(h, off, size)
                 PROVE  R!fuseRead(h, off, size)
      OBVIOUS
    <3>1. call' = <<"read", h, off, size>> /\ mounted /\ handles[h] # NULL
      BY DEF fuseRead
    <3>2. CASE NotFound(handles[h], "EEXIST") \/ (openFiles[h] = NULL /\ Returns("EBADF"))
      BY <3>1, <3>2, SameReturns DEF R!fuseRead
    <3> DEFINE f(s) == rootFiles[s]
               n(s) == IF off + size > f(s).st_size THEN f(s).st_size - off ELSE size
               got(s) == [i \in 1..n(s) |-> ByteAt(fatArray, f(s).firstBlock, off + i - 1)]
    <3>3. ASSUME NEW s \in getRootEntryFile(rootFiles, handles[h]), openFiles[h] # NULL,
                 "replace" \in Workload \/ off <= f(s).st_size,
                 IF n(s) < 0 THEN Returns("wrapped") \/ GoesAstray ELSE Reports(got(s))
          PROVE  R!fuseRead(h, off, size)
      <4>1. s \in R!getRootEntryFile(Seen.rootFiles, Seen.handles[h])
        BY <3>3, SameDirectory
      <4>2. got(s) = [i \in 1..n(s) |->
                        R!ByteAt(Seen.fatArray, Seen.rootFiles[s].firstBlock, off + i - 1)]
        BY <2>1
      <4>3. IF n(s) < 0 THEN R!Returns("wrapped") \/ R!GoesAstray ELSE R!Reports(got(s))
        BY <3>3, SameReturns
      <4> QED
        BY <3>1, <3>3, <4>1, <4>2, <4>3 DEF R!fuseRead
    <3> QED
      BY <3>2, <3>3 DEF fuseRead
<1> QED
  BY <1>1, <1>2, <1>3, <1>4, <1>5, <1>6, <1>7, <1>8, <1>9, <1>10, <1>11,
     SameDirectory DEF ShortHandler, R!Next
-----------------------------------------------------------------------------
(* One block after the other.                                              *)

\* A block more at the end of a sequence of blocks.
LEMMA BlockAppended ==
    ASSUME NEW s \in Seq(DataBlocks), NEW x \in DataBlocks
    PROVE  /\ Append(s, x) \in Seq(DataBlocks)
           /\ Len(s) \in Nat /\ Len(Append(s, x)) = Len(s) + 1
           /\ \A i \in 1..Len(s) : Append(s, x)[i] = s[i]
           /\ Append(s, x)[Len(s) + 1] = x
           /\ 1..(Len(s) + 1) = 1..Len(s) \cup {Len(s) + 1}
OBVIOUS

\* The map after the blocks of a sequence have been set, one by one.
LEMMA MarkedOneMore ==
    ASSUME NEW dmap \in [Blocks -> BOOLEAN], NEW used \in BOOLEAN,
           NEW s \in Seq(DataBlocks), NEW x \in DataBlocks
    PROVE  [Marked(dmap, s, used) EXCEPT ![x] = used] = Marked(dmap, Append(s, x), used)
<1> DEFINE t == Append(s, x)
<1>1. /\ Len(t) = Len(s) + 1 /\ Len(s) \in Nat
      /\ \A i \in 1..Len(s) : t[i] = s[i]
      /\ t[Len(s) + 1] = x /\ 1..Len(t) = 1..Len(s) \cup {Len(s) + 1}
  BY BlockAppended
<1> HIDE DEF t
<1>2. \A b \in Blocks : (\E i \in 1..Len(t) : t[i] = b) <=> (\E i \in 1..Len(s) : s[i] = b) \/ b = x
  BY <1>1
<1>3. Marked(dmap, t, used) = [Marked(dmap, s, used) EXCEPT ![x] = used]
  BY <1>2 DEF Marked
<1> QED
  BY <1>3 DEF t

\* The same for the container, whose blocks keep the window of the last of
\* their settings.
LEMMA DiscOneMore ==
    ASSUME NEW dmap \in [Blocks -> BOOLEAN], NEW used \in BOOLEAN, NEW disc,
           NEW s \in Seq(DataBlocks), NEW x \in DataBlocks
    PROVE  DmapDiscWrite(DmapDiscWrite(disc, dmap, s, used), Marked(dmap, s, used), <<x>>, used)
              = DmapDiscWrite(disc, dmap, Append(s, x), used)
<1> DEFINE t == Append(s, x)
           n == Len(s)
<1>1. /\ Len(t) = n + 1 /\ n \in Nat
      /\ \A i \in 1..n : t[i] = s[i]
      /\ t[n + 1] = x /\ 1..Len(t) = 1..n \cup {n + 1}
  BY BlockAppended
<1> HIDE DEF t
<1> SUFFICES ASSUME NEW k \in DmapGroups
             PROVE  DmapDiscWrite(DmapDiscWrite(disc, dmap, s, used), Marked(dmap, s, used), <<x>>, used)[k]
                       = DmapDiscWrite(disc, dmap, t, used)[k]
  BY DEF DmapDiscWrite, t
<1> DEFINE hits(u) == {i \in 1..Len(u) : u[i] \div DMAP_PER_BLOCK = k}
           last(u) == CHOOSE i \in hits(u) : \A h \in hits(u) : h <= i
<1>2. \A e, d, u : hits(u) = {} => DmapDiscWrite(e, d, u, used)[k] = e[k]
  BY DEF DmapDiscWrite
<1>3. \A e, d, u : hits(u) # {} =>
         DmapDiscWrite(e, d, u, used)[k]
            = [j \in DmapOffsets |-> IF \E i \in 1..Len(u) : i <= last(u) /\ u[i] = k + j
                                     THEN used ELSE d[k + j]]
  BY DEF DmapDiscWrite
<1> DEFINE e0 == DmapDiscWrite(disc, dmap, s, used)
           d0 == Marked(dmap, s, used)
<1>4. CASE x \div DMAP_PER_BLOCK # k
  <2>1. hits(<<x>>) = {}
    BY <1>4
  <2>2. hits(t) = hits(s)
    BY <1>1, <1>4
  <2>3. last(t) = last(s)
    BY <2>2
  <2>4. hits(s) \subseteq 1..n
    OBVIOUS
  <2> HIDE DEF e0, d0
  <2>5. DmapDiscWrite(e0, d0, <<x>>, used)[k] = e0[k]
    BY <1>2, <2>1
  <2>6. CASE hits(s) = {}
    <3>1. e0[k] = disc[k] /\ DmapDiscWrite(disc, dmap, t, used)[k] = disc[k]
      <4> HIDE DEF hits
      <4> QED
        BY <1>2, <2>2, <2>6 DEF e0
    <3> QED
      BY <2>5, <3>1 DEF e0, d0
  <2>7. CASE hits(s) # {}
    <3>1. PICK m \in hits(s) : \A h \in hits(s) : h <= m
      <4> HIDE DEF hits, n
      <4> QED
        BY <1>1, <2>7, <2>4, LargestIndex
    <3>2. last(s) \in 1..n
      <4>1. last(s) \in hits(s)
        <5> HIDE DEF hits
        <5> QED
          BY <3>1
      <4> QED
        BY <2>4, <4>1
    <3> DEFINE l == last(s)
               w(u) == [j \in DmapOffsets |-> IF \E i \in 1..Len(u) : i <= l /\ u[i] = k + j
                                              THEN used ELSE dmap[k + j]]
    <3> HIDE DEF last, hits
    <3>3. e0[k] = w(s) /\ DmapDiscWrite(disc, dmap, t, used)[k] = w(t)
      BY <1>3, <2>2, <2>3, <2>7 DEF e0
    <3>4. \A j \in DmapOffsets : (\E i \in 1..Len(t) : i <= l /\ t[i] = k + j)
                                 <=> (\E i \in 1..n : i <= l /\ s[i] = k + j)
      BY <1>1, <3>2
    <3>5. w(t) = w(s)
      BY <3>4
    <3> HIDE DEF w
    <3> QED
      BY <2>5, <3>3, <3>5 DEF e0, d0
  <2> QED
    BY <2>6, <2>7
<1>5. CASE x \div DMAP_PER_BLOCK = k
  <2> DEFINE y == <<x>>
  <2>1. hits(y) # {} /\ last(y) = 1 /\ Len(y) = 1 /\ y[1] = x
    <3>1. hits(y) = {1} /\ Len(y) = 1 /\ y[1] = x
      BY <1>5
    <3> QED
      BY <3>1
  <2>2. hits(t) # {} /\ last(t) = n + 1
    <3>1. n + 1 \in hits(t) /\ \A h \in hits(t) : h <= n + 1 /\ h \in Int
      BY <1>1, <1>5
    <3> HIDE DEF hits
    <3>2. \A l \in hits(t) : (\A h \in hits(t) : h <= l) => l = n + 1
      BY <1>1, <3>1
    <3> QED
      BY <3>1, <3>2
  <2> HIDE DEF last, hits, e0, d0, y
  <2>3. DmapDiscWrite(e0, d0, y, used)[k]
           = [j \in DmapOffsets |-> IF \E i \in 1..Len(y) : i <= last(y) /\ y[i] = k + j
                                    THEN used ELSE d0[k + j]]
    BY <1>3, <2>1
  <2>4. DmapDiscWrite(disc, dmap, t, used)[k]
           = [j \in DmapOffsets |-> IF \E i \in 1..Len(t) : i <= n + 1 /\ t[i] = k + j
                                    THEN used ELSE dmap[k + j]]
    BY <1>3, <2>2
  <2>5. \A j \in DmapOffsets :
           (IF \E i \in 1..Len(y) : i <= 1 /\ y[i] = k + j THEN used ELSE d0[k + j])
              = IF \E i \in 1..Len(t) : i <= n + 1 /\ t[i] = k + j THEN used ELSE dmap[k + j]
    <3> SUFFICES ASSUME NEW j \in DmapOffsets
                 PROVE  (IF \E i \in 1..Len(y) : i <= 1 /\ y[i] = k + j
                         THEN used ELSE d0[k + j])
                           = IF \E i \in 1..Len(t) : i <= n + 1 /\ t[i] = k + j
                             THEN used ELSE dmap[k + j]
      OBVIOUS
    <3>1. k + j \in Blocks
      BY WindowInside
    <3>2. d0[k + j] = IF \E i \in 1..n : s[i] = k + j THEN used ELSE dmap[k + j]
      BY <3>1 DEF Marked, d0
    <3>3. (\E i \in 1..Len(t) : i <= n + 1 /\ t[i] = k + j)
             <=> x = k + j \/ \E i \in 1..n : s[i] = k + j
      BY <1>1
    <3>4. (\E i \in 1..Len(y) : i <= 1 /\ y[i] = k + j) <=> x = k + j
      BY <2>1
    <3> QED
      BY <3>2, <3>3, <3>4
  <2> QED
    BY <2>1, <2>3, <2>4, <2>5 DEF e0, d0, y
<1> QED
  BY <1>4, <1>5

\* No block, no change.
LEMMA NothingMarked ==
    ASSUME NEW dmap \in [Blocks -> BOOLEAN],
           NEW disc \in [DmapGroups -> [DmapOffsets -> BOOLEAN]], NEW used
    PROVE  Marked(dmap, <<>>, used) = dmap /\ DmapDiscWrite(disc, dmap, <<>>, used) = disc
BY DEF Marked, DmapDiscWrite

\* The blocks that have been taken, if they are the first of the free ones.
LEMMA TakenAre ==
    ASSUME NEW dmap \in [Blocks -> BOOLEAN], NEW s \in Seq(DataBlocks),
           s \in getCertainNumberOfFreeBlocks(dmap, Len(s))
    PROVE  /\ Distinct(s) /\ Len(s) \in Nat
           /\ Range(s) \subseteq FreeBlocks(dmap)
           /\ FreeBlocks(Marked(dmap, s, TRUE)) = FreeBlocks(dmap) \ Range(s)
           /\ \A i, j \in 1..Len(s) : i < j => s[i] < s[j]
           /\ \A i \in 1..Len(s) : \A b \in FreeBlocks(dmap) : b < s[i] => b \in Range(s)
<1>1. /\ s \in [1..Len(s) -> FreeBlocks(dmap)]
      /\ \A i, j \in 1..Len(s) : i < j => s[i] < s[j]
      /\ \A i \in 1..Len(s) : \A b \in FreeBlocks(dmap) :
            b < s[i] => \E j \in 1..Len(s) : s[j] = b
  BY DEF getCertainNumberOfFreeBlocks
<1>2. Len(s) \in Nat /\ \A i \in 1..Len(s) : s[i] \in Nat
  BY LayoutAssumption DEF DataBlocks
<1>3. Distinct(s)
  BY <1>1, <1>2 DEF Distinct
<1>4. \A b : b \in Range(s) <=> \E i \in 1..Len(s) : s[i] = b
  BY DEF Range
<1>5. Range(s) \subseteq FreeBlocks(dmap)
  BY <1>1, <1>4
<1>6. FreeBlocks(Marked(dmap, s, TRUE)) = FreeBlocks(dmap) \ Range(s)
  BY <1>4, EndIsNoDataBlock DEF FreeBlocks, Marked
<1> QED
  BY <1>1, <1>2, <1>3, <1>4, <1>5, <1>6

\* There are finitely many free blocks.
LEMMA FreeBlocksFinite ==
    ASSUME NEW dmap
    PROVE  IsFiniteSet(FreeBlocks(dmap)) /\ Cardinality(FreeBlocks(dmap)) \in Nat
<1>1. IsFiniteSet(DataBlocks)
  BY LayoutAssumption, FS_Interval DEF DataBlocks
<1>2. FreeBlocks(dmap) \subseteq DataBlocks
  BY DEF FreeBlocks
<1> QED
  BY <1>1, <1>2, FS_Subset, FS_CardinalityType

\* The first block that is free then is the next one of the allocation.
LEMMA OneMoreFree ==
    ASSUME NEW dmap \in [Blocks -> BOOLEAN], NEW s \in Seq(DataBlocks),
           s \in getCertainNumberOfFreeBlocks(dmap, Len(s)),
           NEW b \in FreeBlocks(Marked(dmap, s, TRUE)),
           \A c \in FreeBlocks(Marked(dmap, s, TRUE)) : b <= c
    PROVE  /\ b \in DataBlocks
           /\ Append(s, b) \in getCertainNumberOfFreeBlocks(dmap, Len(s) + 1)
<1> DEFINE t == Append(s, b)
           n == Len(s)
           F == FreeBlocks(dmap)
<1>1. /\ Distinct(s) /\ Range(s) \subseteq F
      /\ b \in F /\ b \notin Range(s) /\ \A c \in F : c \notin Range(s) => b <= c
      /\ \A i, j \in 1..n : i < j => s[i] < s[j]
      /\ \A i \in 1..n : \A c \in F : c < s[i] => c \in Range(s)
  <2>1. /\ Distinct(s) /\ Range(s) \subseteq F
        /\ FreeBlocks(Marked(dmap, s, TRUE)) = F \ Range(s)
        /\ \A i, j \in 1..n : i < j => s[i] < s[j]
        /\ \A i \in 1..n : \A c \in F : c < s[i] => c \in Range(s)
    BY TakenAre
  <2>2. b \in F /\ b \notin Range(s) /\ \A c \in F : c \notin Range(s) => b <= c
    <3> HIDE DEF F
    <3> QED
      BY <2>1
  <2> QED
    BY <2>1, <2>2
<1>2. b \in DataBlocks /\ b \in Int /\ F \subseteq Int /\ F \subseteq DataBlocks
  BY <1>1, LayoutAssumption DEF FreeBlocks, DataBlocks
<1>3. /\ t \in Seq(DataBlocks) /\ Len(t) = n + 1 /\ n \in Nat
      /\ \A i \in 1..n : t[i] = s[i]
      /\ t[n + 1] = b /\ 1..(n + 1) = 1..n \cup {n + 1}
  BY <1>2, BlockAppended
<1>4. \A c : (c \in Range(s) <=> \E i \in 1..n : s[i] = c)
             /\ (c \in Range(t) <=> \E i \in 1..(n + 1) : t[i] = c)
  BY <1>3 DEF Range
<1> HIDE DEF t, F, n
<1>5. \A i \in 1..n : s[i] < b
  <2> SUFFICES ASSUME NEW i \in 1..n PROVE s[i] < b
    OBVIOUS
  <2>1. s[i] \in Range(s) /\ s[i] \in F
    BY <1>1, <1>4
  <2>2. s[i] # b /\ s[i] \in Int
    BY <1>1, <1>2, <2>1
  <2>3. ~(b < s[i])
    BY <1>1
  <2> QED
    BY <1>2, <2>2, <2>3
<1>6. Range(t) \subseteq F
  BY <1>1, <1>3, <1>4
<1>7. Distinct(t)
  BY <1>1, <1>2, <1>3, <1>4 DEF Distinct, n
<1>8. Cardinality(Range(t)) = n + 1
  BY <1>3, <1>7, DistinctBlocks
<1>9. n + 1 <= Cardinality(F)
  BY <1>6, <1>8, FreeBlocksFinite, FS_Subset DEF F
<1>10. t \in [1..(n + 1) -> F]
  <2>1. \A i \in 1..(n + 1) : t[i] \in F
    BY <1>4, <1>6
  <2>2. t \in [1..(n + 1) -> DataBlocks]
    BY <1>3
  <2> QED
    BY <2>1, <2>2
<1>11. \A i, j \in 1..(n + 1) : i < j => t[i] < t[j]
  BY <1>1, <1>3, <1>5
<1>12. \A i \in 1..(n + 1) : \A c \in F : c < t[i] => \E j \in 1..(n + 1) : t[j] = c
  <2> SUFFICES ASSUME NEW i \in 1..(n + 1), NEW c \in F, c < t[i]
               PROVE  \E j \in 1..(n + 1) : t[j] = c
    OBVIOUS
  <2>1. CASE i \in 1..n
    BY <1>1, <1>3, <1>4, <2>1
  <2>2. CASE i = n + 1
    <3>1. c < b
      BY <1>3, <2>2
    <3>2. c \in Range(s)
      BY <1>1, <1>2, <3>1
    <3> QED
      BY <1>3, <1>4, <3>2
  <2> QED
    BY <1>3, <2>1, <2>2
<1>13. Cardinality(F) \in Nat
  BY FreeBlocksFinite DEF F
<1>14. t \in getCertainNumberOfFreeBlocks(dmap, n + 1)
  BY <1>3, <1>9, <1>10, <1>11, <1>12, <1>13 DEF getCertainNumberOfFreeBlocks, F
<1> QED
  BY <1>2, <1>14 DEF t, n

\* If no block is free then, there have been as many as have been taken.
LEMMA NoneLeft ==
    ASSUME NEW dmap \in [Blocks -> BOOLEAN], NEW s \in Seq(DataBlocks),
           s \in getCertainNumberOfFreeBlocks(dmap, Len(s)),
           {b \in FreeBlocks(Marked(dmap, s, TRUE)) :
               \A c \in FreeBlocks(Marked(dmap, s, TRUE)) : b <= c} = {}
    PROVE  Cardinality(FreeBlocks(dmap)) = Len(s)
<1> DEFINE T == FreeBlocks(Marked(dmap, s, TRUE))
<1>1. /\ Distinct(s) /\ Range(s) \subseteq FreeBlocks(dmap)
      /\ T = FreeBlocks(dmap) \ Range(s)
  BY TakenAre
<1>2. T \in SUBSET Nat
  <2>1. DataBlocks \subseteq Nat
    BY LayoutAssumption DEF DataBlocks
  <2> QED
    BY <2>1 DEF FreeBlocks
<1>3. {b \in T : \A c \in T : b <= c} = {}
  OBVIOUS
<1> HIDE DEF T
<1>4. T = {}
  BY <1>2, <1>3, SmallestNumber
<1>5. FreeBlocks(dmap) = Range(s)
  BY <1>1, <1>4
<1> QED
  BY <1>1, <1>5, DistinctBlocks

-----------------------------------------------------------------------------
(* One link after the other.                                               *)

\* A link that changes in memory is in the container after its block has been
\* written.
LEMMA LinkWritten ==
    ASSUME NEW fat \in [Blocks -> Blocks], NEW b \in Blocks, NEW c \in Blocks
    PROVE  FatDiscWrite(fat, [fat EXCEPT ![b] = c], {b}) = [fat EXCEPT ![b] = c]
<1> DEFINE new == [fat EXCEPT ![b] = c]
<1>1. new \in [Blocks -> Blocks] /\ \A d \in Blocks : d \notin {b} => new[d] = fat[d]
  OBVIOUS
<1> HIDE DEF new
<1>2. FatDiscWrite(fat, new, {b}) = new
  BY <1>1, FatDiscWriteComplete
<1> QED
  BY <1>2 DEF new

\* So are all links that setFATBlocks changes.
LEMMA LinksWritten ==
    ASSUME NEW fat \in [Blocks -> Blocks], NEW chain, NEW new \in Seq(DataBlocks)
    PROVE  LET last == IF new # <<>> /\ chain # <<>> THEN {chain[Len(chain)]} ELSE {}
           IN  FatDiscWrite(fat, Linked(fat, chain, new), last \cup Range(new))
                  = Linked(fat, chain, new)
<1> DEFINE last == IF new # <<>> /\ chain # <<>> THEN {chain[Len(chain)]} ELSE {}
           lnk == Linked(fat, chain, new)
<1>1. lnk \in [Blocks -> Blocks]
  BY LinkedType
<1>2. \A b \in Blocks : b \notin last \cup Range(new) => lnk[b] = fat[b]
  <2> SUFFICES ASSUME NEW b \in Blocks, b \notin last, b \notin Range(new)
               PROVE  lnk[b] = fat[b]
    OBVIOUS
  <2>1. \A i \in 1..Len(new) : new[i] # b
    BY DEF Range
  <2> QED
    BY <2>1, LinkedOld
<1> HIDE DEF lnk, last
<1>3. FatDiscWrite(fat, lnk, last \cup Range(new)) = lnk
  BY <1>1, <1>2, FatDiscWriteComplete
<1> QED
  BY <1>3 DEF lnk, last

\* And those of the blocks that are freed.
LEMMA CutsWritten ==
    ASSUME NEW fat \in [Blocks -> Blocks], NEW freed
    PROVE  FatDiscWrite(fat, Unlinked(fat, freed), freed) = Unlinked(fat, freed)
BY UnlinkedType, UnlinkedChanges, FatDiscWriteComplete

\* A chain from its n-th block on, when its next block is added.
LEMMA NextOfChain ==
    ASSUME NEW c \in Seq(DataBlocks), NEW n \in Nat \ {0}, NEW m \in Nat,
           n <= m + 1, m < Len(c)
    PROVE  /\ c[m + 1] \in DataBlocks /\ SubSeq(c, n, m) \in Seq(DataBlocks)
           /\ SubSeq(c, n, m + 1) = Append(SubSeq(c, n, m), c[m + 1])
           /\ \A fat : Unlinked(fat, {c[j] : j \in n..(m + 1)})
                 = [Unlinked(fat, {c[j] : j \in n..m}) EXCEPT ![c[m + 1]] = FAT_END]
<1>1. c[m + 1] \in DataBlocks /\ SubSeq(c, n, m) \in Seq(DataBlocks)
  OBVIOUS
<1>2. SubSeq(c, n, m + 1) = Append(SubSeq(c, n, m), c[m + 1])
  OBVIOUS
<1>3. {c[j] : j \in n..(m + 1)} = {c[j] : j \in n..m} \cup {c[m + 1]}
  <2>1. n..(m + 1) = n..m \cup {m + 1}
    OBVIOUS
  <2> QED
    BY <2>1
<1>4. \A fat : Unlinked(fat, {c[j] : j \in n..(m + 1)})
                 = [Unlinked(fat, {c[j] : j \in n..m}) EXCEPT ![c[m + 1]] = FAT_END]
  BY <1>1, <1>3, EndIsNoDataBlock DEF Unlinked
<1> QED
  BY <1>1, <1>2, <1>4

\* No block, and all blocks, of a chain.
LEMMA EndsOfChain ==
    ASSUME NEW c \in Seq(DataBlocks), NEW n \in Nat \ {0}
    PROVE  /\ \A m \in Nat : m < n => SubSeq(c, n, m) = <<>> /\ {c[j] : j \in n..m} = {}
           /\ \A fat \in [Blocks -> Blocks] : Unlinked(fat, {}) = fat
           /\ SubSeq(c, 1, Len(c)) = c
           /\ SubSeq(c, n, Len(c)) \in Seq(DataBlocks)
           /\ Range(SubSeq(c, n, Len(c))) = {c[j] : j \in n..Len(c)}
<1>1. \A m \in Nat : m < n => SubSeq(c, n, m) = <<>> /\ {c[j] : j \in n..m} = {}
  OBVIOUS
<1>2. \A fat \in [Blocks -> Blocks] : Unlinked(fat, {}) = fat
  BY DEF Unlinked
<1>3. SubSeq(c, 1, Len(c)) = c
  OBVIOUS
<1> DEFINE t == SubSeq(c, n, Len(c))
           l == Len(t)
<1>4. t \in Seq(DataBlocks)
  OBVIOUS
<1>5. /\ l = IF n <= Len(c) THEN Len(c) - n + 1 ELSE 0
      /\ \A i \in 1..l : t[i] = c[i + n - 1]
  OBVIOUS
<1>6. Range(t) = {t[i] : i \in 1..l}
  <2>1. DOMAIN t = 1..l
    BY <1>4
  <2> HIDE DEF t, l
  <2> QED
    BY <2>1 DEF Range
<1>7. Len(c) \in Nat
  OBVIOUS
<1>8. {t[i] : i \in 1..l} = {c[j] : j \in n..Len(c)}
  <2> HIDE DEF t, l
  <2>1. \A j \in n..Len(c) : j - n + 1 \in 1..l /\ t[j - n + 1] = c[j]
    BY <1>5, <1>7
  <2>2. \A i \in 1..l : i + n - 1 \in n..Len(c) /\ t[i] = c[i + n - 1]
    BY <1>5, <1>7
  <2> QED
    BY <2>1, <2>2
<1> QED
  BY <1>1, <1>2, <1>3, <1>4, <1>6, <1>8

-----------------------------------------------------------------------------
(* What a handler has done so far.                                         *)

\* The entry and the chain of the file it works on, when it was called.
OldFile == before.rootFiles[run.s]
OldChain == Chain(before.fatArray, OldFile.firstBlock)

\* It was called when no other handler ran, and what it does not change is as
\* it was.
Began ==
    /\ before.rootFiles \in RootDirectories /\ before.rootDisc \in RootDirectories
    /\ before.fatArray \in [Blocks -> Blocks]
    /\ before.dmapArray \in [Blocks -> BOOLEAN]
    /\ before.dmapDisc \in [DmapGroups -> [DmapOffsets -> BOOLEAN]]
    /\ before.blockData \in [Blocks -> [0..(BLOCK_SIZE - 1) -> Bytes]]
    /\ before.openFiles \in [Handles -> Slots \cup {NULL, DANGLING}]
    /\ OldFile # NULL
    /\ Terminates(before.fatArray) /\ before.fatDisc = before.fatArray
    /\ before.mounted = TRUE /\ before.container = TRUE
    /\ fatDisc = fatArray
    /\ container = TRUE /\ openCount = before.openCount /\ handles = before.handles
    /\ run.op # "unlink" => openFiles = before.openFiles

Extends == {"take", "attach", "link", "data", "entry"}
Cuts == {"spare", "spareMap"}

\* How many blocks the call asks for.
Asked ==
    IF run.op = "write" /\ run.off + run.size <= OldFile.st_size THEN 0
    ELSE blocksAll(run.size, run.off, OldFile.st_size)

\* The call, and what the handler has found before its first write.
CalledByPath ==
    /\ run.n \in Names /\ run.s \in getRootEntryFile(before.rootFiles, run.n)
    /\ run.op = "unlink" =>
          call = <<"unlink", run.n>> /\ \A h \in Handles : handles[h] # run.n
    /\ run.op = "truncate" => call = <<"truncate", run.n, run.size>>

CalledByHandle ==
    /\ \E h \in Handles : /\ call = <<"write", h, run.off, run.size, run.v>>
                          /\ handles[h] # NULL /\ openFiles[h] = run.s
    /\ run.off \in 0..(MaxSize - 1) /\ run.size \in 1..MaxSize
    /\ \/ "straddle" \in Workload
       \/ run.off \div BLOCK_SIZE >= OldFile.st_size \div BLOCK_SIZE
       \/ numBlocks(run.off + run.size) <= numBlocks(OldFile.st_size)

Called ==
    /\ run.op = "write" => CalledByHandle
    /\ run.op # "write" => CalledByPath
    /\ run.at \in Extends =>
          /\ "fill" \in Workload \/ Asked <= Cardinality(FreeBlocks(before.dmapArray))
          /\ run.k = IF Asked > 0 THEN Asked ELSE 0
    /\ run.op = "truncate" /\ run.at \in Extends =>
          /\ run.off = 0 /\ run.size >= OldFile.st_size /\ Asked > 0
          /\ "grow" \in Workload \/ run.size = OldFile.st_size
    /\ run.op = "truncate" /\ run.at \in Cuts =>
          /\ run.size < OldFile.st_size
          /\ "shrink" \in Workload \/ run.size = 0 \/ Len(OldChain) <= numBlocks(run.size)

\* The blocks of s have been set in the map, one after the other.
MapSet(s, used) ==
    /\ dmapArray = Marked(before.dmapArray, s, used)
    /\ dmapDisc = DmapDiscWrite(before.dmapDisc, before.dmapArray, s, used)

\* The first i - 1 of the new blocks have got their successors.
LinkedUpTo(i) ==
    /\ \A j \in 1..(i - 1) : fatArray[run.new[j]] = run.new[j + 1]
    /\ \A b \in Blocks : (\A j \in 1..(i - 1) : run.new[j] # b) =>
          fatArray[b] = IF OldChain # <<>> /\ b = OldChain[Len(OldChain)] THEN run.new[1]
                        ELSE before.fatArray[b]

\* The block in which the i-th part of the write belongs.
Target(i) ==
    getNth(fatArray, FirstBlock(OldFile, run.new), (run.off \div BLOCK_SIZE) + i)

WriteBlocks == numBlocks(run.size + (run.off % BLOCK_SIZE))

\* The first i parts of the write have been copied.
WrittenUpTo(i) ==
    blockData = [b \in Blocks |-> [j \in 0..(BLOCK_SIZE - 1) |->
        IF \E m \in 0..(i - 1) : Target(m) = b /\ j \in Copied(m, run.off, run.size)
        THEN run.v ELSE before.blockData[b][j]]]

\* fuseWrite, and fuseTruncate to a larger size.
Extending ==
    /\ run.new \in getCertainNumberOfFreeBlocks(before.dmapArray, Len(run.new))
    /\ MapSet(run.new, TRUE)
    /\ rootDisc = before.rootDisc
    /\ run.at \in {"take", "attach"} =>
          rootFiles = before.rootFiles /\ fatArray = before.fatArray
    /\ run.at \in {"take", "attach", "link"} => blockData = before.blockData
    /\ run.at = "attach" /\ OldFile.firstBlock # FAT_END => run.cur \in Range(OldChain)
    /\ run.at \in {"link", "data", "entry"} =>
          /\ Len(run.new) = run.k
          /\ rootFiles = [before.rootFiles EXCEPT
                ![run.s] = [OldFile EXCEPT !.firstBlock = FirstBlock(OldFile, run.new)]]
    /\ run.at = "link" => LinkedUpTo(run.i)
    /\ run.at \in {"data", "entry"} =>
          fatArray = Linked(before.fatArray, OldChain, run.new) /\ WrittenUpTo(run.i)
    /\ run.at = "data" => run.i < WriteBlocks /\ run.cur = Target(run.i)
    /\ run.at = "entry" => run.i = WriteBlocks

\* The block of the chain behind the first j.
Following(j) == IF j < Len(OldChain) THEN OldChain[j + 1] ELSE FAT_END

\* Of the chain, the blocks from the n-th to the m-th are free in the map, and
\* those from the n-th to the c-th have lost their link.
FreedUpTo(n, m, c) ==
    /\ MapSet(SubSeq(OldChain, n, m), FALSE)
    /\ fatArray = Unlinked(before.fatArray, {OldChain[j] : j \in n..c})
    /\ blockData = before.blockData

\* A directory in which the file has been cut to nothing.
WithoutFirst(dir) ==
    IF run.size = 0 THEN [dir EXCEPT ![run.s] = [OldFile EXCEPT !.firstBlock = FAT_END]] ELSE dir

\* fuseTruncate to a smaller size.
Shrinking ==
    LET n == numBlocks(run.size) + 1
    IN  /\ rootFiles = WithoutFirst(before.rootFiles) /\ rootDisc = WithoutFirst(before.rootDisc)
        /\ run.i <= Len(OldChain)
        /\ run.cur = Following(run.i)
        /\ run.at = "spare" => FreedUpTo(n, run.i, run.i)
        /\ run.at = "spareMap" =>
              /\ n <= run.i + 1 /\ run.i < Len(OldChain) /\ FreedUpTo(n, run.i, run.i + 1)
              /\ run.next = Following(run.i + 1)

\* fuseUnlink, after j turns of the loop of the blocks and when the entries in
\* gone have been deleted.
Unlinking(j, gone) ==
    /\ rootFiles = [s \in Slots |-> IF s \in gone THEN NULL ELSE before.rootFiles[s]]
    /\ rootDisc = [s \in Slots |-> IF s \in gone THEN NULL ELSE before.rootDisc[s]]
    /\ openFiles = [h \in Handles |-> IF before.openFiles[h] \in gone THEN DANGLING
                                                                      ELSE before.openFiles[h]]
    /\ run.cur # FAT_END => gone = {}
    /\ run.cur = Following(j)
    /\ run.at = "freeMap" => FreedUpTo(1, j, j)
    /\ run.at = "freeFat" =>
          j < Len(OldChain) /\ FreedUpTo(1, j + 1, j) /\ run.next = Following(j + 1)

(***************************************************************************)
(* The inductive invariant: between two steps the state is the one in      *)
(* which the handler was called, changed by the writes made so far.        *)
(***************************************************************************)
DoneSoFar ==
    IF Idle THEN FatInv
    ELSE /\ Began
         /\ Called
         /\ run.at \in Extends => Extending
         /\ run.at \in Cuts => Shrinking
         /\ run.op = "unlink" =>
               \E j \in 0..Len(OldChain), gone \in SUBSET Named(before.rootFiles, run.n) :
                  Unlinking(j, gone)

\* The file and its chain, when the handler was called.
LEMMA OldFileIs ==
    ASSUME Began, run \in Job
    PROVE  /\ run.s \in Slots /\ OldFile \in rootFile /\ OldFile # NULL
           /\ OldFile.firstBlock \in Blocks /\ OldFile.st_size \in Nat
           /\ OldChain \in Seq(DataBlocks) /\ Len(OldChain) \in Nat
           /\ Distinct(OldChain)
           /\ IsChain(before.fatArray, OldFile.firstBlock, OldChain)
           /\ \A i \in 1..Len(OldChain) : OldChain[i] \in DataBlocks
<1>1. run.s \in Slots
  BY JobFields
<1>2. OldFile \in rootFile
  BY <1>1 DEF Began, OldFile, RootDirectories
<1>3. OldFile.firstBlock \in Blocks /\ OldFile.st_size \in Nat
  BY <1>2 DEF rootFile
<1>4. before.fatArray \in [Blocks -> Blocks] /\ Terminates(before.fatArray)
  BY DEF Began
<1>5. /\ OldChain \in Seq(DataBlocks) /\ Distinct(OldChain)
      /\ IsChain(before.fatArray, OldFile.firstBlock, OldChain)
  BY <1>3, <1>4, ChainEnds DEF OldChain, Terminates
<1> QED
  BY <1>1, <1>2, <1>3, <1>5 DEF Began

\* Between two steps of a handler, the state is seen as it was before.
LEMMA SeenRunning ==
    /\ run # NULL => Seen = before
    /\ run # NULL /\ run' # NULL /\ before' = before => UNCHANGED R!vars
BY DEF Seen, R!vars, R!fsVars, R!openVars

\* A handler that goes on keeps to the call and to the state it began in.
LEMMA Proceeds ==
    ASSUME ~Idle, Began, Called, History, UNCHANGED call,
           NEW job, job # NULL, GoesOn(job), fatDisc' = fatArray',
           job.op = run.op, job.n = run.n, job.s = run.s, job.off = run.off,
           job.size = run.size, job.v = run.v, job.k = run.k,
           job.at \in Extends => run.at \in Extends, job.at \in Cuts => run.at \in Cuts
    PROVE  /\ run' = job /\ before' = before /\ UNCHANGED R!vars
           /\ OldFile' = OldFile /\ OldChain' = OldChain /\ Asked' = Asked
           /\ Began' /\ Called' /\ ~Idle'
<1>1. run' = job /\ before' = before /\ UNCHANGED <<container, openFiles, openCount, handles, call>>
  BY DEF GoesOn, History, Idle, openVars
<1>2. OldFile' = OldFile
  BY <1>1 DEF OldFile
<1>3. OldChain' = OldChain
  BY <1>1, <1>2 DEF OldChain
<1>4. Asked' = Asked
  BY <1>1, <1>2 DEF Asked
<1>5. Began'
  BY <1>1, <1>2 DEF Began
<1>6. CalledByPath => CalledByPath'
  BY <1>1 DEF CalledByPath
<1>7. CalledByHandle => CalledByHandle'
  BY <1>1, <1>2 DEF CalledByHandle
<1>8. Called'
  BY <1>1, <1>2, <1>3, <1>4, <1>6, <1>7 DEF Called
<1> QED
  BY <1>1, <1>2, <1>3, <1>4, <1>5, <1>8, SeenRunning DEF Idle

\* What the handler that runs has left, as it is seen when it ends.
LEMMA EndsSeen ==
    ASSUME ~Idle, Began, run' = NULL
    PROVE  /\ Seen.mounted = TRUE /\ Seen.container = TRUE
           /\ Seen.rootFiles = before.rootFiles /\ Seen.rootDisc = before.rootDisc
           /\ Seen.fatArray = before.fatArray /\ Seen.fatDisc = before.fatArray
           /\ Seen.dmapArray = before.dmapArray /\ Seen.dmapDisc = before.dmapDisc
           /\ Seen.blockData = before.blockData /\ Seen.openFiles = before.openFiles
           /\ Seen.openCount = openCount /\ Seen.handles = handles
BY SeenRunning DEF Idle, Began

\* A call that finds too few blocks, or blocks that it appends to the file.
ExtendsTo(new) ==
    /\ new \in getCertainNumberOfFreeBlocks(before.dmapArray, Asked)
    /\ dmapArray' = Marked(before.dmapArray, new, TRUE)
    /\ dmapDisc' = DmapDiscWrite(before.dmapDisc, before.dmapArray, new, TRUE)
    /\ fatArray' = Linked(before.fatArray, OldChain, new)
    /\ fatDisc' = fatArray'
    /\ Completes("ok")
    /\ UNCHANGED openVars

RunsOut ==
    /\ Asked > Cardinality(FreeBlocks(before.dmapArray))
    /\ \E all \in getCertainNumberOfFreeBlocks(before.dmapArray,
                      Cardinality(FreeBlocks(before.dmapArray))) :
          dmapDisc' = DmapDiscWrite(before.dmapDisc, before.dmapArray, all, TRUE)
    /\ ProcessEnds("SIGSEGV")
    /\ rootDisc' = before.rootDisc /\ fatDisc' = before.fatArray
    /\ blockData' = before.blockData /\ container' = TRUE

\* How that is seen.
LEMMA ExtendsSeen ==
    ASSUME ~Idle, Began, run \in Job, run.op # "unlink", mounted = TRUE, run' = NULL
    PROVE  /\ RunsOut => R!OutOfBlocks(Asked)
           /\ \A new : ExtendsTo(new) =>
                 R!setFATBlocks(OldFile, new) /\ R!Completes("ok") /\ UNCHANGED R!openVars
<1> USE EndsSeen, SeenIdle
<1>1. ASSUME RunsOut PROVE R!OutOfBlocks(Asked)
  <2>1. R!ProcessEnds("SIGSEGV")
    <3>1. ProcessEnds("SIGSEGV")
      BY <1>1 DEF RunsOut
    <3>2. R!Replies("SIGSEGV") /\ R!NothingOpen
      BY <3>1, SameDirectory DEF ProcessEnds, Replies, R!Replies, NothingOpen, R!NothingOpen
    <3> QED
      BY <3>1, <3>2, SameDirectory, SameTables DEF ProcessEnds, R!ProcessEnds
  <2> QED
    BY <1>1, <2>1, SameDirectory, SameTables DEF RunsOut, R!OutOfBlocks
<1>2. ASSUME NEW new, ExtendsTo(new)
      PROVE  R!setFATBlocks(OldFile, new) /\ R!Completes("ok") /\ UNCHANGED R!openVars
  <2>1. R!Completes("ok") /\ UNCHANGED R!openVars
    <3>1. /\ Completes("ok") /\ UNCHANGED openVars
          /\ openFiles = before.openFiles /\ container = TRUE
      BY <1>2 DEF ExtendsTo, Began
    <3> QED
      BY <3>1 DEF Completes, Replies, R!Completes, R!Replies, openVars, R!openVars
  <2>2. before.fatArray \in [Blocks -> Blocks] /\ Asked \in Int
    <3>1. run.size \in Nat /\ run.off \in Nat /\ OldFile.st_size \in Nat
      BY JobFields, OldFileIs, FuseAssumption
    <3>2. blocksAll(run.size, run.off, OldFile.st_size) \in Int
      BY <3>1, blocksAllType
    <3> QED
      BY <3>2 DEF Asked, Began
  <2>3. new \in Seq(DataBlocks)
    BY <1>2, <2>2, AllocatedBlocks DEF ExtendsTo
  <2> DEFINE last == IF new # <<>> /\ OldChain # <<>> THEN {OldChain[Len(OldChain)]} ELSE {}
             lnk == Linked(before.fatArray, OldChain, new)
  <2>4. FatDiscWrite(before.fatArray, lnk, last \cup Range(new)) = lnk
    BY <2>2, <2>3, LinksWritten
  <2>5. R!Range(new) = Range(new)
    BY DEF R!Range, Range
  <2>6. R!Chain(Seen.fatArray, OldFile.firstBlock) = OldChain
    BY SameTables DEF OldChain
  <2>7. R!SetAll(new, TRUE)
    BY <1>2, SameTables DEF ExtendsTo, R!SetAll
  <2>8. /\ Seen'.fatArray = R!Linked(Seen.fatArray, OldChain, new)
        /\ Seen'.fatDisc = R!FatDiscWrite(Seen.fatDisc, Seen'.fatArray, last \cup R!Range(new))
    BY <1>2, <2>4, <2>5, SameTables DEF ExtendsTo
  <2>9. R!setFATBlocks(OldFile, new)
    BY <2>6, <2>7, <2>8 DEF R!setFATBlocks
  <2> QED
    BY <2>1, <2>9
<1> QED
  BY <1>1, <1>2

\* How many blocks a write, and a truncation to a larger size, asks for.
LEMMA AskedIs ==
    ASSUME Began, run \in Job
    PROVE  /\ Asked \in Int
           /\ run.op = "write" =>
                 Asked = IF run.off + run.size > OldFile.st_size
                         THEN blocksAll(run.size, run.off, OldFile.st_size) ELSE 0
           /\ run.op # "write" => Asked = blocksAll(run.size, run.off, OldFile.st_size)
<1>1. run.size \in Nat /\ run.off \in Nat /\ OldFile.st_size \in Nat
  BY JobFields, OldFileIs, FuseAssumption
<1>2. blocksAll(run.size, run.off, OldFile.st_size) \in Int
  BY <1>1, blocksAllType
<1> QED
  BY <1>1, <1>2 DEF Asked

\* The last step of fuseWrite is seen as the whole of it.
LEMMA WriteSeen ==
    ASSUME ~Idle, Began, Called, run \in Job, mounted = TRUE, run' = NULL, UNCHANGED call,
           run.op = "write", run.at \in Extends, run.v \in Bytes, run.off + run.size <= MaxSize,
           \/ RunsOut
           \/ \E new :
                 /\ ExtendsTo(new)
                 /\ blockData' = R!Written(fatArray', FirstBlock(OldFile, new), run.off, run.size, run.v)
                 /\ LET end == run.off + run.size
                        f == [OldFile EXCEPT !.firstBlock = FirstBlock(OldFile, new),
                                             !.st_size = IF end > @ THEN end ELSE @]
                    IN  /\ rootFiles' = [before.rootFiles EXCEPT ![run.s] = f]
                        /\ rootDisc' = [before.rootDisc EXCEPT ![run.s] = f]
    PROVE  R!Next
<1> USE EndsSeen, SeenIdle
<1> DEFINE off == run.off
           size == run.size
           v == run.v
           end == off + size
           stored(new) == [OldFile EXCEPT !.firstBlock = FirstBlock(OldFile, new),
                                          !.st_size = IF end > @ THEN end ELSE @]
<1>1. PICK h \in Handles : /\ call = <<"write", h, off, size, v>>
                           /\ handles[h] # NULL /\ openFiles[h] = run.s
  BY DEF Called, CalledByHandle
<1>2. off \in 0..(MaxSize - 1) /\ size \in 1..MaxSize
      /\ \/ "straddle" \in Workload
         \/ off \div BLOCK_SIZE >= OldFile.st_size \div BLOCK_SIZE
         \/ numBlocks(off + size) <= numBlocks(OldFile.st_size)
  BY DEF Called, CalledByHandle
<1>3. Seen.openFiles[h] = run.s /\ Seen.handles[h] # NULL /\ run.s \in Slots
  <2>1. openFiles = before.openFiles /\ run.s \in Slots
    BY OldFileIs DEF Began
  <2> QED
    BY <1>1, <2>1
<1>4. Seen.rootFiles[run.s] = OldFile
  BY DEF OldFile
<1>5. RunsOut => "fill" \in Workload
  <2> DEFINE n == Cardinality(FreeBlocks(before.dmapArray))
  <2>1. n \in Nat
    BY FreeBlocksFinite
  <2>2. Asked \in Int
    BY AskedIs
  <2>3. ("fill" \in Workload \/ Asked <= n) /\ (RunsOut => Asked > n)
    BY DEF Called, RunsOut
  <2> HIDE DEF n
  <2> QED
    BY <2>1, <2>2, <2>3
<1>6. /\ RunsOut => R!OutOfBlocks(Asked)
      /\ \A new : ExtendsTo(new) =>
            R!setFATBlocks(OldFile, new) /\ R!Completes("ok") /\ UNCHANGED R!openVars
  BY ExtendsSeen
<1>7. Asked = IF end > OldFile.st_size THEN R!blocksAll(size, off, OldFile.st_size) ELSE 0
  BY AskedIs, SameDirectory
<1>8. \/ "straddle" \in Workload
      \/ off \div BLOCK_SIZE >= OldFile.st_size \div BLOCK_SIZE
      \/ R!numBlocks(end) <= R!numBlocks(OldFile.st_size)
  BY <1>2, SameDirectory
<1>9. CASE RunsOut
  <2>1. R!WriteFile(run.s, off, size, v)
    <3> HIDE DEF off, size, v
    <3> QED
      BY <1>4, <1>5, <1>6, <1>7, <1>8, <1>9 DEF R!WriteFile
  <2>2. R!fuseWrite(h, off, size, v)
    BY <1>1, <1>3, <2>1, SameDirectory DEF R!fuseWrite
  <2> QED
    BY <1>2, <2>2, SameDirectory DEF R!Next
<1>10. ASSUME NEW new, ExtendsTo(new),
              blockData' = R!Written(fatArray', FirstBlock(OldFile, new), off, size, v),
              rootFiles' = [before.rootFiles EXCEPT ![run.s] = stored(new)],
              rootDisc' = [before.rootDisc EXCEPT ![run.s] = stored(new)]
       PROVE  R!Next
  <2>1. /\ new \in R!getCertainNumberOfFreeBlocks(Seen.dmapArray, Asked)
        /\ R!setFATBlocks(OldFile, new) /\ R!Completes("ok") /\ UNCHANGED R!openVars
    BY <1>6, <1>10, SameTables DEF ExtendsTo
  <2>2. R!FirstBlock(OldFile, new) = FirstBlock(OldFile, new)
    BY SameDirectory
  <2>3. R!StoreEntry(run.s, stored(new))
    BY <1>10 DEF R!StoreEntry
  <2>4. Seen'.blockData = R!Written(Seen'.fatArray, R!FirstBlock(OldFile, new), off, size, v)
    BY <1>10, <2>2
  <2>5. R!WriteFile(run.s, off, size, v)
    <3> HIDE DEF off, size, v
    <3> QED
      BY <1>4, <1>7, <1>8, <2>1, <2>2, <2>3, <2>4 DEF R!WriteFile
  <2>6. R!fuseWrite(h, off, size, v)
    BY <1>1, <1>3, <2>5, SameDirectory DEF R!fuseWrite
  <2> QED
    BY <1>2, <2>6, SameDirectory DEF R!Next
<1> QED
  BY <1>9, <1>10

\* So is the last step of fuseTruncate to a larger size.
LEMMA ExtendSeen ==
    ASSUME ~Idle, Began, Called, run \in Job, mounted = TRUE, run' = NULL, UNCHANGED call,
           run.op = "truncate", run.at \in Extends,
           \/ RunsOut
           \/ \E new :
                 /\ ExtendsTo(new)
                 /\ rootFiles' = [before.rootFiles EXCEPT
                       ![run.s] = [OldFile EXCEPT !.firstBlock = FirstBlock(OldFile, new)]]
                 /\ rootDisc' = before.rootDisc /\ blockData' = before.blockData
    PROVE  R!Next
<1> USE EndsSeen, SeenIdle
<1> DEFINE size == run.size
           n == run.n
<1>1. /\ n \in Names /\ run.s \in getRootEntryFile(before.rootFiles, n)
      /\ call = <<"truncate", n, size>>
  BY DEF Called, CalledByPath
<1>2. /\ run.off = 0 /\ size >= OldFile.st_size /\ Asked > 0
      /\ "grow" \in Workload \/ size = OldFile.st_size
      /\ size \in 0..MaxSize
  BY JobFields DEF Called
<1>3. run.s \in R!getRootEntryFile(Seen.rootFiles, n) /\ Seen.rootFiles[run.s] = OldFile
  BY <1>1, SameDirectory DEF OldFile
<1>4. RunsOut => "fill" \in Workload
  <2> DEFINE m == Cardinality(FreeBlocks(before.dmapArray))
  <2>1. m \in Nat
    BY FreeBlocksFinite
  <2>2. Asked \in Int
    BY AskedIs
  <2>3. ("fill" \in Workload \/ Asked <= m) /\ (RunsOut => Asked > m)
    BY DEF Called, RunsOut
  <2> HIDE DEF m
  <2> QED
    BY <2>1, <2>2, <2>3
<1>5. /\ RunsOut => R!OutOfBlocks(Asked)
      /\ \A new : ExtendsTo(new) =>
            R!setFATBlocks(OldFile, new) /\ R!Completes("ok") /\ UNCHANGED R!openVars
  BY ExtendsSeen
<1>6. Asked = R!blocksAll(size, 0, OldFile.st_size)
  BY <1>2, AskedIs, SameDirectory
<1>7. R!Extend(run.s, size) => R!Next
  <2>1. R!Extend(run.s, size) => R!fuseTruncate(n, size)
    <3> HIDE DEF size, n
    <3> QED
      BY <1>1, <1>2, <1>3 DEF R!fuseTruncate, size, n
  <2> QED
    BY <1>1, <1>2, <2>1 DEF R!Next
<1>8. CASE RunsOut
  <2>1. R!Extend(run.s, size)
    <3> HIDE DEF size
    <3> QED
      BY <1>2, <1>3, <1>4, <1>5, <1>6, <1>8 DEF R!Extend
  <2> QED
    BY <1>7, <2>1
<1>9. ASSUME NEW new, ExtendsTo(new),
             rootFiles' = [before.rootFiles EXCEPT
                ![run.s] = [OldFile EXCEPT !.firstBlock = FirstBlock(OldFile, new)]],
             rootDisc' = before.rootDisc, blockData' = before.blockData
      PROVE  R!Next
  <2>1. /\ new \in R!getCertainNumberOfFreeBlocks(Seen.dmapArray, Asked)
        /\ R!setFATBlocks(OldFile, new) /\ R!Completes("ok") /\ UNCHANGED R!openVars
    BY <1>5, <1>9, SameTables DEF ExtendsTo
  <2>2. Seen'.rootFiles = [Seen.rootFiles EXCEPT ![run.s].firstBlock = R!FirstBlock(OldFile, new)]
    BY <1>3, <1>9, SameDirectory
  <2>3. UNCHANGED <<Seen.rootDisc, Seen.blockData, R!openVars>>
    BY <1>9, <2>1
  <2>4. R!Extend(run.s, size)
    <3> HIDE DEF size
    <3> QED
      BY <1>2, <1>3, <1>6, <2>1, <2>2, <2>3 DEF R!Extend
  <2> QED
    BY <1>7, <2>4
<1> QED
  BY <1>8, <1>9

-----------------------------------------------------------------------------
(* The steps of a handler.                                                 *)

\* A handler makes a step, and no write fails.
InHandler ==
    /\ Faults = {}
    /\ OpenInv /\ JobInv /\ DoneSoFar
    /\ ~Idle /\ History /\ UNCHANGED call

\* The invariant still holds, and the step is seen as a handler, or not at all.
IsSeen == DoneSoFar' /\ [R!Next]_(R!vars)

\* What a step of a handler finds: nothing has failed, the process runs, and the
\* tables it was called with are well formed.
LEMMA StepBegins ==
    ASSUME InHandler
    PROVE  /\ Faults = {} /\ OpenInv /\ JobInv /\ ~Idle /\ History /\ UNCHANGED call
           /\ Began /\ Called /\ run \in Job /\ mounted = TRUE /\ container = TRUE
           /\ fatDisc = fatArray /\ fatArray \in [Blocks -> Blocks]
           /\ before.fatArray \in [Blocks -> Blocks] /\ Terminates(before.fatArray)
           /\ before.dmapArray \in [Blocks -> BOOLEAN]
           /\ before.rootFiles \in RootDirectories
<1>1. run \in Job /\ mounted /\ mounted \in BOOLEAN /\ fatArray \in [Blocks -> Blocks]
  BY RunningJob DEF InHandler, OpenInv, TypeOK
<1> QED
  BY <1>1 DEF InHandler, DoneSoFar, Began

\* A step that leaves the handler where it can go on.
LEMMA StepGoesOn ==
    ASSUME InHandler, NEW job \in Job, GoesOn(job), fatDisc' = fatArray',
           job.op = run.op, job.n = run.n, job.s = run.s, job.off = run.off,
           job.size = run.size, job.v = run.v, job.k = run.k,
           job.at \in Extends => run.at \in Extends, job.at \in Cuts => run.at \in Cuts
    PROVE  /\ run' = job /\ before' = before /\ UNCHANGED R!vars
           /\ OldFile' = OldFile /\ OldChain' = OldChain /\ Asked' = Asked
           /\ Began' /\ Called' /\ ~Idle'
<1>1. job # NULL
  BY JobAssumption
<1>2. ~Idle /\ Began /\ Called /\ History /\ UNCHANGED call
  BY StepBegins
<1> QED
  BY <1>1, <1>2, Proceeds

\* Another block has been set in the map.
LEMMA MapSetMore ==
    ASSUME Faults = {}, Began, NEW s \in Seq(DataBlocks), NEW x \in DataBlocks,
           NEW used \in BOOLEAN, MapSet(s, used), setMap(x, used)
    PROVE  /\ dmapArray' = Marked(before.dmapArray, Append(s, x), used)
           /\ dmapDisc' = DmapDiscWrite(before.dmapDisc, before.dmapArray, Append(s, x), used)
           /\ UNCHANGED <<rootFiles, rootDisc, fatArray, fatDisc, blockData>>
<1>1. before.dmapArray \in [Blocks -> BOOLEAN]
  BY DEF Began
<1>2. dmapDisc' = DmapDiscWrite(dmapDisc, dmapArray, <<x>>, used)
  BY DEF setMap, DeviceWrite
<1>3. dmapArray' = [dmapArray EXCEPT ![x] = used]
  BY DEF setMap
<1>4. /\ dmapArray = Marked(before.dmapArray, s, used)
      /\ dmapDisc = DmapDiscWrite(before.dmapDisc, before.dmapArray, s, used)
  BY DEF MapSet
<1>5. dmapArray' = Marked(before.dmapArray, Append(s, x), used)
  BY <1>1, <1>3, <1>4, MarkedOneMore
<1>6. DmapDiscWrite(DmapDiscWrite(before.dmapDisc, before.dmapArray, s, used),
                    Marked(before.dmapArray, s, used), <<x>>, used)
         = DmapDiscWrite(before.dmapDisc, before.dmapArray, Append(s, x), used)
  BY <1>1, DiscOneMore
<1>7. dmapDisc' = DmapDiscWrite(before.dmapDisc, before.dmapArray, Append(s, x), used)
  BY <1>2, <1>4, <1>6
<1>8. UNCHANGED <<rootFiles, rootDisc, fatArray, fatDisc, blockData>>
  BY DEF setMap
<1> QED
  BY <1>5, <1>7, <1>8

\* A link has been set, in memory and in the container.
LEMMA NextSet ==
    ASSUME Faults = {}, fatDisc = fatArray, fatArray \in [Blocks -> Blocks],
           NEW b \in Blocks, NEW c \in Blocks, setNext(b, c)
    PROVE  /\ fatArray' = [fatArray EXCEPT ![b] = c] /\ fatDisc' = fatArray'
           /\ UNCHANGED <<rootFiles, rootDisc, dmapArray, dmapDisc, blockData>>
BY LinkWritten DEF setNext, DeviceWrite

\* So has an entry.
LEMMA EntrySet ==
    ASSUME Faults = {}, NEW s, NEW f, setEntry(s, f)
    PROVE  /\ rootFiles' = [rootFiles EXCEPT ![s] = f] /\ rootDisc' = [rootDisc EXCEPT ![s] = f]
           /\ UNCHANGED <<fatArray, fatDisc, dmapArray, dmapDisc, blockData>>
BY DEF setEntry, DeviceWrite

\* A handler that ends leaves a table whose walks end.
LEMMA TableAtRest ==
    ASSUME run' = NULL, container' = TRUE, Terminates(fatDisc'),
           \/ mounted' = TRUE /\ fatDisc' = fatArray'
           \/ mounted' = FALSE /\ fatArray' = BlankFat
    PROVE  DoneSoFar'
BY BlankTerminates DEF DoneSoFar, Idle, FatInv, FatPersisted, ChainsEnd

\* fuseWrite or fuseTruncate goes on as the invariant says.
LEMMA KeepsExtending ==
    ASSUME Began', Called', ~Idle', run'.op # "unlink", run'.at \in Extends, Extending',
           UNCHANGED R!vars
    PROVE  IsSeen
BY DEF IsSeen, DoneSoFar, Extends, Cuts

\* What is known of a job that extends a file.
LEMMA ExtendingJob ==
    ASSUME InHandler, run.at \in Extends, run.op # "unlink"
    PROVE  /\ Extending /\ run.op \in {"write", "truncate"}
           /\ run.new \in Seq(DataBlocks) /\ Len(run.new) \in Nat
           /\ run.k \in Nat /\ run.i \in Nat
           /\ run.new \in getCertainNumberOfFreeBlocks(before.dmapArray, Len(run.new))
           /\ Distinct(run.new)
           /\ Asked \in Int /\ run.k = IF Asked > 0 THEN Asked ELSE 0
           /\ run.op = "write" => run.v \in Bytes /\ run.off + run.size <= MaxSize
<1>1. Extending /\ run \in Job
  BY DEF InHandler, DoneSoFar, JobInv
<1>2. run.op \in {"write", "truncate"} /\ run.k \in Nat /\ run.i \in Nat
      /\ run.new \in Seq(DataBlocks)
  BY <1>1, JobFields
<1>3. Asked \in Int
  BY <1>1, AskedIs, StepBegins
<1>4. run.k = IF Asked > 0 THEN Asked ELSE 0
  BY StepBegins DEF Called
<1>5. Distinct(run.new) /\ (run.op = "write" => run.v \in Bytes /\ run.off + run.size <= MaxSize)
  BY DEF InHandler, JobInv
<1>6. run.new \in getCertainNumberOfFreeBlocks(before.dmapArray, Len(run.new))
  BY <1>1 DEF Extending
<1> QED
  BY <1>1, <1>2, <1>3, <1>4, <1>5, <1>6

\* getFirstFreeBlock (DMAP.cpp:70) finds a block and marks it, or the device is
\* full: then fuseWrite and fuseTruncate end as the atomic action ends there.
LEMMA TakeStep ==
    ASSUME InHandler, TakeBlock
    PROVE  IsSeen
<1>1. run.at = "take" /\ run.at \in Extends /\ run.op # "unlink" /\ Len(run.new) < run.k
  BY StepBegins DEF TakeBlock, JobInv, Extends
<1>2. /\ MapSet(run.new, TRUE) /\ rootDisc = before.rootDisc
      /\ rootFiles = before.rootFiles /\ fatArray = before.fatArray
      /\ blockData = before.blockData
  BY <1>1, ExtendingJob DEF Extending
<1>3. dmapArray = Marked(before.dmapArray, run.new, TRUE)
  BY <1>2 DEF MapSet
<1>4. CASE /\ getFirstFreeBlock = {} /\ ProcessEnds("SIGSEGV") /\ run' = NULL
           /\ UNCHANGED <<container, rootDisc, fatDisc, dmapDisc, blockData>>
  <2> DEFINE n == Cardinality(FreeBlocks(before.dmapArray))
  <2>1. n = Len(run.new)
    BY <1>1, <1>3, <1>4, ExtendingJob, StepBegins, NoneLeft DEF getFirstFreeBlock
  <2>2. Asked > n
    BY <1>1, <2>1, ExtendingJob
  <2>3. run.new \in getCertainNumberOfFreeBlocks(before.dmapArray, n)
    BY <1>1, <2>1, ExtendingJob
  <2>4. dmapDisc' = DmapDiscWrite(before.dmapDisc, before.dmapArray, run.new, TRUE)
    BY <1>2, <1>4 DEF MapSet
  <2>5. RunsOut
    BY <1>2, <1>4, <2>2, <2>3, <2>4, StepBegins DEF RunsOut
  <2>6. R!Next
    <3>1. CASE run.op = "write"
      BY <1>1, <1>4, <2>5, <3>1, StepBegins, ExtendingJob, WriteSeen
    <3>2. CASE run.op = "truncate"
      BY <1>1, <1>4, <2>5, <3>2, StepBegins, ExtendingJob, ExtendSeen
    <3> QED
      BY <1>1, <3>1, <3>2, ExtendingJob
  <2>7. DoneSoFar'
    BY <1>2, <1>4, StepBegins, TableAtRest DEF ProcessEnds
  <2> QED
    BY <2>6, <2>7 DEF IsSeen
<1>5. ASSUME NEW b \in getFirstFreeBlock, setMap(b, TRUE),
             GoesOn([run EXCEPT
                   !.new = Append(@, b),
                   !.at = IF Len(run.new) + 1 = run.k THEN "attach" ELSE "take",
                   !.cur = rootFiles[run.s].firstBlock])
      PROVE  IsSeen
  <2> DEFINE new == Append(run.new, b)
             at == IF Len(run.new) + 1 = run.k THEN "attach" ELSE "take"
             cur == rootFiles[run.s].firstBlock
             job == [run EXCEPT !.new = new, !.at = at, !.cur = cur]
  <2>1. b \in DataBlocks /\ new \in getCertainNumberOfFreeBlocks(before.dmapArray, Len(run.new) + 1)
    BY <1>1, <1>3, <1>5, ExtendingJob, StepBegins, OneMoreFree DEF getFirstFreeBlock
  <2>2. new \in Seq(DataBlocks) /\ Len(new) = Len(run.new) + 1
    BY <1>1, <2>1, ExtendingJob
  <2>3. /\ dmapArray' = Marked(before.dmapArray, new, TRUE)
        /\ dmapDisc' = DmapDiscWrite(before.dmapDisc, before.dmapArray, new, TRUE)
        /\ UNCHANGED <<rootFiles, rootDisc, fatArray, fatDisc, blockData>>
    BY <1>1, <1>2, <1>5, <2>1, ExtendingJob, StepBegins, MapSetMore
  <2>4. GoesOn(job)
    BY <1>5
  <2>5. at \in {"take", "attach"}
    OBVIOUS
  <2> HIDE DEF new, at, cur
  <2>6. /\ job.op = run.op /\ job.n = run.n /\ job.s = run.s /\ job.off = run.off
        /\ job.size = run.size /\ job.v = run.v /\ job.k = run.k
        /\ job.at = at /\ job.new = new /\ job.cur = cur /\ job.i = run.i
    BY StepBegins DEF Job
  <2> HIDE DEF job
  <2>7. run' = job
    BY <2>4 DEF GoesOn
  <2>9. cur = OldFile.firstBlock /\ cur \in Blocks
    BY <1>2, OldFileIs, StepBegins DEF OldFile, cur
  <2>8. job \in Job
    <3>1. Distinct(new)
      BY <1>1, <2>1, ExtendingJob, AllocatedBlocks DEF Distinct
    <3>2. new \in UNION {[1..j -> DataBlocks] : j \in 0..NUMBER_DATA_BLOCKS}
      BY <2>2, <3>1, BlockLists
    <3>3. cur \in Blocks
      BY <2>9
    <3> QED
      BY <2>5, <3>2, <3>3, StepBegins DEF Job, job
  <2>10. /\ before' = before /\ UNCHANGED R!vars
         /\ OldFile' = OldFile /\ OldChain' = OldChain /\ Began' /\ Called' /\ ~Idle'
    <3>1. fatDisc' = fatArray'
      BY <2>3, StepBegins
    <3>2. job.at \in Extends => run.at \in Extends
      BY <1>1
    <3>3. job.at \in Cuts => run.at \in Cuts
      BY <2>5, <2>6 DEF Cuts
    <3> QED
      BY <2>4, <2>6, <2>8, <3>1, <3>2, <3>3, StepGoesOn
  <2>11. OldFile.firstBlock # FAT_END => cur \in Range(OldChain)
    <3> SUFFICES ASSUME OldFile.firstBlock # FAT_END PROVE cur \in Range(OldChain)
      OBVIOUS
    <3>1. OldChain # <<>> /\ OldFile.firstBlock = OldChain[1]
      BY OldFileIs, StepBegins DEF IsChain
    <3>2. 1 \in DOMAIN OldChain
      BY <3>1, OldFileIs, StepBegins
    <3> QED
      BY <2>9, <3>1, <3>2 DEF Range
  <2>12. Extending'
    <3>1. new \in getCertainNumberOfFreeBlocks(before.dmapArray, Len(new))
      BY <2>1, <2>2
    <3>2. MapSet(run.new, TRUE)'
      BY <2>3, <2>6, <2>7, <2>10 DEF MapSet
    <3> QED
      BY <1>2, <2>3, <2>5, <2>6, <2>7, <2>10, <2>11, <3>1, <3>2 DEF Extending
  <2> QED
    <3>1. run'.op # "unlink" /\ run'.at \in Extends
      BY <1>1, <2>5, <2>6, <2>7 DEF Extends
    <3> QED
      BY <2>10, <2>12, <3>1, KeepsExtending
<1> QED
  BY <1>4, <1>5 DEF TakeBlock

\* The first new block becomes the first block of an empty file, or the successor
\* of the last block of the file.
LEMMA AttachStep ==
    ASSUME InHandler, Attach
    PROVE  IsSeen
<1> DEFINE linked == [run EXCEPT !.at = "link", !.i = 1]
           cur == fatArray[run.cur]
           next == [run EXCEPT !.cur = cur]
           first == FirstBlock(OldFile, run.new)
<1>1. /\ run.at = "attach" /\ run.at \in Extends /\ run.op # "unlink"
      /\ Len(run.new) = run.k /\ run.k # 0
  BY StepBegins DEF Attach, JobInv, Extends
<1>2. /\ MapSet(run.new, TRUE) /\ rootDisc = before.rootDisc
      /\ rootFiles = before.rootFiles /\ fatArray = before.fatArray
      /\ blockData = before.blockData
      /\ OldFile.firstBlock # FAT_END => run.cur \in Range(OldChain)
  BY <1>1, ExtendingJob DEF Extending
<1>3. /\ rootFiles[run.s] = OldFile /\ run.s \in Slots /\ OldFile \in rootFile
      /\ OldChain \in Seq(DataBlocks) /\ Len(OldChain) \in Nat
      /\ IsChain(before.fatArray, OldFile.firstBlock, OldChain)
  BY <1>2, OldFileIs, StepBegins DEF OldFile
<1>4. run.new # <<>> /\ run.new[1] \in Blocks /\ run.cur \in Blocks /\ cur \in Blocks
  BY <1>1, ExtendingJob, StepBegins, RunningJob, EndIsNoDataBlock
<1>5. /\ linked \in Job /\ linked.op = run.op /\ linked.n = run.n /\ linked.s = run.s
      /\ linked.new = run.new /\ linked.k = run.k /\ linked.v = run.v
      /\ linked.off = run.off /\ linked.size = run.size /\ linked.at = "link" /\ linked.i = 1
  BY StepBegins DEF Job
<1> HIDE DEF linked
<1>6. ASSUME GoesOn(linked), fatDisc' = fatArray', UNCHANGED <<rootDisc, dmapArray, dmapDisc, blockData>>,
             rootFiles' = [before.rootFiles EXCEPT ![run.s] = [OldFile EXCEPT !.firstBlock = first]],
             \A b \in Blocks : fatArray'[b] =
                IF OldChain # <<>> /\ b = OldChain[Len(OldChain)] THEN run.new[1]
                ELSE before.fatArray[b]
      PROVE  IsSeen
  <2>1. /\ run' = linked /\ before' = before /\ UNCHANGED R!vars
        /\ OldFile' = OldFile /\ OldChain' = OldChain /\ Began' /\ Called' /\ ~Idle'
    <3>1. linked.at \notin Cuts
      BY <1>5 DEF Cuts
    <3> QED
      BY <1>1, <1>5, <1>6, <3>1, StepGoesOn
  <2>2. LinkedUpTo(1)' /\ MapSet(run.new, TRUE)'
    <3>1. run'.new = run.new
      BY <1>5, <2>1
    <3>2. MapSet(run.new, TRUE)'
      BY <1>2, <1>6, <2>1, <3>1 DEF MapSet
    <3>3. 1..(1 - 1) = {}
      OBVIOUS
    <3>4. LinkedUpTo(1)'
      BY <1>6, <2>1, <3>1, <3>3 DEF LinkedUpTo
    <3> QED
      BY <3>2, <3>4
  <2>3. FirstBlock(OldFile, run.new)' = first
    BY <1>5, <2>1 DEF FirstBlock
  <2>4. run'.at = "link" /\ run'.i = 1
    BY <1>5, <2>1
  <2>5. LinkedUpTo(run.i)'
    BY <2>2, <2>4
  <2>6. run'.new \in getCertainNumberOfFreeBlocks(before'.dmapArray, Len(run'.new))
    BY <1>1, <1>5, <2>1, ExtendingJob
  <2> HIDE DEF first
  <2>7. Extending'
    BY <1>1, <1>2, <1>5, <1>6, <2>1, <2>2, <2>3, <2>4, <2>5, <2>6 DEF Extending
  <2> QED
    <3>1. run'.op # "unlink" /\ run'.at \in Extends
      BY <1>1, <1>5, <2>1 DEF Extends
    <3> QED
      BY <2>1, <2>7, <3>1, KeepsExtending
<1>7. CASE /\ OldFile.firstBlock = FAT_END
           /\ rootFiles' = [rootFiles EXCEPT ![run.s].firstBlock = run.new[1]]
           /\ UNCHANGED <<rootDisc, fatArray, fatDisc, dmapArray, dmapDisc, blockData>>
           /\ GoesOn(linked)
  <2>1. OldChain = <<>>
    BY <1>7, StepBegins, ChainEmpty DEF OldChain
  <2>2. first = run.new[1]
    BY <1>4, <1>7 DEF FirstBlock
  <2>3. rootFiles' = [before.rootFiles EXCEPT ![run.s] = [OldFile EXCEPT !.firstBlock = first]]
    BY <1>2, <1>3, <1>7, <2>2
  <2> QED
    BY <1>2, <1>6, <1>7, <2>1, <2>3, StepBegins
<1>8. ASSUME OldFile.firstBlock # FAT_END
      PROVE  \E i \in 1..Len(OldChain) :
                run.cur = OldChain[i] /\ cur = IF i < Len(OldChain) THEN OldChain[i + 1] ELSE FAT_END
  <2>1. PICK i \in 1..Len(OldChain) : run.cur = OldChain[i]
    BY <1>2, <1>3, <1>8 DEF Range
  <2> QED
    BY <1>2, <1>3, <2>1 DEF IsChain
<1>9. CASE OldFile.firstBlock # FAT_END /\ cur # FAT_END /\ UNCHANGED fsVars /\ GoesOn(next)
  <2>1. cur \in Range(OldChain)
    <3>1. PICK i \in 1..Len(OldChain) : cur = OldChain[i + 1] /\ i < Len(OldChain)
      BY <1>8, <1>9
    <3>2. i + 1 \in DOMAIN OldChain
      BY <1>3, <3>1
    <3> QED
      BY <3>1, <3>2 DEF Range
  <2> HIDE DEF cur
  <2>2. /\ next \in Job /\ next.op = run.op /\ next.n = run.n /\ next.s = run.s
        /\ next.new = run.new /\ next.k = run.k /\ next.v = run.v /\ next.cur = cur
        /\ next.off = run.off /\ next.size = run.size /\ next.at = run.at
    BY <1>4, StepBegins DEF Job
  <2> HIDE DEF next
  <2>3. UNCHANGED <<rootFiles, rootDisc, fatArray, fatDisc, dmapArray, dmapDisc, blockData>>
    BY <1>9 DEF fsVars
  <2>4. /\ run' = next /\ before' = before /\ UNCHANGED R!vars
        /\ OldFile' = OldFile /\ OldChain' = OldChain /\ Began' /\ Called' /\ ~Idle'
    <3>1. fatDisc' = fatArray'
      BY <2>3, StepBegins
    <3> QED
      BY <1>9, <2>2, <3>1, StepGoesOn
  <2>5. MapSet(run.new, TRUE)'
    BY <1>2, <2>2, <2>3, <2>4 DEF MapSet
  <2>6. run'.new \in getCertainNumberOfFreeBlocks(before'.dmapArray, Len(run'.new))
    BY <1>1, <2>2, <2>4, ExtendingJob
  <2>7. run'.at = "attach" /\ run'.cur = cur
    BY <1>1, <2>2, <2>4
  <2>8. Extending'
    BY <1>2, <2>1, <2>3, <2>4, <2>5, <2>6, <2>7 DEF Extending
  <2> QED
    <3>1. run'.op # "unlink" /\ run'.at \in Extends
      BY <1>1, <2>2, <2>4 DEF Extends
    <3> QED
      BY <2>4, <2>8, <3>1, KeepsExtending
<1>10. CASE OldFile.firstBlock # FAT_END /\ cur = FAT_END
            /\ setNext(run.cur, run.new[1]) /\ GoesOn(linked)
  <2>1. /\ fatArray' = [fatArray EXCEPT ![run.cur] = run.new[1]] /\ fatDisc' = fatArray'
        /\ UNCHANGED <<rootFiles, rootDisc, dmapArray, dmapDisc, blockData>>
    BY <1>4, <1>10, NextSet, StepBegins
  <2>2. run.cur = OldChain[Len(OldChain)] /\ OldChain # <<>>
    <3>1. PICK i \in 1..Len(OldChain) :
             run.cur = OldChain[i] /\ cur = IF i < Len(OldChain) THEN OldChain[i + 1] ELSE FAT_END
      BY <1>8, <1>10
    <3>2. i = Len(OldChain)
      <4>1. i < Len(OldChain) => OldChain[i + 1] \in DataBlocks
        BY <1>3
      <4> QED
        BY <1>3, <1>10, <3>1, <4>1, EndIsNoDataBlock
    <3> QED
      BY <1>3, <3>1, <3>2
  <2>3. first = OldFile.firstBlock
    BY <1>10 DEF FirstBlock
  <2>4. rootFiles' = [before.rootFiles EXCEPT ![run.s] = [OldFile EXCEPT !.firstBlock = first]]
    <3>1. before.rootFiles[run.s] = OldFile /\ before.rootFiles \in RootDirectories
      BY StepBegins DEF OldFile
    <3>2. [OldFile EXCEPT !.firstBlock = first] = OldFile
      BY <1>3, <2>3 DEF rootFile
    <3> QED
      BY <1>2, <1>3, <2>1, <3>1, <3>2 DEF RootDirectories
  <2>5. \A b \in Blocks : fatArray'[b] =
           IF OldChain # <<>> /\ b = OldChain[Len(OldChain)] THEN run.new[1] ELSE before.fatArray[b]
    BY <1>2, <1>4, <2>1, <2>2, StepBegins
  <2> QED
    BY <1>6, <1>10, <2>1, <2>4, <2>5
<1> QED
  BY <1>3, <1>7, <1>9, <1>10 DEF Attach, linked

\* Before its first turn, the loop of fuseWrite has copied nothing.
LEMMA DataBegins ==
    ASSUME before'.blockData \in [Blocks -> [0..(BLOCK_SIZE - 1) -> Bytes]],
           run' \in Job, run'.size # 0, blockData' = before'.blockData
    PROVE  /\ WrittenUpTo(0)' /\ 0 < WriteBlocks'
           /\ Target(0)' = getNth(fatArray', FirstBlock(OldFile', run'.new), run'.off \div BLOCK_SIZE)
<1>1. WrittenUpTo(0)'
  <2>1. 0..(0 - 1) = {}
    OBVIOUS
  <2>2. before'.blockData = [b \in Blocks |-> [j \in 0..(BLOCK_SIZE - 1) |-> before'.blockData[b][j]]]
    OBVIOUS
  <2> QED
    BY <2>1, <2>2 DEF WrittenUpTo
<1>2. run'.size \in Nat \ {0} /\ run'.off \in Nat
  BY JobFields, FuseAssumption
<1>3. 0 < WriteBlocks'
  <2> DEFINE skip == run'.off % BLOCK_SIZE
  <2>1. skip \in Nat
    BY <1>2, LayoutAssumption, DivMod
  <2> HIDE DEF skip
  <2>2. run'.size + skip \in Nat \ {0}
    BY <1>2, <2>1
  <2>3. numBlocks(run'.size + skip) \in Nat \ {0}
    BY <2>2, LastBlock
  <2> QED
    BY <2>3 DEF WriteBlocks, skip
<1>4. Target(0)' = getNth(fatArray', FirstBlock(OldFile', run'.new), run'.off \div BLOCK_SIZE)
  <2>1. run'.off \div BLOCK_SIZE \in Nat
    BY <1>2, LayoutAssumption, DivMod
  <2>2. (run'.off \div BLOCK_SIZE) + 0 = run'.off \div BLOCK_SIZE
    BY <2>1
  <2> QED
    BY <2>2 DEF Target, FirstBlock
<1> QED
  BY <1>1, <1>3, <1>4

\* When the last link has been set, the table is the one of setFATBlocks.
LEMMA LinkStep ==
    ASSUME InHandler, Link
    PROVE  IsSeen
<1> DEFINE first == FirstBlock(OldFile, run.new)
<1>1. /\ run.at = "link" /\ run.at \in Extends /\ run.op # "unlink"
      /\ Len(run.new) = run.k /\ run.k # 0 /\ run.i \in 1..run.k
  BY StepBegins DEF Link, JobInv, Extends
<1>2. /\ MapSet(run.new, TRUE) /\ rootDisc = before.rootDisc
      /\ rootFiles = [before.rootFiles EXCEPT ![run.s] = [OldFile EXCEPT !.firstBlock = first]]
      /\ blockData = before.blockData /\ LinkedUpTo(run.i)
  BY <1>1, ExtendingJob DEF Extending
<1>3. /\ \A j \in 1..run.k : run.new[j] \in DataBlocks /\ run.new[j] \in Blocks
      /\ Distinct(run.new) /\ run.k \in Nat /\ run.new # <<>>
  BY <1>1, ExtendingJob, EndIsNoDataBlock
<1>4. run.new \in getCertainNumberOfFreeBlocks(before.dmapArray, Len(run.new))
      /\ run.new \in Seq(DataBlocks) /\ Asked = run.k
  BY <1>1, ExtendingJob
<1>5. CASE /\ run.i < run.k
           /\ setNext(run.new[run.i], run.new[run.i + 1])
           /\ GoesOn([run EXCEPT !.i = @ + 1])
  <2> DEFINE job == [run EXCEPT !.i = @ + 1]
  <2>1. run.i + 1 \in 1..run.k /\ run.i + 1 \in Nat
    BY <1>1, <1>3, <1>5
  <2>2. /\ job \in Job /\ job.op = run.op /\ job.n = run.n /\ job.s = run.s
        /\ job.new = run.new /\ job.k = run.k /\ job.v = run.v
        /\ job.off = run.off /\ job.size = run.size /\ job.at = run.at /\ job.i = run.i + 1
    BY <2>1, StepBegins DEF Job
  <2>3. GoesOn(job)
    BY <1>5
  <2> HIDE DEF job
  <2>4. /\ fatArray' = [fatArray EXCEPT ![run.new[run.i]] = run.new[run.i + 1]]
        /\ fatDisc' = fatArray'
        /\ UNCHANGED <<rootFiles, rootDisc, dmapArray, dmapDisc, blockData>>
    BY <1>1, <1>3, <1>5, <2>1, NextSet, StepBegins
  <2>5. /\ run' = job /\ before' = before /\ UNCHANGED R!vars
        /\ OldFile' = OldFile /\ OldChain' = OldChain /\ Began' /\ Called' /\ ~Idle'
    BY <2>2, <2>3, <2>4, StepGoesOn
  <2>6. LinkedUpTo(run.i)'
    <3>1. 1..(run'.i - 1) = 1..(run.i - 1) \cup {run.i} /\ run'.new = run.new
      BY <1>1, <1>3, <2>2, <2>5
    <3>2. \A j \in 1..(run.i - 1) : run.new[j] # run.new[run.i] /\ run.new[j] \in Blocks
      BY <1>1, <1>3 DEF Distinct
    <3>3. run.new[run.i] \in Blocks
      BY <1>1, <1>3
    <3>4. \A j \in 1..(run'.i - 1) : fatArray'[run.new[j]] = run.new[j + 1]
      BY <1>2, <2>4, <3>1, <3>2, <3>3, StepBegins DEF LinkedUpTo
    <3>5. \A b \in Blocks : (\A j \in 1..(run'.i - 1) : run.new[j] # b) =>
             fatArray'[b] = IF OldChain # <<>> /\ b = OldChain[Len(OldChain)] THEN run.new[1]
                            ELSE before.fatArray[b]
      BY <1>2, <2>4, <3>1, <3>3, StepBegins DEF LinkedUpTo
    <3> QED
      BY <2>5, <3>1, <3>4, <3>5 DEF LinkedUpTo
  <2>7. MapSet(run.new, TRUE)'
    BY <1>2, <2>2, <2>4, <2>5 DEF MapSet
  <2>8. FirstBlock(OldFile, run.new)' = first
    BY <2>2, <2>5 DEF FirstBlock
  <2> HIDE DEF first
  <2>9. Extending'
    BY <1>1, <1>2, <1>4, <2>2, <2>4, <2>5, <2>6, <2>7, <2>8 DEF Extending
  <2> QED
    <3>1. run'.op # "unlink" /\ run'.at \in Extends
      BY <1>1, <2>2, <2>5
    <3> QED
      BY <2>5, <2>9, <3>1, KeepsExtending
<1>6. CASE /\ run.i = run.k
           /\ setNext(run.new[run.k], AfterLast(run.new[run.k]))
           /\ \/ run.op = "write" /\ GoesOn(DataPhase(run, fatArray'))
              \/ run.op = "truncate" /\ Finishes
  <2> DEFINE lnk == Linked(before.fatArray, OldChain, run.new)
  <2>1. /\ fatArray' = [fatArray EXCEPT ![run.new[run.k]] = FAT_END]
        /\ fatDisc' = fatArray'
        /\ UNCHANGED <<rootFiles, rootDisc, dmapArray, dmapDisc, blockData>>
    <3>1. run.new[run.k] \in Blocks /\ AfterLast(run.new[run.k]) = FAT_END /\ FAT_END \in Blocks
      BY <1>1, <1>3, <1>6, EndIsNoDataBlock DEF AfterLast
    <3> QED
      BY <1>6, <3>1, NextSet, StepBegins
  <2>2. lnk \in [Blocks -> Blocks] /\ Terminates(lnk)
    BY <1>3, <1>4, StepBegins, LinkedType, LinkedTerminates DEF Distinct
  <2>3. fatArray' = lnk
    <3> SUFFICES ASSUME NEW b \in Blocks PROVE fatArray'[b] = lnk[b]
      BY <2>1, <2>2, StepBegins
    <3> HIDE DEF lnk
    <3>1. ASSUME NEW m \in 1..run.k, run.new[m] = b PROVE fatArray'[b] = lnk[b]
      <4>1. lnk[b] = IF m < run.k THEN run.new[m + 1] ELSE FAT_END
        BY <1>1, <1>3, <1>4, <3>1, StepBegins, LinkedNew DEF Distinct, lnk
      <4>2. CASE m = run.k
        BY <1>3, <2>1, <3>1, <4>1, <4>2, StepBegins
      <4>3. CASE m # run.k
        <5>1. m \in 1..(run.k - 1) /\ run.new[m] # run.new[run.k] /\ m < run.k
          BY <1>1, <1>3, <4>3 DEF Distinct
        <5>2. fatArray[run.new[m]] = run.new[m + 1]
          BY <1>2, <1>6, <5>1 DEF LinkedUpTo
        <5> QED
          BY <1>3, <2>1, <3>1, <4>1, <5>1, <5>2, StepBegins
      <4> QED
        BY <4>2, <4>3
    <3>2. CASE \A m \in 1..run.k : run.new[m] # b
      <4>1. lnk[b] = IF OldChain # <<>> /\ b = OldChain[Len(OldChain)] THEN run.new[1]
                     ELSE before.fatArray[b]
        <5>1. \A m \in 1..Len(run.new) : run.new[m] # b
          BY <1>1, <3>2
        <5>2. Linked(before.fatArray, OldChain, run.new)[b]
                 = IF run.new # <<>> /\ OldChain # <<>> /\ b = OldChain[Len(OldChain)]
                   THEN run.new[1] ELSE before.fatArray[b]
          BY <1>4, <5>1, StepBegins, LinkedOld
        <5> QED
          BY <1>3, <5>2 DEF lnk
      <4>2. \A m \in 1..(run.i - 1) : run.new[m] # b
        BY <1>1, <1>3, <3>2
      <4>3. fatArray[b] = lnk[b]
        BY <1>2, <4>1, <4>2 DEF LinkedUpTo
      <4>4. b # run.new[run.k]
        BY <1>1, <1>3, <3>2
      <4> QED
        BY <2>1, <4>3, <4>4, StepBegins
    <3> QED
      BY <3>1, <3>2
  <2>4. CASE run.op = "truncate" /\ Finishes
    <3>1. ExtendsTo(run.new)
      BY <1>1, <1>2, <1>4, <2>1, <2>3, <2>4 DEF ExtendsTo, MapSet, Finishes
    <3>2. run' = NULL
      BY <2>4 DEF Finishes
    <3>3. R!Next
      BY <1>1, <1>2, <2>1, <2>4, <3>1, <3>2, StepBegins, ExtendSeen
    <3>4. DoneSoFar'
      <4>1. mounted' = TRUE /\ container' = TRUE
        BY <2>4, StepBegins DEF Finishes, Completes
      <4> QED
        BY <2>1, <2>2, <2>3, <3>2, <4>1, TableAtRest
    <3> QED
      BY <3>3, <3>4 DEF IsSeen
  <2>5. CASE run.op = "write" /\ GoesOn(DataPhase(run, fatArray'))
    <3> DEFINE job == DataPhase(run, fatArray')
               cur == getNth(fatArray', first, run.off \div BLOCK_SIZE)
    <3>1. rootFiles[run.s] \in rootFile /\ rootFiles[run.s].firstBlock = first
      <4>1. rootFiles[run.s] \in rootFile
        BY <1>1, StepBegins, RunningJob
      <4> QED
        BY <1>2, <4>1, OldFileIs, StepBegins DEF RootDirectories, rootFile
    <3>2. job \in Job
      BY <2>2, <2>3, <3>1, StepBegins, DataPhaseType
    <3>3. job = [run EXCEPT !.at = "data", !.i = 0, !.cur = cur]
      BY <3>1 DEF DataPhase
    <3>4. GoesOn(job)
      BY <2>5
    <3> HIDE DEF job, cur
    <3>5. /\ job.op = run.op /\ job.n = run.n /\ job.s = run.s
          /\ job.new = run.new /\ job.k = run.k /\ job.v = run.v /\ job.i = 0
          /\ job.off = run.off /\ job.size = run.size /\ job.at = "data" /\ job.cur = cur
      BY <3>3, StepBegins DEF Job
    <3>6. /\ run' = job /\ before' = before /\ UNCHANGED R!vars
          /\ OldFile' = OldFile /\ OldChain' = OldChain /\ Began' /\ Called' /\ ~Idle'
      <4>1. job.at \notin Cuts
        BY <3>5 DEF Cuts
      <4> QED
        BY <1>1, <2>1, <3>2, <3>4, <3>5, <4>1, StepGoesOn
    <3>7. /\ WrittenUpTo(0)' /\ 0 < WriteBlocks' /\ Target(0)' = run'.cur
      <4>1. run'.size # 0
        <5>1. run.size \in 1..MaxSize
          BY <2>5, StepBegins DEF Called, CalledByHandle
        <5> QED
          BY <3>5, <3>6, <5>1
      <4>2. before'.blockData \in [Blocks -> [0..(BLOCK_SIZE - 1) -> Bytes]]
        BY <3>6 DEF Began
      <4>3. FirstBlock(OldFile', run'.new) = first
        BY <3>5, <3>6 DEF FirstBlock
      <4>4. run'.cur = getNth(fatArray', first, run'.off \div BLOCK_SIZE)
        BY <3>5, <3>6 DEF cur
      <4> HIDE DEF first
      <4> QED
        BY <1>2, <2>1, <3>2, <3>6, <4>1, <4>2, <4>3, <4>4, DataBegins
    <3>8. MapSet(run.new, TRUE)'
      BY <1>2, <2>1, <3>5, <3>6 DEF MapSet
    <3>9. FirstBlock(OldFile, run.new)' = first
      BY <3>5, <3>6 DEF FirstBlock
    <3> HIDE DEF first, lnk
    <3>11. run'.at = "data" /\ run'.i = 0
      BY <3>5, <3>6
    <3>12. WrittenUpTo(run.i)' /\ Target(run.i)' = run'.cur
      BY <3>7, <3>11
    <3>13. fatArray' = Linked(before'.fatArray, OldChain', run'.new)
      BY <2>3, <3>5, <3>6 DEF lnk
    <3>14. Extending'
      BY <1>1, <1>2, <1>4, <2>1, <3>5, <3>6, <3>7, <3>8, <3>9, <3>11, <3>12, <3>13 DEF Extending
    <3> QED
      <4>1. run'.op # "unlink" /\ run'.at \in Extends
        BY <1>1, <3>5, <3>6 DEF Extends
      <4> QED
        BY <3>6, <3>14, <4>1, KeepsExtending
  <2> QED
    BY <1>6, <2>4, <2>5
<1> QED
  BY <1>5, <1>6 DEF Link

-----------------------------------------------------------------------------
(* The bytes of a write.                                                   *)

\* A position is a block and a place in it.
LEMMA DivModOf ==
    ASSUME NEW d \in Nat \ {0}, NEW q \in Nat, NEW j \in 0..(d - 1)
    PROVE  /\ q * d + j \in Nat /\ (q * d + j) \div d = q /\ (q * d + j) % d = j
<1> DEFINE x == q * d + j
           p == x \div d
           r == x % d
<1>1. x \in Nat /\ q * d \in Nat
  OBVIOUS
<1>2. p \in Nat /\ r \in 0..(d - 1) /\ x = p * d + r
  <2> HIDE DEF x
  <2> QED
    BY <1>1, DivMod
<1>3. ~(p < q)
  <2> SUFFICES ASSUME p < q PROVE FALSE
    OBVIOUS
  <2> HIDE DEF p, r
  <2>1. (p + 1) * d <= q * d
    BY <1>2, TimesMonotone
  <2>2. (p + 1) * d = p * d + d /\ p * d \in Nat
    BY <1>2
  <2> DEFINE a == p * d
             b == q * d
  <2>3. a + d <= b /\ x = b + j /\ x = a + r /\ a \in Nat /\ b \in Nat
    BY <1>1, <1>2, <2>1, <2>2
  <2> HIDE DEF a, b, x
  <2> QED
    BY <1>2, <2>3
<1>4. ~(q < p)
  <2> SUFFICES ASSUME q < p PROVE FALSE
    OBVIOUS
  <2> HIDE DEF p, r
  <2>1. (q + 1) * d <= p * d
    BY <1>2, TimesMonotone
  <2>2. (q + 1) * d = q * d + d /\ p * d \in Nat
    BY <1>2
  <2> DEFINE a == p * d
             b == q * d
  <2>3. b + d <= a /\ x = b + j /\ x = a + r /\ a \in Nat /\ b \in Nat
    BY <1>1, <1>2, <2>1, <2>2
  <2> HIDE DEF a, b, x
  <2> QED
    BY <1>2, <2>3
<1>5. p = q
  <2> HIDE DEF p
  <2> QED
    BY <1>2, <1>3, <1>4
<1>6. r = j
  <2> DEFINE a == q * d
  <2>1. x = a + j /\ x = a + r /\ a \in Nat
    BY <1>1, <1>2, <1>5
  <2> HIDE DEF a, x, r, p
  <2> QED
    BY <1>2, <2>1
<1> QED
  BY <1>1, <1>5, <1>6

\* Place j of the q-th block of the file is one that memcpy fills; it is that
\* of a byte of the write.
Filled(off, size, q, j) ==
    \E m \in 0..(numBlocks(size + (off % BLOCK_SIZE)) - 1) :
       (off \div BLOCK_SIZE) + m = q /\ j \in Copied(m, off, size)

OfWrite(off, size, q, j) ==
    \E p \in off..(off + size - 1) : p % BLOCK_SIZE = j /\ p \div BLOCK_SIZE = q

\* The places that memcpy fills in the blocks of a write (myondiskfs.cpp:337-360)
\* are those of the bytes from its offset to its end, no more and no less.
LEMMA WrittenPlaces ==
    ASSUME NEW off \in Nat, NEW size \in Nat \ {0}, NEW j \in 0..(BLOCK_SIZE - 1), NEW q \in Nat
    PROVE  Filled(off, size, q, j) <=> OfWrite(off, size, q, j)
<1> DEFINE o == off \div BLOCK_SIZE
           skip == off % BLOCK_SIZE
           n == numBlocks(size + skip)
<1>1. BLOCK_SIZE \in Nat \ {0}
  BY LayoutAssumption
<1>2. o \in Nat /\ skip \in 0..(BLOCK_SIZE - 1) /\ off = o * BLOCK_SIZE + skip
  BY <1>1, DivMod
<1>3. n \in Nat \ {0} /\ size + skip <= (n - 1) * BLOCK_SIZE + BLOCK_SIZE
  <2>1. size + skip \in Nat \ {0}
    BY <1>2
  <2> QED
    BY <2>1, LastBlock
<1>4. ASSUME NEW m \in 0..(n - 1), o + m = q, j \in Copied(m, off, size)
      PROVE  \E p \in off..(off + size - 1) : p % BLOCK_SIZE = j /\ p \div BLOCK_SIZE = q
  <2> DEFINE p == q * BLOCK_SIZE + j
  <2>1. p \in Nat /\ p \div BLOCK_SIZE = q /\ p % BLOCK_SIZE = j
    BY <1>1, DivModOf
  <2>2. off <= p /\ p < off + size
    BY <1>4, WriteFillsItsBytes
  <2> HIDE DEF p
  <2>3. p \in off..(off + size - 1)
    BY <2>1, <2>2
  <2> QED
    BY <2>1, <2>3
<1>5. ASSUME NEW p \in off..(off + size - 1), p % BLOCK_SIZE = j, p \div BLOCK_SIZE = q
      PROVE  \E m \in 0..(n - 1) : o + m = q /\ j \in Copied(m, off, size)
  <2> DEFINE first == o * BLOCK_SIZE
             last == n * BLOCK_SIZE
             at == q * BLOCK_SIZE
  <2>1. p \in Nat /\ p = at + j
    <3>1. p \in Nat
      OBVIOUS
    <3> QED
      BY <1>1, <1>5, <3>1, DivMod
  <2>2. first \in Nat /\ last \in Nat /\ at \in Nat
    BY <1>1, <1>2, <1>3
  <2>3. off = first + skip
    BY <1>2
  <2>4. size + skip <= last
    <3>1. (n - 1) * BLOCK_SIZE + BLOCK_SIZE = n * BLOCK_SIZE
      <4>1. n \in Nat
        BY <1>3
      <4> HIDE DEF n
      <4> QED
        BY <1>1, <4>1
    <3> QED
      BY <1>3, <3>1
  <2>5. o <= q
    <3> SUFFICES ASSUME q < o PROVE FALSE
      BY <1>2
    <3>1. (q + 1) * BLOCK_SIZE <= o * BLOCK_SIZE
      <4>1. q + 1 <= o /\ q + 1 \in Nat
        BY <1>2
      <4> HIDE DEF o
      <4> QED
        BY <1>1, <1>2, <4>1, TimesMonotone
    <3>2. (q + 1) * BLOCK_SIZE = at + BLOCK_SIZE
      BY <1>1
    <3>3. at + BLOCK_SIZE <= first
      BY <3>1, <3>2
    <3> HIDE DEF first, at, skip, o
    <3> QED
      BY <1>1, <1>2, <2>1, <2>2, <2>3, <3>3
  <2>6. q < o + n
    <3> SUFFICES ASSUME o + n <= q PROVE FALSE
      <4> HIDE DEF o, n
      <4> QED
        BY <1>2, <1>3
    <3>1. (o + n) * BLOCK_SIZE <= q * BLOCK_SIZE
      <4>1. o + n \in Nat
        BY <1>2, <1>3
      <4> HIDE DEF o, n
      <4> QED
        BY <1>1, <4>1, TimesMonotone
    <3>2. (o + n) * BLOCK_SIZE = first + last
      <4> HIDE DEF o, n
      <4> QED
        BY <1>1, <1>2, <1>3
    <3>3. first + last <= at
      BY <3>1, <3>2
    <3> HIDE DEF first, last, at, skip, o, n
    <3> QED
      BY <1>1, <1>2, <2>1, <2>2, <2>3, <2>4, <3>3
  <2> DEFINE m == q - o
  <2>7. m \in 0..(n - 1) /\ o + m = q
    <3> HIDE DEF o, n
    <3> QED
      BY <1>2, <1>3, <2>5, <2>6
  <2>8. j \in Copied(m, off, size)
    <3>1. (o + m) * BLOCK_SIZE + j = p
      BY <2>1, <2>7
    <3>2. off <= p /\ p < off + size
      OBVIOUS
    <3> HIDE DEF m
    <3> QED
      BY <2>7, <3>1, <3>2, WriteFillsItsBytes
  <2> QED
    BY <2>7, <2>8
<1> QED
  BY <1>4, <1>5 DEF Filled, OfWrite

\* fuseWrite writes the next block of its data.
LEMMA WriteDataStep ==
    ASSUME InHandler, WriteData
    PROVE  IsSeen
<1> DEFINE at == IF run.i + 1 = WriteBlocks THEN "entry" ELSE "data"
           cur == fatArray[run.cur]
           job == [run EXCEPT !.cur = cur, !.i = @ + 1, !.at = at]
           first == FirstBlock(OldFile, run.new)
           filled(m) == Copied(m, run.off, run.size)
<1>1. run.at = "data" /\ run.at \in Extends /\ run.op = "write" /\ run.op # "unlink"
  BY StepBegins, JobFields DEF WriteData, JobInv, Extends
<1>2. /\ MapSet(run.new, TRUE) /\ rootDisc = before.rootDisc /\ Len(run.new) = run.k
      /\ rootFiles = [before.rootFiles EXCEPT ![run.s] = [OldFile EXCEPT !.firstBlock = first]]
      /\ fatArray = Linked(before.fatArray, OldChain, run.new) /\ WrittenUpTo(run.i)
      /\ run.i < WriteBlocks /\ run.cur = Target(run.i)
  BY <1>1, ExtendingJob DEF Extending
<1>3. run.cur \in Blocks /\ cur \in Blocks /\ run.i \in Nat /\ run.i + 1 \in Nat
  BY StepBegins, RunningJob
<1>4. WriteBlocks \in Nat /\ run.off \div BLOCK_SIZE \in Nat
  <2> DEFINE skip == run.off % BLOCK_SIZE
  <2>1. run.off \in Nat /\ run.size \in Nat \ {0}
    BY <1>1, StepBegins, JobFields, FuseAssumption DEF Called, CalledByHandle
  <2> DEFINE off == run.off
  <2>2. off % BLOCK_SIZE \in Nat /\ off \div BLOCK_SIZE \in Nat
    <3> HIDE DEF off
    <3>1. off \in Nat /\ BLOCK_SIZE \in Nat \ {0}
      BY <2>1, LayoutAssumption DEF off
    <3>2. off \div BLOCK_SIZE \in Nat /\ off % BLOCK_SIZE \in 0..(BLOCK_SIZE - 1)
      BY <3>1, DivMod
    <3> QED
      BY <3>1, <3>2
  <2> HIDE DEF skip
  <2>3. run.size + skip \in Nat \ {0}
    BY <2>1, <2>2 DEF skip
  <2>4. numBlocks(run.size + skip) \in Nat
    BY <2>3, LastBlock
  <2> QED
    BY <2>2, <2>4 DEF WriteBlocks, skip
<1>5. GoesOn(job) /\ UNCHANGED <<rootFiles, rootDisc, fatArray, fatDisc, dmapArray, dmapDisc>>
  BY DEF WriteData, WriteBlocks
<1>6. blockData' = [blockData EXCEPT ![run.cur] =
         [j \in 0..(BLOCK_SIZE - 1) |-> IF j \in filled(run.i) THEN run.v ELSE @[j]]]
  BY StepBegins DEF WriteData, DeviceWrite
<1>7. at \in {"data", "entry"} /\ (at = "data" => run.i + 1 < WriteBlocks)
      /\ (at = "entry" => run.i + 1 = WriteBlocks)
  BY <1>2, <1>3, <1>4
<1> HIDE DEF at, cur, filled
<1>8. /\ job \in Job /\ job.op = run.op /\ job.n = run.n /\ job.s = run.s
      /\ job.new = run.new /\ job.k = run.k /\ job.v = run.v /\ job.cur = cur
      /\ job.off = run.off /\ job.size = run.size /\ job.at = at /\ job.i = run.i + 1
  BY <1>3, <1>7, StepBegins DEF Job
<1> HIDE DEF job
<1>9. /\ run' = job /\ before' = before /\ UNCHANGED R!vars
      /\ OldFile' = OldFile /\ OldChain' = OldChain /\ Began' /\ Called' /\ ~Idle'
  <2>1. job.at \notin Cuts /\ fatDisc' = fatArray'
    BY <1>5, <1>7, <1>8, StepBegins DEF Cuts
  <2> QED
    BY <1>1, <1>5, <1>8, <2>1, StepGoesOn
<1>10. FirstBlock(OldFile, run.new)' = first /\ WriteBlocks' = WriteBlocks
  BY <1>8, <1>9 DEF FirstBlock, WriteBlocks
<1>11. \A m : Target(m)' = Target(m)
  BY <1>5, <1>8, <1>9 DEF Target, FirstBlock
<1>12. Target(run.i + 1) = cur
  <2> DEFINE n == (run.off \div BLOCK_SIZE) + run.i
  <2>1. n \in Nat /\ (run.off \div BLOCK_SIZE) + (run.i + 1) = n + 1
    BY <1>3, <1>4
  <2>2. getNth(fatArray, first, n + 1) = fatArray[getNth(fatArray, first, n)]
    <3> HIDE DEF n, first
    <3> QED
      BY <2>1, getNthSteps
  <2> QED
    BY <1>2, <2>1, <2>2 DEF Target, cur
<1>13. run'.i = run.i + 1 /\ run'.at = at /\ run'.cur = cur
  BY <1>8, <1>9
<1>15. WrittenUpTo(run.i)'
  <2>1. 0..((run.i + 1) - 1) = 0..(run.i - 1) \cup {run.i}
    BY <1>3
  <2> DEFINE old(b, j) == before.blockData[b][j]
             hit(b, j) == \E m \in 0..(run.i - 1) : Target(m) = b /\ j \in filled(m)
             hits(b, j) == \E m \in 0..((run.i + 1) - 1) : Target(m) = b /\ j \in filled(m)
  <2>2. blockData = [b \in Blocks |-> [j \in 0..(BLOCK_SIZE - 1) |->
                        IF hit(b, j) THEN run.v ELSE old(b, j)]]
    BY <1>2 DEF WrittenUpTo, filled
  <2>3. \A b, j : hits(b, j) <=> hit(b, j) \/ (b = run.cur /\ j \in filled(run.i))
    BY <1>2, <2>1
  <2> HIDE DEF hit, hits
  <2>4. blockData' = [b \in Blocks |-> [j \in 0..(BLOCK_SIZE - 1) |->
                        IF hits(b, j) THEN run.v ELSE old(b, j)]]
    <3> DEFINE new == [b \in Blocks |-> [j \in 0..(BLOCK_SIZE - 1) |->
                         IF hits(b, j) THEN run.v ELSE old(b, j)]]
    <3>1. \A b \in Blocks : b # run.cur => blockData'[b] = new[b]
      BY <1>3, <1>6, <2>2, <2>3
    <3>2. blockData'[run.cur] = new[run.cur]
      BY <1>3, <1>6, <2>2, <2>3
    <3>3. blockData' = [b \in Blocks |-> blockData'[b]]
      BY <1>6, <2>2
    <3> QED
      BY <3>1, <3>2, <3>3
  <2>5. \A b, j : hits(b, j) <=>
           \E m \in 0..(run'.i - 1) : Target(m)' = b /\ j \in Copied(m, run'.off, run'.size)
    BY <1>8, <1>9, <1>11, <1>13 DEF hits, filled
  <2>6. run'.v = run.v /\ before' = before
    BY <1>8, <1>9
  <2> QED
    BY <2>4, <2>5, <2>6 DEF WrittenUpTo
<1>14. MapSet(run.new, TRUE)'
  BY <1>2, <1>5, <1>8, <1>9 DEF MapSet
<1> HIDE DEF first
<1>16. Target(run.i)' = run'.cur
  <2>1. \A m : m = run'.i => Target(run.i)' = Target(m)'
    BY DEF Target
  <2> QED
    BY <1>11, <1>12, <1>13, <2>1
<1>17. run'.new \in getCertainNumberOfFreeBlocks(before'.dmapArray, Len(run'.new))
       /\ Len(run'.new) = run'.k
       /\ fatArray' = Linked(before'.fatArray, OldChain', run'.new)
       /\ rootFiles' = [before'.rootFiles EXCEPT
             ![run'.s] = [OldFile' EXCEPT !.firstBlock = FirstBlock(OldFile, run.new)']]
  BY <1>1, <1>2, <1>5, <1>8, <1>9, <1>10, ExtendingJob
<1>18. Extending'
  BY <1>2, <1>5, <1>7, <1>9, <1>10, <1>13, <1>14, <1>15, <1>16, <1>17 DEF Extending
<1> QED
  <2>1. run'.op # "unlink" /\ run'.at \in Extends
    BY <1>1, <1>7, <1>8, <1>9 DEF Extends
  <2> QED
    BY <1>9, <1>18, <2>1, KeepsExtending

\* The blocks old after a write, part by part and as a whole.
ByParts(fat, first, off, size, v, old) ==
    [b \in Blocks |-> [j \in 0..(BLOCK_SIZE - 1) |->
        IF \E m \in 0..(numBlocks(size + (off % BLOCK_SIZE)) - 1) :
              /\ getNth(fat, first, (off \div BLOCK_SIZE) + m) = b
              /\ j \in Copied(m, off, size)
        THEN v ELSE old[b][j]]]

AsAWhole(fat, first, off, size, v, old) ==
    [b \in Blocks |-> [j \in 0..(BLOCK_SIZE - 1) |->
        IF \E p \in off..(off + size - 1) :
              p % BLOCK_SIZE = j /\ getNth(fat, first, p \div BLOCK_SIZE) = b
        THEN v ELSE old[b][j]]]

\* A device that got the data of a write block by block holds what it would hold
\* had every byte been put at its place at once.
LEMMA SameBytes ==
    ASSUME NEW off \in Nat, NEW size \in Nat \ {0}, NEW fat, NEW first, NEW v, NEW old
    PROVE  ByParts(fat, first, off, size, v, old) = AsAWhole(fat, first, off, size, v, old)
<1> DEFINE o == off \div BLOCK_SIZE
           n == numBlocks(size + (off % BLOCK_SIZE))
<1>1. ASSUME NEW b \in Blocks, NEW j \in 0..(BLOCK_SIZE - 1)
      PROVE  (\E m \in 0..(n - 1) : getNth(fat, first, o + m) = b /\ j \in Copied(m, off, size))
             <=> \E p \in off..(off + size - 1) :
                    p % BLOCK_SIZE = j /\ getNth(fat, first, p \div BLOCK_SIZE) = b
  <2>1. ASSUME NEW q \in Nat
        PROVE  (\E m \in 0..(n - 1) : o + m = q /\ j \in Copied(m, off, size))
               <=> \E p \in off..(off + size - 1) : p % BLOCK_SIZE = j /\ p \div BLOCK_SIZE = q
    <3>1. Filled(off, size, q, j) <=> OfWrite(off, size, q, j)
      BY WrittenPlaces
    <3> QED
      BY <3>1 DEF Filled, OfWrite
  <2>2. \A p \in off..(off + size - 1) : p \div BLOCK_SIZE \in Nat
    BY LayoutAssumption, DivMod
  <2>3. o \in Nat
    BY LayoutAssumption, DivMod
  <2> HIDE DEF o, n
  <2>4. \A m \in 0..(n - 1) : o + m \in Nat
    BY <2>3
  <2> QED
    BY <2>1, <2>2, <2>4
<1> HIDE DEF o, n
<1>2. [b \in Blocks |-> [j \in 0..(BLOCK_SIZE - 1) |->
          IF \E m \in 0..(n - 1) : getNth(fat, first, o + m) = b /\ j \in Copied(m, off, size)
          THEN v ELSE old[b][j]]]
      = AsAWhole(fat, first, off, size, v, old)
  BY <1>1 DEF AsAWhole
<1> QED
  BY <1>2 DEF o, n, ByParts

\* When all parts have been copied, all bytes of the write have been.
LEMMA AllWritten ==
    ASSUME InHandler, run.op = "write", WrittenUpTo(WriteBlocks)
    PROVE  blockData = R!Written(fatArray, FirstBlock(OldFile, run.new), run.off, run.size, run.v)
<1> DEFINE first == FirstBlock(OldFile, run.new)
           old == before.blockData
<1>1. run.off \in Nat /\ run.size \in Nat \ {0}
  BY StepBegins, JobFields, FuseAssumption DEF Called, CalledByHandle
<1>2. blockData = ByParts(fatArray, first, run.off, run.size, run.v, old)
  BY DEF WrittenUpTo, WriteBlocks, Target, ByParts
<1>3. Seen.blockData = before.blockData
  BY StepBegins, SeenRunning DEF Idle
<1>4. R!Written(fatArray, first, run.off, run.size, run.v)
         = AsAWhole(fatArray, first, run.off, run.size, run.v, old)
  BY <1>3, SameTables DEF R!Written, AsAWhole
<1> HIDE DEF first, old
<1>5. blockData = R!Written(fatArray, first, run.off, run.size, run.v)
  BY <1>1, <1>2, <1>4, SameBytes
<1> QED
  BY <1>5 DEF first

\* fuseWrite's last step stores the size: what all its steps have done is what
\* the atomic action does.
LEMMA WriteEntryStep ==
    ASSUME InHandler, WriteEntry
    PROVE  IsSeen
<1> DEFINE end == run.off + run.size
           first == FirstBlock(OldFile, run.new)
           f == [OldFile EXCEPT !.firstBlock = first]
           g == [OldFile EXCEPT !.firstBlock = first, !.st_size = IF end > @ THEN end ELSE @]
<1>1. run.at = "entry" /\ run.at \in Extends /\ run.op = "write" /\ run.op # "unlink"
  BY StepBegins, JobFields DEF WriteEntry, JobInv, Extends
<1>2. /\ MapSet(run.new, TRUE) /\ rootDisc = before.rootDisc /\ Len(run.new) = run.k
      /\ rootFiles = [before.rootFiles EXCEPT ![run.s] = f]
      /\ fatArray = Linked(before.fatArray, OldChain, run.new) /\ WrittenUpTo(WriteBlocks)
  BY <1>1, ExtendingJob DEF Extending
<1>3. Finishes /\ setEntry(run.s, [rootFiles[run.s] EXCEPT !.st_size = IF end > @ THEN end ELSE @])
  BY DEF WriteEntry
<1>4. OldFile \in rootFile /\ run.s \in Slots /\ before.rootFiles \in RootDirectories
  BY OldFileIs, StepBegins
<1>5. rootFiles[run.s] = f
  BY <1>2, <1>4 DEF RootDirectories
<1>6. [rootFiles[run.s] EXCEPT !.st_size = IF end > @ THEN end ELSE @] = g
  BY <1>4, <1>5 DEF rootFile
<1> HIDE DEF f, g, end, first
<1>7. /\ rootFiles' = [rootFiles EXCEPT ![run.s] = g] /\ rootDisc' = [rootDisc EXCEPT ![run.s] = g]
      /\ UNCHANGED <<fatArray, fatDisc, dmapArray, dmapDisc, blockData>>
  BY <1>3, <1>6, StepBegins, EntrySet
<1>8. /\ rootFiles' = [before.rootFiles EXCEPT ![run.s] = g]
      /\ rootDisc' = [before.rootDisc EXCEPT ![run.s] = g]
  BY <1>2, <1>7
<1>9. run.new \in getCertainNumberOfFreeBlocks(before.dmapArray, Asked)
  <2>1. CASE Asked > 0
    BY <1>1, <1>2, <2>1, ExtendingJob
  <2>2. CASE ~(Asked > 0)
    <3>1. run.new = <<>> /\ Asked \in Int /\ Len(run.new) = 0
      BY <1>1, <1>2, <2>2, ExtendingJob
    <3>2. 1..Asked = {} /\ 1..0 = {}
      BY <2>2, <3>1
    <3>3. ~(Asked > Cardinality(FreeBlocks(before.dmapArray)))
      BY <2>2, <3>1, FreeBlocksFinite
    <3>4. run.new \in [1..Asked -> FreeBlocks(before.dmapArray)]
      BY <3>1, <3>2
    <3> QED
      BY <3>2, <3>3, <3>4 DEF getCertainNumberOfFreeBlocks
  <2> QED
    BY <2>1, <2>2
<1>10. ExtendsTo(run.new) /\ run' = NULL
  BY <1>2, <1>3, <1>7, <1>9, StepBegins DEF ExtendsTo, MapSet, Finishes
<1>11. blockData' = R!Written(fatArray', first, run.off, run.size, run.v)
  BY <1>1, <1>2, <1>7, AllWritten DEF first
<1>12. R!Next
  <2>1. run.v \in Bytes /\ run.off + run.size <= MaxSize
    BY <1>1, ExtendingJob
  <2> QED
    BY <1>1, <1>8, <1>10, <1>11, <2>1, StepBegins, WriteSeen DEF first, g, end
<1>13. DoneSoFar'
  <2>1. mounted' = TRUE /\ container' = TRUE
    BY <1>3, StepBegins DEF Finishes, Completes
  <2>2. Terminates(Linked(before.fatArray, OldChain, run.new))
    BY <1>1, ExtendingJob, StepBegins, LinkedTerminates DEF Distinct
  <2>3. fatDisc' = fatArray' /\ Terminates(fatDisc')
    BY <1>2, <1>7, <2>2, StepBegins
  <2> QED
    BY <1>10, <2>1, <2>3, TableAtRest
<1> QED
  BY <1>12, <1>13 DEF IsSeen

-----------------------------------------------------------------------------
(* The steps of fuseTruncate to a smaller size.                            *)

\* What is known of a job that cuts a file.
LEMMA CuttingJob ==
    ASSUME InHandler, run.at \in Cuts
    PROVE  /\ run.op = "truncate" /\ Shrinking
           /\ numBlocks(run.size) + 1 \in Nat \ {0} /\ run.size \in Nat /\ run.i \in Nat
           /\ run.i <= Len(OldChain) /\ run.cur = Following(run.i)
           /\ run.cur # FAT_END => run.i < Len(OldChain) /\ run.cur = OldChain[run.i + 1]
           /\ run.cur = FAT_END => run.i = Len(OldChain)
           /\ run.i < Len(OldChain) =>
                 /\ OldChain[run.i + 1] \in DataBlocks /\ OldChain[run.i + 1] \in Blocks
                 /\ before.fatArray[OldChain[run.i + 1]] = Following(run.i + 1)
                 /\ \A j \in 1..run.i : OldChain[j] # OldChain[run.i + 1]
<1>1. run \in Job /\ Shrinking /\ run.op = "truncate"
  BY JobFields DEF InHandler, DoneSoFar, JobInv, Cuts
<1>2. run.size \in Nat /\ run.i \in Nat
  BY <1>1, JobFields, FuseAssumption
<1>3. numBlocks(run.size) + 1 \in Nat \ {0}
  <2>1. numBlocks(run.size) \in Nat
    BY <1>2, numBlocksType
  <2> QED
    BY <2>1
<1>4. run.i <= Len(OldChain) /\ run.cur = Following(run.i)
  BY <1>1 DEF Shrinking
<1>5. /\ OldChain \in Seq(DataBlocks) /\ Len(OldChain) \in Nat /\ Distinct(OldChain)
      /\ IsChain(before.fatArray, OldFile.firstBlock, OldChain)
      /\ \A i \in 1..Len(OldChain) : OldChain[i] \in DataBlocks
  BY OldFileIs, StepBegins
<1>6. run.i < Len(OldChain) => run.i + 1 \in 1..Len(OldChain)
  BY <1>2, <1>5
<1>7. run.i < Len(OldChain) =>
         /\ OldChain[run.i + 1] \in DataBlocks /\ OldChain[run.i + 1] \in Blocks
         /\ OldChain[run.i + 1] # FAT_END
  BY <1>5, <1>6, EndIsNoDataBlock
<1>8. run.i < Len(OldChain) => before.fatArray[OldChain[run.i + 1]] = Following(run.i + 1)
  BY <1>5, <1>6 DEF IsChain, Following
<1>9. run.i < Len(OldChain) => \A j \in 1..run.i : OldChain[j] # OldChain[run.i + 1]
  BY <1>2, <1>5, <1>6 DEF Distinct
<1>10. /\ run.cur # FAT_END => run.i < Len(OldChain) /\ run.cur = OldChain[run.i + 1]
       /\ run.cur = FAT_END => run.i = Len(OldChain)
  BY <1>2, <1>4, <1>5, <1>7 DEF Following
<1> QED
  BY <1>1, <1>2, <1>3, <1>4, <1>7, <1>8, <1>9, <1>10

\* fuseTruncate goes on as the invariant says.
LEMMA KeepsCutting ==
    ASSUME InHandler, run.at \in Cuts, NEW job \in Job, GoesOn(job), fatDisc' = fatArray',
           job.op = run.op, job.n = run.n, job.s = run.s, job.off = run.off,
           job.size = run.size, job.v = run.v, job.k = run.k, job.at \in Cuts,
           UNCHANGED <<rootFiles, rootDisc, blockData>>,
           job.i <= Len(OldChain), job.cur = Following(job.i),
           LET n == numBlocks(run.size) + 1
               c == OldChain
               m == IF job.at = "spare" THEN job.i ELSE job.i + 1
           IN  /\ dmapArray' = Marked(before.dmapArray, SubSeq(c, n, job.i), FALSE)
               /\ dmapDisc' = DmapDiscWrite(before.dmapDisc, before.dmapArray,
                                            SubSeq(c, n, job.i), FALSE)
               /\ fatArray' = Unlinked(before.fatArray, {c[j] : j \in n..m})
               /\ job.at = "spareMap" =>
                     n <= job.i + 1 /\ job.i < Len(c) /\ job.next = Following(job.i + 1)
    PROVE  IsSeen
<1> DEFINE n == numBlocks(run.size) + 1
<1>1. /\ run' = job /\ before' = before /\ UNCHANGED R!vars
      /\ OldFile' = OldFile /\ OldChain' = OldChain /\ Began' /\ Called' /\ ~Idle'
  <2>1. job.at \notin Extends
    BY DEF Extends, Cuts
  <2> QED
    BY <2>1, StepGoesOn
<1>2. run.op = "truncate" /\ Shrinking
  BY CuttingJob
<1>3. /\ rootFiles' = WithoutFirst(before.rootFiles)' /\ rootDisc' = WithoutFirst(before.rootDisc)'
      /\ blockData' = before'.blockData
  <2>1. blockData = before.blockData
    BY <1>2 DEF Shrinking, FreedUpTo, Cuts
  <2> QED
    BY <1>1, <1>2, <2>1 DEF Shrinking, WithoutFirst
<1>4. \A m : Following(m)' = Following(m)
  BY <1>1 DEF Following
<1>5. MapSet(SubSeq(OldChain, n, run.i), FALSE)'
  BY <1>1 DEF MapSet
<1>6. run'.cur = Following(run.i)' /\ run'.i <= Len(OldChain')
  BY <1>1 DEF Following
<1>7. run'.at = "spare" => FreedUpTo(n, run.i, run.i)'
  BY <1>1, <1>3, <1>5 DEF FreedUpTo
<1>8. run'.at = "spareMap" =>
         /\ n' <= run'.i + 1 /\ run'.i < Len(OldChain') /\ FreedUpTo(n, run.i, run.i + 1)'
         /\ run'.next = Following(run.i + 1)'
  BY <1>1, <1>3, <1>5 DEF FreedUpTo, Following
<1>9. Shrinking'
  BY <1>3, <1>6, <1>7, <1>8 DEF Shrinking
<1> QED
  BY <1>1, <1>2, <1>9 DEF IsSeen, DoneSoFar, Extends, Cuts

\* fuseTruncate passes a block that the smaller file keeps.
LEMMA KeepBlockStep ==
    ASSUME InHandler, KeepBlock
    PROVE  IsSeen
<1> DEFINE n == numBlocks(run.size) + 1
           c == OldChain
           cur == fatArray[run.cur]
           job == [run EXCEPT !.cur = cur, !.i = @ + 1]
<1>1. /\ run.at = "spare" /\ run.at \in Cuts /\ run.cur # FAT_END /\ run.i < numBlocks(run.size)
      /\ GoesOn(job) /\ UNCHANGED <<rootFiles, rootDisc, fatArray, fatDisc, dmapArray, dmapDisc, blockData>>
  BY DEF KeepBlock, Cuts, fsVars
<1>2. /\ n \in Nat \ {0} /\ run.i \in Nat /\ run.i + 1 \in Nat /\ run.i < n /\ run.i + 1 < n
      /\ run.i < Len(c) /\ run.cur = c[run.i + 1] /\ run.i + 1 <= Len(c)
      /\ before.fatArray[c[run.i + 1]] = Following(run.i + 1)
      /\ c \in Seq(DataBlocks)
  <2>1. numBlocks(run.size) \in Nat
    BY <1>1, CuttingJob, numBlocksType
  <2> QED
    BY <1>1, <2>1, CuttingJob, OldFileIs, StepBegins
<1>3. FreedUpTo(n, run.i, run.i)
  BY <1>1, CuttingJob DEF Shrinking
<1> HIDE DEF n
<1>4. /\ SubSeq(c, n, run.i) = <<>> /\ SubSeq(c, n, run.i + 1) = <<>>
      /\ {c[j] : j \in n..run.i} = {} /\ {c[j] : j \in n..(run.i + 1)} = {}
  BY <1>2, EndsOfChain
<1>5. fatArray = before.fatArray /\ fatArray = Unlinked(before.fatArray, {})
  BY <1>2, <1>3, <1>4, StepBegins, EndsOfChain DEF FreedUpTo
<1>6. cur = Following(run.i + 1)
  BY <1>2, <1>5
<1>7. cur \in Blocks
  BY StepBegins, RunningJob
<1> HIDE DEF cur, c
<1>8. /\ job \in Job /\ job.op = run.op /\ job.n = run.n /\ job.s = run.s
      /\ job.new = run.new /\ job.k = run.k /\ job.v = run.v /\ job.cur = cur
      /\ job.off = run.off /\ job.size = run.size /\ job.at = "spare" /\ job.i = run.i + 1
  BY <1>1, <1>2, <1>7, StepBegins DEF Job
<1> HIDE DEF job
<1>9. /\ dmapArray' = Marked(before.dmapArray, SubSeq(c, n, job.i), FALSE)
      /\ dmapDisc' = DmapDiscWrite(before.dmapDisc, before.dmapArray, SubSeq(c, n, job.i), FALSE)
      /\ fatArray' = Unlinked(before.fatArray, {c[j] : j \in n..job.i})
  BY <1>1, <1>3, <1>4, <1>5, <1>8 DEF FreedUpTo, MapSet, c
<1>10. fatDisc' = fatArray' /\ job.at \in Cuts /\ job.i <= Len(OldChain) /\ job.cur = Following(job.i)
  BY <1>1, <1>2, <1>6, <1>8, StepBegins DEF Cuts, c
<1> QED
  BY <1>1, <1>8, <1>9, <1>10, KeepsCutting DEF c, n

\* fuseTruncate ends the chain at a block that the smaller file does not keep.
LEMMA CutBlockStep ==
    ASSUME InHandler, CutBlock
    PROVE  IsSeen
<1> DEFINE n == numBlocks(run.size) + 1
           c == OldChain
           next == fatArray[run.cur]
           job == [run EXCEPT !.next = next, !.at = "spareMap"]
<1>1. /\ run.at = "spare" /\ run.at \in Cuts /\ run.cur # FAT_END /\ run.i >= numBlocks(run.size)
      /\ setNext(run.cur, FAT_END) /\ GoesOn(job)
  BY DEF CutBlock, Cuts
<1>2. /\ n \in Nat \ {0} /\ run.i \in Nat /\ n <= run.i + 1
      /\ run.i < Len(c) /\ run.cur = c[run.i + 1] /\ c[run.i + 1] \in Blocks
      /\ before.fatArray[c[run.i + 1]] = Following(run.i + 1)
      /\ \A j \in 1..run.i : c[j] # c[run.i + 1]
      /\ c \in Seq(DataBlocks)
  <2>1. numBlocks(run.size) \in Nat
    BY <1>1, CuttingJob, numBlocksType
  <2> QED
    BY <1>1, <2>1, CuttingJob, OldFileIs, StepBegins
<1>3. FreedUpTo(n, run.i, run.i)
  BY <1>1, CuttingJob DEF Shrinking
<1>4. /\ fatArray' = [fatArray EXCEPT ![run.cur] = FAT_END] /\ fatDisc' = fatArray'
      /\ UNCHANGED <<rootFiles, rootDisc, dmapArray, dmapDisc, blockData>>
  BY <1>1, <1>2, StepBegins, NextSet, EndIsNoDataBlock
<1> HIDE DEF n, c
<1>5. fatArray = Unlinked(before.fatArray, {c[j] : j \in n..run.i})
  BY <1>3 DEF FreedUpTo, c
<1>6. fatArray' = Unlinked(before.fatArray, {c[j] : j \in n..(run.i + 1)})
  <2>1. \A fat : Unlinked(fat, {c[j] : j \in n..(run.i + 1)})
           = [Unlinked(fat, {c[j] : j \in n..run.i}) EXCEPT ![c[run.i + 1]] = FAT_END]
    BY <1>2, NextOfChain
  <2>2. fatArray' = [Unlinked(before.fatArray, {c[j] : j \in n..run.i}) EXCEPT ![c[run.i + 1]] = FAT_END]
    BY <1>2, <1>4, <1>5
  <2> QED
    BY <2>1, <2>2
<1>7. next = Following(run.i + 1)
  <2>1. c[run.i + 1] \notin {c[j] : j \in n..run.i}
    <3>1. n..run.i \subseteq 1..run.i
      BY <1>2
    <3> QED
      BY <1>2, <3>1
  <2> QED
    BY <1>2, <1>5, <2>1 DEF Unlinked
<1>8. next \in Blocks
  BY StepBegins, RunningJob
<1> HIDE DEF next
<1>9. /\ job \in Job /\ job.op = run.op /\ job.n = run.n /\ job.s = run.s
      /\ job.new = run.new /\ job.k = run.k /\ job.v = run.v /\ job.cur = run.cur
      /\ job.off = run.off /\ job.size = run.size /\ job.at = "spareMap" /\ job.i = run.i
      /\ job.next = next
  BY <1>8, StepBegins DEF Job
<1> HIDE DEF job
<1>10. /\ dmapArray' = Marked(before.dmapArray, SubSeq(c, n, job.i), FALSE)
       /\ dmapDisc' = DmapDiscWrite(before.dmapDisc, before.dmapArray, SubSeq(c, n, job.i), FALSE)
  BY <1>3, <1>4, <1>9 DEF FreedUpTo, MapSet, c
<1>11. job.at \in Cuts /\ job.i <= Len(OldChain) /\ job.cur = Following(job.i)
  BY <1>1, <1>9, CuttingJob DEF Cuts
<1> QED
  BY <1>1, <1>2, <1>4, <1>6, <1>7, <1>9, <1>10, <1>11, KeepsCutting DEF c, n

\* fuseTruncate frees that block in the map and goes on to its successor.
LEMMA FreeSpareBlockStep ==
    ASSUME InHandler, FreeSpareBlock
    PROVE  IsSeen
<1> DEFINE n == numBlocks(run.size) + 1
           c == OldChain
           job == [run EXCEPT !.cur = run.next, !.i = @ + 1, !.at = "spare"]
<1>1. /\ run.at = "spareMap" /\ run.at \in Cuts /\ setMap(run.cur, FALSE) /\ GoesOn(job)
  BY DEF FreeSpareBlock, Cuts
<1>2. /\ n <= run.i + 1 /\ run.i < Len(c) /\ FreedUpTo(n, run.i, run.i + 1)
      /\ run.next = Following(run.i + 1) /\ run.cur = Following(run.i)
  BY <1>1, CuttingJob DEF Shrinking
<1>3. /\ n \in Nat \ {0} /\ run.i \in Nat /\ run.i + 1 \in Nat /\ run.cur = c[run.i + 1]
      /\ c[run.i + 1] \in DataBlocks /\ c \in Seq(DataBlocks) /\ run.i + 1 <= Len(c)
  <2>1. run.cur = c[run.i + 1]
    BY <1>2 DEF Following
  <2> QED
    BY <1>1, <1>2, <2>1, CuttingJob, OldFileIs, StepBegins
<1> HIDE DEF n, c
<1>4. MapSet(SubSeq(c, n, run.i), FALSE) /\ SubSeq(c, n, run.i) \in Seq(DataBlocks)
      /\ fatArray = Unlinked(before.fatArray, {c[j] : j \in n..(run.i + 1)})
  BY <1>2, <1>3, NextOfChain DEF FreedUpTo, c
<1>5. SubSeq(c, n, run.i + 1) = Append(SubSeq(c, n, run.i), c[run.i + 1])
  BY <1>2, <1>3, NextOfChain
<1>6. /\ dmapArray' = Marked(before.dmapArray, SubSeq(c, n, run.i + 1), FALSE)
      /\ dmapDisc' = DmapDiscWrite(before.dmapDisc, before.dmapArray, SubSeq(c, n, run.i + 1), FALSE)
      /\ UNCHANGED <<rootFiles, rootDisc, fatArray, fatDisc, blockData>>
  BY <1>1, <1>3, <1>4, <1>5, StepBegins, MapSetMore
<1>7. /\ job \in Job /\ job.op = run.op /\ job.n = run.n /\ job.s = run.s
      /\ job.new = run.new /\ job.k = run.k /\ job.v = run.v /\ job.cur = run.next
      /\ job.off = run.off /\ job.size = run.size /\ job.at = "spare" /\ job.i = run.i + 1
  BY <1>3, StepBegins, RunningJob DEF Job
<1> HIDE DEF job
<1>8. job.at \in Cuts /\ job.i <= Len(OldChain) /\ job.cur = Following(job.i) /\ fatDisc' = fatArray'
  BY <1>2, <1>3, <1>6, <1>7, StepBegins DEF Cuts, c
<1> QED
  BY <1>1, <1>4, <1>6, <1>7, <1>8, KeepsCutting DEF c, n

\* The last step of fuseTruncate to a smaller size is seen as the whole of it.
LEMMA StoreSizeStep ==
    ASSUME InHandler, StoreSize
    PROVE  IsSeen
<1> DEFINE size == run.size
           n == numBlocks(size) + 1
           c == OldChain
           spare == SubSeq(c, n, Len(c))
           f == [OldFile EXCEPT !.firstBlock = IF size = 0 THEN FAT_END ELSE @, !.st_size = size]
<1>1. /\ run.at = "spare" /\ run.at \in Cuts /\ run.cur = FAT_END /\ Finishes
      /\ setEntry(run.s, [rootFiles[run.s] EXCEPT !.st_size = size])
  BY DEF StoreSize, Cuts
<1>2. /\ run.i = Len(c) /\ n \in Nat \ {0} /\ run.op = "truncate" /\ numBlocks(size) \in Nat
      /\ rootFiles = WithoutFirst(before.rootFiles) /\ rootDisc = WithoutFirst(before.rootDisc)
      /\ FreedUpTo(n, Len(c), Len(c))
  <2>1. run.i = Len(c) /\ n \in Nat \ {0} /\ run.op = "truncate" /\ Shrinking
    BY <1>1, CuttingJob
  <2>2. numBlocks(size) \in Nat
    BY <1>1, CuttingJob, numBlocksType
  <2> QED
    BY <1>1, <2>1, <2>2 DEF Shrinking
<1>3. c \in Seq(DataBlocks) /\ OldFile \in rootFile /\ run.s \in Slots /\ Len(c) \in Nat
  BY OldFileIs, StepBegins
<1> HIDE DEF n, c
<1>4. /\ spare \in Seq(DataBlocks) /\ Range(spare) = {c[j] : j \in n..Len(c)}
      /\ Len(c) < n => spare = <<>>
  BY <1>2, <1>3, EndsOfChain
<1> HIDE DEF spare
<1>5. /\ dmapArray = Marked(before.dmapArray, spare, FALSE)
      /\ dmapDisc = DmapDiscWrite(before.dmapDisc, before.dmapArray, spare, FALSE)
      /\ fatArray = Unlinked(before.fatArray, Range(spare))
      /\ blockData = before.blockData
  BY <1>2, <1>4 DEF FreedUpTo, MapSet, spare, c
<1>6. rootFiles' = [before.rootFiles EXCEPT ![run.s] = f] /\ rootDisc' = [before.rootDisc EXCEPT ![run.s] = f]
      /\ UNCHANGED <<fatArray, fatDisc, dmapArray, dmapDisc, blockData>>
  <2> DEFINE g == [rootFiles[run.s] EXCEPT !.st_size = size]
  <2>1. before.rootFiles \in RootDirectories /\ before.rootDisc \in RootDirectories
    BY StepBegins DEF Began
  <2>2. before.rootFiles[run.s] = OldFile
    BY DEF OldFile
  <2>3. g = f
    <3>1. CASE size = 0
      <4>1. rootFiles[run.s] = [OldFile EXCEPT !.firstBlock = FAT_END]
        BY <1>2, <1>3, <2>1, <3>1 DEF WithoutFirst, RootDirectories
      <4> QED
        BY <1>3, <3>1, <4>1 DEF rootFile
    <3>2. CASE size # 0
      <4>1. rootFiles[run.s] = OldFile
        BY <1>2, <2>2, <3>2 DEF WithoutFirst
      <4> QED
        BY <1>3, <3>2, <4>1 DEF rootFile
    <3> QED
      BY <3>1, <3>2
  <2> HIDE DEF g, f
  <2>4. /\ rootFiles' = [rootFiles EXCEPT ![run.s] = f] /\ rootDisc' = [rootDisc EXCEPT ![run.s] = f]
        /\ UNCHANGED <<fatArray, fatDisc, dmapArray, dmapDisc, blockData>>
    BY <1>1, <2>3, StepBegins, EntrySet DEF g
  <2>5. \A dir \in RootDirectories :
           [WithoutFirst(dir) EXCEPT ![run.s] = f] = [dir EXCEPT ![run.s] = f]
    BY <1>3 DEF WithoutFirst, RootDirectories
  <2> QED
    BY <1>2, <2>1, <2>4, <2>5
<1> HIDE DEF f
<1>7. run' = NULL /\ Completes("ok") /\ UNCHANGED openVars /\ UNCHANGED call
  BY <1>1, StepBegins DEF Finishes
<1>8. R!Next
  <2> USE EndsSeen, SeenIdle
  <2>1. ~Idle /\ Began /\ run' = NULL /\ mounted = TRUE
    BY <1>7, StepBegins
  <2>2. /\ run.n \in Names /\ run.s \in getRootEntryFile(before.rootFiles, run.n)
        /\ call = <<"truncate", run.n, size>> /\ size < OldFile.st_size /\ size \in 0..MaxSize
        /\ "shrink" \in Workload \/ size = 0 \/ Len(c) <= numBlocks(size)
    BY <1>1, <1>2, StepBegins, JobFields DEF Called, CalledByPath, c
  <2>3. "shrink" \in Workload \/ size = 0 \/ spare = <<>>
    BY <1>2, <1>3, <1>4, <2>2 DEF n
  <2>4. Seen.rootFiles[run.s] = OldFile /\ R!Chain(Seen.fatArray, OldFile.firstBlock) = c
    BY <2>1, SameTables DEF OldFile, OldChain, c
  <2>5. spare = SubSeq(R!Chain(Seen.fatArray, OldFile.firstBlock), R!numBlocks(size) + 1,
                       Len(R!Chain(Seen.fatArray, OldFile.firstBlock)))
    BY <2>4, SameDirectory DEF spare, n
  <2>6. /\ Seen'.fatArray = R!Unlinked(Seen.fatArray, R!Range(spare))
        /\ Seen'.fatDisc = R!FatDiscWrite(Seen.fatDisc, Seen'.fatArray, R!Range(spare))
    <3>1. R!Range(spare) = Range(spare)
      BY DEF R!Range, Range
    <3>2. FatDiscWrite(before.fatArray, Unlinked(before.fatArray, Range(spare)), Range(spare))
             = Unlinked(before.fatArray, Range(spare))
      BY StepBegins, CutsWritten
    <3>3. fatArray' = Unlinked(before.fatArray, Range(spare)) /\ fatDisc' = fatArray'
      BY <1>5, <1>6, StepBegins
    <3>4. Seen.fatArray = before.fatArray /\ Seen.fatDisc = before.fatArray
      BY <2>1
    <3> QED
      BY <2>1, <3>1, <3>2, <3>3, <3>4, SameTables
  <2>7. R!SetAll(spare, FALSE)
    BY <1>5, <1>6, <2>1, SameTables DEF R!SetAll
  <2>8. R!StoreEntry(run.s, f)
    BY <1>6, <2>1 DEF R!StoreEntry
  <2>9. R!Completes("ok") /\ UNCHANGED <<Seen.blockData, R!openVars>>
    <3>1. openFiles = before.openFiles /\ blockData' = before.blockData
      BY <1>2, <1>5, <1>6, StepBegins DEF Began
    <3>2. UNCHANGED <<openFiles, openCount, handles>>
      BY <1>7 DEF openVars
    <3>3. R!Completes("ok")
      <4>1. Completes("ok") /\ container = TRUE
        BY <1>7, StepBegins
      <4> QED
        BY <2>1, <4>1 DEF Completes, Replies, R!Completes, R!Replies
    <3>4. Seen'.blockData = Seen.blockData
      BY <2>1, <3>1
    <3>5. UNCHANGED R!openVars
      BY <2>1, <3>1, <3>2 DEF R!openVars
    <3> QED
      BY <3>3, <3>4, <3>5
  <2>10. f = [OldFile EXCEPT !.firstBlock = IF size = 0 THEN R!FAT_END ELSE @, !.st_size = size]
    BY SameTables DEF f
  <2>11. R!Shrink(run.s, size)
    <3> HIDE DEF size
    <3> QED
      BY <2>3, <2>4, <2>5, <2>6, <2>7, <2>8, <2>9, <2>10 DEF R!Shrink
  <2>12. R!fuseTruncate(run.n, size)
    <3>1. ~(size >= Seen.rootFiles[run.s].st_size)
      <4>1. OldFile.st_size \in Nat
        BY OldFileIs, StepBegins
      <4> QED
        BY <2>2, <2>4, <4>1
    <3>2. run.s \in R!getRootEntryFile(Seen.rootFiles, run.n)
      BY <2>1, <2>2, SameDirectory
    <3>3. Seen'.call = <<"truncate", run.n, size>> /\ Seen.mounted
      BY <1>7, <2>1, <2>2
    <3> HIDE DEF size
    <3> QED
      BY <2>11, <3>1, <3>2, <3>3 DEF R!fuseTruncate
  <2> QED
    BY <2>2, <2>12 DEF R!Next
<1>9. DoneSoFar'
  <2>1. mounted' = TRUE /\ container' = TRUE
    BY <1>7, StepBegins DEF Completes
  <2>2. Terminates(Unlinked(before.fatArray, Range(spare)))
    BY StepBegins, UnlinkedTerminates
  <2>3. fatDisc' = fatArray' /\ Terminates(fatDisc')
    BY <1>5, <1>6, <2>2, StepBegins
  <2> QED
    BY <1>7, <2>1, <2>3, TableAtRest
<1> QED
  BY <1>8, <1>9 DEF IsSeen

\* What is known of a job that frees the blocks of a file that is removed.
LEMMA UnlinkingJob ==
    ASSUME InHandler, run.at \in {"freeMap", "freeFat"}
    PROVE  /\ run.op = "unlink" /\ run.at \notin Extends /\ run.at \notin Cuts
           /\ \E j \in 0..Len(OldChain), gone \in SUBSET Named(before.rootFiles, run.n) :
                 Unlinking(j, gone)
           /\ \A j \in 0..Len(OldChain) :
                 /\ j \in Nat /\ j <= Len(OldChain)
                 /\ Following(j) # FAT_END <=> j < Len(OldChain)
                 /\ j < Len(OldChain) =>
                       /\ Following(j) = OldChain[j + 1] /\ j + 1 \in 0..Len(OldChain)
                       /\ OldChain[j + 1] \in DataBlocks /\ OldChain[j + 1] \in Blocks
                       /\ before.fatArray[OldChain[j + 1]] = Following(j + 1)
                       /\ \A i \in 1..j : OldChain[i] # OldChain[j + 1]
<1>1. run.op = "unlink" /\ run.at \notin Extends /\ run.at \notin Cuts
  BY StepBegins, JobFields DEF JobInv, Extends, Cuts
<1>2. \E j \in 0..Len(OldChain), gone \in SUBSET Named(before.rootFiles, run.n) :
         Unlinking(j, gone)
  BY <1>1, StepBegins DEF InHandler, DoneSoFar
<1>3. /\ OldChain \in Seq(DataBlocks) /\ Len(OldChain) \in Nat /\ Distinct(OldChain)
      /\ IsChain(before.fatArray, OldFile.firstBlock, OldChain)
      /\ \A i \in 1..Len(OldChain) : OldChain[i] \in DataBlocks
  BY OldFileIs, StepBegins
<1>4. ASSUME NEW j \in 0..Len(OldChain)
      PROVE  /\ j \in Nat /\ j <= Len(OldChain)
             /\ Following(j) # FAT_END <=> j < Len(OldChain)
             /\ j < Len(OldChain) =>
                   /\ Following(j) = OldChain[j + 1] /\ j + 1 \in 0..Len(OldChain)
                   /\ OldChain[j + 1] \in DataBlocks /\ OldChain[j + 1] \in Blocks
                   /\ before.fatArray[OldChain[j + 1]] = Following(j + 1)
                   /\ \A i \in 1..j : OldChain[i] # OldChain[j + 1]
  <2>1. j \in Nat /\ j <= Len(OldChain)
    BY <1>3
  <2>2. j < Len(OldChain) => j + 1 \in 1..Len(OldChain) /\ j + 1 \in 0..Len(OldChain)
    BY <1>3, <2>1
  <2>3. j < Len(OldChain) =>
           /\ OldChain[j + 1] \in DataBlocks /\ OldChain[j + 1] \in Blocks
           /\ OldChain[j + 1] # FAT_END
    BY <1>3, <2>2, EndIsNoDataBlock
  <2>4. j < Len(OldChain) => before.fatArray[OldChain[j + 1]] = Following(j + 1)
    BY <1>3, <2>2 DEF IsChain, Following
  <2>5. j < Len(OldChain) => \A i \in 1..j : OldChain[i] # OldChain[j + 1]
    BY <1>3, <2>1, <2>2 DEF Distinct
  <2>6. (Following(j) # FAT_END <=> j < Len(OldChain))
        /\ (j < Len(OldChain) => Following(j) = OldChain[j + 1])
    BY <2>3 DEF Following
  <2> QED
    BY <2>1, <2>2, <2>3, <2>4, <2>5, <2>6
<1> QED
  BY <1>1, <1>2, <1>4

\* fuseUnlink goes on with its blocks as the invariant says.
LEMMA KeepsUnlinking ==
    ASSUME InHandler, run.at \in {"freeMap", "freeFat"}, NEW i, Unlinking(i, {}),
           NEW job \in Job, GoesOn(job), fatDisc' = fatArray',
           job.op = run.op, job.n = run.n, job.s = run.s, job.off = run.off,
           job.size = run.size, job.v = run.v, job.k = run.k, job.at \in {"freeMap", "freeFat"},
           UNCHANGED <<rootFiles, rootDisc, blockData>>, blockData = before.blockData,
           NEW j \in 0..Len(OldChain), job.cur = Following(j),
           LET m == IF job.at = "freeMap" THEN j ELSE j + 1
           IN  /\ dmapArray' = Marked(before.dmapArray, SubSeq(OldChain, 1, m), FALSE)
               /\ dmapDisc' = DmapDiscWrite(before.dmapDisc, before.dmapArray,
                                            SubSeq(OldChain, 1, m), FALSE),
           fatArray' = Unlinked(before.fatArray, {OldChain[x] : x \in 1..j}),
           job.at = "freeFat" => j < Len(OldChain) /\ job.next = Following(j + 1)
    PROVE  IsSeen
<1>0. job.at \notin Extends /\ job.at \notin Cuts
  BY DEF Extends, Cuts
<1>1. /\ run' = job /\ before' = before /\ UNCHANGED R!vars
      /\ OldFile' = OldFile /\ OldChain' = OldChain /\ Began' /\ Called' /\ ~Idle'
  BY <1>0, StepGoesOn
<1>2. run.op = "unlink" /\ UNCHANGED openFiles
  BY UnlinkingJob DEF GoesOn, openVars
<1>3. \A m : Following(m)' = Following(m)
  BY <1>1 DEF Following
<1> DEFINE c == OldChain
           m == IF job.at = "freeMap" THEN j ELSE j + 1
<1>4. FreedUpTo(1, m, j)'
  BY <1>1 DEF FreedUpTo, MapSet
<1>5. /\ (rootFiles = [s \in Slots |-> IF s \in {} THEN NULL ELSE before.rootFiles[s]])'
      /\ (rootDisc = [s \in Slots |-> IF s \in {} THEN NULL ELSE before.rootDisc[s]])'
      /\ (openFiles = [h \in Handles |-> IF before.openFiles[h] \in {} THEN DANGLING
                                                              ELSE before.openFiles[h]])'
  BY <1>1, <1>2 DEF Unlinking
<1>6. /\ (run.cur = Following(j))' /\ (run.at = "freeMap" => FreedUpTo(1, j, j))'
      /\ (run.at = "freeFat" =>
            j < Len(OldChain) /\ FreedUpTo(1, j + 1, j) /\ run.next = Following(j + 1))'
  BY <1>1, <1>3, <1>4 DEF Following
<1>7. Unlinking(j, {})'
  BY <1>5, <1>6 DEF Unlinking
<1>8. \E x \in 0..Len(OldChain'), gone \in SUBSET Named(before.rootFiles, run.n)' :
         Unlinking(x, gone)'
  BY <1>1, <1>7
<1> QED
  BY <1>0, <1>1, <1>2, <1>8 DEF IsSeen, DoneSoFar

\* deleteFile frees the next block of the file in the map.
LEMMA FreeInMapStep ==
    ASSUME InHandler, FreeInMap
    PROVE  IsSeen
<1> DEFINE c == OldChain
           next == fatArray[run.cur]
           job == [run EXCEPT !.next = next, !.at = "freeFat"]
<1>1. /\ run.at = "freeMap" /\ run.at \in {"freeMap", "freeFat"} /\ run.cur # FAT_END
      /\ setMap(run.cur, FALSE) /\ GoesOn(job)
  BY DEF FreeInMap
<1>2. PICK j \in 0..Len(OldChain), gone \in SUBSET Named(before.rootFiles, run.n) :
         Unlinking(j, gone)
  BY <1>1, UnlinkingJob
<1>3. Unlinking(j, {}) /\ run.cur = Following(j) /\ FreedUpTo(1, j, j)
  BY <1>1, <1>2 DEF Unlinking
<1>4. /\ j \in Nat /\ j < Len(c) /\ run.cur = c[j + 1] /\ c[j + 1] \in DataBlocks
      /\ c[j + 1] \in Blocks /\ before.fatArray[c[j + 1]] = Following(j + 1)
      /\ \A i \in 1..j : c[i] # c[j + 1]
  BY <1>1, <1>3, UnlinkingJob
<1>5. c \in Seq(DataBlocks)
  BY OldFileIs, StepBegins
<1> HIDE DEF c
<1>6. /\ MapSet(SubSeq(c, 1, j), FALSE) /\ SubSeq(c, 1, j) \in Seq(DataBlocks)
      /\ SubSeq(c, 1, j + 1) = Append(SubSeq(c, 1, j), c[j + 1])
  <2>1. MapSet(SubSeq(c, 1, j), FALSE)
    BY <1>3 DEF FreedUpTo, c
  <2>2. 1 \in Nat \ {0} /\ 1 <= j + 1
    BY <1>4
  <2> QED
    BY <1>4, <1>5, <2>1, <2>2, NextOfChain
<1>7. /\ dmapArray' = Marked(before.dmapArray, SubSeq(c, 1, j + 1), FALSE)
      /\ dmapDisc' = DmapDiscWrite(before.dmapDisc, before.dmapArray, SubSeq(c, 1, j + 1), FALSE)
      /\ UNCHANGED <<rootFiles, rootDisc, fatArray, fatDisc, blockData>>
  BY <1>1, <1>4, <1>6, StepBegins, MapSetMore
<1>8. fatArray = Unlinked(before.fatArray, {c[x] : x \in 1..j}) /\ blockData = before.blockData
  BY <1>3 DEF FreedUpTo, c
<1>9. next = Following(j + 1)
  <2>1. c[j + 1] \notin {c[x] : x \in 1..j}
    BY <1>4
  <2> QED
    BY <1>4, <1>8, <2>1 DEF Unlinked
<1>10. next \in Blocks
  BY StepBegins, RunningJob
<1> HIDE DEF next
<1>11. /\ job \in Job /\ job.op = run.op /\ job.n = run.n /\ job.s = run.s
       /\ job.off = run.off /\ job.size = run.size /\ job.v = run.v /\ job.k = run.k
       /\ job.at = "freeFat" /\ job.cur = run.cur /\ job.next = next
  BY <1>10, StepBegins DEF Job
<1> HIDE DEF job
<1>12. fatDisc' = fatArray' /\ job.cur = Following(j) /\ job.at \in {"freeMap", "freeFat"}
  BY <1>3, <1>7, <1>11, StepBegins
<1> QED
  BY <1>1, <1>3, <1>4, <1>7, <1>8, <1>9, <1>11, <1>12, KeepsUnlinking DEF c

\* deleteFile frees that block in the table and goes on to its successor.
LEMMA FreeInTableStep ==
    ASSUME InHandler, FreeInTable
    PROVE  IsSeen
<1> DEFINE c == OldChain
           job == [run EXCEPT !.cur = run.next, !.at = "freeMap"]
<1>1. /\ run.at = "freeFat" /\ run.at \in {"freeMap", "freeFat"}
      /\ setNext(run.cur, FAT_END) /\ GoesOn(job)
  BY DEF FreeInTable
<1>2. PICK j \in 0..Len(OldChain), gone \in SUBSET Named(before.rootFiles, run.n) :
         Unlinking(j, gone)
  BY <1>1, UnlinkingJob
<1>3. /\ j < Len(c) /\ run.cur = Following(j) /\ FreedUpTo(1, j + 1, j)
      /\ run.next = Following(j + 1)
  BY <1>1, <1>2 DEF Unlinking
<1>4. /\ j \in Nat /\ j + 1 \in 0..Len(c) /\ run.cur = c[j + 1] /\ run.cur # FAT_END
      /\ c[j + 1] \in Blocks
  BY <1>1, <1>3, UnlinkingJob
<1>5. c \in Seq(DataBlocks)
  BY OldFileIs, StepBegins
<1>6. Unlinking(j, {})
  BY <1>2, <1>4 DEF Unlinking
<1> HIDE DEF c
<1>7. /\ fatArray' = [fatArray EXCEPT ![run.cur] = FAT_END] /\ fatDisc' = fatArray'
      /\ UNCHANGED <<rootFiles, rootDisc, dmapArray, dmapDisc, blockData>>
  BY <1>1, <1>4, StepBegins, NextSet, EndIsNoDataBlock
<1>8. fatArray = Unlinked(before.fatArray, {c[x] : x \in 1..j}) /\ blockData = before.blockData
  BY <1>3 DEF FreedUpTo, c
<1>9. fatArray' = Unlinked(before.fatArray, {c[x] : x \in 1..(j + 1)})
  <2>1. 1 \in Nat \ {0} /\ 1 <= j + 1
    BY <1>4
  <2>2. \A fat : Unlinked(fat, {c[x] : x \in 1..(j + 1)})
           = [Unlinked(fat, {c[x] : x \in 1..j}) EXCEPT ![c[j + 1]] = FAT_END]
    BY <1>3, <1>4, <1>5, <2>1, NextOfChain
  <2> QED
    BY <1>4, <1>7, <1>8, <2>2
<1>10. /\ job \in Job /\ job.op = run.op /\ job.n = run.n /\ job.s = run.s
       /\ job.off = run.off /\ job.size = run.size /\ job.v = run.v /\ job.k = run.k
       /\ job.at = "freeMap" /\ job.cur = run.next
  BY StepBegins, RunningJob DEF Job
<1> HIDE DEF job
<1>11. /\ dmapArray' = Marked(before.dmapArray, SubSeq(c, 1, j + 1), FALSE)
       /\ dmapDisc' = DmapDiscWrite(before.dmapDisc, before.dmapArray, SubSeq(c, 1, j + 1), FALSE)
  BY <1>3, <1>7 DEF FreedUpTo, MapSet, c
<1>12. job.cur = Following(j + 1) /\ job.at \in {"freeMap", "freeFat"}
  BY <1>3, <1>10
<1> QED
  BY <1>1, <1>4, <1>6, <1>7, <1>8, <1>9, <1>10, <1>11, <1>12, KeepsUnlinking DEF c

\* deleteFile has deleted another entry of that name.
Gone(dir, gone) == [s \in Slots |-> IF s \in gone THEN NULL ELSE dir[s]]
Dangling(open, gone) == [h \in Handles |-> IF open[h] \in gone THEN DANGLING ELSE open[h]]

DeletesOne(dir, n, gone, s) ==
    /\ gone \cup {s} \in SUBSET Named(dir, n)
    /\ Named(Gone(dir, gone), n) = Named(dir, n) \ gone
    /\ \A disc \in RootDirectories :
          [Gone(disc, gone) EXCEPT ![s] = NULL] = Gone(disc, gone \cup {s})
    /\ \A open \in [Handles -> Slots \cup {NULL, DANGLING}] :
          [h \in Handles |-> IF Dangling(open, gone)[h] = s THEN DANGLING
                                                           ELSE Dangling(open, gone)[h]]
             = Dangling(open, gone \cup {s})

\* Deleting one more entry of a name: the directory, its image on the device and
\* the open files are those of all the deleted entries together.
LEMMA OneMoreGone ==
    ASSUME NEW dir \in RootDirectories, NEW n,
           NEW gone \in SUBSET Named(dir, n), NEW s \in Named(Gone(dir, gone), n)
    PROVE  DeletesOne(dir, n, gone, s)
<1>1. Named(Gone(dir, gone), n) = Named(dir, n) \ gone
  BY DEF Named, Gone
<1>2. s \in Named(dir, n) /\ s \notin gone /\ s \in Slots
  BY <1>1 DEF Named
<1>3. \A disc \in RootDirectories :
         [Gone(disc, gone) EXCEPT ![s] = NULL] = Gone(disc, gone \cup {s})
  BY <1>2 DEF Gone
<1>4. ASSUME NEW open \in [Handles -> Slots \cup {NULL, DANGLING}]
      PROVE  [h \in Handles |-> IF Dangling(open, gone)[h] = s THEN DANGLING
                                                              ELSE Dangling(open, gone)[h]]
                = Dangling(open, gone \cup {s})
  <2>1. s # DANGLING
    BY <1>2, OnDiskAssumption
  <2>2. \A h \in Handles : (IF Dangling(open, gone)[h] = s THEN DANGLING ELSE Dangling(open, gone)[h])
                              = (IF open[h] \in gone \cup {s} THEN DANGLING ELSE open[h])
    BY <1>2, <2>1 DEF Dangling
  <2> QED
    BY <2>2 DEF Dangling
<1> QED
  BY <1>1, <1>2, <1>3, <1>4 DEF DeletesOne

\* The last turn of the loop of deleteFile is seen as the whole of fuseUnlink.
LEMMA UnlinkSeen ==
    ASSUME InHandler, run.op = "unlink", run' = NULL,
           LET gone == Named(before.rootFiles, run.n)
           IN  /\ rootFiles' = Gone(before.rootFiles, gone)
               /\ rootDisc' = Gone(before.rootDisc, gone)
               /\ openFiles' = Dangling(before.openFiles, gone),
           dmapArray' = Marked(before.dmapArray, OldChain, FALSE),
           dmapDisc' = DmapDiscWrite(before.dmapDisc, before.dmapArray, OldChain, FALSE),
           fatArray' = Unlinked(before.fatArray, Range(OldChain)), fatDisc' = fatArray',
           blockData' = before.blockData, Completes("ok"), UNCHANGED <<openCount, handles>>
    PROVE  R!Next
<1> USE EndsSeen, SeenIdle
<1> DEFINE n == run.n
           gone == Named(before.rootFiles, n)
           c == OldChain
<1>1. ~Idle /\ Began /\ run' = NULL /\ mounted = TRUE /\ container = TRUE
  BY StepBegins
<1>2. /\ n \in Names /\ run.s \in getRootEntryFile(before.rootFiles, n)
      /\ call = <<"unlink", n>> /\ \A h \in Handles : handles[h] # n
  BY StepBegins DEF Called, CalledByPath
<1>3. R!Chain(Seen.fatArray, Seen.rootFiles[run.s].firstBlock) = c
  BY <1>1, SameTables DEF OldFile, OldChain
<1>4. R!Range(c) = Range(c)
  BY DEF R!Range, Range
<1>5. FatDiscWrite(before.fatArray, Unlinked(before.fatArray, Range(c)), Range(c))
         = Unlinked(before.fatArray, Range(c))
  BY StepBegins, CutsWritten
<1> HIDE DEF c
<1>6. /\ Seen'.fatArray = R!Unlinked(Seen.fatArray, R!Range(c))
      /\ Seen'.fatDisc = R!FatDiscWrite(Seen.fatDisc, Seen'.fatArray, R!Range(c))
  BY <1>1, <1>4, <1>5, SameTables DEF c
<1>7. R!SetAll(c, FALSE)
  BY <1>1, SameTables DEF R!SetAll, c
<1>8. R!Named(Seen.rootFiles, n) = gone
  BY <1>1, SameDirectory
<1>9. R!deleteFile(n)
  BY <1>1, <1>8, SameDirectory DEF R!deleteFile, Gone
<1>10. Seen'.openFiles = [h \in R!Handles |->
          IF Seen.openFiles[h] \in R!Named(Seen.rootFiles, n) THEN DANGLING ELSE Seen.openFiles[h]]
  BY <1>1, <1>8, SameDirectory DEF Dangling
<1>11. R!Completes("ok")
  BY <1>1 DEF Completes, Replies, R!Completes, R!Replies
<1>12. UNCHANGED <<Seen.blockData, Seen.openCount, Seen.handles>>
  BY <1>1
<1>13. run.s \in R!getRootEntryFile(Seen.rootFiles, n)
  BY <1>1, <1>2, SameDirectory
<1>14. ~R!IsOpen(n)
  BY <1>1, <1>2, SameDirectory DEF R!IsOpen
<1>15. Seen'.call = <<"unlink", n>> /\ Seen.mounted
  BY <1>1, <1>2 DEF InHandler
<1> HIDE DEF n
<1>16. R!fuseUnlink(n)
  BY <1>3, <1>6, <1>7, <1>9, <1>10, <1>11, <1>12, <1>13, <1>14, <1>15 DEF R!fuseUnlink
<1> QED
  BY <1>2, <1>16 DEF R!Next, n

\* deleteFile deletes an entry of the name. When none is left, what all the steps
\* have done is what the atomic fuseUnlink does.
LEMMA DeleteEntryStep ==
    ASSUME InHandler, DeleteEntry
    PROVE  IsSeen
<1> DEFINE c == OldChain
           n == run.n
           dir == before.rootFiles
<1>1. PICK s \in getRootEntryFile(rootFiles, n) :
          /\ setEntry(s, NULL)
          /\ openFiles' = [h \in Handles |-> IF openFiles[h] = s THEN DANGLING ELSE openFiles[h]]
          /\ run' = IF Named(rootFiles, n) = {s} THEN NULL ELSE run
  BY DEF DeleteEntry
<1>2. /\ run.at = "freeMap" /\ run.at \in {"freeMap", "freeFat"} /\ run.cur = FAT_END
      /\ UNCHANGED <<openCount, handles, container, mounted>>
      /\ IF run' = NULL THEN Replies("ok") ELSE UNCHANGED <<ret, buf>>
  BY DEF DeleteEntry
<1>3. PICK j \in 0..Len(c), gone \in SUBSET Named(dir, n) : Unlinking(j, gone)
  BY <1>2, UnlinkingJob
<1>4. run.op = "unlink" /\ run.at \notin Extends /\ run.at \notin Cuts
  BY <1>2, UnlinkingJob
<1>5. j = Len(c) /\ FreedUpTo(1, Len(c), Len(c)) /\ run.cur = Following(j)
  <2>1. run.cur = Following(j) /\ FreedUpTo(1, j, j)
    BY <1>2, <1>3 DEF Unlinking
  <2>2. j \in Nat /\ j <= Len(c) /\ ~(j < Len(c)) /\ Len(c) \in Nat
    BY <1>2, <2>1, UnlinkingJob, OldFileIs, StepBegins
  <2>3. j = Len(c)
    BY <2>2
  <2> QED
    BY <2>1, <2>3
<1>6. c \in Seq(DataBlocks) /\ SubSeq(c, 1, Len(c)) = c /\ Range(c) = {c[x] : x \in 1..Len(c)}
  <2>1. c \in Seq(DataBlocks)
    BY OldFileIs, StepBegins
  <2> HIDE DEF c
  <2>2. 1 \in Nat \ {0}
    OBVIOUS
  <2> QED
    BY <2>1, <2>2, EndsOfChain
<1> HIDE DEF c
<1>7. /\ dmapArray = Marked(before.dmapArray, c, FALSE)
      /\ dmapDisc = DmapDiscWrite(before.dmapDisc, before.dmapArray, c, FALSE)
      /\ fatArray = Unlinked(before.fatArray, Range(c))
      /\ blockData = before.blockData
  BY <1>5, <1>6 DEF FreedUpTo, MapSet, c
<1>8. /\ rootFiles = Gone(dir, gone) /\ rootDisc = Gone(before.rootDisc, gone)
      /\ openFiles = Dangling(before.openFiles, gone)
  BY <1>3 DEF Unlinking, Gone, Dangling
<1>9. /\ rootFiles' = [rootFiles EXCEPT ![s] = NULL] /\ rootDisc' = [rootDisc EXCEPT ![s] = NULL]
      /\ UNCHANGED <<fatArray, fatDisc, dmapArray, dmapDisc, blockData>>
  BY <1>1, StepBegins, EntrySet
<1>10. s \in Named(Gone(dir, gone), n)
  BY <1>1, <1>8 DEF getRootEntryFile
<1>11. before.openFiles \in [Handles -> Slots \cup {NULL, DANGLING}]
       /\ dir \in RootDirectories /\ before.rootDisc \in RootDirectories
  BY StepBegins DEF Began
<1> DEFINE all == gone \cup {s}
<1> HIDE DEF dir, n
<1>12. /\ rootFiles' = Gone(dir, all) /\ rootDisc' = Gone(before.rootDisc, all)
       /\ openFiles' = Dangling(before.openFiles, all)
       /\ all \in SUBSET Named(dir, n) /\ Named(rootFiles, n) = Named(dir, n) \ gone
  <2> DEFINE disc == before.rootDisc
             open == before.openFiles
  <2>1. gone \in SUBSET Named(dir, n) /\ disc \in RootDirectories
        /\ open \in [Handles -> Slots \cup {NULL, DANGLING}]
    BY <1>3, <1>11
  <2>2. rootFiles = Gone(dir, gone) /\ rootDisc = Gone(disc, gone) /\ openFiles = Dangling(open, gone)
    BY <1>8
  <2> HIDE DEF disc, open
  <2>3. DeletesOne(dir, n, gone, s)
    BY <1>10, <1>11, <2>1, OneMoreGone
  <2>4. /\ all \in SUBSET Named(dir, n)
        /\ [Gone(dir, gone) EXCEPT ![s] = NULL] = Gone(dir, all)
        /\ [Gone(disc, gone) EXCEPT ![s] = NULL] = Gone(disc, all)
        /\ Named(Gone(dir, gone), n) = Named(dir, n) \ gone
    BY <1>11, <2>1, <2>3 DEF all, DeletesOne
  <2>5. [h \in Handles |-> IF Dangling(open, gone)[h] = s THEN DANGLING ELSE Dangling(open, gone)[h]]
           = Dangling(open, all)
    BY <2>1, <2>3 DEF all, DeletesOne
  <2>6. openFiles' = Dangling(open, all)
    BY <1>1, <2>2, <2>5
  <2>7. rootFiles' = Gone(dir, all) /\ rootDisc' = Gone(disc, all)
    BY <1>9, <2>2, <2>4
  <2> QED
    BY <2>2, <2>4, <2>6, <2>7 DEF disc, open
<1> HIDE DEF all
<1>13. CASE run' = NULL
  <2>1. run \in Job /\ run # NULL
    BY StepBegins, JobAssumption
  <2>2. Named(rootFiles, n) = {s}
    BY <1>1, <1>13, <2>1
  <2>3. all = Named(dir, n)
    BY <1>12, <2>2 DEF all
  <2>4. Completes("ok") /\ UNCHANGED <<openCount, handles>>
    BY <1>2, <1>13 DEF Completes
  <2>5. fatArray' = Unlinked(before.fatArray, Range(c)) /\ fatDisc' = fatArray'
    BY <1>7, <1>9, StepBegins
  <2>6. R!Next
    BY <1>4, <1>7, <1>9, <1>12, <1>13, <2>3, <2>4, <2>5, UnlinkSeen DEF c, dir, n
  <2>7. Terminates(fatDisc')
    BY <2>5, StepBegins, UnlinkedTerminates
  <2>8. DoneSoFar'
    BY <1>2, <1>13, <2>5, <2>7, StepBegins, TableAtRest
  <2> QED
    BY <2>6, <2>8 DEF IsSeen
<1>14. CASE run' # NULL
  <2>1. run' = run /\ before' = before /\ UNCHANGED <<container, openCount, handles, call>>
    BY <1>1, <1>2, <1>14, StepBegins DEF History, Idle
  <2>2. OldFile' = OldFile /\ OldChain' = OldChain /\ UNCHANGED R!vars
    BY <2>1, <1>14, SeenRunning DEF OldFile, OldChain, InHandler, Idle
  <2>3. Began'
    BY <1>4, <1>9, <2>1, <2>2, StepBegins DEF Began
  <2>4. Called'
    <3>1. CalledByPath
      BY <1>4, StepBegins DEF Called
    <3>2. CalledByPath'
      BY <1>4, <2>1, <3>1 DEF CalledByPath
    <3> QED
      BY <1>4, <2>1, <3>2 DEF Called
  <2>5. Unlinking(Len(c), all)'
    <3>1. FreedUpTo(1, Len(c), Len(c))'
      BY <1>5, <1>9, <2>1, <2>2 DEF FreedUpTo, MapSet, c
    <3>2. run'.cur = Following(Len(c))'
      BY <1>5, <2>1, <2>2 DEF Following, c
    <3> QED
      BY <1>2, <1>12, <2>1, <3>1, <3>2 DEF Unlinking, Gone, Dangling, dir
  <2>6. \E x \in 0..Len(OldChain'), del \in SUBSET Named(before.rootFiles, run.n)' : Unlinking(x, del)'
    <3>1. Len(c) \in 0..Len(OldChain')
      BY <1>5, <2>2 DEF c
    <3>2. all \in SUBSET Named(before.rootFiles, run.n)'
      BY <1>12, <2>1 DEF dir, n
    <3>3. \A x, del : x = Len(c) /\ del = all => Unlinking(x, del)'
      BY <2>5, <2>2, <2>1, <1>9 DEF c
    <3> QED
      BY <3>1, <3>2, <3>3
  <2> QED
    BY <1>4, <1>14, <2>1, <2>2, <2>3, <2>4, <2>6 DEF IsSeen, DoneSoFar, Idle
<1> QED
  BY <1>13, <1>14

\* The next step of the handler that runs.
LEMMA HandlerStepSeen ==
    ASSUME Faults = {}, OpenInv, JobInv, DoneSoFar, History, HandlerStep
    PROVE  IsSeen
<1>1. InHandler
  BY DEF InHandler, HandlerStep
<1>2. \/ TakeBlock \/ Attach \/ Link \/ WriteData \/ WriteEntry
      \/ KeepBlock \/ CutBlock \/ FreeSpareBlock \/ StoreSize
      \/ FreeInMap \/ FreeInTable \/ DeleteEntry
  BY DEF HandlerStep
<1> QED
  BY <1>1, <1>2, TakeStep, AttachStep, LinkStep, WriteDataStep, WriteEntryStep, KeepBlockStep,
     CutBlockStep, FreeSpareBlockStep, StoreSizeStep, FreeInMapStep, FreeInTableStep, DeleteEntryStep

-----------------------------------------------------------------------------
(* The start of a handler.                                                 *)

\* No handler runs, and no write fails.
InRest == Faults = {} /\ OpenInv /\ DoneSoFar /\ Idle /\ History

\* A handler that writes more than one block begins.
LEMMA HandlerBegins ==
    ASSUME InRest, mounted, NEW job \in Job, GoesOn(job), UNCHANGED <<fatArray, fatDisc>>,
           rootFiles[job.s] # NULL
    PROVE  /\ run' = job /\ before' = StateNow /\ ~Idle' /\ Began' /\ UNCHANGED R!vars
           /\ OldFile' = rootFiles[job.s]
           /\ OldChain' = Chain(fatArray, rootFiles[job.s].firstBlock)
<1>1. run' = job /\ job # NULL /\ run = NULL /\ UNCHANGED <<container, mounted, openFiles, openCount, handles>>
  BY JobAssumption DEF GoesOn, InRest, Idle, openVars
<1>2. before' = StateNow
  BY <1>1 DEF History, InRest
<1>3. Seen = StateNow /\ Seen' = StateNow
  BY <1>1, <1>2 DEF Seen
<1>4. UNCHANGED R!vars
  BY <1>3 DEF R!vars, R!fsVars, R!openVars
<1>5. /\ before'.rootFiles = rootFiles /\ before'.rootDisc = rootDisc
      /\ before'.fatArray = fatArray /\ before'.fatDisc = fatDisc
      /\ before'.dmapArray = dmapArray /\ before'.dmapDisc = dmapDisc
      /\ before'.blockData = blockData /\ before'.openFiles = openFiles
      /\ before'.openCount = openCount /\ before'.handles = handles
      /\ before'.mounted = mounted /\ before'.container = container
  BY <1>2 DEF StateNow
<1>6. OldFile' = rootFiles[job.s]
  BY <1>1, <1>5 DEF OldFile
<1>7. OldChain' = Chain(fatArray, rootFiles[job.s].firstBlock)
  BY <1>5, <1>6 DEF OldChain
<1>8. /\ FatInv /\ TypeOK /\ mounted \in BOOLEAN /\ container \in BOOLEAN
  BY DEF InRest, DoneSoFar, Idle, OpenInv, TypeOK
<1>9. mounted = TRUE /\ container = TRUE /\ fatDisc = fatArray /\ Terminates(fatArray)
  BY <1>8 DEF FatInv, FatPersisted, ChainsEnd
<1>10. /\ rootFiles \in RootDirectories /\ rootDisc \in RootDirectories
       /\ fatArray \in [Blocks -> Blocks] /\ dmapArray \in [Blocks -> BOOLEAN]
       /\ dmapDisc \in [DmapGroups -> [DmapOffsets -> BOOLEAN]]
       /\ blockData \in [Blocks -> [0..(BLOCK_SIZE - 1) -> Bytes]]
       /\ openFiles \in [Handles -> Slots \cup {NULL, DANGLING}]
  BY <1>8 DEF TypeOK, RootTypeOK, FatTypeOK, DmapTypeOK, RootDirectories
<1>11. Began'
  BY <1>1, <1>5, <1>6, <1>9, <1>10 DEF Began
<1> QED
  BY <1>1, <1>2, <1>4, <1>6, <1>7, <1>11 DEF Idle

\* Before the first block is taken.
LEMMA NoneTaken ==
    ASSUME NEW dmap \in [Blocks -> BOOLEAN], NEW fat \in [Blocks -> Blocks]
    PROVE  /\ \A k \in Int : k <= 0 => <<>> \in getCertainNumberOfFreeBlocks(dmap, k)
           /\ \A chain : Linked(fat, chain, <<>>) = fat
<1>1. ASSUME NEW k \in Int, k <= 0
      PROVE  <<>> \in getCertainNumberOfFreeBlocks(dmap, k)
  <2> DEFINE n == Cardinality(FreeBlocks(dmap))
             F == FreeBlocks(dmap)
  <2>1. n \in Nat
    BY FreeBlocksFinite
  <2> HIDE DEF n
  <2>2. ~(k > n)
    BY <1>1, <2>1
  <2> HIDE DEF F
  <2>3. <<>> \in [1..k -> F] /\ 1..k = {}
    BY <1>1
  <2>4. <<>> \in {s \in [1..k -> F] :
            /\ \A i, j \in 1..k : i < j => s[i] < s[j]
            /\ \A i \in 1..k : \A b \in F : b < s[i] => \E j \in 1..k : s[j] = b}
    BY <2>3
  <2> QED
    BY <2>2, <2>4 DEF getCertainNumberOfFreeBlocks, n, F
<1>2. \A chain : Linked(fat, chain, <<>>) = fat
  BY DEF Linked
<1> QED
  BY <1>1, <1>2

\* A write, or a truncation to a larger size, begins.
LEMMA ExtendingBegins ==
    ASSUME InRest, mounted, NEW job \in Job, GoesOn(job), UNCHANGED fsVars,
           rootFiles[job.s] # NULL, job.op \in {"write", "truncate"}, job.new = <<>>,
           \/ job.at = "take"
           \/ /\ job.at = "data" /\ job.k = 0 /\ job.i = 0 /\ job.size # 0
              /\ job.cur = getNth(fatArray, rootFiles[job.s].firstBlock, job.off \div BLOCK_SIZE),
           Called'
    PROVE  IsSeen
<1>1. /\ run' = job /\ before' = StateNow /\ ~Idle' /\ Began' /\ UNCHANGED R!vars
      /\ OldFile' = rootFiles[job.s]
      /\ OldChain' = Chain(fatArray, rootFiles[job.s].firstBlock)
  BY HandlerBegins DEF fsVars
<1>2. /\ before'.rootFiles = rootFiles /\ before'.rootDisc = rootDisc
      /\ before'.fatArray = fatArray /\ before'.dmapArray = dmapArray
      /\ before'.dmapDisc = dmapDisc /\ before'.blockData = blockData
  BY <1>1 DEF StateNow
<1>3. /\ rootFiles \in RootDirectories
      /\ fatArray \in [Blocks -> Blocks] /\ dmapArray \in [Blocks -> BOOLEAN]
      /\ dmapDisc \in [DmapGroups -> [DmapOffsets -> BOOLEAN]]
      /\ blockData \in [Blocks -> [0..(BLOCK_SIZE - 1) -> Bytes]]
  BY DEF InRest, OpenInv, TypeOK, RootTypeOK, FatTypeOK, DmapTypeOK, RootDirectories
<1>4. UNCHANGED <<rootFiles, rootDisc, fatArray, fatDisc, dmapArray, dmapDisc, blockData>>
  BY DEF fsVars
<1>5. /\ run'.new \in getCertainNumberOfFreeBlocks(before'.dmapArray, Len(run'.new))
      /\ Linked(before'.fatArray, OldChain', run'.new) = fatArray'
      /\ Len(run'.new) = 0
  <2>1. /\ \A k \in Int : k <= 0 => <<>> \in getCertainNumberOfFreeBlocks(dmapArray, k)
        /\ \A chain : Linked(fatArray, chain, <<>>) = fatArray
    BY <1>3, NoneTaken
  <2>2. Len(<<>>) = 0
    OBVIOUS
  <2> QED
    BY <1>1, <1>2, <1>4, <2>1, <2>2
<1>6. MapSet(run.new, TRUE)'
  <2>1. /\ Marked(dmapArray, <<>>, TRUE) = dmapArray
        /\ DmapDiscWrite(dmapDisc, dmapArray, <<>>, TRUE) = dmapDisc
    BY <1>3, NothingMarked
  <2> QED
    BY <1>1, <1>2, <1>4, <2>1 DEF MapSet
<1>7. FirstBlock(OldFile', run'.new) = rootFiles[job.s].firstBlock
  BY <1>1 DEF FirstBlock
<1>8. [before'.rootFiles EXCEPT
          ![run'.s] = [OldFile' EXCEPT !.firstBlock = FirstBlock(OldFile', run'.new)]] = rootFiles'
  <2>1. rootFiles[job.s] \in rootFile /\ job.s \in Slots
    BY <1>3, JobFields DEF RootDirectories
  <2>2. [rootFiles[job.s] EXCEPT !.firstBlock = rootFiles[job.s].firstBlock] = rootFiles[job.s]
    BY <2>1 DEF rootFile
  <2>3. [rootFiles EXCEPT ![job.s] = rootFiles[job.s]] = rootFiles
    BY <1>3, <2>1 DEF RootDirectories
  <2> QED
    BY <1>1, <1>2, <1>4, <1>7, <2>2, <2>3
<1>9. CASE job.at = "take"
  <2>1. Extending'
    BY <1>1, <1>2, <1>4, <1>5, <1>6, <1>9 DEF Extending
  <2> QED
    BY <1>1, <1>9, <2>1, KeepsExtending DEF Extends
<1>10. CASE job.at = "data"
  <2>1. run' \in Job /\ run'.size # 0 /\ blockData' = before'.blockData
        /\ before'.blockData \in [Blocks -> [0..(BLOCK_SIZE - 1) -> Bytes]]
    BY <1>1, <1>2, <1>3, <1>4, <1>10
  <2>2. WrittenUpTo(0)' /\ 0 < WriteBlocks' /\ Target(0)' = run'.cur
    <3>1. /\ WrittenUpTo(0)' /\ 0 < WriteBlocks'
          /\ Target(0)' = getNth(fatArray', FirstBlock(OldFile', run'.new), run'.off \div BLOCK_SIZE)
      BY <2>1, DataBegins
    <3>2. run'.cur = getNth(fatArray', rootFiles[job.s].firstBlock, run'.off \div BLOCK_SIZE)
      BY <1>1, <1>4, <1>10
    <3> QED
      BY <1>7, <3>1, <3>2
  <2>3. run'.i = 0 /\ run'.at = "data" /\ run'.k = 0
    BY <1>1, <1>10
  <2>4. WrittenUpTo(run.i)' /\ run'.i < WriteBlocks' /\ run'.cur = Target(run.i)'
    BY <2>2, <2>3 DEF WrittenUpTo, Target
  <2>5. Extending'
    BY <1>1, <1>2, <1>4, <1>5, <1>6, <1>8, <2>3, <2>4 DEF Extending
  <2> QED
    BY <1>1, <2>3, <2>5, KeepsExtending DEF Extends
<1> QED
  BY <1>9, <1>10

\* A call that returns at once, without a job.
LEMMA ReturnsSeen ==
    ASSUME InRest, UNCHANGED run, GoesAstray \/ \E r : Returns(r)
    PROVE  DoneSoFar' /\ Resting
<1>1. run = NULL /\ run' = NULL /\ FatInv
  BY DEF InRest, Idle, DoneSoFar
<1>2. FatInv'
  <2>1. CASE GoesAstray
    BY <1>1, <2>1, FatEnds DEF GoesAstray
  <2>2. CASE \E r : Returns(r)
    BY <1>1, <2>2, FatSame DEF Returns, Completes, fsVars
  <2> QED
    BY <2>1, <2>2
<1> QED
  BY <1>1, <1>2 DEF DoneSoFar, Idle, Resting

\* A handler that frees blocks begins.
LEMMA NothingFreed ==
    ASSUME InRest, mounted, NEW job \in Job, GoesOn(job),
           UNCHANGED <<fatArray, fatDisc, dmapArray, dmapDisc, blockData>>,
           rootFiles[job.s] # NULL
    PROVE  /\ Len(OldChain') \in Nat /\ (Following(0))' = rootFiles[job.s].firstBlock
           /\ \A n \in Nat \ {0} :
                 /\ dmapArray' = Marked(before'.dmapArray, SubSeq(OldChain', n, 0), FALSE)
                 /\ dmapDisc' = DmapDiscWrite(before'.dmapDisc, before'.dmapArray,
                                              SubSeq(OldChain', n, 0), FALSE)
                 /\ fatArray' = Unlinked(before'.fatArray, {OldChain'[j] : j \in n..0})
           /\ blockData' = before'.blockData
<1> DEFINE first == rootFiles[job.s].firstBlock
           c == Chain(fatArray, first)
<1>1. /\ before' = StateNow /\ OldChain' = c
  BY HandlerBegins
<1>2. /\ before'.fatArray = fatArray /\ before'.dmapArray = dmapArray
      /\ before'.dmapDisc = dmapDisc /\ before'.blockData = blockData
  BY <1>1 DEF StateNow
<1>3. /\ rootFiles \in RootDirectories
      /\ fatArray \in [Blocks -> Blocks] /\ dmapArray \in [Blocks -> BOOLEAN]
      /\ dmapDisc \in [DmapGroups -> [DmapOffsets -> BOOLEAN]]
      /\ Terminates(fatArray)
  BY DEF InRest, OpenInv, TypeOK, RootTypeOK, FatTypeOK, DmapTypeOK, RootDirectories,
         DoneSoFar, Idle, FatInv, ChainsEnd
<1>4. first \in Blocks
  BY <1>3, JobFields DEF RootDirectories, rootFile
<1>5. c \in Seq(DataBlocks) /\ IsChain(fatArray, first, c)
  BY <1>3, <1>4, ChainEnds DEF Terminates
<1>6. Len(c) \in Nat /\ first = IF 0 < Len(c) THEN c[1] ELSE FAT_END
  BY <1>5 DEF IsChain
<1> HIDE DEF c, first
<1>7. first = (Following(0))'
  <2>1. 0 + 1 = 1
    OBVIOUS
  <2> QED
    BY <1>1, <1>6, <2>1 DEF Following
<1>8. ASSUME NEW n \in Nat \ {0}
      PROVE  /\ dmapArray' = Marked(before'.dmapArray, SubSeq(OldChain', n, 0), FALSE)
             /\ dmapDisc' = DmapDiscWrite(before'.dmapDisc, before'.dmapArray,
                                          SubSeq(OldChain', n, 0), FALSE)
             /\ fatArray' = Unlinked(before'.fatArray, {OldChain'[j] : j \in n..0})
  <2>1. SubSeq(c, n, 0) = <<>> /\ {c[j] : j \in n..0} = {} /\ Unlinked(fatArray, {}) = fatArray
    BY <1>3, <1>5 DEF Unlinked
  <2>2. /\ Marked(dmapArray, <<>>, FALSE) = dmapArray
        /\ DmapDiscWrite(dmapDisc, dmapArray, <<>>, FALSE) = dmapDisc
    BY <1>3, NothingMarked
  <2> QED
    BY <1>1, <1>2, <2>1, <2>2
<1> QED
  BY <1>1, <1>2, <1>6, <1>7, <1>8 DEF first

\* fuseUnlink is called: it returns ENOENT as the atomic action does, or its first
\* step finds the state in which it was called.
LEMMA StartUnlinkSeen ==
    ASSUME InRest, NEW n \in Names, StartUnlink(n)
    PROVE  IsSeen
<1>1. run = NULL /\ call' = <<"unlink", n>> /\ mounted /\ ~IsOpen(n)
  BY DEF InRest, Idle, StartUnlink
<1>2. CASE NotFound(n, "ENOENT") /\ UNCHANGED run
  <2>1. DoneSoFar' /\ Resting
    BY <1>2, ReturnsSeen DEF NotFound
  <2>2. R!NotFound(n, "ENOENT") /\ ~R!IsOpen(n)
    BY <1>1, <1>2, <2>1, SameReturns
  <2>3. Seen'.call = <<"unlink", n>> /\ Seen.mounted
    BY <1>1, <2>1, SeenIdle DEF Resting
  <2>4. R!fuseUnlink(n)
    BY <2>2, <2>3 DEF R!fuseUnlink
  <2> QED
    BY <2>1, <2>4 DEF R!Next, IsSeen
<1>3. ASSUME NEW s \in getRootEntryFile(rootFiles, n),
             Starts([NewJob("unlink", n, s) EXCEPT
                        !.at = "freeMap", !.cur = rootFiles[s].firstBlock])
      PROVE  IsSeen
  <2> DEFINE job == [NewJob("unlink", n, s) EXCEPT
                        !.at = "freeMap", !.cur = rootFiles[s].firstBlock]
             first == rootFiles[s].firstBlock
  <2>1. s \in Slots /\ rootFiles[s] \in rootFile /\ rootFiles[s] # NULL /\ first \in Blocks
    BY <1>3, EntryFound DEF InRest, OpenInv, TypeOK, RootTypeOK, RootDirectories, rootFile
  <2>2. NewJob("unlink", n, s) \in Job
    BY <2>1, NewJobType
  <2>3. /\ job \in Job /\ job.op = "unlink" /\ job.at = "freeMap" /\ job.n = n
        /\ job.s = s /\ job.cur = first
    BY <2>1, <2>2 DEF Job, NewJob
  <2>4. GoesOn(job) /\ UNCHANGED fsVars
    BY <1>3 DEF Starts
  <2> HIDE DEF job
  <2>5. UNCHANGED <<rootFiles, rootDisc, fatArray, fatDisc, dmapArray, dmapDisc, blockData, openFiles, handles>>
    BY <2>4 DEF fsVars, GoesOn, openVars
  <2>6. /\ run' = job /\ before' = StateNow /\ ~Idle' /\ Began' /\ UNCHANGED R!vars
        /\ OldFile' = rootFiles[s]
    BY <1>1, <2>1, <2>3, <2>4, <2>5, HandlerBegins
  <2>7. /\ before'.rootFiles = rootFiles /\ before'.rootDisc = rootDisc
        /\ before'.fatArray = fatArray /\ before'.dmapArray = dmapArray
        /\ before'.dmapDisc = dmapDisc /\ before'.blockData = blockData
        /\ before'.openFiles = openFiles
    BY <2>6 DEF StateNow
  <2>8. /\ rootFiles \in RootDirectories /\ rootDisc \in RootDirectories
        /\ openFiles \in [Handles -> Slots \cup {NULL, DANGLING}]
    BY DEF InRest, OpenInv, TypeOK, RootTypeOK, RootDirectories
  <2>9. /\ Len(OldChain') \in Nat /\ (Following(0))' = first
        /\ \A x \in Nat \ {0} :
              /\ dmapArray' = Marked(before'.dmapArray, SubSeq(OldChain', x, 0), FALSE)
              /\ dmapDisc' = DmapDiscWrite(before'.dmapDisc, before'.dmapArray,
                                           SubSeq(OldChain', x, 0), FALSE)
              /\ fatArray' = Unlinked(before'.fatArray, {OldChain'[j] : j \in x..0})
        /\ blockData' = before'.blockData
    BY <1>1, <2>1, <2>3, <2>4, <2>5, NothingFreed
  <2>10. 1 \in Nat \ {0}
    OBVIOUS
  <2>11. FreedUpTo(1, 0, 0)'
    BY <2>9, <2>10 DEF FreedUpTo, MapSet
  <2>12. Unlinking(0, {})'
    <3>1. /\ rootFiles = [x \in Slots |-> IF x \in {} THEN NULL ELSE rootFiles[x]]
          /\ rootDisc = [x \in Slots |-> IF x \in {} THEN NULL ELSE rootDisc[x]]
          /\ openFiles = [h \in Handles |-> IF openFiles[h] \in {} THEN DANGLING ELSE openFiles[h]]
      BY <2>8 DEF RootDirectories
    <3>2. run'.cur = (Following(0))' /\ run'.at = "freeMap"
      BY <2>3, <2>6, <2>9
    <3>3. /\ rootFiles' = [x \in Slots |-> IF x \in {} THEN NULL ELSE before'.rootFiles[x]]
          /\ rootDisc' = [x \in Slots |-> IF x \in {} THEN NULL ELSE before'.rootDisc[x]]
          /\ openFiles' = [h \in Handles |-> IF before'.openFiles[h] \in {} THEN DANGLING
                                                                      ELSE before'.openFiles[h]]
      BY <2>5, <2>7, <3>1
    <3> QED
      BY <2>11, <3>2, <3>3 DEF Unlinking
  <2>13. Called'
    <3>1. CalledByPath'
      BY <1>1, <1>3, <2>3, <2>5, <2>6, <2>7 DEF CalledByPath, IsOpen
    <3> QED
      BY <2>3, <2>6, <3>1 DEF Called, Extends, Cuts
  <2>14. 0 \in 0..Len(OldChain') /\ {} \in SUBSET Named(before.rootFiles, run.n)'
    BY <2>9
  <2>15. \E j \in 0..Len(OldChain'), gone \in SUBSET Named(before.rootFiles, run.n)' :
            Unlinking(j, gone)'
    BY <2>12, <2>14
  <2> QED
    BY <2>3, <2>6, <2>13, <2>15 DEF IsSeen, DoneSoFar, Extends, Cuts
<1> QED
  BY <1>2, <1>3 DEF StartUnlink

\* fuseWrite is called: it is refused as the atomic action is, or its first step
\* finds the state in which it was called.
LEMMA StartWriteSeen ==
    ASSUME InRest, NEW h \in Handles, NEW off \in 0..(MaxSize - 1), NEW size \in 1..MaxSize,
           NEW v \in Bytes, off + size <= MaxSize, StartWrite(h, off, size, v)
    PROVE  IsSeen
<1> DEFINE s == openFiles[h]
           old == rootFiles[s].st_size
           k == IF off + size > old THEN blocksAll(size, off, old) ELSE 0
           job == [NewJob("write", NULL, s) EXCEPT !.off = off, !.size = size, !.v = v]
<1>1. run = NULL /\ call' = <<"write", h, off, size, v>> /\ mounted /\ handles[h] # NULL
  BY DEF InRest, Idle, StartWrite
<1>2. CASE /\ UNCHANGED run
           /\ \/ openFiles[h] = NULL /\ Returns("EBADF")
              \/ openFiles[h] = DANGLING /\ GoesAstray
  <2>1. DoneSoFar' /\ Resting
    BY <1>2, ReturnsSeen
  <2>2. \/ Seen.openFiles[h] = NULL /\ R!Returns("EBADF")
        \/ Seen.openFiles[h] = DANGLING /\ R!GoesAstray
    BY <1>2, <2>1, SameReturns, SeenIdle DEF Resting
  <2>3. Seen'.call = <<"write", h, off, size, v>> /\ Seen.mounted /\ Seen.handles[h] # NULL
    BY <1>1, <2>1, SeenIdle DEF Resting
  <2>4. R!fuseWrite(h, off, size, v)
    BY <2>2, <2>3 DEF R!fuseWrite
  <2>5. R!Next
    BY <2>4, SameDirectory DEF R!Next
  <2> QED
    BY <2>1, <2>5 DEF IsSeen
<1>3. CASE /\ s \in Slots
           /\ \/ "straddle" \in Workload
              \/ off \div BLOCK_SIZE >= old \div BLOCK_SIZE
              \/ numBlocks(off + size) <= numBlocks(old)
           /\ "fill" \in Workload \/ k <= Cardinality(FreeBlocks(dmapArray))
           /\ IF k > 0 THEN Starts([job EXCEPT !.k = k])
                       ELSE Starts(DataPhase(job, fatArray))
  <2>1. rootFiles[s] # NULL /\ rootFiles[s] \in rootFile
    BY <1>3 DEF InRest, OpenInv, HandlesRefer, TypeOK, RootTypeOK
  <2>2. off \in 0..MaxSize /\ size \in 0..MaxSize /\ off \in Nat /\ size \in Nat /\ old \in Nat
        /\ size # 0
    BY <2>1, FuseAssumption DEF rootFile
  <2>3. k \in Int
    <3>1. blocksAll(size, off, old) \in Int
      BY <2>2, blocksAllType
    <3> QED
      BY <3>1
  <2>4. NewJob("write", NULL, s) \in Job
    BY <1>3, NewJobType
  <2>5. /\ job \in Job /\ job.op = "write" /\ job.s = s /\ job.v = v /\ job.at = "take"
        /\ job.off = off /\ job.size = size /\ job.new = <<>> /\ job.k = 0
    BY <2>2, <2>4 DEF Job, NewJob
  <2> HIDE DEF k
  \* The job it begins with.
  <2>6. PICK begun \in Job :
          /\ Starts(begun) /\ begun.op = "write" /\ begun.s = s /\ begun.v = v
          /\ begun.off = off /\ begun.size = size /\ begun.new = <<>>
          /\ begun.k = IF k > 0 THEN k ELSE 0
          /\ \/ begun.at = "take"
             \/ /\ begun.at = "data" /\ begun.k = 0 /\ begun.i = 0
                /\ begun.cur = getNth(fatArray, rootFiles[s].firstBlock, off \div BLOCK_SIZE)
    <3> HIDE DEF job
    <3>1. CASE k > 0
      <4> DEFINE takes == [job EXCEPT !.k = k]
      <4>1. k \in Nat
        BY <2>3, <3>1
      <4>2. /\ takes \in Job /\ takes.op = "write" /\ takes.at = "take" /\ takes.s = s
            /\ takes.v = v /\ takes.off = off /\ takes.size = size
            /\ takes.new = <<>> /\ takes.k = k
        BY <2>5, <4>1 DEF Job
      <4>3. Starts(takes)
        BY <1>3, <3>1
      <4> HIDE DEF takes
      <4> QED
        BY <3>1, <4>2, <4>3
    <3>2. CASE ~(k > 0)
      <4> DEFINE data == DataPhase(job, fatArray)
      <4>1. Starts(data)
        BY <1>3, <3>2
      <4>2. /\ data \in Job
            /\ data = [job EXCEPT !.at = "data", !.i = 0, !.cur = data.cur]
        BY <2>1, <2>5, DataPhaseType DEF InRest, OpenInv, TypeOK, FatTypeOK
      <4>3. data.cur = getNth(fatArray, rootFiles[s].firstBlock, off \div BLOCK_SIZE)
        BY <2>5 DEF DataPhase, Job
      <4> HIDE DEF data
      <4>4. /\ data.op = "write" /\ data.at = "data" /\ data.s = s /\ data.v = v
            /\ data.off = off /\ data.size = size /\ data.new = <<>> /\ data.k = 0 /\ data.i = 0
        BY <2>5, <4>2 DEF Job
      <4> QED
        BY <3>2, <4>1, <4>2, <4>3, <4>4
    <3> QED
      BY <3>1, <3>2
  <2>7. GoesOn(begun) /\ UNCHANGED fsVars
    BY <2>6 DEF Starts
  <2>8. UNCHANGED <<fatArray, fatDisc, openFiles, handles>>
    BY <2>7 DEF fsVars, GoesOn, openVars
  <2>9. /\ run' = begun /\ before' = StateNow /\ Began' /\ OldFile' = rootFiles[s]
    BY <1>1, <2>1, <2>6, <2>7, <2>8, HandlerBegins
  <2>10. before'.dmapArray = dmapArray
    BY <2>9 DEF StateNow
  <2>11. Asked' = k
    <3>1. off + size <= old <=> ~(off + size > old)
      BY <2>2
    <3> QED
      BY <2>6, <2>9, <3>1 DEF Asked, k
  <2>12. Called'
    <3>1. CalledByHandle'
      <4>1. /\ call' = <<"write", h, run'.off, run'.size, run'.v>>
            /\ handles'[h] # NULL /\ openFiles'[h] = run'.s
        BY <1>1, <2>6, <2>8, <2>9
      <4>2. \/ "straddle" \in Workload
            \/ run'.off \div BLOCK_SIZE >= OldFile'.st_size \div BLOCK_SIZE
            \/ numBlocks(run'.off + run'.size) <= numBlocks(OldFile'.st_size)
        BY <1>3, <2>6, <2>9
      <4>3. run'.off \in 0..(MaxSize - 1) /\ run'.size \in 1..MaxSize
        BY <2>6, <2>9
      <4> QED
        BY <4>1, <4>2, <4>3 DEF CalledByHandle
    <3>2. /\ "fill" \in Workload \/ Asked' <= Cardinality(FreeBlocks(before'.dmapArray))
          /\ run'.k = IF Asked' > 0 THEN Asked' ELSE 0
      BY <1>3, <2>6, <2>9, <2>10, <2>11
    <3>3. run'.op = "write"
      BY <2>6, <2>9
    <3> QED
      BY <3>1, <3>2, <3>3 DEF Called
  <2> QED
    BY <1>1, <2>1, <2>2, <2>6, <2>7, <2>12, ExtendingBegins
<1> QED
  BY <1>2, <1>3 DEF StartWrite

\* A truncation to a smaller size begins.
LEMMA StartShrinkSeen ==
    ASSUME InRest, mounted, NEW n \in Names, NEW newSize \in 0..MaxSize,
           call' = <<"truncate", n, newSize>>, NEW s \in getRootEntryFile(rootFiles, n),
           newSize < rootFiles[s].st_size,
           StartShrink([NewJob("truncate", n, s) EXCEPT !.size = newSize])
    PROVE  IsSeen
<1> DEFINE start == [NewJob("truncate", n, s) EXCEPT !.size = newSize]
           f == rootFiles[s]
           job == [start EXCEPT !.at = "spare", !.cur = f.firstBlock]
<1>1. s \in Slots /\ f \in rootFile /\ f # NULL /\ f.firstBlock \in Blocks
  BY EntryFound DEF InRest, OpenInv, TypeOK, RootTypeOK, RootDirectories, rootFile
<1>2. start \in Job /\ start.s = s /\ start.size = newSize /\ start.n = n
      /\ start.op = "truncate" /\ start.i = 0
  <2>1. NewJob("truncate", n, s) \in Job
    BY <1>1, NewJobType
  <2> QED
    BY <2>1 DEF NewJob, Job
<1> HIDE DEF start
<1>3. /\ job \in Job /\ job.op = "truncate" /\ job.at = "spare" /\ job.s = s /\ job.n = n
      /\ job.size = newSize /\ job.i = 0 /\ job.cur = f.firstBlock
  BY <1>1, <1>2 DEF Job
<1>4. /\ GoesOn(job)
      /\ "shrink" \in Workload \/ newSize = 0
         \/ Len(Chain(fatArray, f.firstBlock)) <= numBlocks(newSize)
      /\ IF newSize = 0 THEN setEntry(s, [f EXCEPT !.firstBlock = FAT_END]) ELSE UNCHANGED fsVars
  BY <1>2 DEF StartShrink, start
<1> HIDE DEF job
<1>5. /\ UNCHANGED <<fatArray, fatDisc, dmapArray, dmapDisc, blockData>>
      /\ newSize = 0 =>
            /\ rootFiles' = [rootFiles EXCEPT ![s] = [f EXCEPT !.firstBlock = FAT_END]]
            /\ rootDisc' = [rootDisc EXCEPT ![s] = [f EXCEPT !.firstBlock = FAT_END]]
      /\ newSize # 0 => UNCHANGED <<rootFiles, rootDisc>>
  <2>1. CASE newSize = 0
    BY <1>4, <2>1, EntrySet DEF InRest
  <2>2. CASE newSize # 0
    BY <1>4, <2>2 DEF fsVars
  <2> QED
    BY <2>1, <2>2
<1>6. /\ run' = job /\ before' = StateNow /\ ~Idle' /\ Began' /\ UNCHANGED R!vars
      /\ OldFile' = f /\ OldChain' = Chain(fatArray, f.firstBlock)
  BY <1>1, <1>3, <1>4, <1>5, HandlerBegins
<1>7. /\ Len(OldChain') \in Nat /\ (Following(0))' = f.firstBlock
      /\ \A x \in Nat \ {0} :
            /\ dmapArray' = Marked(before'.dmapArray, SubSeq(OldChain', x, 0), FALSE)
            /\ dmapDisc' = DmapDiscWrite(before'.dmapDisc, before'.dmapArray,
                                         SubSeq(OldChain', x, 0), FALSE)
            /\ fatArray' = Unlinked(before'.fatArray, {OldChain'[j] : j \in x..0})
      /\ blockData' = before'.blockData
  BY <1>1, <1>3, <1>4, <1>5, NothingFreed
<1>8. before'.rootFiles = rootFiles /\ before'.rootDisc = rootDisc
  BY <1>6 DEF StateNow
<1>9. numBlocks(newSize) + 1 \in Nat \ {0}
  <2>1. newSize \in Nat
    BY FuseAssumption
  <2>2. numBlocks(newSize) \in Nat
    BY <2>1, numBlocksType
  <2> QED
    BY <2>2
<1>10. /\ rootFiles' = WithoutFirst(before.rootFiles)' /\ rootDisc' = WithoutFirst(before.rootDisc)'
  BY <1>3, <1>5, <1>6, <1>8 DEF WithoutFirst
<1>11. FreedUpTo(numBlocks(run.size) + 1, 0, 0)'
  <2>1. numBlocks(newSize) + 1 = numBlocks(run'.size) + 1
    BY <1>3, <1>6
  <2> QED
    BY <1>7, <1>9, <2>1 DEF FreedUpTo, MapSet
<1>12. Shrinking'
  <2>1. run'.i = 0 /\ run'.at = "spare" /\ run'.cur = (Following(0))'
    BY <1>3, <1>6, <1>7
  <2>2. run'.cur = Following(run.i)' /\ run'.i <= Len(OldChain')
    BY <1>7, <2>1 DEF Following
  <2>3. FreedUpTo(numBlocks(run.size) + 1, run.i, run.i)'
    BY <1>11, <2>1 DEF FreedUpTo, MapSet
  <2> QED
    BY <1>10, <2>1, <2>2, <2>3 DEF Shrinking
<1>13. Called'
  <2>1. CalledByPath'
    BY <1>3, <1>6, <1>8 DEF CalledByPath
  <2>2. run'.op = "truncate" /\ run'.at \notin Extends /\ run'.size = newSize
    BY <1>3, <1>6 DEF Extends
  <2> QED
    BY <1>4, <1>6, <2>1, <2>2 DEF Called
<1> QED
  BY <1>3, <1>6, <1>12, <1>13 DEF IsSeen, DoneSoFar, Extends, Cuts

\* fuseTruncate is called: it returns ENFILE as the atomic action does, it grows
\* a file that needs no new block at once, or its first step finds the state in
\* which it was called.
LEMMA StartTruncateSeen ==
    ASSUME InRest, NEW n \in Names, NEW newSize \in 0..MaxSize, StartTruncate(n, newSize)
    PROVE  IsSeen
<1>1. run = NULL /\ call' = <<"truncate", n, newSize>> /\ mounted
  BY DEF InRest, Idle, StartTruncate
<1>2. CASE NotFound(n, "ENFILE") /\ UNCHANGED run
  <2>1. DoneSoFar' /\ Resting
    BY <1>2, ReturnsSeen DEF NotFound
  <2>2. R!NotFound(n, "ENFILE")
    BY <1>2, <2>1, SameReturns
  <2>3. Seen'.call = <<"truncate", n, newSize>> /\ Seen.mounted
    BY <1>1, <2>1, SeenIdle DEF Resting
  <2>4. R!fuseTruncate(n, newSize)
    BY <2>2, <2>3 DEF R!fuseTruncate
  <2> QED
    BY <2>1, <2>4 DEF R!Next, IsSeen
<1>3. ASSUME NEW s \in getRootEntryFile(rootFiles, n), newSize >= rootFiles[s].st_size,
             "grow" \in Workload \/ newSize = rootFiles[s].st_size,
             LET k == blocksAll(newSize, 0, rootFiles[s].st_size)
                 job == [NewJob("truncate", n, s) EXCEPT !.size = newSize]
             IN  /\ "fill" \in Workload \/ k <= Cardinality(FreeBlocks(dmapArray))
                 /\ IF k > 0 THEN Starts([job EXCEPT !.k = k])
                             ELSE Idle /\ Returns("ok") /\ UNCHANGED run
      PROVE  IsSeen
  <2> DEFINE f == rootFiles[s]
             k == blocksAll(newSize, 0, f.st_size)
             job == [NewJob("truncate", n, s) EXCEPT !.size = newSize]
             takes == [job EXCEPT !.k = k]
             c == Chain(fatArray, f.firstBlock)
  <2>1. s \in Slots /\ f \in rootFile /\ f # NULL /\ f.st_size \in Nat
    BY <1>3, EntryFound DEF InRest, OpenInv, TypeOK, RootTypeOK, RootDirectories, rootFile
  <2>2. k \in Int
    <3>1. newSize \in Nat /\ 0 \in Nat
      BY FuseAssumption
    <3> QED
      BY <2>1, <3>1, blocksAllType
  <2>3. CASE k > 0
    <3>1. NewJob("truncate", n, s) \in Job /\ k \in Nat
      <4>1. NewJob("truncate", n, s) \in Job
        BY <2>1, NewJobType
      <4> HIDE DEF k
      <4>2. k \in Nat
        BY <2>2, <2>3
      <4> QED
        BY <4>1, <4>2
    <3>2. Starts(takes) /\ ("fill" \in Workload \/ k <= Cardinality(FreeBlocks(dmapArray)))
      BY <1>3, <2>3
    <3>3. /\ takes \in Job /\ takes.op = "truncate" /\ takes.at = "take" /\ takes.s = s
          /\ takes.n = n /\ takes.size = newSize /\ takes.off = 0
          /\ takes.new = <<>> /\ takes.k = k
      <4> HIDE DEF k
      <4> QED
        BY <3>1 DEF Job, NewJob
    <3> HIDE DEF takes
    <3>4. GoesOn(takes) /\ UNCHANGED fsVars
      BY <3>2 DEF Starts
    <3>5. UNCHANGED <<fatArray, fatDisc>>
      BY <3>4 DEF fsVars
    <3>6. /\ run' = takes /\ before' = StateNow /\ OldFile' = f
      BY <1>1, <2>1, <3>3, <3>4, <3>5, HandlerBegins
    <3>7. before'.rootFiles = rootFiles /\ before'.dmapArray = dmapArray
      BY <3>6 DEF StateNow
    <3>8. Asked' = k
      BY <3>3, <3>6 DEF Asked
    <3> HIDE DEF k
    <3>9. Called'
      <4>1. CalledByPath'
        BY <1>1, <1>3, <3>3, <3>6, <3>7 DEF CalledByPath
      <4>2. /\ run'.op = "truncate" /\ run'.at \notin Cuts /\ run'.off = 0 /\ run'.k = k
            /\ run'.size = newSize /\ OldFile' = f /\ Asked' = k
            /\ before'.dmapArray = dmapArray
        BY <3>3, <3>6, <3>7, <3>8 DEF Cuts
      <4> HIDE DEF f
      <4> QED
        BY <1>3, <2>3, <3>2, <4>1, <4>2 DEF Called, f
    <3> QED
      BY <1>1, <2>1, <3>3, <3>4, <3>9, ExtendingBegins
  <2>4. CASE ~(k > 0)
    <3>1. Returns("ok") /\ UNCHANGED run
      BY <1>3, <2>4
    <3>2. DoneSoFar' /\ Resting
      BY <3>1, ReturnsSeen
    <3>3. run = NULL /\ run' = NULL
      BY <3>2 DEF Resting
    <3>4. /\ fatArray \in [Blocks -> Blocks] /\ fatDisc \in [Blocks -> Blocks]
          /\ dmapArray \in [Blocks -> BOOLEAN]
          /\ dmapDisc \in [DmapGroups -> [DmapOffsets -> BOOLEAN]]
          /\ rootFiles \in RootDirectories
      BY DEF InRest, OpenInv, TypeOK, RootTypeOK, FatTypeOK, DmapTypeOK, RootDirectories
    <3>5. /\ UNCHANGED <<container, mounted, rootFiles, rootDisc, fatArray, fatDisc, dmapArray,
                         dmapDisc, blockData, openFiles, openCount, handles>>
          /\ Completes("ok")
      BY <3>1 DEF Returns, Completes, fsVars, openVars
    <3> HIDE DEF k, c
    <3>6. <<>> \in getCertainNumberOfFreeBlocks(dmapArray, k) /\ Linked(fatArray, c, <<>>) = fatArray
      <4>1. k <= 0
        BY <2>2, <2>4
      <4> QED
        BY <2>2, <3>4, <4>1, NoneTaken
    <3>7. /\ Marked(dmapArray, <<>>, TRUE) = dmapArray
          /\ DmapDiscWrite(dmapDisc, dmapArray, <<>>, TRUE) = dmapDisc
      BY <3>4, NothingMarked
    <3> USE SeenIdle
    <3>8. R!SetAll(<<>>, TRUE)
      <4>1. Seen'.dmapArray = R!Marked(Seen.dmapArray, <<>>, TRUE)
        BY <3>3, <3>5, <3>7, SameTables
      <4>2. Seen'.dmapDisc = R!DmapDiscWrite(Seen.dmapDisc, Seen.dmapArray, <<>>, TRUE)
        BY <3>3, <3>5, <3>7, SameTables
      <4> QED
        BY <4>1, <4>2 DEF R!SetAll
    <3>9. FatDiscWrite(fatDisc, fatArray, {} \cup Range(<<>>)) = fatDisc
      BY <3>4 DEF FatDiscWrite, Range
    <3>10. R!Range(<<>>) = Range(<<>>)
      BY DEF R!Range, Range
    <3>11. R!setFATBlocks(f, <<>>)
      <4>1. R!Chain(Seen.fatArray, f.firstBlock) = c
        BY <3>3, SameTables DEF c
      <4>2. Seen'.fatArray = R!Linked(Seen.fatArray, c, <<>>)
        BY <3>3, <3>5, <3>6, SameTables
      <4>3. Seen'.fatDisc = R!FatDiscWrite(Seen.fatDisc, Seen'.fatArray, {} \cup R!Range(<<>>))
        BY <3>3, <3>5, <3>9, <3>10, SameTables
      <4> QED
        BY <3>8, <4>1, <4>2, <4>3 DEF R!setFATBlocks
    <3>12. Seen'.rootFiles = [Seen.rootFiles EXCEPT ![s].firstBlock = R!FirstBlock(f, <<>>)]
      <4>1. R!FirstBlock(f, <<>>) = f.firstBlock
        BY SameDirectory DEF FirstBlock
      <4>2. [f EXCEPT !.firstBlock = f.firstBlock] = f
        BY <2>1 DEF rootFile
      <4>3. [rootFiles EXCEPT ![s].firstBlock = f.firstBlock] = rootFiles
        BY <2>1, <3>4, <4>2 DEF RootDirectories
      <4> QED
        BY <3>3, <3>5, <4>1, <4>3
    <3>13. R!Completes("ok")
      BY <3>2, <3>5, SameReturns
    <3>14. UNCHANGED <<Seen.rootDisc, Seen.blockData, R!openVars>>
      BY <3>3, <3>5 DEF R!openVars
    <3>15. <<>> \in R!getCertainNumberOfFreeBlocks(Seen.dmapArray, k)
      BY <3>3, <3>6, SameTables
    <3>16. Seen.rootFiles[s] = f /\ k = R!blocksAll(newSize, 0, f.st_size)
      BY <3>3, SameDirectory DEF k
    <3>17. R!Extend(s, newSize)
      BY <1>3, <3>11, <3>12, <3>13, <3>14, <3>15, <3>16 DEF R!Extend
    <3>18. s \in R!getRootEntryFile(Seen.rootFiles, n) /\ newSize >= Seen.rootFiles[s].st_size
      BY <1>3, <3>3, SameDirectory
    <3>19. Seen'.call = <<"truncate", n, newSize>> /\ Seen.mounted
      BY <1>1, <3>3
    <3>20. R!fuseTruncate(n, newSize)
      BY <3>17, <3>18, <3>19 DEF R!fuseTruncate
    <3> QED
      BY <3>2, <3>20 DEF R!Next, IsSeen
  <2> QED
    BY <2>3, <2>4
<1>4. ASSUME NEW s \in getRootEntryFile(rootFiles, n), newSize < rootFiles[s].st_size,
             StartShrink([NewJob("truncate", n, s) EXCEPT !.size = newSize])
      PROVE  IsSeen
  BY <1>1, <1>4, StartShrinkSeen
<1> QED
  BY <1>2, <1>3, <1>4 DEF StartTruncate

\* The file system starts in rest, and so it is seen from outside.
LEMMA HistoryBegins ==
    ASSUME HistoryInit
    PROVE  DoneSoFar /\ R!Init
<1>1. run = NULL /\ Init
  BY DEF HistoryInit, StepsInit
<1>2. DoneSoFar
  BY <1>1, InitFatInv DEF DoneSoFar, Idle
<1>3. R!Init
  <2>1. R!BlankDmapDisc = BlankDmapDisc
    BY DEF R!BlankDmapDisc, BlankDmapDisc, R!DmapGroups, DmapGroups, R!DmapOffsets, DmapOffsets
  <2>2. R!DmapInit
    BY <1>1, <2>1, SeenIdle, SameTables DEF Init, DmapInit, R!DmapInit
  <2>3. R!FuseInit
    BY <1>1, SeenIdle, SameDirectory DEF Init, FuseInit, R!FuseInit
  <2> QED
    BY <1>1, <2>2, <2>3, SeenIdle, SameTables, SameDirectory DEF Init, R!Init
<1> QED
  BY <1>2, <1>3

\* Every step, of a handler or of the rest of the system, is seen from outside as
\* a whole handler or not at all, and leaves the state in which a handler was
\* called with the writes it has made so far.
LEMMA StepSeen ==
    ASSUME Faults = {}, OpenInv, JobInv, DoneSoFar, [HistoryNext]_<<stepVars, before>>
    PROVE  IsSeen
<1>1. CASE UNCHANGED <<stepVars, before>>
  <2>1. UNCHANGED <<vars, run, before>>
    BY <1>1 DEF stepVars
  <2>2. UNCHANGED Seen
    BY <2>1 DEF Seen, StateNow, vars, fsVars, openVars
  <2>3. UNCHANGED R!vars
    BY <2>2 DEF R!vars, R!fsVars, R!openVars
  <2>4. DoneSoFar'
    <3>1. UNCHANGED <<run, before, container, mounted, rootFiles, rootDisc, fatArray, fatDisc,
                      dmapArray, dmapDisc, blockData, openFiles, openCount, handles, call>>
      BY <2>1 DEF vars, fsVars, openVars
    <3>2. FatInv => FatInv'
      BY <3>1, FatSame
    <3>3. OldFile' = OldFile /\ OldChain' = OldChain
      BY <3>1 DEF OldFile, OldChain
    <3>4. (Began => Began') /\ (Called => Called')
      BY <3>1, <3>3 DEF Began, Called, CalledByPath, CalledByHandle, Asked
    <3>5. /\ \A i : Target(i)' = Target(i)
          /\ \A j : Following(j)' = Following(j)
          /\ WriteBlocks' = WriteBlocks
      BY <3>1, <3>3 DEF Target, Following, WriteBlocks
    <3>6. Extending => Extending'
      BY <3>1, <3>3, <3>5 DEF Extending, MapSet, LinkedUpTo, WrittenUpTo
    <3>7. \A n, m, c : FreedUpTo(n, m, c) => FreedUpTo(n, m, c)'
      BY <3>1, <3>3 DEF FreedUpTo, MapSet
    <3>8. Shrinking => Shrinking'
      BY <3>1, <3>3, <3>5 DEF Shrinking, WithoutFirst, FreedUpTo, MapSet
    <3>9. ASSUME NEW j, NEW gone, Unlinking(j, gone)
          PROVE  Unlinking(j, gone)'
      <4>1. /\ run.at = "freeMap" => FreedUpTo(1, j, j)'
            /\ run.at = "freeFat" => FreedUpTo(1, j + 1, j)'
        BY <3>9, <3>7 DEF Unlinking
      <4> QED
        BY <3>1, <3>3, <3>5, <3>9, <4>1 DEF Unlinking
    <3> QED
      BY <3>1, <3>2, <3>3, <3>4, <3>6, <3>8, <3>9 DEF DoneSoFar, Idle
  <2> QED
    BY <2>3, <2>4 DEF IsSeen
<1>2. CASE HistoryNext
  <2>1. CASE Idle /\ ShortHandler /\ UNCHANGED run
    <3>1. Resting
      BY <2>1 DEF Idle, Resting
    <3>2. FatInv'
      BY <2>1, ShortHandlersAreNext, FatInvInductive DEF DoneSoFar
    <3>3. R!Next
      BY <2>1, <3>1, SameShort
    <3>4. DoneSoFar'
      BY <3>1, <3>2 DEF DoneSoFar, Idle, Resting
    <3> QED
      BY <3>3, <3>4 DEF IsSeen
  <2>2. CASE \E n \in Names : StartUnlink(n)
    <3>1. InRest
      BY <1>2, <2>2 DEF InRest, HistoryNext, StartUnlink, Starts
    <3> QED
      BY <2>2, <3>1, StartUnlinkSeen
  <2>3. CASE \E h \in Handles, off \in 0..(MaxSize - 1), size \in 1..MaxSize, v \in Bytes :
                off + size <= MaxSize /\ StartWrite(h, off, size, v)
    <3>1. InRest
      BY <1>2, <2>3 DEF InRest, HistoryNext, StartWrite, Starts
    <3> QED
      BY <2>3, <3>1, StartWriteSeen
  <2>4. CASE \E n \in Names, newSize \in 0..MaxSize : StartTruncate(n, newSize)
    <3>1. PICK n \in Names, newSize \in 0..MaxSize : StartTruncate(n, newSize)
      BY <2>4
    <3>2. \A job : StartShrink(job) => Idle
      BY DEF StartShrink
    <3>3. \A job : Starts(job) => Idle
      BY DEF Starts
    <3>4. Idle
      BY <3>1, <3>2, <3>3 DEF StartTruncate
    <3>5. InRest
      BY <1>2, <3>4 DEF InRest, HistoryNext
    <3> QED
      BY <3>1, <3>5, StartTruncateSeen
  <2>5. CASE HandlerStep
    BY <1>2, <2>5, HandlerStepSeen DEF HistoryNext
  <2>6. ~KillWithin
    BY DEF KillWithin
  <2> QED
    BY <1>2, <2>1, <2>2, <2>3, <2>4, <2>5, <2>6 DEF HistoryNext, StepsNext
<1> QED
  BY <1>1, <1>2

\* fuseUnlink, fuseWrite and fuseTruncate as the code runs them, one read or write
\* of a block at a time, amount to the atomic actions of MyOnDiskFS: whoever looks
\* at the state between the calls, where libfuse -s lets the next call in, sees a
\* behaviour of Spec. For every value of the constants and every Workload, as
\* long as no kill hits a handler and no write of a block fails (Faults = {}):
\* with those the runs steps_tears and steps_torn show what is left behind.
THEOREM StepsImplementHandlers ==
    ASSUME Faults = {}
    PROVE  HistorySpec => ImplementsAtomicHandlers
<1>1. HistoryInit => OpenInv /\ JobInv /\ DoneSoFar /\ R!Init
  <2>1. HistoryInit => Init /\ Idle
    BY DEF HistoryInit, StepsInit, Idle
  <2>2. Init => OpenInv
    BY InitOpenInv
  <2>3. Idle => JobInv
    BY DEF JobInv
  <2> QED
    BY <2>1, <2>2, <2>3, HistoryBegins
<1>2. OpenInv /\ JobInv /\ [HistoryNext]_<<stepVars, before>> => OpenInv' /\ JobInv'
  <2>1. [HistoryNext]_<<stepVars, before>> => [StepsNext]_stepVars
    BY DEF HistoryNext
  <2> QED
    BY <2>1, StepsInvInductive
<1>3. OpenInv /\ JobInv /\ DoneSoFar /\ [HistoryNext]_<<stepVars, before>>
         => DoneSoFar' /\ [R!Next]_(R!vars)
  BY StepSeen DEF IsSeen
<1> QED
  BY <1>1, <1>2, <1>3, PTL DEF HistorySpec, ImplementsAtomicHandlers, R!Spec
=============================================================================
