-------------------- MODULE MyOnDiskFSRefinement_proofs --------------------
(***************************************************************************)
(* MyOnDiskFS implements FileStore: seen through names, chains and blocks, *)
(* each handler has the effect its comment promises, and the end of the    *)
(* process, at any moment between two calls or for want of blocks, loses   *)
(* nothing -- for every size of the volume, the directory and the table of *)
(* open files, and for clients that at most "fill" the volume.             *)
(***************************************************************************)
EXTENDS MyOnDiskFSBlocks_proofs, MyOnDiskFSRefinement

-----------------------------------------------------------------------------
(* The files that a directory, a table and the data blocks hold.           *)

\* The bytes of a file of the given size, and with the attributes of its entry.
BytesOf(first, size, fat, data) ==
    [i \in 1..size |->
        data[getNth(fat, first, (i - 1) \div BLOCK_SIZE)][(i - 1) % BLOCK_SIZE]]

ContentOf(f, fat, data) ==
    [bytes |-> BytesOf(f.firstBlock, f.st_size, fat, data),
     mode  |-> f.st_mode,
     uid   |-> f.st_uid]

FilesOf(dir, fat, data) ==
    [n \in {m \in Names : Named(dir, m) # {}} |->
        ContentOf(dir[CHOOSE s \in getRootEntryFile(dir, n) : TRUE], fat, data)]

\* The refinement mapping reads memory while the file system is mounted and
\* the container while it is not.
LEMMA SeenFiles ==
    /\ StoredFiles = FilesOf(entries, table, blockData)
    /\ StoredFiles' = FilesOf(entries', table', blockData')
    /\ mounted => entries = rootFiles /\ table = fatArray
    /\ ~mounted => entries = rootDisc /\ table = fatDisc
    /\ mounted' => entries' = rootFiles' /\ table' = fatArray'
    /\ ~mounted' => entries' = rootDisc' /\ table' = fatDisc'
<1>1. StoredFiles = FilesOf(entries, table, blockData)
  BY DEF StoredFiles, FilesOf, Content, ContentOf, BytesOf, ByteAt
<1>2. StoredFiles' = FilesOf(entries', table', blockData')
  BY DEF StoredFiles, FilesOf, Content, ContentOf, BytesOf, ByteAt
<1> QED
  BY <1>1, <1>2 DEF entries, table

\* If names are there once, each file is seen under its name.
LEMMA FileAt ==
    ASSUME NEW dir \in RootDirectories, NamesOnce(dir), NEW fat, NEW data,
           NEW s \in Slots, dir[s] # NULL
    PROVE  /\ dir[s].name \in DOMAIN FilesOf(dir, fat, data)
           /\ FilesOf(dir, fat, data)[dir[s].name] = ContentOf(dir[s], fat, data)
<1>1. dir[s] \in rootFile
  BY DEF RootDirectories
<1>2. Named(dir, dir[s].name) = {s}
  BY DEF Named, NamesOnce
<1>3. s <= s
  BY DEF Slots
<1>4. dir[s].name \in Names /\ getRootEntryFile(dir, dir[s].name) = {s}
  BY <1>1, <1>2, <1>3 DEF getRootEntryFile, rootFile
<1>5. (CHOOSE t \in getRootEntryFile(dir, dir[s].name) : TRUE) = s
  BY <1>4
<1> QED
  BY <1>2, <1>4, <1>5 DEF FilesOf

\* And every file is the contents of an entry.
LEMMA FileFrom ==
    ASSUME NEW dir \in RootDirectories, NamesOnce(dir), NEW fat, NEW data,
           NEW n \in DOMAIN FilesOf(dir, fat, data)
    PROVE  \E s \in Slots :
              /\ dir[s] # NULL /\ dir[s].name = n
              /\ FilesOf(dir, fat, data)[n] = ContentOf(dir[s], fat, data)
<1>1. PICK s \in Slots : dir[s] # NULL /\ dir[s].name = n
  BY DEF FilesOf, Named
<1> QED
  BY <1>1, FileAt

IsFunction(F) == F = [n \in DOMAIN F |-> F[n]]

LEMMA SameFunction ==
    ASSUME NEW F, NEW G, IsFunction(F), IsFunction(G), DOMAIN F = DOMAIN G,
           \A n \in DOMAIN F : F[n] = G[n]
    PROVE  F = G
BY DEF IsFunction

\* The files are a given function if it says the same of every entry.
LEMMA FilesAre ==
    ASSUME NEW dir \in RootDirectories, NamesOnce(dir), NEW fat, NEW data,
           NEW F, IsFunction(F), DOMAIN F = {m \in Names : Named(dir, m) # {}},
           \A s \in Slots : dir[s] # NULL => F[dir[s].name] = ContentOf(dir[s], fat, data)
    PROVE  FilesOf(dir, fat, data) = F
<1> DEFINE G == FilesOf(dir, fat, data)
<1>1. IsFunction(G) /\ DOMAIN G = DOMAIN F
  BY DEF FilesOf, IsFunction
<1>2. ASSUME NEW n \in DOMAIN F PROVE F[n] = G[n]
  <2>1. PICK s \in Slots :
           dir[s] # NULL /\ dir[s].name = n /\ G[n] = ContentOf(dir[s], fat, data)
    BY <1>1, <1>2, FileFrom
  <2> QED
    BY <2>1
<1> HIDE DEF G
<1> QED
  BY <1>1, <1>2, SameFunction DEF G

\* Two directories with the same names and contents hold the same files.
LEMMA FilesSame ==
    ASSUME NEW dir \in RootDirectories, NamesOnce(dir), NEW fat, NEW data,
           NEW d \in RootDirectories, NEW new, NEW blocks, SameNames(d, dir),
           \A s \in Slots : dir[s] # NULL =>
              ContentOf(d[s], new, blocks) = ContentOf(dir[s], fat, data)
    PROVE  FilesOf(d, new, blocks) = FilesOf(dir, fat, data)
<1> DEFINE F == FilesOf(dir, fat, data)
<1>1. IsFunction(F)
  BY DEF FilesOf, IsFunction
<1>2. NamesOnce(d)
  BY SameNamesOnce
<1>3. \A n : Named(d, n) = Named(dir, n)
  BY DEF SameNames, Named
<1>4. DOMAIN F = {m \in Names : Named(d, m) # {}}
  BY <1>3 DEF FilesOf
<1>5. ASSUME NEW s \in Slots, d[s] # NULL PROVE F[d[s].name] = ContentOf(d[s], new, blocks)
  <2>1. dir[s] # NULL /\ d[s].name = dir[s].name
    BY <1>5 DEF SameNames
  <2>2. F[dir[s].name] = ContentOf(dir[s], fat, data)
    BY <2>1, FileAt
  <2> QED
    BY <2>1, <2>2
<1> HIDE DEF F
<1> QED
  BY <1>1, <1>2, <1>4, <1>5, FilesAre DEF F

-----------------------------------------------------------------------------
(* Bytes and blocks.                                                       *)

\* A byte in front of the size is in one of the blocks that the size needs.
LEMMA BlockOfByte ==
    ASSUME NEW size \in Nat, NEW i \in 1..size
    PROVE  /\ (i - 1) \div BLOCK_SIZE \in Nat
           /\ (i - 1) % BLOCK_SIZE \in 0..(BLOCK_SIZE - 1)
           /\ (i - 1) \div BLOCK_SIZE + 1 <= numBlocks(size)
<1> DEFINE q == (i - 1) \div BLOCK_SIZE
           r == (i - 1) % BLOCK_SIZE
           Q == size \div BLOCK_SIZE
           R == size % BLOCK_SIZE
<1>1. BLOCK_SIZE \in Nat \ {0} /\ i - 1 \in Nat /\ i - 1 < size
  BY LayoutAssumption
<1>2. q \in Nat /\ Q \in Nat /\ r \in 0..(BLOCK_SIZE - 1) /\ R \in 0..(BLOCK_SIZE - 1)
  BY <1>1
<1>3. q <= Q
  BY <1>1
<1>4. ASSUME q = Q PROVE R # 0
  <2>1. i - 1 = BLOCK_SIZE * q + r /\ size = BLOCK_SIZE * Q + R
    BY <1>1
  <2> HIDE DEF q, r, Q, R
  <2> QED
    BY <1>1, <1>2, <1>4, <2>1
<1>5. numBlocks(size) = Q + (IF R # 0 THEN 1 ELSE 0)
  BY DEF numBlocks
<1> HIDE DEF q, r, Q, R
<1>6. q + 1 <= numBlocks(size)
  BY <1>2, <1>3, <1>4, <1>5
<1> QED
  BY <1>2, <1>6 DEF q, r

\* Bytes with the same place in the same block are the same byte.
LEMMA ByteOfBlock ==
    ASSUME NEW i \in Nat, NEW j \in Nat, i \div BLOCK_SIZE = j \div BLOCK_SIZE,
           i % BLOCK_SIZE = j % BLOCK_SIZE
    PROVE  i = j
<1> DEFINE q == i \div BLOCK_SIZE
           r == i % BLOCK_SIZE
<1>1. BLOCK_SIZE \in Nat \ {0}
  BY LayoutAssumption
<1>2. i = BLOCK_SIZE * q + r
  BY <1>1
<1>3. j = BLOCK_SIZE * (j \div BLOCK_SIZE) + (j % BLOCK_SIZE)
  BY <1>1
<1>4. j = BLOCK_SIZE * q + r
  BY <1>3
<1> QED
  BY <1>2, <1>4

\* The block of a byte of a file whose chain covers its size.
LEMMA BlockInChain ==
    ASSUME NEW f \in rootFile, NEW fat \in [Blocks -> Blocks],
           numBlocks(f.st_size) <= Len(Chain(fat, f.firstBlock)), NEW i \in 1..f.st_size
    PROVE  LET chain == Chain(fat, f.firstBlock)
               n == (i - 1) \div BLOCK_SIZE
           IN  /\ n + 1 \in 1..Len(chain)
               /\ getNth(fat, f.firstBlock, n) = chain[n + 1]
<1> DEFINE chain == Chain(fat, f.firstBlock)
           n == (i - 1) \div BLOCK_SIZE
<1>1. f.st_size \in Nat /\ f.firstBlock \in Blocks
  BY FuseAssumption DEF rootFile
<1>2. n \in Nat /\ n + 1 <= numBlocks(f.st_size)
  BY <1>1, BlockOfByte
<1>3. chain \in Seq(DataBlocks) /\ \A m \in 1..Len(chain) : chain[m] = getNth(fat, f.firstBlock, m - 1)
  BY <1>1, ChainBlocks
<1>4. Len(chain) \in Nat
  BY <1>3
<1>5. numBlocks(f.st_size) \in Nat
  BY <1>1, numBlocksType
<1> HIDE DEF chain, n
<1>6. numBlocks(f.st_size) <= Len(chain)
  BY DEF chain
<1>7. n + 1 \in 1..Len(chain) /\ n + 1 - 1 = n
  BY <1>2, <1>4, <1>5, <1>6
<1>8. \A j \in 1..Len(chain) : j - 1 = n => chain[j] = getNth(fat, f.firstBlock, n)
  BY <1>3
<1> DEFINE m == n + 1
<1>9. m \in 1..Len(chain) /\ m - 1 = n
  BY <1>2, <1>7
<1> HIDE DEF m
<1>10. chain[m] = getNth(fat, f.firstBlock, n)
  BY <1>8, <1>9
<1> QED
  BY <1>9, <1>10 DEF chain, n, m

\* A file keeps its contents with its chain, if its blocks keep theirs.
LEMMA ContentSame ==
    ASSUME NEW f \in rootFile, NEW g \in rootFile,
           NEW fat \in [Blocks -> Blocks], NEW new \in [Blocks -> Blocks],
           g.st_size = f.st_size, g.st_mode = f.st_mode, g.st_uid = f.st_uid,
           numBlocks(f.st_size) <= Len(Chain(fat, f.firstBlock)),
           f.st_size = 0 \/ Chain(new, g.firstBlock) = Chain(fat, f.firstBlock),
           NEW data, NEW blocks,
           \A b \in Range(Chain(fat, f.firstBlock)) : blocks[b] = data[b]
    PROVE  ContentOf(g, new, blocks) = ContentOf(f, fat, data)
<1>1. ASSUME NEW i \in 1..f.st_size
      PROVE  blocks[getNth(new, g.firstBlock, (i - 1) \div BLOCK_SIZE)]
                = data[getNth(fat, f.firstBlock, (i - 1) \div BLOCK_SIZE)]
  <2> DEFINE n == (i - 1) \div BLOCK_SIZE
             chain == Chain(fat, f.firstBlock)
  <2>1. f.st_size \in Nat /\ f.st_size # 0
    BY FuseAssumption DEF rootFile
  <2>2. n + 1 \in 1..Len(chain) /\ getNth(fat, f.firstBlock, n) = chain[n + 1]
    BY BlockInChain
  <2>3. getNth(new, g.firstBlock, n) = Chain(new, g.firstBlock)[n + 1]
    BY <2>1, BlockInChain
  <2>4. chain[n + 1] \in Range(chain)
    <3>1. chain \in Seq(DataBlocks)
      BY ChainBlocks DEF rootFile
    <3> HIDE DEF chain, n
    <3> QED
      BY <2>2, <3>1 DEF Range
  <2> QED
    BY <2>1, <2>2, <2>3, <2>4
<1>2. BytesOf(g.firstBlock, g.st_size, new, blocks) = BytesOf(f.firstBlock, f.st_size, fat, data)
  BY <1>1 DEF BytesOf
<1> QED
  BY <1>2 DEF ContentOf

LEMMA ContentKept ==
    ASSUME NEW f \in rootFile, NEW fat \in [Blocks -> Blocks], NEW new \in [Blocks -> Blocks],
           numBlocks(f.st_size) <= Len(Chain(fat, f.firstBlock)),
           Chain(new, f.firstBlock) = Chain(fat, f.firstBlock), NEW data
    PROVE  ContentOf(f, new, data) = ContentOf(f, fat, data)
BY ContentSame

-----------------------------------------------------------------------------
(* What the handlers do, seen through the refinement mapping.              *)

\* The container of a new volume is taken to hold no entries.
NewVolume == ~container => rootDisc = EmptyDirectory

LEMMA NewVolumeInductive ==
    OpenInv /\ FatInv /\ NewVolume /\ [Next]_vars => NewVolume'
<1> SUFFICES ASSUME OpenInv, FatInv, NewVolume, [Next]_vars, ~container'
             PROVE  rootDisc' = EmptyDirectory
  BY DEF NewVolume
<1>1. CASE fuseInit
  BY <1>1 DEF fuseInit, InitExisting, InitNew
<1>2. CASE Rests \/ Ends
  BY <1>2 DEF Rests, Ends, NewVolume
<1>3. CASE Stores \/ Changes
  <2>1. mounted
    BY <1>3 DEF Stores, Changes
  <2>2. container' = container
    BY <1>3, MapChanges DEF Stores
  <2> QED
    BY <2>1, <2>2 DEF FatInv
<1> QED
  BY <1>1, <1>2, <1>3, StepKinds

\* The inductive invariant of the refinement: all that the other modules show.
StoreInv ==
    /\ OpenInv
    /\ FatInv
    /\ RootInv
    /\ NameInv
    /\ OwnInv
    /\ CoverInv
    /\ NewVolume

\* What the proofs of the handlers use of it, before a step and after one.
LEMMA MountedFiles ==
    ASSUME StoreInv, mounted
    PROVE  /\ rootFiles \in RootDirectories /\ rootDisc \in RootDirectories
           /\ fatArray \in [Blocks -> Blocks] /\ fatDisc = fatArray
           /\ NamesOnce(rootFiles)
           /\ StoredFiles = FilesOf(rootFiles, fatArray, blockData)
           /\ \A s \in Slots : rootFiles[s] # NULL =>
                /\ rootFiles[s] \in rootFile
                /\ numBlocks(rootFiles[s].st_size)
                      <= Len(Chain(fatArray, rootFiles[s].firstBlock))
<1>1. rootFiles \in RootDirectories /\ rootDisc \in RootDirectories
  BY DEF StoreInv, OpenInv, TypeOK, RootTypeOK, RootDirectories
<1>2. fatArray \in [Blocks -> Blocks] /\ fatDisc = fatArray
  BY DEF StoreInv, OpenInv, TypeOK, FatTypeOK, FatInv, FatPersisted
<1>3. Covered(rootFiles, fatArray)
  BY <1>2 DEF StoreInv, CoverInv
<1>4. StoredFiles = FilesOf(rootFiles, fatArray, blockData)
  BY SeenFiles
<1> QED
  BY <1>1, <1>2, <1>3, <1>4 DEF StoreInv, NameInv, Covered, RootDirectories

LEMMA MountedFilesNext ==
    ASSUME StoreInv', mounted'
    PROVE  /\ rootFiles' \in RootDirectories
           /\ fatArray' \in [Blocks -> Blocks] /\ fatDisc' = fatArray'
           /\ NamesOnce(rootFiles')
           /\ StoredFiles' = FilesOf(rootFiles', fatArray', blockData')
           /\ \A s \in Slots : rootFiles'[s] # NULL =>
                /\ rootFiles'[s] \in rootFile
                /\ numBlocks(rootFiles'[s].st_size)
                      <= Len(Chain(fatArray', rootFiles'[s].firstBlock))
<1>1. rootFiles' \in RootDirectories
  BY DEF StoreInv, OpenInv, TypeOK, RootTypeOK, RootDirectories
<1>2. fatArray' \in [Blocks -> Blocks] /\ fatDisc' = fatArray'
  BY DEF StoreInv, OpenInv, TypeOK, FatTypeOK, FatInv, FatPersisted
<1>3. Covered(rootFiles', fatArray')
  BY <1>2 DEF StoreInv, CoverInv
<1>4. StoredFiles' = FilesOf(rootFiles', fatArray', blockData')
  BY SeenFiles
<1> QED
  BY <1>1, <1>2, <1>3, <1>4 DEF StoreInv, NameInv, Covered, RootDirectories

\* A file exists if an entry has its name; paths resolve to the only one.
LEMMA StoreExists ==
    ASSUME StoreInv, mounted, NEW n
    PROVE  /\ Store!Exists(n) <=> n \in Names /\ Named(rootFiles, n) # {}
           /\ Store!Exists(n) => getRootEntryFile(rootFiles, n) # {}
<1>1. DOMAIN StoredFiles = {m \in Names : Named(rootFiles, m) # {}}
  BY MountedFiles DEF FilesOf
<1> QED
  BY <1>1, EntryExists DEF Store!Exists

LEMMA ResolvedFile ==
    ASSUME StoreInv, mounted, NEW n, NEW s \in getRootEntryFile(rootFiles, n)
    PROVE  /\ s \in Slots /\ rootFiles[s] # NULL /\ rootFiles[s] \in rootFile
           /\ rootFiles[s].name = n /\ n \in Names
           /\ Named(rootFiles, n) = {s}
           /\ Store!Exists(n)
           /\ StoredFiles[n] = ContentOf(rootFiles[s], fatArray, blockData)
           /\ numBlocks(rootFiles[s].st_size) <= Len(Chain(fatArray, rootFiles[s].firstBlock))
<1>1. s \in Slots /\ rootFiles[s] # NULL /\ rootFiles[s] \in rootFile /\ rootFiles[s].name = n
  BY MountedFiles, EntryFound
<1>2. Named(rootFiles, n) = {s} /\ n \in Names
  BY <1>1, MountedFiles DEF Named, NamesOnce, rootFile
<1>3. FilesOf(rootFiles, fatArray, blockData)[rootFiles[s].name]
         = ContentOf(rootFiles[s], fatArray, blockData)
  BY <1>1, MountedFiles, FileAt
<1>4. StoredFiles[n] = ContentOf(rootFiles[s], fatArray, blockData)
  BY <1>1, <1>3, MountedFiles
<1>5. Store!Exists(n)
  BY <1>2, StoreExists
<1> QED
  BY <1>1, <1>2, <1>4, <1>5, MountedFiles

\* The container holds the files that memory holds.
LEMMA DiscFiles ==
    ASSUME StoreInv, mounted
    PROVE  StoredFiles = FilesOf(rootDisc, fatDisc, blockData)
<1>1. SameNames(rootDisc, rootFiles)
  BY DiscNames DEF StoreInv, OpenInv, RootInv
<1>2. ASSUME NEW s \in Slots, rootFiles[s] # NULL
      PROVE  ContentOf(rootDisc[s], fatDisc, blockData)
                = ContentOf(rootFiles[s], fatArray, blockData)
  <2>1. CASE rootDisc[s] = rootFiles[s]
    BY <2>1, MountedFiles
  <2>2. CASE rootFiles[s].st_size = 0 /\ rootDisc[s] = [rootFiles[s] EXCEPT !.firstBlock = FAT_END]
    <3>1. rootFiles[s] \in rootFile /\ rootDisc[s] \in rootFile
      BY <1>2, <2>2, MountedFiles, EndIsNoDataBlock DEF rootFile
    <3>2. /\ rootDisc[s].st_size = 0 /\ rootDisc[s].st_mode = rootFiles[s].st_mode
          /\ rootDisc[s].st_uid = rootFiles[s].st_uid
      BY <2>2, <3>1 DEF rootFile
    <3> QED
      BY <2>2, <3>2 DEF ContentOf, BytesOf
  <2> QED
    BY <1>2, <2>1, <2>2 DEF StoreInv, RootInv, RootPersisted
<1> QED
  BY <1>1, <1>2, MountedFiles, FilesSame

\* Files that have not been touched are seen as they were.
LEMMA FilesKept ==
    ASSUME UNCHANGED <<mounted, fsVars>>
    PROVE  UNCHANGED StoredFiles
BY DEF fsVars, StoredFiles, entries, table, Content, ByteAt

LEMMA RepliesSeen ==
    ASSUME NEW r \in Outcomes, Replies(r)
    PROVE  /\ buf' = <<>>
           /\ r = "ok" => Reply' = "ok"
           /\ r = "EEXIST" => Reply' = "EEXIST"
           /\ r \in {"EINVAL", "EMFILE"} => Reply' = "limit"
           /\ r \in {"ENOENT", "ENFILE"} => Reply' = "ENOENT"
           /\ r \in {"SIGSEGV", "killed", "undefined"} => Reply' = "dead"
BY DEF Replies, Reply

\* A call that fails changes nothing.
LEMMA FailsSeen ==
    ASSUME NEW c, call' = c, NEW r, Returns(r)
    PROVE  /\ r = "EEXIST" => Store!Fails(c, "EEXIST")
           /\ r \in {"EINVAL", "EMFILE"} => Store!Fails(c, "limit")
           /\ r \in {"ENOENT", "ENFILE"} => Store!Fails(c, "ENOENT")
<1>1. Replies(r) /\ UNCHANGED <<StoredFiles, handles>>
  BY FilesKept DEF Returns, Completes, openVars
<1> QED
  BY <1>1, RepliesSeen, OutcomesOf DEF Store!Fails

\* A call that succeeds and returns no bytes.
LEMMA SucceedsSeen ==
    ASSUME NEW c, call' = c, Replies("ok")
    PROVE  Store!Succeeds(c)
BY RepliesSeen, OutcomesOf DEF Store!Succeeds

\* The end of the process, at whatever moment, loses no file.
LEMMA EndSeen ==
    ASSUME StoreInv, mounted, NEW r, ProcessEnds(r), UNCHANGED <<rootDisc, fatDisc, blockData>>
    PROVE  Store!FilesLeft
<1>1. StoredFiles' = FilesOf(rootDisc, fatDisc, blockData)
  BY SeenFiles DEF ProcessEnds
<1> QED
  BY <1>1, DiscFiles DEF Store!FilesLeft

LEMMA CrashSeen ==
    ASSUME StoreInv, mounted, NEW r \in {"SIGSEGV", "killed", "undefined"}, ProcessEnds(r),
           UNCHANGED <<rootDisc, fatDisc, blockData>>
    PROVE  Store!Crash
<1>1. handles' = [h \in Handles |-> NULL] /\ Replies(r)
  BY DEF ProcessEnds, NothingOpen
<1> QED
  BY <1>1, EndSeen, RepliesSeen, OutcomesOf DEF Store!Crash, Store!Dies

\* The initial states are those of FileStore.
LEMMA InitStore == Init => Store!Init
<1> SUFFICES ASSUME Init PROVE Store!Init
  OBVIOUS
<1>1. DOMAIN StoredFiles = {}
  BY DEF Init, StoredFiles, entries, Named, EmptyDirectory
<1>2. StoredFiles = Store!NoFiles
  BY <1>1 DEF StoredFiles, Store!NoFiles
<1>3. Reply = "ok"
  BY DEF Init, FuseInit, Reply
<1> QED
  BY <1>2, <1>3 DEF Store!Init, Init, FuseInit

\* A mount finds what the container holds.
LEMMA InitStep == StoreInv /\ fuseInit => Store!Mount
<1> SUFFICES ASSUME StoreInv, fuseInit PROVE Store!Mount
  OBVIOUS
<1>1. ~mounted /\ mounted' /\ UNCHANGED <<blockData, handles>>
  BY DEF fuseInit, openVars
<1>2. rootFiles' = rootDisc
  <2>1. CASE InitExisting
    BY <2>1 DEF InitExisting, initRootDir
  <2>2. CASE InitNew
    <3>1. rootFiles = EmptyDirectory /\ rootDisc = EmptyDirectory
      BY <1>1, <2>2 DEF InitNew, StoreInv, RootInv, NewVolume
    <3> QED
      BY <2>2, <3>1 DEF InitNew, rootInit
  <2> QED
    BY <2>1, <2>2 DEF fuseInit
<1>3. fatArray' = fatDisc
  <2>1. CASE InitExisting
    BY <2>1 DEF InitExisting, FatRestart
  <2>2. CASE InitNew
    BY <1>1, <2>2 DEF InitNew, StoreInv, FatInv
  <2> QED
    BY <2>1, <2>2 DEF fuseInit
<1>4. UNCHANGED StoredFiles
  BY <1>1, <1>2, <1>3, SeenFiles
<1> QED
  BY <1>1, <1>4, SucceedsSeen DEF fuseInit, Store!Mount

\* An unmount and a kill leave the files in the container.
LEMMA EndSteps ==
    /\ StoreInv /\ fuseDestroy => Store!Unmount
    /\ StoreInv /\ Kill => Store!Crash
<1>1. ASSUME StoreInv, fuseDestroy PROVE Store!Unmount
  <2>1. handles' = handles
    BY <1>1 DEF fuseDestroy, ProcessEnds, NothingOpen, StoreInv, OpenInv, TypeOK, FuseTypeOK
  <2>2. Store!Succeeds(<<"destroy">>)
    BY <1>1, SucceedsSeen DEF fuseDestroy, ProcessEnds
  <2> QED
    BY <1>1, <2>1, <2>2, EndSeen DEF fuseDestroy, Store!Unmount
<1>2. ASSUME StoreInv, Kill PROVE Store!Crash
  BY <1>2, CrashSeen DEF Kill
<1> QED
  BY <1>1, <1>2

-----------------------------------------------------------------------------
(* The directory.                                                          *)

\* One file changes.
LEMMA UpdateSeen ==
    ASSUME StoreInv, StoreInv', mounted, mounted',
           NEW s \in Slots, rootFiles[s] # NULL, rootFiles'[s] # NULL,
           rootFiles'[s].name = rootFiles[s].name,
           \A t \in Slots \ {s} : rootFiles'[t] = rootFiles[t],
           \A t \in Slots \ {s} : rootFiles[t] # NULL =>
              ContentOf(rootFiles[t], fatArray', blockData')
                 = ContentOf(rootFiles[t], fatArray, blockData)
    PROVE  StoredFiles' = [StoredFiles EXCEPT ![rootFiles[s].name] =
                              ContentOf(rootFiles'[s], fatArray', blockData')]
<1> DEFINE n == rootFiles[s].name
           C == ContentOf(rootFiles'[s], fatArray', blockData')
           F == [StoredFiles EXCEPT ![n] = C]
<1>1. StoredFiles = FilesOf(rootFiles, fatArray, blockData) /\ IsFunction(StoredFiles)
  BY MountedFiles DEF FilesOf, IsFunction
<1>2. IsFunction(F) /\ DOMAIN F = DOMAIN StoredFiles
  BY DEF IsFunction
<1>3. \A m : Named(rootFiles', m) = Named(rootFiles, m)
  BY DEF Named
<1>4. DOMAIN F = {m \in Names : Named(rootFiles', m) # {}}
  BY <1>1, <1>2, <1>3 DEF FilesOf
<1>5. n \in DOMAIN StoredFiles
  BY <1>1, MountedFiles, FileAt
<1>6. ASSUME NEW t \in Slots, rootFiles'[t] # NULL
      PROVE  F[rootFiles'[t].name] = ContentOf(rootFiles'[t], fatArray', blockData')
  <2>1. CASE t = s
    BY <1>5, <2>1
  <2>2. CASE t # s
    <3>1. rootFiles[t] # NULL /\ rootFiles'[t] = rootFiles[t]
      BY <1>6, <2>2
    <3>2. rootFiles[t].name # n
      BY <2>2, <3>1, MountedFiles DEF NamesOnce
    <3>3. FilesOf(rootFiles, fatArray, blockData)[rootFiles[t].name]
             = ContentOf(rootFiles[t], fatArray, blockData)
      BY <3>1, MountedFiles, FileAt
    <3>4. rootFiles[t].name \in DOMAIN StoredFiles
      BY <1>1, <3>1, MountedFiles, FileAt
    <3>5. F[rootFiles[t].name] = StoredFiles[rootFiles[t].name]
      BY <3>2, <3>4
    <3> QED
      BY <1>1, <2>2, <3>1, <3>3, <3>5
  <2> QED
    BY <2>1, <2>2
<1> HIDE DEF F
<1>7. rootFiles' \in RootDirectories /\ NamesOnce(rootFiles')
      /\ StoredFiles' = FilesOf(rootFiles', fatArray', blockData')
  BY MountedFilesNext
<1>8. FilesOf(rootFiles', fatArray', blockData') = F
  BY <1>2, <1>4, <1>6, <1>7, FilesAre
<1> QED
  BY <1>7, <1>8 DEF F

\* Only an entry changes.
LEMMA EntrySeen ==
    ASSUME StoreInv, StoreInv', mounted,
           NEW n, NEW s \in getRootEntryFile(rootFiles, n), NEW f \in rootFile,
           f.name = n, UpdateEntry(s, f)
    PROVE  /\ StoredFiles' = [StoredFiles EXCEPT ![n] = ContentOf(f, fatArray, blockData)]
           /\ UNCHANGED handles /\ Replies("ok")
<1>1. /\ s \in Slots /\ rootFiles[s] # NULL /\ rootFiles[s].name = n
      /\ rootFiles \in RootDirectories
  BY ResolvedFile, MountedFiles
<1>2. /\ rootFiles' = [rootFiles EXCEPT ![s] = f]
      /\ mounted' = mounted /\ fatArray' = fatArray /\ blockData' = blockData
      /\ UNCHANGED handles /\ Replies("ok")
  BY DEF UpdateEntry, StoreEntry, Completes, openVars
<1>3. /\ rootFiles'[s] = f /\ f # NULL
      /\ \A t \in Slots \ {s} : rootFiles'[t] = rootFiles[t]
  BY <1>1, <1>2, NullAssumption DEF RootDirectories
<1>4. StoredFiles' = [StoredFiles EXCEPT ![rootFiles[s].name] =
                         ContentOf(rootFiles'[s], fatArray', blockData')]
  BY <1>1, <1>2, <1>3, UpdateSeen
<1> QED
  BY <1>1, <1>2, <1>3, <1>4

\* A new file is empty.
LEMMA NewContent ==
    ASSUME NEW n, NEW fat, NEW data
    PROVE  ContentOf(NewFile(n), fat, data)
              = [bytes |-> <<>>, mode |-> DefaultMode, uid |-> MountUser]
BY DEF ContentOf, BytesOf, NewFile

\* A new file has DefaultMode; the permissions a client asks for are DefaultMode.
LEMMA MknodStep ==
    ASSUME StoreInv, StoreInv', Modes = {DefaultMode},
           NEW n \in Names \cup LongNames, NEW mode \in Modes, fuseMknod(n, mode)
    PROVE  Store!Create(n, mode) \/ Store!Crash
<1> DEFINE c == <<"mknod", n, mode>>
<1>1. call' = c /\ mounted
  BY DEF fuseMknod
<1>2. CASE getRootEntryFile(rootFiles, n) # {} /\ Returns("EEXIST")
  <2>1. Store!Exists(n)
    BY <1>1, <1>2, ResolvedFile
  <2> QED
    BY <1>1, <1>2, <2>1, FailsSeen DEF Store!Create
<1>3. CASE NameTooLong(n) /\ Returns("EINVAL")
  <2>1. ~Store!Exists(n)
    BY <1>1, <1>3, StoreExists, FuseAssumption DEF NameTooLong
  <2> QED
    BY <1>1, <1>3, <2>1, FailsSeen DEF Store!Create
<1>4. CASE getRootEntryFile(rootFiles, n) = {} /\ Returns("EINVAL")
  <2>1. ~Store!Exists(n)
    BY <1>1, <1>4, StoreExists
  <2> QED
    BY <1>1, <1>4, <2>1, FailsSeen DEF Store!Create
<1>5. CASE GoesAstray
  BY <1>1, <1>5, CrashSeen DEF GoesAstray
<1>6. ASSUME getRootEntryFile(rootFiles, n) = {}, ~NameTooLong(n),
             NEW s \in FreeSlot(rootFiles), UpdateEntry(s, NewFile(n))
      PROVE  Store!Create(n, mode)
  <2> DEFINE new == [bytes |-> <<>>, mode |-> mode, uid |-> MountUser]
             F == [m \in DOMAIN StoredFiles \cup {n} |-> IF m = n THEN new ELSE StoredFiles[m]]
  <2>1. /\ s \in Slots /\ rootFiles[s] = NULL /\ n \in Names
        /\ rootFiles \in RootDirectories /\ NewFile(n) \in rootFile
    BY <1>1, <1>6, MountedFiles, NewFileType, FuseAssumption DEF FreeSlot, NameTooLong
  <2>2. /\ rootFiles' = [rootFiles EXCEPT ![s] = NewFile(n)]
        /\ mounted' /\ fatArray' = fatArray /\ blockData' = blockData
        /\ UNCHANGED handles /\ Replies("ok")
    BY <1>1, <1>6 DEF UpdateEntry, StoreEntry, Completes, openVars
  <2>3. ~Store!Exists(n)
    BY <1>1, <1>6, StoreExists
  <2>4. /\ rootFiles'[s] = NewFile(n) /\ NewFile(n) # NULL /\ NewFile(n).name = n
        /\ \A t \in Slots \ {s} : rootFiles'[t] = rootFiles[t]
    BY <2>1, <2>2, NullAssumption DEF RootDirectories, NewFile
  <2>5. DOMAIN StoredFiles = {m \in Names : Named(rootFiles, m) # {}}
    BY <1>1, MountedFiles DEF FilesOf
  <2>6. IsFunction(F) /\ DOMAIN F = {m \in Names : Named(rootFiles', m) # {}}
    <3>1. \A m : Named(rootFiles', m) = IF m = n THEN Named(rootFiles, m) \cup {s}
                                                ELSE Named(rootFiles, m)
      BY <2>1, <2>4 DEF Named
    <3> QED
      BY <2>1, <2>5, <3>1 DEF IsFunction
  <2>7. ASSUME NEW t \in Slots, rootFiles'[t] # NULL
        PROVE  F[rootFiles'[t].name] = ContentOf(rootFiles'[t], fatArray', blockData')
    <3>1. CASE t = s
      <4>1. ContentOf(NewFile(n), fatArray', blockData') = new
        BY NewContent
      <4> QED
        BY <2>4, <3>1, <4>1
    <3>2. CASE t # s
      <4>1. rootFiles[t] # NULL /\ rootFiles'[t] = rootFiles[t]
        BY <2>4, <2>7, <3>2
      <4>2. /\ rootFiles[t].name \in DOMAIN StoredFiles
            /\ StoredFiles[rootFiles[t].name] = ContentOf(rootFiles[t], fatArray, blockData)
        BY <1>1, <4>1, MountedFiles, FileAt
      <4>3. rootFiles[t].name # n
        BY <2>3, <4>2 DEF Store!Exists
      <4> QED
        BY <2>2, <4>1, <4>2, <4>3
    <3> QED
      BY <3>1, <3>2
  <2> HIDE DEF F
  <2>8. StoredFiles' = F
    <3>1. rootFiles' \in RootDirectories /\ NamesOnce(rootFiles')
          /\ StoredFiles' = FilesOf(rootFiles', fatArray', blockData')
      BY <2>2, MountedFilesNext
    <3>2. FilesOf(rootFiles', fatArray', blockData') = F
      BY <2>6, <2>7, <3>1, FilesAre
    <3> QED
      BY <3>1, <3>2
  <2>9. Store!Succeeds(c)
    BY <1>1, <2>2, SucceedsSeen
  <2> QED
    BY <2>1, <2>2, <2>3, <2>8, <2>9 DEF Store!Create, F
<1> QED
  BY <1>2, <1>3, <1>4, <1>5, <1>6 DEF fuseMknod

\* A file that is removed is gone, is not open, and takes no byte of another.
LEMMA UnlinkStep ==
    ASSUME StoreInv, StoreInv', NEW n \in Names, fuseUnlink(n)
    PROVE  Store!Remove(n)
<1> DEFINE c == <<"unlink", n>>
<1>1. call' = c /\ mounted /\ \A h \in Handles : handles[h] # n
  BY DEF fuseUnlink, IsOpen
<1>2. CASE NotFound(n, "ENOENT")
  <2>1. ~Store!Exists(n)
    BY <1>1, <1>2, StoreExists DEF NotFound
  <2> QED
    BY <1>1, <1>2, <2>1, FailsSeen DEF Store!Remove, NotFound
<1>3. CASE ~NotFound(n, "ENOENT")
  <2>1. PICK s \in getRootEntryFile(rootFiles, n) :
          LET chain == Chain(fatArray, rootFiles[s].firstBlock)
          IN  /\ fatArray' = Unlinked(fatArray, Range(chain))
              /\ deleteFile(n)
              /\ Completes("ok")
              /\ UNCHANGED <<blockData, openCount, handles>>
    BY <1>3 DEF fuseUnlink
  <2>2. /\ s \in Slots /\ rootFiles[s] # NULL /\ Named(rootFiles, n) = {s} /\ Store!Exists(n)
    BY <1>1, ResolvedFile
  <2>3. /\ mounted' /\ blockData' = blockData /\ UNCHANGED handles
        /\ Store!Succeeds(c)
    BY <1>1, <2>1, SucceedsSeen DEF Completes
  <2>4. /\ rootFiles'[s] = NULL
        /\ \A t \in Slots \ {s} : rootFiles'[t] = rootFiles[t]
    BY <2>1, <2>2 DEF deleteFile
  <2>5. \A t \in Slots \ {s} : rootFiles[t] # NULL =>
           Chain(fatArray', rootFiles[t].firstBlock) = Chain(fatArray, rootFiles[t].firstBlock)
    <3>1. TypeOK /\ FatInv /\ BlocksNotShared
      BY OwnersSeparate DEF StoreInv, OpenInv
    <3>2. Range(Chain(fatArray, rootFiles[s].firstBlock)) \in SUBSET BlocksOf(s)
      BY DEF BlocksOf
    <3> QED
      BY <2>1, <2>2, <3>1, <3>2, ChainsFree
  <2> DEFINE F == [m \in DOMAIN StoredFiles \ {n} |-> StoredFiles[m]]
  <2>6. DOMAIN StoredFiles = {m \in Names : Named(rootFiles, m) # {}}
    BY <1>1, MountedFiles DEF FilesOf
  <2>7. IsFunction(F) /\ DOMAIN F = {m \in Names : Named(rootFiles', m) # {}}
    <3>1. \A m : Named(rootFiles', m) = Named(rootFiles, m) \ {s}
      BY <2>2, <2>4 DEF Named
    <3>2. \A m : m # n => s \notin Named(rootFiles, m)
      BY <2>2 DEF Named
    <3> QED
      BY <2>2, <2>6, <3>1, <3>2 DEF IsFunction
  <2>8. ASSUME NEW t \in Slots, rootFiles'[t] # NULL
        PROVE  F[rootFiles'[t].name] = ContentOf(rootFiles'[t], fatArray', blockData')
    <3>1. t # s /\ rootFiles[t] # NULL /\ rootFiles'[t] = rootFiles[t]
      BY <2>4, <2>8
    <3>2. /\ rootFiles[t].name \in DOMAIN StoredFiles
          /\ StoredFiles[rootFiles[t].name] = ContentOf(rootFiles[t], fatArray, blockData)
      BY <1>1, <3>1, MountedFiles, FileAt
    <3>3. rootFiles[t].name # n
      BY <2>2, <3>1 DEF Named
    <3>4. ContentOf(rootFiles[t], fatArray', blockData)
             = ContentOf(rootFiles[t], fatArray, blockData)
      <4>1. /\ rootFiles[t] \in rootFile /\ fatArray \in [Blocks -> Blocks]
            /\ fatArray' \in [Blocks -> Blocks]
            /\ numBlocks(rootFiles[t].st_size) <= Len(Chain(fatArray, rootFiles[t].firstBlock))
        BY <1>1, <2>3, <3>1, MountedFiles, MountedFilesNext
      <4>2. Chain(fatArray', rootFiles[t].firstBlock) = Chain(fatArray, rootFiles[t].firstBlock)
        BY <2>5, <3>1
      <4> QED
        BY <4>1, <4>2, ContentKept
    <3> QED
      BY <2>3, <3>1, <3>2, <3>3, <3>4
  <2> HIDE DEF F
  <2>9. StoredFiles' = F
    <3>1. rootFiles' \in RootDirectories /\ NamesOnce(rootFiles')
          /\ StoredFiles' = FilesOf(rootFiles', fatArray', blockData')
      BY <2>3, MountedFilesNext
    <3>2. FilesOf(rootFiles', fatArray', blockData') = F
      BY <2>7, <2>8, <3>1, FilesAre
    <3> QED
      BY <3>1, <3>2
  <2> QED
    BY <1>1, <2>2, <2>3, <2>9 DEF Store!Remove, F
<1> QED
  BY <1>2, <1>3

\* A renamed file keeps its bytes and its handles.
LEMMA RenameStep ==
    ASSUME "replace" \notin Workload, StoreInv, StoreInv',
           NEW p \in Names, NEW q \in Names \cup LongNames, fuseRename(p, q)
    PROVE  Store!Rename(p, q)
<1> DEFINE c == <<"rename", p, q>>
<1>1. call' = c /\ mounted /\ p # q /\ Named(rootFiles, q) = {}
  BY DEF fuseRename
<1>2. CASE NameTooLong(q) /\ Returns("EINVAL")
  BY <1>1, <1>2, FailsSeen DEF Store!Rename, NameTooLong
<1>3. CASE NotFound(p, "ENOENT")
  <2>1. ~Store!Exists(p)
    BY <1>1, <1>3, StoreExists DEF NotFound
  <2> QED
    BY <1>1, <1>3, <2>1, FailsSeen DEF Store!Rename, NotFound
<1>4. ASSUME ~NameTooLong(q), NEW s \in getRootEntryFile(rootFiles, p),
             StoreEntry(s, [rootFiles[s] EXCEPT !.name = q]), handles' = Renamed(p, q),
             Completes("ok"), UNCHANGED <<fatArray, blockData>>
      PROVE  Store!Rename(p, q)
  <2>1. /\ s \in Slots /\ rootFiles[s] # NULL /\ rootFiles[s] \in rootFile
        /\ Named(rootFiles, p) = {s} /\ Store!Exists(p) /\ rootFiles \in RootDirectories
        /\ StoredFiles[p] = ContentOf(rootFiles[s], fatArray, blockData)
    BY <1>1, ResolvedFile, MountedFiles
  <2>2. mounted' /\ Store!Succeeds(c) /\ q \in Names
    BY <1>1, <1>4, SucceedsSeen DEF Completes, NameTooLong
  <2> DEFINE f == [rootFiles[s] EXCEPT !.name = q]
  <2>3. /\ f \in rootFile /\ f # NULL /\ f.name = q
        /\ ContentOf(f, fatArray, blockData) = StoredFiles[p]
    <3>1. /\ f \in rootFile /\ f.name = q /\ f.st_size = rootFiles[s].st_size
          /\ f.firstBlock = rootFiles[s].firstBlock
          /\ f.st_mode = rootFiles[s].st_mode /\ f.st_uid = rootFiles[s].st_uid
      BY <2>1, <2>2 DEF rootFile
    <3> HIDE DEF f
    <3> QED
      BY <2>1, <3>1, NullAssumption DEF ContentOf
  <2>4. /\ rootFiles'[s] = f
        /\ \A t \in Slots \ {s} : rootFiles'[t] = rootFiles[t]
    BY <1>4, <2>1 DEF StoreEntry, RootDirectories
  <2> HIDE DEF f
  <2> DEFINE F == [m \in (DOMAIN StoredFiles \ {p}) \cup {q} |->
                      IF m = q THEN StoredFiles[p] ELSE StoredFiles[m]]
  <2>5. DOMAIN StoredFiles = {m \in Names : Named(rootFiles, m) # {}}
    BY <1>1, MountedFiles DEF FilesOf
  <2>6. IsFunction(F) /\ DOMAIN F = {m \in Names : Named(rootFiles', m) # {}}
    <3>1. \A m : Named(rootFiles', m) = IF m = q THEN {s} ELSE Named(rootFiles, m) \ {s}
      BY <1>1, <2>1, <2>3, <2>4 DEF Named
    <3>2. \A m : m # p => s \notin Named(rootFiles, m)
      BY <2>1 DEF Named
    <3> QED
      BY <1>1, <2>1, <2>2, <2>5, <3>1, <3>2 DEF IsFunction
  <2>7. ASSUME NEW t \in Slots, rootFiles'[t] # NULL
        PROVE  F[rootFiles'[t].name] = ContentOf(rootFiles'[t], fatArray', blockData')
    <3>1. CASE t = s
      BY <1>4, <2>3, <2>4, <3>1
    <3>2. CASE t # s
      <4>1. rootFiles[t] # NULL /\ rootFiles'[t] = rootFiles[t]
        BY <2>4, <2>7, <3>2
      <4>2. /\ rootFiles[t].name \in DOMAIN StoredFiles
            /\ StoredFiles[rootFiles[t].name] = ContentOf(rootFiles[t], fatArray, blockData)
        BY <1>1, <4>1, MountedFiles, FileAt
      <4>3. rootFiles[t].name # p /\ rootFiles[t].name # q
        BY <1>1, <2>1, <3>2, <4>1 DEF Named
      <4> QED
        BY <1>4, <4>1, <4>2, <4>3
    <3> QED
      BY <3>1, <3>2
  <2> HIDE DEF F
  <2>8. StoredFiles' = F
    <3>1. rootFiles' \in RootDirectories /\ NamesOnce(rootFiles')
          /\ StoredFiles' = FilesOf(rootFiles', fatArray', blockData')
      BY <2>2, MountedFilesNext
    <3>2. FilesOf(rootFiles', fatArray', blockData') = F
      BY <2>6, <2>7, <3>1, FilesAre
    <3> QED
      BY <3>1, <3>2
  <2> QED
    BY <1>1, <1>4, <2>1, <2>2, <2>8 DEF Store!Rename, Renamed, F
<1> QED
  BY <1>2, <1>3, <1>4 DEF fuseRename

\* The size that is reported is the number of bytes.
LEMMA AttributeSteps ==
    ASSUME StoreInv, StoreInv', NEW n \in Names, NEW mode \in Modes, NEW uid \in Uids
    PROVE  /\ fuseGetattr(n) => Store!Getattr(n)
           /\ fuseChmod(n, mode) => Store!Chmod(n, mode)
           /\ fuseChown(n, uid) => Store!Chown(n, uid)
<1>1. ASSUME fuseGetattr(n) PROVE Store!Getattr(n)
  <2>1. call' = <<"getattr", n>> /\ mounted
    BY <1>1 DEF fuseGetattr
  <2>2. CASE NotFound(n, "ENOENT")
    <3>1. ~Store!Exists(n)
      BY <2>1, <2>2, StoreExists DEF NotFound
    <3> QED
      BY <2>1, <2>2, <3>1, FailsSeen DEF Store!Getattr, NotFound
  <2>3. ASSUME NEW s \in getRootEntryFile(rootFiles, n),
               Reports(<<rootFiles[s].st_size, rootFiles[s].st_mode, rootFiles[s].st_uid>>)
        PROVE  Store!Getattr(n)
    <3>1. /\ rootFiles[s] \in rootFile /\ Store!Exists(n)
          /\ StoredFiles[n] = ContentOf(rootFiles[s], fatArray, blockData)
      BY <2>1, ResolvedFile
    <3>2. rootFiles[s].st_size \in Nat
      BY <3>1, FuseAssumption DEF rootFile
    <3>3. Len(StoredFiles[n].bytes) = rootFiles[s].st_size
      <4>1. /\ DOMAIN StoredFiles[n].bytes = 1..rootFiles[s].st_size
            /\ IsFunction(StoredFiles[n].bytes)
        BY <3>1 DEF ContentOf, BytesOf, IsFunction
      <4> QED
        BY <3>2, <4>1
    <3>4. /\ StoredFiles[n].mode = rootFiles[s].st_mode
          /\ StoredFiles[n].uid = rootFiles[s].st_uid
      BY <3>1 DEF ContentOf
    <3>5. Reply' = "ok" /\ UNCHANGED <<StoredFiles, handles>>
      BY <2>3, FilesKept DEF Reports, Reply, openVars
    <3> QED
      BY <2>1, <2>3, <3>1, <3>3, <3>4, <3>5 DEF Store!Getattr, Reports
  <2> QED
    BY <1>1, <2>2, <2>3 DEF fuseGetattr
<1>2. ASSUME fuseChmod(n, mode) PROVE Store!Chmod(n, mode)
  <2>1. call' = <<"chmod", n, mode>> /\ mounted
    BY <1>2 DEF fuseChmod
  <2>2. CASE NotFound(n, "ENOENT")
    <3>1. ~Store!Exists(n)
      BY <2>1, <2>2, StoreExists DEF NotFound
    <3> QED
      BY <2>1, <2>2, <3>1, FailsSeen DEF Store!Chmod, NotFound
  <2>3. ASSUME NEW s \in getRootEntryFile(rootFiles, n),
               UpdateEntry(s, [rootFiles[s] EXCEPT !.st_mode = mode])
        PROVE  Store!Chmod(n, mode)
    <3> DEFINE f == [rootFiles[s] EXCEPT !.st_mode = mode]
    <3>1. /\ rootFiles[s] \in rootFile /\ Store!Exists(n) /\ rootFiles[s].name = n
          /\ StoredFiles[n] = ContentOf(rootFiles[s], fatArray, blockData)
      BY <2>1, ResolvedFile
    <3>2. /\ f \in rootFile /\ f.name = n /\ f.firstBlock = rootFiles[s].firstBlock
          /\ f.st_size = rootFiles[s].st_size
          /\ f.st_mode = mode /\ f.st_uid = rootFiles[s].st_uid
      BY <3>1 DEF rootFile
    <3>3. ContentOf(f, fatArray, blockData) = [StoredFiles[n] EXCEPT !.mode = mode]
      <4> HIDE DEF f
      <4> QED
        BY <3>1, <3>2 DEF ContentOf
    <3>4. /\ StoredFiles' = [StoredFiles EXCEPT ![n] = ContentOf(f, fatArray, blockData)]
          /\ UNCHANGED handles /\ Replies("ok")
      BY <2>1, <2>3, <3>2, EntrySeen
    <3> QED
      BY <2>1, <3>1, <3>3, <3>4, SucceedsSeen DEF Store!Chmod
  <2> QED
    BY <1>2, <2>2, <2>3 DEF fuseChmod
<1>3. ASSUME fuseChown(n, uid) PROVE Store!Chown(n, uid)
  <2>1. call' = <<"chown", n, uid>> /\ mounted
    BY <1>3 DEF fuseChown
  <2>2. CASE NotFound(n, "ENOENT")
    <3>1. ~Store!Exists(n)
      BY <2>1, <2>2, StoreExists DEF NotFound
    <3> QED
      BY <2>1, <2>2, <3>1, FailsSeen DEF Store!Chown, NotFound
  <2>3. ASSUME NEW s \in getRootEntryFile(rootFiles, n),
               UpdateEntry(s, [rootFiles[s] EXCEPT !.st_uid = uid])
        PROVE  Store!Chown(n, uid)
    <3> DEFINE f == [rootFiles[s] EXCEPT !.st_uid = uid]
    <3>1. /\ rootFiles[s] \in rootFile /\ Store!Exists(n) /\ rootFiles[s].name = n
          /\ StoredFiles[n] = ContentOf(rootFiles[s], fatArray, blockData)
      BY <2>1, ResolvedFile
    <3>2. /\ f \in rootFile /\ f.name = n /\ f.firstBlock = rootFiles[s].firstBlock
          /\ f.st_size = rootFiles[s].st_size
          /\ f.st_uid = uid /\ f.st_mode = rootFiles[s].st_mode
      BY <3>1 DEF rootFile
    <3>3. ContentOf(f, fatArray, blockData) = [StoredFiles[n] EXCEPT !.uid = uid]
      <4> HIDE DEF f
      <4> QED
        BY <3>1, <3>2 DEF ContentOf
    <3>4. /\ StoredFiles' = [StoredFiles EXCEPT ![n] = ContentOf(f, fatArray, blockData)]
          /\ UNCHANGED handles /\ Replies("ok")
      BY <2>1, <2>3, <3>2, EntrySeen
    <3> QED
      BY <2>1, <3>1, <3>3, <3>4, SucceedsSeen DEF Store!Chown
  <2> QED
    BY <1>3, <2>2, <2>3 DEF fuseChown
<1> QED
  BY <1>1, <1>2, <1>3

\* The places of slots in the order of their numbers.
LEMMA Places ==
    ASSUME NEW used \in SUBSET Slots
    PROVE  /\ Cardinality(used) \in Nat
           /\ \A s, t \in used :
                 Cardinality({u \in used : u <= s}) = Cardinality({u \in used : u <= t}) => s = t
           /\ \A s \in used : Cardinality({u \in used : u <= s}) \in 1..Cardinality(used)
           /\ \A i \in 1..Cardinality(used) : \E s \in used : Cardinality({u \in used : u <= s}) = i
<1> DEFINE k == Cardinality(used)
           below(s) == {u \in used : u <= s}
           P == [s \in used |-> Cardinality(below(s))]
<1>1. IsFiniteSet(used) /\ k \in Nat /\ \A s \in used : s \in Int
  <2>1. NUM_DIR_ENTRIES - 1 \in Int
    BY LayoutAssumption
  <2>2. IsFiniteSet(Slots)
    BY <2>1, FS_Interval DEF Slots
  <2>3. IsFiniteSet(used)
    BY <2>2, FS_Subset
  <2> QED
    BY <2>3, FS_CardinalityType DEF Slots
<1>2. ASSUME NEW s \in used
      PROVE  IsFiniteSet(below(s)) /\ Cardinality(below(s)) \in 1..k
  <2>1. below(s) \subseteq used /\ s \in below(s)
    BY <1>1
  <2>2. IsFiniteSet(below(s)) /\ Cardinality(below(s)) \in Nat /\ Cardinality(below(s)) <= k
    BY <1>1, <2>1, FS_Subset, FS_CardinalityType
  <2>3. Cardinality(below(s)) # 0
    BY <2>1, <2>2, FS_EmptySet
  <2> QED
    BY <1>1, <2>2, <2>3
<1>3. ASSUME NEW s \in used, NEW t \in used, s < t
      PROVE  Cardinality(below(s)) # Cardinality(below(t))
  <2>1. below(s) \subseteq below(t) /\ t \in below(t) /\ t \notin below(s)
    BY <1>1, <1>3
  <2> QED
    BY <1>2, <2>1, FS_Subset
<1>4. \A s, t \in used : Cardinality(below(s)) = Cardinality(below(t)) => s = t
  BY <1>1, <1>3
<1>5. P \in Injection(used, 1..k)
  BY <1>2, <1>4 DEF Injection, IsInjective
<1>6. IsFiniteSet(1..k) /\ Cardinality(1..k) = k
  <2> HIDE DEF k
  <2> QED
    BY <1>1, FS_Interval
<1>7. P \in Surjection(used, 1..k)
  BY <1>1, <1>5, <1>6, FS_Injection
<1>8. \A i \in 1..k : \E s \in used : Cardinality(below(s)) = i
  <2>1. \A i \in 1..k : \E s \in used : P[s] = i
    BY <1>7 DEF Surjection
  <2> HIDE DEF below
  <2> QED
    BY <2>1
<1> QED
  BY <1>1, <1>2, <1>4, <1>8

\* Slot by slot, every name is listed, and none twice.
LEMMA ReaddirStep == StoreInv /\ fuseReaddir => Store!Readdir
<1> SUFFICES ASSUME StoreInv, fuseReaddir PROVE Store!Readdir
  OBVIOUS
<1> DEFINE used == {s \in Slots : rootFiles[s] # NULL}
           k == Cardinality(used)
           place(s) == Cardinality({t \in used : t <= s})
           slot(i) == CHOOSE s \in used : place(s) = i
           names == [i \in 1..k |-> rootFiles[slot(i)].name]
<1>1. call' = <<"readdir">> /\ mounted /\ Reports(names)
  BY DEF fuseReaddir, ListedNames
<1>2. /\ k \in Nat
      /\ \A s, t \in used : place(s) = place(t) => s = t
      /\ \A s \in used : place(s) \in 1..k
      /\ \A i \in 1..k : \E s \in used : place(s) = i
  BY Places
<1> HIDE DEF k, place
<1>3. \A i \in 1..k : slot(i) \in used /\ place(slot(i)) = i
  BY <1>2
<1>4. \A s \in used : slot(place(s)) = s
  BY <1>2, <1>3
<1> HIDE DEF slot
<1>5. DOMAIN StoredFiles = {m \in Names : Named(rootFiles, m) # {}}
  BY <1>1, MountedFiles DEF FilesOf
<1>6. \A s \in used : rootFiles[s].name \in Names
  BY <1>1, MountedFiles DEF rootFile
<1>7. Len(names) = k
  BY <1>2
<1>8. {names[i] : i \in 1..k} = DOMAIN StoredFiles
  <2>1. ASSUME NEW i \in 1..k PROVE names[i] \in DOMAIN StoredFiles
    BY <1>3, <1>5, <1>6 DEF Named
  <2>2. ASSUME NEW n \in DOMAIN StoredFiles PROVE \E i \in 1..k : names[i] = n
    <3>1. PICK s \in used : rootFiles[s].name = n
      BY <1>5 DEF Named
    <3>2. place(s) \in 1..k /\ slot(place(s)) = s
      BY <1>2, <1>4
    <3> QED
      BY <3>1, <3>2
  <2> HIDE DEF names
  <2> QED
    BY <2>1, <2>2
<1>9. \A i, j \in 1..k : names[i] = names[j] => i = j
  <2> SUFFICES ASSUME NEW i \in 1..k, NEW j \in 1..k, names[i] = names[j] PROVE i = j
    OBVIOUS
  <2>1. slot(i) = slot(j)
    BY <1>1, <1>3, MountedFiles DEF NamesOnce
  <2> QED
    BY <1>3, <2>1
<1>10. buf' = names /\ Reply' = "ok" /\ UNCHANGED <<StoredFiles, handles>>
  BY <1>1, FilesKept DEF Reports, Reply, openVars
<1> HIDE DEF names
<1> QED
  BY <1>1, <1>7, <1>8, <1>9, <1>10 DEF Store!Readdir

-----------------------------------------------------------------------------
(* Open files.                                                             *)

\* The limit is reached only if all handles are taken, as openCount counts them.
LEMMA OpenStep ==
    ASSUME StoreInv, NEW n \in Names, fuseOpen(n)
    PROVE  Store!Open(n)
<1> DEFINE c == <<"open", n>>
<1>1. call' = c /\ mounted
  BY DEF fuseOpen
<1>2. CASE NotFound(n, "ENOENT")
  <2>1. ~Store!Exists(n)
    BY <1>1, <1>2, StoreExists DEF NotFound
  <2> QED
    BY <1>1, <1>2, <2>1, FailsSeen DEF Store!Open, NotFound
<1>3. CASE openCount = NUM_OPEN_FILES /\ Returns("EMFILE")
  <2>1. Cardinality(OpenHandles) = NUM_OPEN_FILES
    BY <1>3 DEF StoreInv, OpenInv, DescriptorsAccounted, OpenHandles
  <2>2. IsFiniteSet(Handles) /\ Cardinality(Handles) = NUM_OPEN_FILES
    BY FS_Interval, LayoutAssumption DEF Handles
  <2>3. OpenHandles \subseteq Handles
    BY DEF OpenHandles
  <2>4. OpenHandles = Handles
    BY <2>1, <2>2, <2>3, FS_Subset
  <2>5. \A h \in Handles : handles[h] # NULL
    BY <2>4 DEF OpenHandles
  <2> QED
    BY <1>1, <1>3, <2>5, FailsSeen DEF Store!Open
<1>4. ASSUME NEW s \in getRootEntryFile(rootFiles, n), NEW h \in getIndexOpen,
             handles' = [handles EXCEPT ![h] = n], Completes("ok"), UNCHANGED fsVars
      PROVE  Store!Open(n)
  <2>1. UNCHANGED StoredFiles /\ Store!Succeeds(c)
    BY <1>1, <1>4, FilesKept, SucceedsSeen DEF Completes
  <2>2. Store!Exists(n)
    BY <1>1, ResolvedFile
  <2>3. h \in Handles /\ handles[h] = NULL
    BY DEF getIndexOpen, StoreInv, OpenInv, DescriptorsAccounted
  <2> QED
    BY <1>1, <1>4, <2>1, <2>2, <2>3 DEF Store!Open
<1> QED
  BY <1>2, <1>3, <1>4 DEF fuseOpen

\* An open file is the one its path and its handle lead to.
LEMMA OpenFile ==
    ASSUME StoreInv, mounted, NEW h \in Handles, handles[h] # NULL
    PROVE  /\ openFiles[h] \in Slots /\ openFiles[h] # NULL /\ openFiles[h] # DANGLING
           /\ rootFiles[openFiles[h]] # NULL
           /\ getRootEntryFile(rootFiles, handles[h]) = {openFiles[h]}
           /\ Store!Exists(handles[h])
<1>1. getRootEntryFile(rootFiles, handles[h]) = {openFiles[h]}
  BY NamesResolve DEF StoreInv, HandlesResolve
<1>2. openFiles[h] \in Slots
  BY DEF StoreInv, NameInv, HandlesNamed
<1>3. openFiles[h] # NULL /\ openFiles[h] # DANGLING
  BY <1>2, OnDiskAssumption
<1> QED
  BY <1>1, <1>2, <1>3, ResolvedFile

\* A release is only refused for files that do not exist.
LEMMA ReleaseStep ==
    ASSUME StoreInv, NEW h \in Handles, fuseRelease(h)
    PROVE  Store!Release(h)
<1>1. /\ mounted /\ handles[h] # NULL /\ call' = <<"release", h>>
      /\ handles' = [handles EXCEPT ![h] = NULL] /\ UNCHANGED fsVars
  BY DEF fuseRelease
<1>2. Completes("ok")
  BY <1>1, OpenFile DEF fuseRelease
<1> QED
  BY <1>1, <1>2, FilesKept, SucceedsSeen DEF Completes, Store!Release

\* The bytes that are read are those of the file, from the offset on.
LEMMA ReadStep ==
    ASSUME "replace" \notin Workload, StoreInv, NEW h \in Handles,
           NEW off \in 0..MaxSize, NEW size \in ReadSizes, fuseRead(h, off, size)
    PROVE  Store!Read(h, off, size)
<1>1. mounted /\ handles[h] # NULL /\ call' = <<"read", h, off, size>>
  BY DEF fuseRead
<1> DEFINE s == openFiles[h]
           f == rootFiles[s]
           n == IF off + size > f.st_size THEN f.st_size - off ELSE size
           end == IF off + size > f.st_size THEN f.st_size ELSE off + size
           bytes == StoredFiles[handles[h]].bytes
<1>2. getRootEntryFile(rootFiles, handles[h]) = {s} /\ openFiles[h] # NULL
  BY <1>1, OpenFile
<1>3. f \in rootFile /\ StoredFiles[handles[h]] = ContentOf(f, fatArray, blockData)
  BY <1>1, <1>2, ResolvedFile
<1>4. /\ off <= f.st_size
      /\ n < 0 \/ Reports([i \in 1..n |-> ByteAt(fatArray, f.firstBlock, off + i - 1)])
  BY <1>2 DEF fuseRead, NotFound
<1>5. off \in Nat /\ size \in Nat \ {0} /\ f.st_size \in Nat
  BY <1>3, FuseAssumption DEF rootFile
<1>6. n \in Nat /\ end = off + n /\ end <= f.st_size /\ end \in Nat
  BY <1>4, <1>5
<1>7. bytes = BytesOf(f.firstBlock, f.st_size, fatArray, blockData)
  BY <1>3 DEF ContentOf
<1>8. Len(bytes) = f.st_size
  BY <1>5, <1>7 DEF BytesOf
<1>9. buf' = [i \in 1..n |-> ByteAt(fatArray, f.firstBlock, off + i - 1)]
      /\ Reply' = "ok" /\ UNCHANGED <<StoredFiles, handles>>
  BY <1>4, <1>6, FilesKept DEF Reports, Reply, openVars
<1> HIDE DEF f, n, end, bytes
<1>10. SubSeq(bytes, off + 1, end) = [i \in 1..n |-> bytes[off + i]]
  BY <1>5, <1>6
<1>11. ASSUME NEW i \in 1..n
       PROVE  bytes[off + i] = ByteAt(fatArray, f.firstBlock, off + i - 1)
  <2>1. off + i \in 1..f.st_size
    BY <1>5, <1>6
  <2> QED
    BY <1>7, <2>1 DEF BytesOf, ByteAt
<1>12. buf' = SubSeq(bytes, off + 1, end)
  BY <1>9, <1>10, <1>11
<1> QED
  BY <1>1, <1>8, <1>9, <1>12 DEF Store!Read, bytes, end

-----------------------------------------------------------------------------
(* Writing and truncating.                                                 *)

\* A write reaches the blocks of its file only, and there the bytes that it
\* means only, as no block is twice in a chain.
LEMMA WrittenBytes ==
    ASSUME NEW s \in Slots, rootFiles'[s] \in rootFile, fatArray' \in [Blocks -> Blocks],
           numBlocks(rootFiles'[s].st_size) <= Len(Chain(fatArray', rootFiles'[s].firstBlock)),
           Distinct(Chain(fatArray', rootFiles'[s].firstBlock)),
           NEW off \in Nat, NEW size \in Nat, off + size <= rootFiles'[s].st_size, NEW v,
           blockData \in [Blocks -> [0..(BLOCK_SIZE - 1) -> Bytes]],
           blockData' = Written(fatArray', rootFiles'[s].firstBlock, off, size, v)
    PROVE  /\ \A b \in Blocks \ Range(Chain(fatArray', rootFiles'[s].firstBlock)) :
                 blockData'[b] = blockData[b]
           /\ \A i \in off + 1..off + size :
                 BytesOf(rootFiles'[s].firstBlock, rootFiles'[s].st_size, fatArray', blockData')[i] = v
           /\ \A i \in 1..rootFiles'[s].st_size : i \notin off + 1..off + size =>
                 BytesOf(rootFiles'[s].firstBlock, rootFiles'[s].st_size, fatArray', blockData')[i]
                    = BytesOf(rootFiles'[s].firstBlock, rootFiles'[s].st_size, fatArray', blockData)[i]
<1> DEFINE g == rootFiles'[s]
           chain == Chain(fatArray', g.firstBlock)
           nth(n) == getNth(fatArray', g.firstBlock, n)
           Hit(b, j) == \E x \in off..(off + size - 1) :
                           x % BLOCK_SIZE = j /\ nth(x \div BLOCK_SIZE) = b
<1>1. g.st_size \in Nat /\ g.firstBlock \in Blocks
  BY FuseAssumption DEF rootFile
<1>2. chain \in Seq(DataBlocks) /\ DOMAIN chain = 1..Len(chain)
  <2>1. chain \in Seq(DataBlocks)
    BY <1>1, ChainBlocks
  <2> HIDE DEF chain
  <2> QED
    BY <2>1
<1>3. ASSUME NEW i \in 1..g.st_size
      PROVE  /\ i - 1 \in Nat
             /\ (i - 1) \div BLOCK_SIZE \in Nat
             /\ (i - 1) % BLOCK_SIZE \in 0..(BLOCK_SIZE - 1)
             /\ (i - 1) \div BLOCK_SIZE + 1 \in 1..Len(chain)
             /\ nth((i - 1) \div BLOCK_SIZE) = chain[(i - 1) \div BLOCK_SIZE + 1]
             /\ nth((i - 1) \div BLOCK_SIZE) \in Blocks
  <2> DEFINE q == (i - 1) \div BLOCK_SIZE
  <2>1. q \in Nat /\ (i - 1) % BLOCK_SIZE \in 0..(BLOCK_SIZE - 1)
    BY <1>1, BlockOfByte
  <2>2. q + 1 \in 1..Len(chain) /\ nth(q) = chain[q + 1]
    BY BlockInChain
  <2> HIDE DEF q, chain, nth
  <2>3. chain[q + 1] \in Blocks
    BY <1>2, <2>2, EndIsNoDataBlock
  <2> QED
    BY <1>1, <2>1, <2>2, <2>3 DEF q
<1>4. ASSUME NEW x \in off..(off + size - 1)
      PROVE  x + 1 \in 1..g.st_size /\ (x + 1) - 1 = x
  BY <1>1
<1>5. ASSUME NEW b \in Blocks, NEW j \in 0..(BLOCK_SIZE - 1)
      PROVE  blockData'[b][j] = IF Hit(b, j) THEN v ELSE blockData[b][j]
  BY DEF Written
<1>6. ASSUME NEW b \in Blocks \ Range(chain) PROVE blockData'[b] = blockData[b]
  <2>1. ASSUME NEW j, Hit(b, j) PROVE FALSE
    <3>1. PICK x \in off..(off + size - 1) : nth(x \div BLOCK_SIZE) = b
      BY <2>1
    <3>2. /\ x \div BLOCK_SIZE + 1 \in 1..Len(chain)
          /\ nth(x \div BLOCK_SIZE) = chain[x \div BLOCK_SIZE + 1]
      <4>1. x + 1 \in 1..g.st_size /\ (x + 1) - 1 = x
        BY <1>4
      <4> HIDE DEF chain, nth
      <4> QED
        BY <1>3, <4>1
    <3> HIDE DEF chain, nth
    <3> QED
      BY <1>2, <1>6, <3>1, <3>2 DEF Range
  <2>2. blockData'[b] = [j \in 0..(BLOCK_SIZE - 1) |-> IF Hit(b, j) THEN v ELSE blockData[b][j]]
    BY DEF Written
  <2> HIDE DEF Hit
  <2> QED
    BY <2>1, <2>2
<1>7. ASSUME NEW i \in 1..g.st_size
      PROVE  LET b == nth((i - 1) \div BLOCK_SIZE)
                 j == (i - 1) % BLOCK_SIZE
             IN  Hit(b, j) <=> i \in off + 1..off + size
  <2> DEFINE q == (i - 1) \div BLOCK_SIZE
             b == nth(q)
             j == (i - 1) % BLOCK_SIZE
  <2>1. ASSUME i \in off + 1..off + size PROVE Hit(b, j)
    <3>1. i - 1 \in off..(off + size - 1)
      BY <1>1, <2>1
    <3> QED
      BY <3>1
  <2>2. ASSUME Hit(b, j) PROVE i \in off + 1..off + size
    <3>1. PICK x \in off..(off + size - 1) : x % BLOCK_SIZE = j /\ nth(x \div BLOCK_SIZE) = b
      BY <2>2
    <3> DEFINE y == x \div BLOCK_SIZE
    <3>2. x + 1 \in 1..g.st_size /\ (x + 1) - 1 = x /\ x \in Nat
      BY <1>4
    <3> HIDE DEF chain, nth
    <3>3. y \in Nat /\ y + 1 \in 1..Len(chain) /\ nth(y) = chain[y + 1]
      BY <1>3, <3>2
    <3>4. q \in Nat /\ q + 1 \in 1..Len(chain) /\ nth(q) = chain[q + 1] /\ i - 1 \in Nat
      BY <1>3
    <3>5. chain[y + 1] = chain[q + 1]
      BY <3>1, <3>3, <3>4
    <3>6. y + 1 = q + 1
      BY <3>3, <3>4, <3>5 DEF Distinct, chain
    <3> HIDE DEF y, q
    <3>7. y = q
      BY <3>3, <3>4, <3>6
    <3>8. x = i - 1
      BY <3>1, <3>2, <3>4, <3>7, ByteOfBlock DEF y, q
    <3> QED
      BY <3>1, <3>8
  <2> QED
    BY <2>1, <2>2
<1>8. ASSUME NEW i \in 1..g.st_size
      PROVE  BytesOf(g.firstBlock, g.st_size, fatArray', blockData')[i]
                = IF i \in off + 1..off + size THEN v
                  ELSE BytesOf(g.firstBlock, g.st_size, fatArray', blockData)[i]
  <2> DEFINE b == nth((i - 1) \div BLOCK_SIZE)
             j == (i - 1) % BLOCK_SIZE
  <2>1. /\ BytesOf(g.firstBlock, g.st_size, fatArray', blockData')[i] = blockData'[b][j]
        /\ BytesOf(g.firstBlock, g.st_size, fatArray', blockData)[i] = blockData[b][j]
    BY DEF BytesOf
  <2>2. b \in Blocks /\ j \in 0..(BLOCK_SIZE - 1)
    BY <1>3
  <2>3. Hit(b, j) <=> i \in off + 1..off + size
    BY <1>7
  <2>4. blockData'[b][j] = IF Hit(b, j) THEN v ELSE blockData[b][j]
    BY <1>5, <2>2
  <2> HIDE DEF b, j, Hit
  <2> QED
    BY <2>1, <2>3, <2>4
<1>9. \A i \in off + 1..off + size : i \in 1..g.st_size
  BY <1>1
<1> QED
  BY <1>6, <1>8, <1>9

\* What new contents of one entry are to FileStore.
LEMMA ContentsSeen ==
    ASSUME StoreInv, StoreInv', mounted, mounted',
           NEW s \in Slots, rootFiles[s] # NULL, rootFiles'[s] # NULL,
           rootFiles'[s].name = rootFiles[s].name,
           rootFiles'[s].st_mode = rootFiles[s].st_mode,
           rootFiles'[s].st_uid = rootFiles[s].st_uid,
           \A t \in Slots \ {s} : rootFiles'[t] = rootFiles[t],
           \A t \in Slots \ {s} : rootFiles[t] # NULL =>
              ContentOf(rootFiles[t], fatArray', blockData')
                 = ContentOf(rootFiles[t], fatArray, blockData),
           NEW changed,
           \A i \in 1..rootFiles'[s].st_size : i <= rootFiles[s].st_size /\ i \notin changed =>
              BytesOf(rootFiles'[s].firstBlock, rootFiles'[s].st_size, fatArray', blockData')[i]
                 = BytesOf(rootFiles[s].firstBlock, rootFiles[s].st_size, fatArray, blockData)[i]
    PROVE  /\ Store!Update(rootFiles[s].name, rootFiles'[s].st_size, changed)
           /\ StoredFiles'[rootFiles[s].name].bytes
                 = BytesOf(rootFiles'[s].firstBlock, rootFiles'[s].st_size, fatArray', blockData')
<1> DEFINE n == rootFiles[s].name
           f == rootFiles[s]
           g == rootFiles'[s]
           old == BytesOf(f.firstBlock, f.st_size, fatArray, blockData)
           new == BytesOf(g.firstBlock, g.st_size, fatArray', blockData')
<1>1. f.st_size \in Nat /\ g.st_size \in Nat
  <2>1. f \in rootFile /\ g \in rootFile
    BY MountedFiles, MountedFilesNext
  <2> QED
    BY <2>1, FuseAssumption DEF rootFile
<1>2. StoredFiles' = [StoredFiles EXCEPT ![n] = ContentOf(g, fatArray', blockData')]
  BY UpdateSeen
<1>3. n \in DOMAIN StoredFiles /\ StoredFiles[n] = ContentOf(f, fatArray, blockData)
  BY MountedFiles, FileAt
<1>4. Len(old) = f.st_size /\ Len(new) = g.st_size
  BY <1>1 DEF BytesOf
<1> HIDE DEF old, new, f, g, n
<1>5. /\ DOMAIN StoredFiles' = DOMAIN StoredFiles
      /\ \A m \in DOMAIN StoredFiles \ {n} : StoredFiles'[m] = StoredFiles[m]
      /\ StoredFiles'[n] = ContentOf(g, fatArray', blockData')
  BY <1>2, <1>3
<1>6. /\ StoredFiles'[n].bytes = new /\ StoredFiles[n].bytes = old
      /\ StoredFiles'[n].mode = StoredFiles[n].mode
      /\ StoredFiles'[n].uid = StoredFiles[n].uid
  BY <1>3, <1>5 DEF ContentOf, old, new, f, g
<1>7. \A i \in 1..g.st_size : i <= f.st_size /\ i \notin changed => new[i] = old[i]
  BY DEF new, old, f, g
<1>8. Store!Update(n, g.st_size, changed)
  BY <1>4, <1>5, <1>6, <1>7 DEF Store!Update
<1> QED
  BY <1>6, <1>8 DEF n, g, new

\* Blocks are appended to the chain of a file: no block is in it twice, and it
\* leads to the bytes that were there before.
LEMMA AppendedBytes ==
    ASSUME StoreInv, StoreInv', mounted, mounted',
           NEW s \in Slots, rootFiles[s] # NULL, rootFiles'[s] # NULL,
           NEW k \in Int, NEW new \in getCertainNumberOfFreeBlocks(dmapArray, k),
           setFATBlocks(rootFiles[s], new),
           rootFiles'[s].firstBlock = FirstBlock(rootFiles[s], new)
    PROVE  /\ Distinct(Chain(fatArray', rootFiles'[s].firstBlock))
           /\ \A i \in 1..rootFiles'[s].st_size : i <= rootFiles[s].st_size =>
                BytesOf(rootFiles'[s].firstBlock, rootFiles'[s].st_size, fatArray', blockData)[i]
                   = BytesOf(rootFiles[s].firstBlock, rootFiles[s].st_size, fatArray, blockData)[i]
<1> DEFINE f == rootFiles[s]
           g == rootFiles'[s]
           chain == Chain(fatArray, f.firstBlock)
           all == Chain(fatArray', g.firstBlock)
<1>1. /\ f \in rootFile /\ g \in rootFile
      /\ fatArray \in [Blocks -> Blocks] /\ fatArray' \in [Blocks -> Blocks]
      /\ numBlocks(f.st_size) <= Len(chain) /\ numBlocks(g.st_size) <= Len(all)
  BY MountedFiles, MountedFilesNext
<1>2. f.st_size \in Nat /\ f.firstBlock \in Blocks /\ g.firstBlock \in Blocks
  BY <1>1, FuseAssumption DEF rootFile
<1>3. Distinct(all)
  <2>1. \A S \in SUBSET DataBlocks : S # {} => \E b \in S : fatArray'[b] \notin S
    BY DEF StoreInv, FatInv, ChainsEnd, Terminates
  <2> QED
    BY <1>1, <1>2, <2>1, ChainEnds
<1>4. all = chain \o new
  <2>1. TypeOK /\ FatInv /\ BlocksNotShared /\ BlocksOfFilesUsed
    BY OwnersSeparate DEF StoreInv, OpenInv
  <2> QED
    BY <2>1, ChainsAppend
<1>5. chain \in Seq(DataBlocks) /\ new \in Seq(DataBlocks)
  BY <1>1, <1>2, ChainBlocks, AllocatedBlocks
<1>6. \A n \in 1..Len(chain) : all[n] = chain[n]
  <2> HIDE DEF chain, all
  <2> QED
    BY <1>4, <1>5
<1>7. ASSUME NEW i \in 1..g.st_size, i <= f.st_size
      PROVE  BytesOf(g.firstBlock, g.st_size, fatArray', blockData)[i]
                = BytesOf(f.firstBlock, f.st_size, fatArray, blockData)[i]
  <2>1. i \in 1..f.st_size /\ i \in 1..g.st_size
    BY <1>2, <1>7
  <2> DEFINE q == (i - 1) \div BLOCK_SIZE
  <2>2. q + 1 \in 1..Len(chain) /\ getNth(fatArray, f.firstBlock, q) = chain[q + 1]
    BY <1>1, <2>1, BlockInChain
  <2>3. getNth(fatArray', g.firstBlock, q) = all[q + 1]
    BY <1>1, <2>1, BlockInChain
  <2>4. getNth(fatArray', g.firstBlock, q) = getNth(fatArray, f.firstBlock, q)
    BY <1>6, <2>2, <2>3
  <2> QED
    BY <2>1, <2>4 DEF BytesOf
<1> QED
  BY <1>3, <1>7

\* The other files keep their contents, as nobody writes outside the blocks of
\* the file, old and new.
LEMMA AppendedOthers ==
    ASSUME StoreInv, StoreInv', mounted, mounted',
           NEW s \in Slots, rootFiles[s] # NULL, rootFiles'[s] # NULL,
           NEW k \in Int, NEW new \in getCertainNumberOfFreeBlocks(dmapArray, k),
           setFATBlocks(rootFiles[s], new),
           rootFiles'[s].firstBlock = FirstBlock(rootFiles[s], new),
           \A b \in Blocks \ Range(Chain(fatArray', rootFiles'[s].firstBlock)) :
              blockData'[b] = blockData[b]
    PROVE  \A t \in Slots \ {s} : rootFiles[t] # NULL =>
              ContentOf(rootFiles[t], fatArray', blockData')
                 = ContentOf(rootFiles[t], fatArray, blockData)
<1> SUFFICES ASSUME NEW t \in Slots \ {s}, rootFiles[t] # NULL
             PROVE  ContentOf(rootFiles[t], fatArray', blockData')
                       = ContentOf(rootFiles[t], fatArray, blockData)
  OBVIOUS
<1>1. TypeOK /\ FatInv /\ BlocksNotShared /\ BlocksOfFilesUsed
  BY OwnersSeparate DEF StoreInv, OpenInv
<1>2. /\ Chain(fatArray', rootFiles'[s].firstBlock) = Chain(fatArray, rootFiles[s].firstBlock) \o new
      /\ Chain(fatArray', rootFiles[t].firstBlock) = Chain(fatArray, rootFiles[t].firstBlock)
  BY <1>1, ChainsAppend
<1> DEFINE chain == Chain(fatArray, rootFiles[s].firstBlock)
           other == Chain(fatArray, rootFiles[t].firstBlock)
<1>3. /\ chain \in Seq(DataBlocks) /\ BlocksOf(s) = Range(chain)
      /\ other \in Seq(DataBlocks) /\ BlocksOf(t) = Range(other)
  BY <1>1, FileChain
<1>4. new \in Seq(DataBlocks) /\ \A b \in Range(new) : ~dmapArray[b]
  <2>1. new \in [1..k -> FreeBlocks(dmapArray)]
    BY DEF getCertainNumberOfFreeBlocks
  <2> QED
    BY <2>1, AllocatedBlocks DEF FreeBlocks, Range
<1> HIDE DEF chain, other
<1>5. ASSUME NEW b \in Range(other)
      PROVE  blockData'[b] = blockData[b]
  <2>1. b \in Blocks
    BY <1>3, EndIsNoDataBlock DEF Range
  <2>2. b \notin Range(chain)
    BY <1>1, <1>3 DEF BlocksNotShared, Files
  <2>3. b \notin Range(new)
    BY <1>1, <1>3, <1>4 DEF BlocksOfFilesUsed, Files
  <2>4. b \notin Range(chain \o new)
    <3> SUFFICES ASSUME NEW i \in 1..Len(chain \o new), b = (chain \o new)[i] PROVE FALSE
      BY <1>3, <1>4 DEF Range
    <3>1. CASE i <= Len(chain)
      BY <1>3, <1>4, <2>2, <3>1 DEF Range
    <3>2. CASE i > Len(chain)
      BY <1>3, <1>4, <2>3, <3>2 DEF Range
    <3> QED
      BY <1>3, <3>1, <3>2
  <2> QED
    BY <1>2, <2>1, <2>4 DEF chain
<1>6. /\ rootFiles[t] \in rootFile
      /\ fatArray \in [Blocks -> Blocks] /\ fatArray' \in [Blocks -> Blocks]
      /\ numBlocks(rootFiles[t].st_size) <= Len(other)
  BY MountedFiles, MountedFilesNext DEF other
<1> QED
  BY <1>2, <1>5, <1>6, ContentSame DEF other

\* A write sets the bytes it means to, and no others, of its file or of any.
LEMMA WriteFileStep ==
    ASSUME StoreInv, StoreInv', mounted, NEW h \in Handles, handles[h] # NULL,
           NEW off \in Nat, NEW size \in Nat, NEW v \in Bytes, off + size <= MaxSize,
           NEW s \in getRootEntryFile(rootFiles, handles[h]),
           call' = <<"write", h, off, size, v>>, WriteFile(s, off, size, v)
    PROVE  Store!Write(h, off, size, v) \/ Store!Crash
<1> DEFINE f == rootFiles[s]
           g == rootFiles'[s]
           end == off + size
           last == IF end > f.st_size THEN end ELSE f.st_size
           k == IF end > f.st_size THEN blocksAll(size, off, f.st_size) ELSE 0
           entry(new) == [f EXCEPT !.firstBlock = FirstBlock(f, new),
                                   !.st_size = IF end > @ THEN end ELSE @]
           old == StoredFiles[handles[h]].bytes
<1>1. /\ s \in Slots /\ f # NULL /\ f \in rootFile /\ f.name = handles[h]
      /\ Store!Exists(handles[h]) /\ rootFiles \in RootDirectories
      /\ StoredFiles[handles[h]] = ContentOf(f, fatArray, blockData)
  BY ResolvedFile, MountedFiles
<1>2. f.st_size \in Nat /\ k \in Int
  <2>1. f.st_size \in Nat
    BY <1>1, FuseAssumption DEF rootFile
  <2> QED
    BY <2>1, blocksAllType
<1>3. CASE OutOfBlocks(k)
  <2>1. ProcessEnds("SIGSEGV") /\ UNCHANGED <<rootDisc, fatDisc, blockData>>
    BY <1>3 DEF OutOfBlocks
  <2> QED
    BY <2>1, CrashSeen
<1>4. ASSUME NEW new \in getCertainNumberOfFreeBlocks(dmapArray, k), setFATBlocks(f, new),
             blockData' = Written(fatArray', FirstBlock(f, new), off, size, v),
             StoreEntry(s, entry(new)), Completes("ok"), UNCHANGED openVars
      PROVE  Store!Write(h, off, size, v)
  <2>1. /\ mounted' /\ UNCHANGED handles
        /\ Store!Succeeds(<<"write", h, off, size, v>>)
    BY <1>4, SucceedsSeen DEF Completes, openVars
  <2>2. /\ g = entry(new)
        /\ \A t \in Slots \ {s} : rootFiles'[t] = rootFiles[t]
    BY <1>1, <1>4 DEF StoreEntry, RootDirectories
  <2>3. /\ g.firstBlock = FirstBlock(f, new) /\ g.st_size = last /\ g.name = f.name
        /\ g.st_mode = f.st_mode /\ g.st_uid = f.st_uid
    <3> HIDE DEF g
    <3> QED
      BY <1>1, <2>2 DEF rootFile
  <2>4. FirstBlock(f, new) \in Blocks
    BY <1>1, <1>2, FirstBlockType DEF rootFile
  <2>5. g # NULL
    <3>1. last \in 0..MaxSize
      BY <1>1, FuseAssumption DEF rootFile
    <3>2. entry(new) \in rootFile
      BY <1>1, <2>4, <3>1 DEF rootFile
    <3> QED
      BY <2>2, <3>2, NullAssumption
  <2>6. /\ g \in rootFile /\ fatArray' \in [Blocks -> Blocks]
        /\ numBlocks(g.st_size) <= Len(Chain(fatArray', g.firstBlock))
    BY <1>1, <2>1, <2>5, MountedFilesNext
  <2>7. blockData \in [Blocks -> [0..(BLOCK_SIZE - 1) -> Bytes]]
    BY DEF StoreInv, OpenInv, TypeOK
  <2> DEFINE bytes == BytesOf(g.firstBlock, g.st_size, fatArray', blockData')
             kept == BytesOf(g.firstBlock, g.st_size, fatArray', blockData)
             before == BytesOf(f.firstBlock, f.st_size, fatArray, blockData)
  <2>8. /\ Distinct(Chain(fatArray', g.firstBlock))
        /\ \A i \in 1..g.st_size : i <= f.st_size => kept[i] = before[i]
    <3> HIDE DEF k
    <3> QED
      BY <1>1, <1>2, <1>4, <2>1, <2>3, <2>5, AppendedBytes
  <2>9. end <= g.st_size
    BY <1>2, <2>3
  <2>10. /\ \A b \in Blocks \ Range(Chain(fatArray', g.firstBlock)) : blockData'[b] = blockData[b]
         /\ \A i \in off + 1..end : bytes[i] = v
         /\ \A i \in 1..g.st_size : i \notin off + 1..end => bytes[i] = kept[i]
    <3>1. blockData' = Written(fatArray', g.firstBlock, off, size, v)
      BY <1>4, <2>3
    <3> QED
      BY <1>1, <2>6, <2>7, <2>8, <2>9, <3>1, WrittenBytes
  <2>11. \A t \in Slots \ {s} : rootFiles[t] # NULL =>
            ContentOf(rootFiles[t], fatArray', blockData')
               = ContentOf(rootFiles[t], fatArray, blockData)
    <3> HIDE DEF k
    <3> QED
      BY <1>1, <1>2, <1>4, <2>1, <2>3, <2>5, <2>10, AppendedOthers
  <2>12. \A i \in 1..g.st_size : i <= f.st_size /\ i \notin off + 1..end => bytes[i] = before[i]
    BY <2>8, <2>10
  <2>13. /\ Store!Update(f.name, g.st_size, off + 1..end)
         /\ StoredFiles'[f.name].bytes = bytes
    BY <1>1, <2>1, <2>2, <2>3, <2>5, <2>11, <2>12, ContentsSeen
  <2>14. Len(old) = f.st_size
    <3>1. old = before
      BY <1>1 DEF ContentOf
    <3> QED
      BY <1>2, <3>1 DEF BytesOf
  <2> HIDE DEF bytes, old, f, g, kept
  <2>15. \A i \in off + 1..end : StoredFiles'[handles[h]].bytes[i] = v
    BY <1>1, <2>10, <2>13
  <2>16. Store!Update(handles[h], IF end > Len(old) THEN end ELSE Len(old), off + 1..end)
    BY <1>1, <2>3, <2>13, <2>14
  <2> QED
    BY <2>1, <2>15, <2>16 DEF Store!Write, old
<1> QED
  BY <1>3, <1>4 DEF WriteFile

LEMMA WriteStep ==
    ASSUME StoreInv, StoreInv', NEW h \in Handles, NEW off \in Nat, NEW size \in Nat,
           NEW v \in Bytes, off + size <= MaxSize, fuseWrite(h, off, size, v)
    PROVE  Store!Write(h, off, size, v) \/ Store!Crash
<1>1. mounted /\ handles[h] # NULL /\ call' = <<"write", h, off, size, v>>
  BY DEF fuseWrite
<1>2. openFiles[h] \in getRootEntryFile(rootFiles, handles[h]) /\ openFiles[h] # NULL
      /\ openFiles[h] # DANGLING
  BY <1>1, OpenFile
<1>3. WriteFile(openFiles[h], off, size, v)
  BY <1>2 DEF fuseWrite
<1> QED
  BY <1>1, <1>2, <1>3, WriteFileStep

\* A truncation to the size the file has appends nothing.
LEMMA ExtendStep ==
    ASSUME "grow" \notin Workload, StoreInv, StoreInv', mounted,
           NEW n \in Names, NEW s \in getRootEntryFile(rootFiles, n), NEW newSize \in Nat,
           call' = <<"truncate", n, newSize>>, Extend(s, newSize)
    PROVE  Store!Truncate(n, newSize)
<1> DEFINE f == rootFiles[s]
           k == blocksAll(newSize, 0, f.st_size)
<1>1. /\ s \in Slots /\ f # NULL /\ f \in rootFile /\ f.name = n
      /\ Store!Exists(n) /\ rootFiles \in RootDirectories
  BY ResolvedFile, MountedFiles
<1>2. f.st_size \in Nat /\ k \in Int /\ newSize = f.st_size
  <2>1. f.st_size \in Nat
    BY <1>1, FuseAssumption DEF rootFile
  <2> QED
    BY <2>1, blocksAllType DEF Extend
<1>3. k <= 0
  <2>1. f.st_size \div BLOCK_SIZE \in Nat /\ 0 \div BLOCK_SIZE = 0
    <3>1. BLOCK_SIZE \in Nat \ {0}
      BY LayoutAssumption
    <3> QED
      BY <1>2, <3>1
  <2>2. numBlocks(f.st_size) \in Nat /\ f.st_size + 0 = f.st_size
    BY <1>2, numBlocksType
  <2>3. k = numBlocks(f.st_size) - numBlocks(f.st_size) + 0 - f.st_size \div BLOCK_SIZE
    BY <1>2, <2>1, <2>2 DEF blocksAll
  <2> HIDE DEF k
  <2> QED
    BY <2>1, <2>2, <2>3
<1>4. ~OutOfBlocks(k)
  <2> HIDE DEF k
  <2>1. ~(k > Cardinality(FreeBlocks(dmapArray)))
    BY <1>2, <1>3, CountOfFreeBlocks
  <2> QED
    BY <2>1 DEF OutOfBlocks
<1>5. PICK new \in getCertainNumberOfFreeBlocks(dmapArray, k) :
         /\ setFATBlocks(f, new)
         /\ rootFiles' = [rootFiles EXCEPT ![s].firstBlock = FirstBlock(f, new)]
         /\ UNCHANGED <<blockData, openVars>> /\ Completes("ok")
  BY <1>4 DEF Extend
<1> HIDE DEF k
<1>6. new = <<>>
  <2>1. new \in Seq(DataBlocks) /\ Len(new) = 0
    BY <1>2, <1>3, <1>5, AllocatedBlocks
  <2> QED
    BY <2>1
<1>7. FirstBlock(f, new) = f.firstBlock
  BY <1>6 DEF FirstBlock
<1>8. /\ rootFiles' = rootFiles /\ blockData' = blockData /\ mounted' /\ UNCHANGED handles
      /\ Store!Succeeds(<<"truncate", n, newSize>>)
  BY <1>1, <1>5, <1>7, SucceedsSeen DEF RootDirectories, rootFile, Completes, openVars
<1>9. \A i \in 1..f.st_size :
         BytesOf(f.firstBlock, f.st_size, fatArray', blockData)[i]
            = BytesOf(f.firstBlock, f.st_size, fatArray, blockData)[i]
  BY <1>1, <1>2, <1>5, <1>7, <1>8, AppendedBytes
<1>10. \A t \in Slots \ {s} : rootFiles[t] # NULL =>
          ContentOf(rootFiles[t], fatArray', blockData')
             = ContentOf(rootFiles[t], fatArray, blockData)
  BY <1>1, <1>2, <1>5, <1>7, <1>8, AppendedOthers
<1>11. Store!Update(n, newSize, {})
  BY <1>1, <1>2, <1>8, <1>9, <1>10, ContentsSeen
<1> QED
  BY <1>1, <1>8, <1>11 DEF Store!Truncate

\* A truncation to a smaller size frees all blocks of the file or none.
LEMMA ShrinkStep ==
    ASSUME "shrink" \notin Workload, StoreInv, StoreInv', mounted,
           NEW n \in Names, NEW s \in getRootEntryFile(rootFiles, n),
           NEW newSize \in Nat, newSize < rootFiles[s].st_size,
           call' = <<"truncate", n, newSize>>, Shrink(s, newSize)
    PROVE  Store!Truncate(n, newSize)
<1> DEFINE f == rootFiles[s]
           chain == Chain(fatArray, f.firstBlock)
           spare == SubSeq(chain, numBlocks(newSize) + 1, Len(chain))
           g == [f EXCEPT !.firstBlock = IF newSize = 0 THEN FAT_END ELSE @,
                          !.st_size = newSize]
<1>1. /\ s \in Slots /\ f # NULL /\ f \in rootFile /\ f.name = n /\ f.st_size \in Nat
      /\ Store!Exists(n) /\ rootFiles \in RootDirectories
      /\ fatArray \in [Blocks -> Blocks]
  BY ResolvedFile, MountedFiles, FuseAssumption DEF rootFile
<1>2. TypeOK /\ FatInv /\ BlocksNotShared
  BY OwnersSeparate DEF StoreInv, OpenInv
<1>3. /\ newSize = 0 \/ spare = <<>>
      /\ fatArray' = Unlinked(fatArray, Range(spare))
      /\ StoreEntry(s, g) /\ Completes("ok") /\ UNCHANGED <<blockData, openVars>>
  BY DEF Shrink
<1>4. /\ g.st_size = newSize /\ g.name = n /\ g.st_mode = f.st_mode /\ g.st_uid = f.st_uid
      /\ g.firstBlock = IF newSize = 0 THEN FAT_END ELSE f.firstBlock
      /\ g # NULL
  <2>1. newSize \in 0..MaxSize
    BY <1>1, FuseAssumption DEF rootFile
  <2>2. g \in rootFile
    BY <1>1, <2>1, EndIsNoDataBlock DEF rootFile
  <2> QED
    BY <1>1, <2>2, NullAssumption DEF rootFile
<1> HIDE DEF g
<1>5. /\ rootFiles'[s] = g /\ \A t \in Slots \ {s} : rootFiles'[t] = rootFiles[t]
      /\ blockData' = blockData /\ mounted' /\ UNCHANGED handles
      /\ Store!Succeeds(<<"truncate", n, newSize>>)
  BY <1>1, <1>3, SucceedsSeen DEF StoreEntry, RootDirectories, Completes, openVars
<1>6. \A t \in Slots \ {s} : rootFiles[t] # NULL =>
         Chain(fatArray', rootFiles[t].firstBlock) = Chain(fatArray, rootFiles[t].firstBlock)
  <2>1. Range(spare) \subseteq BlocksOf(s)
    BY <1>1, <1>2, FileChain, numBlocksType, SpareBlocks DEF BlocksOf
  <2> HIDE DEF spare
  <2> QED
    BY <1>1, <1>2, <1>3, <2>1, ChainsFree
<1>7. ASSUME NEW t \in Slots \ {s}, rootFiles[t] # NULL
      PROVE  ContentOf(rootFiles[t], fatArray', blockData')
                = ContentOf(rootFiles[t], fatArray, blockData)
  <2>1. /\ rootFiles[t] \in rootFile /\ fatArray' \in [Blocks -> Blocks]
        /\ numBlocks(rootFiles[t].st_size) <= Len(Chain(fatArray, rootFiles[t].firstBlock))
    BY <1>5, <1>7, MountedFiles, MountedFilesNext
  <2>2. Chain(fatArray', rootFiles[t].firstBlock) = Chain(fatArray, rootFiles[t].firstBlock)
    BY <1>6, <1>7
  <2> QED
    BY <1>1, <1>5, <2>1, <2>2, ContentKept
<1>8. ASSUME NEW i \in 1..g.st_size
      PROVE  BytesOf(g.firstBlock, g.st_size, fatArray', blockData')[i]
                = BytesOf(f.firstBlock, f.st_size, fatArray, blockData)[i]
  <2>1. newSize # 0 /\ g.firstBlock = f.firstBlock /\ i \in 1..f.st_size
    BY <1>1, <1>4
  <2>2. fatArray' = fatArray
    <3>1. spare = <<>>
      BY <1>3, <2>1
    <3> HIDE DEF spare
    <3>2. Range(spare) = {}
      BY <3>1 DEF Range
    <3> QED
      BY <1>1, <1>3, <3>2 DEF Unlinked
  <2> HIDE DEF f
  <2> QED
    BY <1>5, <2>1, <2>2 DEF BytesOf
<1>9. Store!Update(n, newSize, {})
  BY <1>1, <1>4, <1>5, <1>7, <1>8, ContentsSeen
<1> QED
  BY <1>1, <1>5, <1>9 DEF Store!Truncate

LEMMA TruncateStep ==
    ASSUME "grow" \notin Workload, "shrink" \notin Workload, StoreInv, StoreInv',
           NEW n \in Names, NEW newSize \in 0..MaxSize, fuseTruncate(n, newSize)
    PROVE  Store!Truncate(n, newSize)
<1>1. mounted /\ call' = <<"truncate", n, newSize>> /\ newSize \in Nat
  BY FuseAssumption DEF fuseTruncate
<1>2. CASE NotFound(n, "ENFILE")
  <2>1. ~Store!Exists(n)
    BY <1>1, <1>2, StoreExists DEF NotFound
  <2> QED
    BY <1>1, <1>2, <2>1, FailsSeen DEF Store!Truncate, NotFound
<1>3. ASSUME NEW s \in getRootEntryFile(rootFiles, n),
             IF newSize >= rootFiles[s].st_size THEN Extend(s, newSize) ELSE Shrink(s, newSize)
      PROVE  Store!Truncate(n, newSize)
  <2>1. rootFiles[s].st_size \in Nat
    BY <1>1, ResolvedFile, FuseAssumption DEF rootFile
  <2>2. CASE newSize >= rootFiles[s].st_size
    BY <1>1, <1>3, <2>2, ExtendStep
  <2>3. CASE newSize < rootFiles[s].st_size
    <3>1. ~(newSize >= rootFiles[s].st_size)
      BY <1>1, <2>1, <2>3
    <3> QED
      BY <1>1, <1>3, <2>3, <3>1, ShrinkStep
  <2> QED
    BY <1>1, <2>1, <2>2, <2>3
<1> QED
  BY <1>2, <1>3 DEF fuseTruncate

-----------------------------------------------------------------------------
(* The specification.                                                      *)

\* The model stops at undefined behaviour: FileStore stutters.
LEMMA UnseenStep ==
    ASSUME UNCHANGED vars
    PROVE  UNCHANGED Store!vars
<1>1. UNCHANGED <<StoredFiles, Reply>>
  BY FilesKept DEF vars, Reply
<1> QED
  BY <1>1 DEF vars, openVars, Store!vars

\* Every step of MyOnDiskFS is a step of FileStore or a stutter.
LEMMA StoreStep ==
    ASSUME Workload \subseteq {"fill"}, Modes = {DefaultMode}, StoreInv, StoreInv', [Next]_vars
    PROVE  [Store!Next]_Store!vars
<1>1. /\ "replace" \notin Workload /\ "grow" \notin Workload /\ "shrink" \notin Workload
      /\ DefaultMode \in Modes /\ MountUser \in Uids
  BY FuseAssumption
<1>2. CASE UNCHANGED vars
  BY <1>2, UnseenStep
<1>3. CASE fuseInit \/ fuseDestroy \/ Kill \/ fuseReaddir
  BY <1>3, InitStep, EndSteps, ReaddirStep DEF Store!Next
<1>4. ASSUME NEW n \in Names \cup LongNames, NEW mode \in Modes, fuseMknod(n, mode)
      PROVE  Store!Next
  BY <1>4, MknodStep DEF Store!Next
<1>5. ASSUME NEW n \in Names, fuseUnlink(n) \/ fuseOpen(n) \/ fuseGetattr(n)
      PROVE  Store!Next
  BY <1>1, <1>5, UnlinkStep, OpenStep, AttributeSteps DEF Store!Next
<1>6. ASSUME NEW p \in Names, NEW q \in Names \cup LongNames, fuseRename(p, q)
      PROVE  Store!Next
  BY <1>1, <1>6, RenameStep DEF Store!Next
<1>7. ASSUME NEW n \in Names, NEW mode \in Modes, fuseChmod(n, mode)
      PROVE  Store!Next
  BY <1>1, <1>7, AttributeSteps DEF Store!Next
<1>8. ASSUME NEW n \in Names, NEW uid \in Uids, fuseChown(n, uid)
      PROVE  Store!Next
  BY <1>1, <1>8, AttributeSteps DEF Store!Next
<1>9. ASSUME NEW h \in Handles, fuseRelease(h)
      PROVE  Store!Next
  BY <1>9, ReleaseStep DEF Store!Next
<1>10. ASSUME NEW h \in Handles, NEW off \in 0..MaxSize, NEW size \in ReadSizes,
              fuseRead(h, off, size)
       PROVE  Store!Next
  BY <1>1, <1>10, ReadStep DEF Store!Next
<1>11. ASSUME NEW h \in Handles, NEW off \in 0..(MaxSize - 1), NEW size \in 1..MaxSize,
              NEW v \in Bytes, off + size <= MaxSize, fuseWrite(h, off, size, v)
       PROVE  Store!Next
  BY <1>11, WriteStep DEF Store!Next
<1>12. ASSUME NEW n \in Names, NEW newSize \in 0..MaxSize, fuseTruncate(n, newSize)
       PROVE  Store!Next
  BY <1>1, <1>12, TruncateStep DEF Store!Next
<1>13. CASE Undefined
  BY <1>13, UnseenStep DEF Undefined
<1> QED
  BY <1>2, <1>3, <1>4, <1>5, <1>6, <1>7, <1>8, <1>9, <1>10, <1>11, <1>12, <1>13 DEF Next

(***************************************************************************)
(* For every size of volume, directory and table of open files, every set  *)
(* of names and bytes: for clients that at most "fill" the volume, that    *)
(* ask for DefaultMode, the permissions every new file gets, and whose     *)
(* blocks have their marks in the first device block of the map, the       *)
(* handlers implement FileStore, over mounts, unmounts, kills and calls    *)
(* that end the process for want of blocks.                                *)
(***************************************************************************)
THEOREM OnDiskImplementsFileStore ==
    ASSUME Workload \subseteq {"fill"}, Modes = {DefaultMode}
    PROVE  Spec /\ []UsedInFirstMapBlock => ImplementsFileStore
<1>1. "shrink" \notin Workload /\ "straddle" \notin Workload /\ "replace" \notin Workload
  OBVIOUS
<1>2. Init => Store!Init /\ CoverInv /\ NewVolume
  <2>1. Init => CoverInv
    BY DEF Init, EmptyDirectory, CoverInv, Covered
  <2>2. Init => NewVolume
    BY DEF Init, NewVolume
  <2> QED
    BY <2>1, <2>2, InitStore
<1>3. OpenInv /\ FatInv /\ RootInv /\ OwnInv /\ CoverInv /\ NewVolume /\ [Next]_vars
         => (CoverInv /\ NewVolume)'
  BY <1>1, CoverInvInductive, NewVolumeInductive
<1>4. Spec => []RootInv
  BY OpenInvariant, InitRootInv, RootInvInductive, PTL DEF Spec
<1>5. Spec => []NameInv
  BY <1>1, NameInvariant
<1>6. Spec /\ []UsedInFirstMapBlock => []OwnInv
  BY <1>1, OwnInvariant
<1>7. StoreInv <=> /\ OpenInv /\ FatInv /\ RootInv /\ NameInv
                   /\ OwnInv /\ CoverInv /\ NewVolume
  BY DEF StoreInv
<1>8. Spec /\ []UsedInFirstMapBlock => []StoreInv
  BY <1>2, <1>3, <1>4, <1>5, <1>6, <1>7, OpenInvariant, FatInvariant, PTL DEF Spec
<1>9. StoreInv /\ StoreInv' /\ [Next]_vars => [Store!Next]_Store!vars
  BY StoreStep
<1> QED
  BY <1>2, <1>8, <1>9, PTL DEF Spec, ImplementsFileStore, Store!Spec
=============================================================================
