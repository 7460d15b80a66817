----------------------------- MODULE MyOnDiskFS -----------------------------
(***************************************************************************)
(* The on-disk file system (src/myondiskfs.cpp): the FUSE handlers over    *)
(* the root directory, the file allocation table, the free-block map and   *)
(* the data blocks, with mounts, unmounts and the death of the process.    *)
(*                                                                         *)
(* mount.myfs passes "-s" to libfuse, so handlers run one at a time: a     *)
(* handler is one action.  Handlers of different open files interleave.    *)
(***************************************************************************)
EXTENDS Fuse, FAT, DMAP, Root

CONSTANTS
    Garbage,    \* sets of blocks that an uninitialised map may show as used
    Workload,   \* which of the RiskyCalls the clients make
    DANGLING    \* a pointer to a deleted rootFile

RiskyCalls == {"replace", "shrink", "grow", "straddle", "fill"}

ASSUME OnDiskAssumption ==
    /\ Garbage \subseteq SUBSET Blocks
    /\ Garbage # {}
    /\ Workload \subseteq RiskyCalls
    /\ DANGLING \notin Slots
    /\ NULL \notin Slots
    /\ DANGLING # NULL

VARIABLES
    container,   \* the container file exists
    mounted,     \* the process runs and fuseInit has been called
    blockData,   \* the data blocks of the container
    openFiles,   \* slot of the entry that openFiles[h]->file points to, or NULL
    openCount

fsVars == <<rootFiles, rootDisc, fatArray, fatDisc, dmapArray, dmapDisc, blockData>>
openVars == <<openFiles, openCount, handles>>
vars == <<container, mounted, fsVars, openVars, call, ret, buf>>

TypeOK ==
    /\ container \in BOOLEAN
    /\ mounted \in BOOLEAN
    /\ RootTypeOK
    /\ FatTypeOK
    /\ DmapTypeOK
    /\ blockData \in [Blocks -> [0..(BLOCK_SIZE - 1) -> Bytes]]
    /\ openFiles \in [Handles -> Slots \cup {NULL, DANGLING}]
    /\ openCount \in 0..NUM_OPEN_FILES
    /\ FuseTypeOK

NothingOpen ==
    /\ openFiles' = [h \in Handles |-> NULL]
    /\ openCount' = 0
    /\ handles' = [h \in Handles |-> NULL]

\* The memory of the process is gone; what the container holds stays.
ProcessEnds(r) ==
    /\ mounted' = FALSE
    /\ rootFiles' = EmptyDirectory
    /\ fatArray' = BlankFat
    /\ dmapArray' = BlankDmap
    /\ NothingOpen
    /\ Replies(r)

Init ==
    /\ container = FALSE
    /\ mounted = FALSE
    /\ rootFiles = EmptyDirectory /\ rootDisc = EmptyDirectory
    /\ fatArray = BlankFat /\ fatDisc = BlankFat
    /\ DmapInit
    /\ blockData = [b \in Blocks |-> [j \in 0..(BLOCK_SIZE - 1) |-> 0]]
    /\ openFiles = [h \in Handles |-> NULL]
    /\ openCount = 0
    /\ FuseInit

\* A handler runs to its end and returns r.
Completes(r) == Replies(r) /\ UNCHANGED <<container, mounted>>

\* A handler changes nothing and returns r.
Returns(r) == Completes(r) /\ UNCHANGED <<fsVars, openVars>>

\* A handler changes nothing and returns the bytes, names or attributes b.
Reports(b) ==
    /\ buf' = b
    /\ ret' = "ok"
    /\ UNCHANGED <<container, mounted, fsVars, openVars>>

\* A handler runs into undefined behaviour.
GoesAstray ==
    /\ ProcessEnds("undefined")
    /\ UNCHANGED <<container, rootDisc, fatDisc, dmapDisc, blockData>>

-----------------------------------------------------------------------------
(* Mounting, unmounting, and the end of the process.                       *)

\* fuseInit with an existing container: the three tables are read from it.
InitExisting ==
    /\ container
    /\ initRootDir
    /\ DmapRestart
    /\ FatRestart
    /\ UNCHANGED container

(***************************************************************************)
(* fuseInit without one: root->init() writes empty entries; nothing writes *)
(* the map and the table, whose places in the new container read as zero.  *)
(* In memory, dmapArray holds whatever the heap held (fatArray is so large *)
(* that its pages come zeroed from the kernel).                            *)
(***************************************************************************)
InitNew ==
    /\ ~container
    /\ container' = TRUE
    /\ rootInit
    /\ \E used \in Garbage : dmapArray' = [b \in Blocks |-> b \in used]
    /\ UNCHANGED <<fatArray, dmapDisc, fatDisc>>

fuseInit ==
    /\ call' = <<"init">>
    /\ ~mounted /\ ret # "undefined"
    /\ mounted' = TRUE
    /\ InitExisting \/ InitNew
    /\ Replies("ok")
    /\ UNCHANGED <<blockData, openVars>>

\* A file system is unmounted when no file is open.
fuseDestroy ==
    /\ call' = <<"destroy">>
    /\ mounted
    /\ \A h \in Handles : handles[h] = NULL
    /\ ProcessEnds("ok")
    /\ UNCHANGED <<container, rootDisc, fatDisc, dmapDisc, blockData>>

\* The process is killed between two handlers.
Kill ==
    /\ call' = <<"kill">>
    /\ mounted
    /\ ProcessEnds("killed")
    /\ UNCHANGED <<container, rootDisc, fatDisc, dmapDisc, blockData>>

\* The model says nothing of a process after undefined behaviour, nor of the
\* container it may have written to.
Undefined == ret = "undefined" /\ UNCHANGED vars

-----------------------------------------------------------------------------
(* The directory.                                                          *)

\* The handler changes one directory entry and nothing else.
UpdateEntry(s, f) ==
    /\ StoreEntry(s, f)
    /\ Completes("ok")
    /\ UNCHANGED <<fatArray, fatDisc, dmapArray, dmapDisc, blockData, openVars>>

\* The path names no file.
NotFound(n, r) == getRootEntryFile(rootFiles, n) = {} /\ Returns(r)

\* Mutant: the check of the length of a name is missing.
AcceptsLongName(n) == FALSE

\* The length of the name exceeds NAME_LENGTH.
NameTooLong(n) == n \in LongNames

(***************************************************************************)
(* With a full directory, createNewFile searches for a free slot past the  *)
(* end of rootFiles; it reports a full directory if it gets to its test.   *)
(* The permissions that are asked for play no part.                        *)
(***************************************************************************)
fuseMknod(n, mode) ==
    /\ call' = <<"mknod", n, mode>>
    /\ mounted
    /\ \/ /\ getRootEntryFile(rootFiles, n) # {}
          /\ Returns("EEXIST")
       \/ /\ NameTooLong(n)
          /\ Returns("EINVAL")
       \/ /\ getRootEntryFile(rootFiles, n) = {} /\ ~NameTooLong(n)
          /\ \/ /\ FreeSlot(rootFiles) = {}
                /\ Returns("EINVAL") \/ GoesAstray
             \/ \E s \in FreeSlot(rootFiles) : UpdateEntry(s, NewFile(n))

\* The blocks of the first entry with that name are freed; then every entry
\* with that name is deleted.
fuseUnlink(n) ==
    /\ call' = <<"unlink", n>>
    /\ mounted
    /\ ~IsOpen(n)
    /\ \/ NotFound(n, "ENOENT")
       \/ \E s \in getRootEntryFile(rootFiles, n) :
            LET chain == Chain(fatArray, rootFiles[s].firstBlock)
            IN  /\ fatArray' = Unlinked(fatArray, Range(chain))
                /\ fatDisc' = FatDiscWrite(fatDisc, fatArray', Range(chain))
                /\ SetAll(chain, FALSE)
                /\ deleteFile(n)
                /\ openFiles' = [h \in Handles |->
                      IF openFiles[h] \in Named(rootFiles, n) THEN DANGLING ELSE openFiles[h]]
                /\ Completes("ok")
                /\ UNCHANGED <<blockData, openCount, handles>>

\* "replace": a file with the new name exists.
fuseRename(p, q) ==
    /\ call' = <<"rename", p, q>>
    /\ mounted
    /\ p # q /\ ~IsOpen(q)
    /\ "replace" \in Workload \/ Named(rootFiles, q) = {}
    /\ \/ /\ NameTooLong(q)
          /\ Returns("EINVAL")
       \/ ~NameTooLong(q) /\ NotFound(p, "ENOENT")
       \/ /\ ~NameTooLong(q)
          /\ \E s \in getRootEntryFile(rootFiles, p) :
                StoreEntry(s, [rootFiles[s] EXCEPT !.name = q])
          /\ handles' = Renamed(p, q)
          /\ Completes("ok")
          /\ UNCHANGED <<fatArray, fatDisc, dmapArray, dmapDisc, blockData, openFiles, openCount>>

fuseGetattr(n) ==
    /\ call' = <<"getattr", n>>
    /\ mounted
    /\ \/ NotFound(n, "ENOENT")
       \/ \E s \in getRootEntryFile(rootFiles, n) :
             Reports(<<rootFiles[s].st_size, rootFiles[s].st_mode, rootFiles[s].st_uid>>)

fuseChmod(n, mode) ==
    /\ call' = <<"chmod", n, mode>>
    /\ mounted
    /\ \/ NotFound(n, "ENOENT")
       \/ \E s \in getRootEntryFile(rootFiles, n) :
             UpdateEntry(s, [rootFiles[s] EXCEPT !.st_mode = mode])

fuseChown(n, uid) ==
    /\ call' = <<"chown", n, uid>>
    /\ mounted
    /\ \/ NotFound(n, "ENOENT")
       \/ \E s \in getRootEntryFile(rootFiles, n) :
             UpdateEntry(s, [rootFiles[s] EXCEPT !.st_uid = uid])

\* The names of the entries, in the order of their slots.
fuseReaddir ==
    /\ call' = <<"readdir">>
    /\ mounted
    /\ Reports(ListedNames(rootFiles))

-----------------------------------------------------------------------------
(* Open files.                                                             *)

\* The first free place of the open-file table.
getIndexOpen ==
    {h \in Handles : openFiles[h] = NULL /\ \A g \in Handles : g < h => openFiles[g] # NULL}

fuseOpen(n) ==
    /\ call' = <<"open", n>>
    /\ mounted
    /\ \/ NotFound(n, "ENOENT")
       \/ /\ getRootEntryFile(rootFiles, n) # {}
          /\ openCount = NUM_OPEN_FILES
          /\ Returns("EMFILE")
       \/ /\ openCount # NUM_OPEN_FILES
          /\ \E s \in getRootEntryFile(rootFiles, n), h \in getIndexOpen :
               /\ openFiles' = [openFiles EXCEPT ![h] = s]
               /\ handles' = [handles EXCEPT ![h] = n]
          /\ openCount' = openCount + 1
          /\ Completes("ok")
          /\ UNCHANGED fsVars

\* Mutant: the handle is given back but still counted.
CloseUncounted(h) ==
    /\ openFiles' = [openFiles EXCEPT ![h] = NULL]
    /\ UNCHANGED openCount

CloseHandle(h) ==
    /\ openFiles' = [openFiles EXCEPT ![h] = NULL]
    /\ openCount' = openCount - 1

\* libfuse ignores the result: the handle is closed in any case.
fuseRelease(h) ==
    /\ call' = <<"release", h>>
    /\ mounted
    /\ handles[h] # NULL
    /\ handles' = [handles EXCEPT ![h] = NULL]
    /\ \/ /\ getRootEntryFile(rootFiles, handles[h]) = {}
          /\ Completes("ENOENT")
          /\ UNCHANGED <<openFiles, openCount>>
       \/ /\ getRootEntryFile(rootFiles, handles[h]) # {} /\ openFiles[h] = NULL
          /\ Completes("EBADF")
          /\ UNCHANGED <<openFiles, openCount>>
       \/ /\ getRootEntryFile(rootFiles, handles[h]) # {} /\ openFiles[h] # NULL
          /\ CloseHandle(h)
          /\ Completes("ok")
    /\ UNCHANGED fsVars

\* The byte at position i of a file, through the table fat.
ByteAt(fat, first, i) ==
    blockData[getNth(fat, first, i \div BLOCK_SIZE)][i % BLOCK_SIZE]

(***************************************************************************)
(* The file is found by its path; the handle only has to be in use.  The   *)
(* kernel does not ask for bytes behind the end of the file; but if two    *)
(* files share the path, it may mean the longer one, and the path resolves *)
(* to the shorter one ("replace").  Then size wraps around, and            *)
(* the number of blocks does not fit an int: it becomes negative on x86-64 *)
(* (nothing is read, the wrapped size is the result), huge elsewhere.      *)
(***************************************************************************)
fuseRead(h, off, size) ==
    /\ call' = <<"read", h, off, size>>
    /\ mounted
    /\ handles[h] # NULL
    /\ \/ NotFound(handles[h], "EEXIST")
       \/ openFiles[h] = NULL /\ Returns("EBADF")
       \/ \E s \in getRootEntryFile(rootFiles, handles[h]) :
            LET f == rootFiles[s]
                n == IF off + size > f.st_size THEN f.st_size - off ELSE size
            IN  /\ openFiles[h] # NULL
                /\ "replace" \in Workload \/ off <= f.st_size
                /\ IF n < 0 THEN Returns("wrapped") \/ GoesAstray
                   ELSE Reports([i \in 1..n |->
                                    ByteAt(fatArray, f.firstBlock, off + i - 1)])

-----------------------------------------------------------------------------
(* Writing and truncating.                                                 *)

\* Mutant: the offset of the write is left out of the blocks it needs.
blocksAllNoOffset(size, off, st) ==
    numBlocks(size) - numBlocks(st) + off \div BLOCK_SIZE - st \div BLOCK_SIZE

\* blocksAll: how many blocks setFATBlocks appends to a file of size st.
blocksAll(size, off, st) ==
    numBlocks(size + off) - numBlocks(st) + off \div BLOCK_SIZE - st \div BLOCK_SIZE

\* Mutant: the file always starts with the first of the new blocks.
FirstOfNew(f, new) ==
    IF new # <<>> THEN new[1] ELSE f.firstBlock

\* The first block of the file f once the blocks new have been appended.
FirstBlock(f, new) ==
    IF new # <<>> /\ f.firstBlock = FAT_END THEN new[1] ELSE f.firstBlock

\* The blocks new are taken and appended to the chain of the file f.
setFATBlocks(f, new) ==
    LET chain == Chain(fatArray, f.firstBlock)
        last  == IF new # <<>> /\ chain # <<>> THEN {chain[Len(chain)]} ELSE {}
    IN  /\ SetAll(new, TRUE)
        /\ fatArray' = Linked(fatArray, chain, new)
        /\ fatDisc' = FatDiscWrite(fatDisc, fatArray', last \cup Range(new))

(***************************************************************************)
(* Too few free blocks: all of them have been taken, in memory and on      *)
(* disc, when the search fails, and setFATBlocks reads newBlocks[0]        *)
(* through the null pointer it was given.                                  *)
(***************************************************************************)
OutOfBlocks(k) ==
    /\ k > Cardinality(FreeBlocks(dmapArray))
    /\ \E all \in getCertainNumberOfFreeBlocks(dmapArray, Cardinality(FreeBlocks(dmapArray))) :
          dmapDisc' = DmapDiscWrite(dmapDisc, dmapArray, all, TRUE)
    /\ ProcessEnds("SIGSEGV")
    /\ UNCHANGED <<container, rootDisc, fatDisc, blockData>>

\* The data blocks after size bytes v have been written from position off of
\* the file that starts at first.
Written(fat, first, off, size, v) ==
    [b \in Blocks |-> [j \in 0..(BLOCK_SIZE - 1) |->
        IF \E i \in off..(off + size - 1) :
              i % BLOCK_SIZE = j /\ getNth(fat, first, i \div BLOCK_SIZE) = b
        THEN v
        ELSE blockData[b][j]]]

\* "straddle": a write that starts in front of the last block and needs new
\* blocks; "fill": a call that needs more blocks than are free.
WriteFile(s, off, size, v) ==
    LET f == rootFiles[s]
        end == off + size
        k == IF end > f.st_size THEN blocksAll(size, off, f.st_size) ELSE 0
    IN  /\ \/ "straddle" \in Workload
           \/ off \div BLOCK_SIZE >= f.st_size \div BLOCK_SIZE
           \/ numBlocks(end) <= numBlocks(f.st_size)
        /\ \/ "fill" \in Workload /\ OutOfBlocks(k)
           \/ \E new \in getCertainNumberOfFreeBlocks(dmapArray, k) :
                /\ setFATBlocks(f, new)
                /\ blockData' = Written(fatArray', FirstBlock(f, new), off, size, v)
                /\ StoreEntry(s, [f EXCEPT !.firstBlock = FirstBlock(f, new),
                                           !.st_size = IF end > @ THEN end ELSE @])
                /\ Completes("ok")
                /\ UNCHANGED openVars

\* The file is found through the handle.
fuseWrite(h, off, size, v) ==
    /\ call' = <<"write", h, off, size, v>>
    /\ mounted
    /\ handles[h] # NULL
    /\ \/ openFiles[h] = NULL /\ Returns("EBADF")
       \/ openFiles[h] = DANGLING /\ GoesAstray
       \/ openFiles[h] \in Slots /\ WriteFile(openFiles[h], off, size, v)

\* newSize >= st_size: blocks are appended; the new first block stays in
\* memory, and st_size stays what it is.
Extend(s, newSize) ==
    LET f == rootFiles[s]
        k == blocksAll(newSize, 0, f.st_size)
    IN  /\ "grow" \in Workload \/ newSize = f.st_size
        /\ \/ "fill" \in Workload /\ OutOfBlocks(k)
           \/ \E new \in getCertainNumberOfFreeBlocks(dmapArray, k) :
                /\ setFATBlocks(f, new)
                /\ rootFiles' = [rootFiles EXCEPT ![s].firstBlock = FirstBlock(f, new)]
                /\ Completes("ok")
                /\ UNCHANGED <<rootDisc, blockData, openVars>>

\* newSize < st_size: the blocks behind the last one that is needed are freed;
\* the last one goes on pointing to the first of them.
Shrink(s, newSize) ==
    LET f == rootFiles[s]
        chain == Chain(fatArray, f.firstBlock)
        spare == SubSeq(chain, numBlocks(newSize) + 1, Len(chain))
    IN  /\ "shrink" \in Workload \/ newSize = 0 \/ spare = <<>>
        /\ fatArray' = Unlinked(fatArray, Range(spare))
        /\ fatDisc' = FatDiscWrite(fatDisc, fatArray', Range(spare))
        /\ SetAll(spare, FALSE)
        /\ StoreEntry(s, [f EXCEPT
              !.firstBlock = IF newSize = 0 THEN FAT_END ELSE @,
              !.st_size = newSize])
        /\ Completes("ok")
        /\ UNCHANGED <<blockData, openVars>>

\* Both fuseTruncate handlers find the file by its path.
fuseTruncate(n, newSize) ==
    /\ call' = <<"truncate", n, newSize>>
    /\ mounted
    /\ \/ NotFound(n, "ENFILE")
       \/ \E s \in getRootEntryFile(rootFiles, n) :
            IF newSize >= rootFiles[s].st_size THEN Extend(s, newSize)
                                               ELSE Shrink(s, newSize)

-----------------------------------------------------------------------------
Next ==
    \/ fuseInit
    \/ fuseDestroy
    \/ Kill
    \/ Undefined
    \/ \E n \in Names \cup LongNames, mode \in Modes : fuseMknod(n, mode)
    \/ \E n \in Names : fuseUnlink(n)
    \/ \E p \in Names, q \in Names \cup LongNames : fuseRename(p, q)
    \/ \E n \in Names : fuseGetattr(n)
    \/ \E n \in Names, mode \in Modes : fuseChmod(n, mode)
    \/ \E n \in Names, uid \in Uids : fuseChown(n, uid)
    \/ fuseReaddir
    \/ \E n \in Names : fuseOpen(n)
    \/ \E h \in Handles : fuseRelease(h)
    \/ \E h \in Handles, off \in 0..MaxSize, size \in ReadSizes : fuseRead(h, off, size)
    \/ \E h \in Handles, off \in 0..(MaxSize - 1), size \in 1..MaxSize, v \in Bytes :
          off + size <= MaxSize /\ fuseWrite(h, off, size, v)
    \/ \E n \in Names, newSize \in 0..MaxSize : fuseTruncate(n, newSize)

Spec == Init /\ [][Next]_vars
-----------------------------------------------------------------------------
(* Properties that hold whatever the clients do.                           *)

\* No set of data blocks is closed under the table fat: a walk leaves it.
Terminates(fat) ==
    \A S \in SUBSET DataBlocks : S # {} => \E b \in S : fat[b] \notin S

(***************************************************************************)
(* Every walk along a chain ends -- setFATBlocks would hang otherwise, and *)
(* the operators here that follow a chain mean what the loops do --        *)
(* although truncation leaves chains that run into freed blocks, which     *)
(* other files are then given.                                             *)
(***************************************************************************)
ChainsEnd == Terminates(fatArray) /\ Terminates(fatDisc)

(***************************************************************************)
(* The table in the container is the table in memory whenever no handler   *)
(* runs: each setNext and freeBlock was followed by the write of the right *)
(* device block, so a kill costs no link.                                  *)
(***************************************************************************)
FatPersisted == mounted => fatDisc = fatArray

(***************************************************************************)
(* The entry of a file in the container is the one in memory, or the file  *)
(* is empty and only its first block is not recorded (fuseTruncate to a    *)
(* larger size): a kill costs no name, no attribute and no byte.           *)
(***************************************************************************)
RootPersisted ==
    mounted => \A s \in Slots :
        \/ rootDisc[s] = rootFiles[s]
        \/ /\ rootFiles[s] # NULL
           /\ rootFiles[s].st_size = 0
           /\ rootDisc[s] = [rootFiles[s] EXCEPT !.firstBlock = FAT_END]

(***************************************************************************)
(* The table of open files holds the handles the clients hold and no       *)
(* others, and openCount counts them: none leaks over renames, removals    *)
(* and failed calls.                                                       *)
(***************************************************************************)
DescriptorsAccounted ==
    /\ \A h \in Handles : openFiles[h] # NULL <=> handles[h] # NULL
    /\ openCount = Cardinality({h \in Handles : handles[h] # NULL})

\* The path libfuse keeps for an open file always resolves to some entry.
OpenPathsExist ==
    \A h \in Handles : handles[h] # NULL => Named(rootFiles, handles[h]) # {}

-----------------------------------------------------------------------------
(* Properties of clients that avoid some of the RiskyCalls.                *)

\* The blocks of the file in slot s.
BlocksOf(s) == Range(Chain(fatArray, rootFiles[s].firstBlock))

Files == {s \in Slots : rootFiles[s] # NULL}

\* Without "shrink": no block belongs to two files.
BlocksNotShared ==
    \A s, t \in Files : s # t => BlocksOf(s) \cap BlocksOf(t) = {}

\* Without "shrink": a block that belongs to a file is marked as used, so
\* nobody else is given it.
BlocksOfFilesUsed ==
    \A s \in Files : \A b \in BlocksOf(s) : dmapArray[b]

\* Without "straddle" and "shrink": a file has a block for each of its bytes;
\* none is read from or written to data block 0 behind the end of the chain.
ChainCoversSize ==
    \A s \in Files : numBlocks(rootFiles[s].st_size) <= Cardinality(BlocksOf(s))

\* Without "replace": a name is in the directory once.
NamesUnique ==
    \A s, t \in Files : rootFiles[s].name = rootFiles[t].name => s = t

\* Without "replace": the path of a handle resolves to the entry the handle
\* points to, so fuseRead, fuseWrite and fuseTruncate mean the same file.
HandlesResolve ==
    \A h \in Handles : handles[h] # NULL =>
        getRootEntryFile(rootFiles, handles[h]) = {openFiles[h]}

\* Without "replace", "shrink", "grow" and "fill", on a map that started
\* clean: a block that is marked as used belongs to a file.
NoLeak ==
    mounted => \A b \in DataBlocks : dmapArray[b] => \E s \in Files : b \in BlocksOf(s)

(***************************************************************************)
(* On a map that started clean: what a mount would read of the first       *)
(* device block of the map is the map in memory.  Every call that takes or *)
(* frees blocks writes it, so a kill between calls neither loses a block   *)
(* nor gives one away.                                                     *)
(***************************************************************************)
MapPersisted == mounted => FirstDmapBlockPersisted
-----------------------------------------------------------------------------
(* What comments in the code say of one call, and the code does not do.    *)

\* The call that has just ended, if it succeeded, was to this handler.
Done(handler) == call[1] = handler /\ ret = "ok"

\* fuseRename: a file with the new name "is replaced (i.e., removed before
\* renaming the file"; no second file keeps the name.
RenameReplaces == Done("rename") => Cardinality(Named(rootFiles, call[3])) = 1

\* fuseTruncate: "Set the size of a file to the new size."
TruncateSetsSize ==
    Done("truncate") =>
        \A s \in getRootEntryFile(rootFiles, call[2]) : rootFiles[s].st_size = call[3]

\* fuseTruncate: "If the new size is smaller than the old size, spare bytes are
\* removed"; the file keeps no block that has been freed.
TruncateRemovesSpareBlocks ==
    Done("truncate") =>
        \A s \in getRootEntryFile(rootFiles, call[2]) : \A b \in BlocksOf(s) : dmapArray[b]

\* fuseWrite: "Number of bytes written on success, -ERRNO on failure"; a write
\* that finds too few free blocks does not end the process.
WriteReturns == call[1] = "write" => ret # "SIGSEGV"

\* fuseMknod: "0 on success, -ERRNO on failure"; in a full directory it fails,
\* whatever lies behind rootFiles.
MknodReturns == call[1] = "mknod" => ret # "undefined"

(***************************************************************************)
(* fuseRead: the number of bytes read, or -ERRNO; not, as a negative       *)
(* number, how many bytes another file with that name is short of.  Whoever*)
(* reads bytes that the file it has opened contains, is not told so.       *)
(***************************************************************************)
ReadReturns ==
    call[1] = "read" /\ openFiles[call[2]] \in Slots =>
        \/ ret # "wrapped"
        \/ rootFiles[openFiles[call[2]]].st_size <= call[3]
=============================================================================
