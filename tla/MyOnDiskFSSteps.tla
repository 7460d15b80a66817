-------------------------- MODULE MyOnDiskFSSteps --------------------------
(***************************************************************************)
(* The handlers of MyOnDiskFS that write more than one block of the device *)
(* -- fuseUnlink, fuseWrite and fuseTruncate -- one block write, or one    *)
(* turn of a loop, at a time, as their loops do it.  The other handlers    *)
(* write one block at most and are those of MyOnDiskFS.                    *)
(*                                                                         *)
(* Between two steps of a handler no other handler runs, but the process   *)
(* may be killed, and the write of a block may fail, which nobody notices. *)
(***************************************************************************)
EXTENDS MyOnDiskFS

CONSTANT Faults   \* which of the PossibleFaults happen

\* A kill within the handler of that name, or a block write that fails.
PossibleFaults == {"write", "truncate", "unlink", "device"}

ASSUME FaultAssumption == Faults \subseteq PossibleFaults

VARIABLE run   \* the handler that runs, its arguments and its locals, or NULL

stepVars == <<vars, run>>

Idle == run = NULL

Job == [op : {"write", "truncate", "unlink"},
        at : {"take", "attach", "link", "data", "entry", "spare", "spareMap",
              "freeMap", "freeFat"},
        n : Names \cup {NULL}, s : Slots,
        off : 0..MaxSize, size : 0..MaxSize, v : Bytes \cup {NULL},
        k : Nat, new : UNION {[1..j -> DataBlocks] : j \in 0..NUMBER_DATA_BLOCKS},
        cur : Blocks, next : Blocks, i : Nat]

\* A null pointer is no job.
ASSUME JobAssumption == NULL \notin Job

StepsTypeOK == TypeOK /\ run \in Job \cup {NULL}

StepsInit == Init /\ run = NULL

-----------------------------------------------------------------------------
(* One block of the device.                                                *)

\* BlockDevice::write replaces old by new, or fails; no caller looks at the
\* result.
DeviceWrite(old, new) == {new} \cup (IF "device" \in Faults THEN {old} ELSE {})

setNext(b, next) ==
    /\ fatArray' = [fatArray EXCEPT ![b] = next]
    /\ fatDisc' \in DeviceWrite(fatDisc, FatDiscWrite(fatDisc, fatArray', {b}))
    /\ UNCHANGED <<rootFiles, rootDisc, dmapArray, dmapDisc, blockData>>

setMap(b, used) ==
    /\ dmapArray' = [dmapArray EXCEPT ![b] = used]
    /\ dmapDisc' \in DeviceWrite(dmapDisc, DmapDiscWrite(dmapDisc, dmapArray, <<b>>, used))
    /\ UNCHANGED <<rootFiles, rootDisc, fatArray, fatDisc, blockData>>

setEntry(s, f) ==
    /\ rootFiles' = [rootFiles EXCEPT ![s] = f]
    /\ rootDisc' \in DeviceWrite(rootDisc, [rootDisc EXCEPT ![s] = f])
    /\ UNCHANGED <<fatArray, fatDisc, dmapArray, dmapDisc, blockData>>

\* The handler goes on as job, or returns 0 (or the number of bytes).
GoesOn(job) == run' = job /\ UNCHANGED <<ret, buf, container, mounted, openVars>>

Finishes == run' = NULL /\ Completes("ok") /\ UNCHANGED openVars

-----------------------------------------------------------------------------
(* The start of a handler, up to its first block write.                    *)

Starts(job) == Idle /\ GoesOn(job) /\ UNCHANGED fsVars

\* What all jobs have; a handler sets what it needs.
NewJob(op, n, s) ==
    [op |-> op, at |-> "take", n |-> n, s |-> s, off |-> 0, size |-> 0, v |-> NULL,
     k |-> 0, new |-> <<>>, cur |-> FAT_END, next |-> FAT_END, i |-> 0]

StartUnlink(n) ==
    /\ call' = <<"unlink", n>>
    /\ mounted /\ ~IsOpen(n)
    /\ \/ Idle /\ NotFound(n, "ENOENT") /\ UNCHANGED run
       \/ \E s \in getRootEntryFile(rootFiles, n) :
             Starts([NewJob("unlink", n, s) EXCEPT
                        !.at = "freeMap", !.cur = rootFiles[s].firstBlock])

\* The data phase starts in the block that holds the byte at off.
DataPhase(job, fat) ==
    [job EXCEPT !.at = "data", !.i = 0,
                !.cur = getNth(fat, rootFiles[job.s].firstBlock, job.off \div BLOCK_SIZE)]

StartWrite(h, off, size, v) ==
    /\ call' = <<"write", h, off, size, v>>
    /\ mounted
    /\ handles[h] # NULL
    /\ \/ Idle /\ openFiles[h] = NULL /\ Returns("EBADF") /\ UNCHANGED run
       \/ Idle /\ openFiles[h] = DANGLING /\ GoesAstray /\ UNCHANGED run
       \/ /\ openFiles[h] \in Slots
          /\ LET s == openFiles[h]
                 old == rootFiles[s].st_size
                 k == IF off + size > old THEN blocksAll(size, off, old) ELSE 0
                 job == [NewJob("write", NULL, s) EXCEPT !.off = off, !.size = size, !.v = v]
             IN  /\ \/ "straddle" \in Workload
                    \/ off \div BLOCK_SIZE >= old \div BLOCK_SIZE
                    \/ numBlocks(off + size) <= numBlocks(old)
                 /\ "fill" \in Workload \/ k <= Cardinality(FreeBlocks(dmapArray))
                 /\ IF k > 0 THEN Starts([job EXCEPT !.k = k])
                             ELSE Starts(DataPhase(job, fatArray))

\* Mutant: cutting to 0 keeps the first block in the entry.
StartShrinkKeepsFirst(job) ==
    /\ Idle
    /\ GoesOn([job EXCEPT !.at = "spare", !.cur = rootFiles[job.s].firstBlock])
    /\ UNCHANGED fsVars

\* Cutting to 0 first lets the entry point to no block, and stores it.
StartShrink(job) ==
    /\ Idle
    /\ GoesOn([job EXCEPT !.at = "spare", !.cur = rootFiles[job.s].firstBlock])
    /\ LET f == rootFiles[job.s] IN
          /\ \/ "shrink" \in Workload
             \/ job.size = 0
             \/ Len(Chain(fatArray, f.firstBlock)) <= numBlocks(job.size)
          /\ IF job.size = 0 THEN setEntry(job.s, [f EXCEPT !.firstBlock = FAT_END])
                             ELSE UNCHANGED fsVars

StartTruncate(n, newSize) ==
    /\ call' = <<"truncate", n, newSize>>
    /\ mounted
    /\ \/ Idle /\ NotFound(n, "ENFILE") /\ UNCHANGED run
       \/ \E s \in getRootEntryFile(rootFiles, n) :
            LET old == rootFiles[s].st_size
                k == blocksAll(newSize, 0, old)
                job == [NewJob("truncate", n, s) EXCEPT !.size = newSize]
            IN  \/ newSize < old /\ StartShrink(job)
                \/ /\ newSize >= old
                   /\ "grow" \in Workload \/ newSize = old
                   /\ "fill" \in Workload \/ k <= Cardinality(FreeBlocks(dmapArray))
                   /\ IF k > 0 THEN Starts([job EXCEPT !.k = k])
                               ELSE Idle /\ Returns("ok") /\ UNCHANGED run

-----------------------------------------------------------------------------
(* setFATBlocks, for fuseWrite and fuseTruncate.                           *)

\* Mutant: the search goes one entry too far.
FirstFreeBlockOrNext ==
    {b \in DataBlocks \cup {NUMBER_DATA_BLOCKS} :
        /\ b \notin DataBlocks \/ ~dmapArray[b]
        /\ \A c \in FreeBlocks(dmapArray) : b <= c}

getFirstFreeBlock ==
    {b \in FreeBlocks(dmapArray) : \A c \in FreeBlocks(dmapArray) : b <= c}

\* One turn of the loop of getCertainNumberOfFreeBlocks, which gives up, and
\* lets setFATBlocks read through a null pointer, when no block is free.
TakeBlock ==
    /\ run.at = "take"
    /\ \/ \E b \in getFirstFreeBlock :
             /\ setMap(b, TRUE)
             /\ GoesOn([run EXCEPT
                   !.new = Append(@, b),
                   !.at = IF Len(run.new) + 1 = run.k THEN "attach" ELSE "take",
                   !.cur = rootFiles[run.s].firstBlock])
       \/ /\ getFirstFreeBlock = {}
          /\ ProcessEnds("SIGSEGV")
          /\ run' = NULL
          /\ UNCHANGED <<container, rootDisc, fatDisc, dmapDisc, blockData>>

\* Mutant: the entry is stored as soon as the file has the blocks, with the
\* size it is going to have.
AttachStored ==
    /\ run.at = "attach"
    /\ LET f == rootFiles[run.s]
           linked == [run EXCEPT !.at = "link", !.i = 1]
       IN  \/ /\ f.firstBlock = FAT_END
              /\ setEntry(run.s, [f EXCEPT !.firstBlock = run.new[1],
                                           !.st_size = run.off + run.size])
              /\ GoesOn(linked)
           \/ /\ f.firstBlock # FAT_END
              /\ fatArray[run.cur] # FAT_END
              /\ UNCHANGED fsVars
              /\ GoesOn([run EXCEPT !.cur = fatArray[@]])
           \/ /\ f.firstBlock # FAT_END
              /\ fatArray[run.cur] = FAT_END
              /\ setNext(run.cur, run.new[1])
              /\ GoesOn(linked)

\* The new blocks become the file's first, or follow the last block it has;
\* the entry changes in memory only.
Attach ==
    /\ run.at = "attach"
    /\ LET linked == [run EXCEPT !.at = "link", !.i = 1]
       IN  \/ /\ rootFiles[run.s].firstBlock = FAT_END
              /\ rootFiles' = [rootFiles EXCEPT ![run.s].firstBlock = run.new[1]]
              /\ UNCHANGED <<rootDisc, fatArray, fatDisc, dmapArray, dmapDisc, blockData>>
              /\ GoesOn(linked)
           \/ /\ rootFiles[run.s].firstBlock # FAT_END
              /\ fatArray[run.cur] # FAT_END
              /\ UNCHANGED fsVars
              /\ GoesOn([run EXCEPT !.cur = fatArray[@]])
           \/ /\ rootFiles[run.s].firstBlock # FAT_END
              /\ fatArray[run.cur] = FAT_END
              /\ setNext(run.cur, run.new[1])
              /\ GoesOn(linked)

\* Mutant: the chain is not ended behind the last new block.
NoEnd(b) == fatArray[b]

\* What follows the last of the new blocks.
AfterLast(b) == FAT_END

Link ==
    /\ run.at = "link"
    /\ \/ /\ run.i < run.k
          /\ setNext(run.new[run.i], run.new[run.i + 1])
          /\ GoesOn([run EXCEPT !.i = @ + 1])
       \/ /\ run.i = run.k
          /\ setNext(run.new[run.k], AfterLast(run.new[run.k]))
          /\ \/ run.op = "write" /\ GoesOn(DataPhase(run, fatArray'))
             \/ run.op = "truncate" /\ Finishes

-----------------------------------------------------------------------------
(* The rest of fuseWrite.                                                  *)

(***************************************************************************)
(* The bytes of the i-th block of a write that memcpy fills: from the      *)
(* offset on in the first; what is left of the buffer in the last; all in  *)
(* between.  When block i is reached, newOffset is i * BLOCK_SIZE - skip.  *)
(***************************************************************************)
Copied(i, off, size) ==
    LET skip == off % BLOCK_SIZE
        blocks == numBlocks(size + skip)
    IN  IF i = 0 /\ size < BLOCK_SIZE - skip THEN skip..(skip + size - 1)
        ELSE IF i = 0 THEN skip..(BLOCK_SIZE - 1)
        ELSE IF i = blocks - 1 THEN 0..(size - (i * BLOCK_SIZE - skip) - 1)
        ELSE 0..(BLOCK_SIZE - 1)

WriteData ==
    /\ run.at = "data"
    /\ blockData' \in DeviceWrite(blockData,
          [blockData EXCEPT ![run.cur] =
              [j \in 0..(BLOCK_SIZE - 1) |->
                  IF j \in Copied(run.i, run.off, run.size) THEN run.v ELSE @[j]]])
    /\ GoesOn([run EXCEPT
          !.cur = fatArray[@],
          !.i = @ + 1,
          !.at = IF run.i + 1 = numBlocks(run.size + (run.off % BLOCK_SIZE))
                 THEN "entry" ELSE "data"])
    /\ UNCHANGED <<rootFiles, rootDisc, fatArray, fatDisc, dmapArray, dmapDisc>>

WriteEntry ==
    /\ run.at = "entry"
    /\ LET end == run.off + run.size
       IN  setEntry(run.s, [rootFiles[run.s] EXCEPT !.st_size = IF end > @ THEN end ELSE @])
    /\ Finishes

-----------------------------------------------------------------------------
(* The rest of fuseTruncate to a smaller size.                             *)

KeepBlock ==
    /\ run.at = "spare"
    /\ run.cur # FAT_END /\ run.i < numBlocks(run.size)
    /\ GoesOn([run EXCEPT !.cur = fatArray[@], !.i = @ + 1])
    /\ UNCHANGED fsVars

CutBlock ==
    /\ run.at = "spare"
    /\ run.cur # FAT_END /\ run.i >= numBlocks(run.size)
    /\ setNext(run.cur, FAT_END)
    /\ GoesOn([run EXCEPT !.next = fatArray[run.cur], !.at = "spareMap"])

FreeSpareBlock ==
    /\ run.at = "spareMap"
    /\ setMap(run.cur, FALSE)
    /\ GoesOn([run EXCEPT !.cur = run.next, !.i = @ + 1, !.at = "spare"])

StoreSize ==
    /\ run.at = "spare"
    /\ run.cur = FAT_END
    /\ setEntry(run.s, [rootFiles[run.s] EXCEPT !.st_size = run.size])
    /\ Finishes

-----------------------------------------------------------------------------
(* The rest of fuseUnlink.                                                 *)

FreeInMap ==
    /\ run.at = "freeMap"
    /\ run.cur # FAT_END
    /\ setMap(run.cur, FALSE)
    /\ GoesOn([run EXCEPT !.next = fatArray[run.cur], !.at = "freeFat"])

FreeInTable ==
    /\ run.at = "freeFat"
    /\ setNext(run.cur, FAT_END)
    /\ GoesOn([run EXCEPT !.cur = run.next, !.at = "freeMap"])

\* One turn of the loop of deleteFile that finds the name.
DeleteEntry ==
    /\ run.at = "freeMap"
    /\ run.cur = FAT_END
    /\ \E s \in getRootEntryFile(rootFiles, run.n) :
          /\ setEntry(s, NULL)
          /\ openFiles' = [h \in Handles |-> IF openFiles[h] = s THEN DANGLING ELSE openFiles[h]]
          /\ run' = IF Named(rootFiles, run.n) = {s} THEN NULL ELSE run
    /\ UNCHANGED <<openCount, handles, container, mounted>>
    /\ IF run' = NULL THEN Replies("ok") ELSE UNCHANGED <<ret, buf>>

-----------------------------------------------------------------------------
\* The handler that runs makes its next step.
HandlerStep ==
    /\ ~Idle
    /\ \/ TakeBlock \/ Attach \/ Link \/ WriteData \/ WriteEntry
       \/ KeepBlock \/ CutBlock \/ FreeSpareBlock \/ StoreSize
       \/ FreeInMap \/ FreeInTable \/ DeleteEntry
    /\ UNCHANGED call

\* The process is killed within a handler.
KillWithin ==
    /\ ~Idle
    /\ run.op \in Faults
    /\ ProcessEnds("killed")
    /\ run' = NULL
    /\ UNCHANGED <<container, rootDisc, fatDisc, dmapDisc, blockData, call>>

\* The handlers that write one block at most.
ShortHandler ==
    \/ fuseInit
    \/ fuseDestroy
    \/ Kill
    \/ Undefined
    \/ \E n \in Names \cup LongNames, mode \in Modes : fuseMknod(n, mode)
    \/ \E p \in Names, q \in Names \cup LongNames : fuseRename(p, q)
    \/ \E n \in Names : fuseGetattr(n)
    \/ \E n \in Names, mode \in Modes : fuseChmod(n, mode)
    \/ \E n \in Names, uid \in Uids : fuseChown(n, uid)
    \/ fuseReaddir
    \/ \E n \in Names : fuseOpen(n)
    \/ \E h \in Handles : fuseRelease(h)
    \/ \E h \in Handles, off \in 0..MaxSize, size \in ReadSizes : fuseRead(h, off, size)

StepsNext ==
    \/ Idle /\ ShortHandler /\ UNCHANGED run
    \/ \E n \in Names : StartUnlink(n)
    \/ \E h \in Handles, off \in 0..(MaxSize - 1), size \in 1..MaxSize, v \in Bytes :
          off + size <= MaxSize /\ StartWrite(h, off, size, v)
    \/ \E n \in Names, newSize \in 0..MaxSize : StartTruncate(n, newSize)
    \/ HandlerStep
    \/ KillWithin

\* The one thread of the process goes on with the handler it is in.
StepsSpec == StepsInit /\ [][StepsNext]_stepVars /\ WF_stepVars(HandlerStep)
-----------------------------------------------------------------------------
(***************************************************************************)
(* Every handler returns, or takes the process with it: no call hangs the  *)
(* only thread of the file system.  The loops of fuseUnlink and            *)
(* fuseTruncate end because they cut what they visit; the one of           *)
(* setFATBlocks ends only if the chain it walks does, although setNext may *)
(* close a cycle that the next step opens again.                           *)
(***************************************************************************)
HandlersReturn == ~Idle ~> Idle

(***************************************************************************)
(* getCertainNumberOfFreeBlocks: "Gibt die Indexe der gewuenschten Anzahl  *)
(* an freien Bloecken zurueck" (returns the indices of the given number of *)
(* free blocks).  A block that is taken belongs to no file.                *)
(***************************************************************************)
TakesFreeBlocks ==
    [][~Idle /\ run.at = "take" /\ run' # NULL =>
          \A s \in Files : run'.new[Len(run'.new)] \notin BlocksOf(s)]_stepVars

\* Without "shrink", and if no kill hits an unlink: when no handler runs, the
\* blocks of a file are marked as used.
MarkedAtRest == Idle => BlocksOfFilesUsed

(***************************************************************************)
(* fuseWrite: "Number of bytes written on success, -ERRNO on failure."  If *)
(* it reports success, the bytes can be read back.                         *)
(***************************************************************************)
WritesStored ==
    Idle /\ call[1] = "write" /\ ret = "ok" =>
        LET f == rootFiles[openFiles[call[2]]]
        IN  \A i \in call[3]..(call[3] + call[4] - 1) :
               ByteAt(fatArray, f.firstBlock, i) = call[5]
=============================================================================
