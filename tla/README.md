# MyFS: a verification project

MyFS is a FUSE file system in C++ with a flat root directory. It comes in two
versions that are chosen at mount time: `MyInMemoryFS` keeps files in a map,
`MyOnDiskFS` keeps them in a container file of 512-byte blocks. This directory
holds TLA+ models of it, TLC configurations that check them on small
instances, and TLAPS proofs for all instances. Line references are to the
repository (`src/` here is its root).

## Inventory

| Component | State | Operations | Talks to |
|---|---|---|---|
| `MyOnDiskFS` (`src/myondiskfs.cpp`) | table of open files `openFiles[64]`, `openCount`; the data blocks | one handler per FUSE call: init, destroy, mknod, unlink, rename, getattr, chmod, chown, open, release, read, write, truncate (two), readdir | calls `Root`, `FAT`, `DMAP`, `BlockDevice`; called by libfuse |
| `Root` (`src/Root.cpp`) | `rootFiles[64]`, the directory entries, each with a copy in its own block | init, initRootDir, getRootEntryFile, createNewFile, deleteFile, discWrite | `BlockDevice` |
| `FAT` (`src/FAT.cpp`) | `fatArray`: for each block the next block of its file; a copy in the container, two bytes per entry | getNext, setNext, freeBlock, discWrite, init | `BlockDevice` |
| `DMAP` (`src/DMAP.cpp`) | `dmapArray`: which blocks are in use; a copy in the container, a byte per entry | setBlock, getFirstFreeBlock, getCertainNumberOfFreeBlocks, discWrite, init | `BlockDevice` |
| `BlockDevice` (`src/blockdevice.cpp`) | the container file | create, open, close, read, write | the operating system |
| `MyInMemoryFS` (`src/myinmemoryfs.cpp`) | `files`: a map from names to entries with their data and a flag `used` (the file is open); `openCount` | the same handlers | called by libfuse |
| libfuse, `mount.myfs.c`, `wrap.cpp`, `myfs.cpp` | libfuse: the path of each open file | options; forwarding; `-s` (`mount.myfs.c:180`) | the kernel, the handlers |

Interaction is by synchronous calls. libfuse runs with `-s`: one handler at a
time, on one thread. There are no locks, callbacks or queues in the program.
What makes it hard:

- **Three tables that must agree** (entries, table, map), each twice: in
  memory and in the container. Every handler updates several of them in loops,
  and after every change of an entry writes a device block.
- **Handlers of different open files interleave**, so chains of blocks
  interleave; a handle outlives renames of its file; libfuse passes a handle
  *and* a path, some handlers use one, some the other.
- **The process dies**: killed, between two handlers or within one, or by its
  own null pointer when the volume is full. What the container then holds is
  what the next mount works with.
- **Boundaries**: full directory, full volume, full table of open files, the
  last byte of a block, a write behind the end of a file, sizes that do not fit
  an `int`.
- **Loops along chains** on the only thread: a cycle in the table hangs the
  whole file system.

What makes a component correct:

- `FAT`: walks end; the container holds the table.
- `DMAP`: what is marked is never given out; the container holds the map.
- `Root`: a name resolves to one entry; the container holds the entries.
- `MyOnDiskFS`: a block has one owner and is marked; a chain has a block for
  every byte; no block is lost; handles are accounted for and mean the file
  their path means; a handler returns; and all in all: files are byte sequences
  that only the calls on them change.
- `MyInMemoryFS`: the same of the files; the flag and the count are those of the
  open files.

The hazards at their lines are listed in `PROJECT.json`.

## Modules

| Module | Models |
|---|---|
| `MyFSStructs` | layout constants of `includes/myfs-structs.h`, `numBlocks` |
| `FuseTypes` | names, modes, users, bytes |
| `Fuse` | external: what libfuse keeps (`handles`: the path of each open file) and sees (`call`, `ret`, `buf`) |
| `FAT`, `DMAP`, `Root` | `FAT.cpp`, `DMAP.cpp` (with a specification of its own, `DmapSpec`), `Root.cpp` |
| `MyOnDiskFS` | `myondiskfs.cpp`, a handler per action: composes the four above |
| `MyOnDiskFSSteps` | the handlers that write several device blocks, a block write or a turn of a loop per action |
| `FileBlocks` | how many blocks a file gets, with `int` as wide as it is |
| `MyInMemoryFS` | `myinmemoryfs.cpp`, a handler per action: composes `Fuse` and a map |
| `MyInMemoryFSClients` | the same with clients that are careful, or not, for a whole behavior |
| `FileStore` | abstract: what the comments over the handlers promise, of both versions |
| `MyOnDiskFSRefinement`, `MyInMemoryFSRefinement` | the mappings to `FileStore` |
| `MyOnDiskFSStepsRefinement` | the mappings from `MyOnDiskFSSteps` to `MyOnDiskFS` and to `FileStore` |
| `MCMyOnDiskFS`, `MCMyOnDiskFSSteps`, `MCMyInMemoryFS` | model values, views and symmetry for TLC |
| `MyOnDiskFS_proofs` | lemmas about layout, table, map and directory; a theorem about `DmapSpec`; types, open files |
| `MyOnDiskFSDisc_proofs` | what the container holds; walks end; names, the map |
| `MyOnDiskFSBlocks_proofs` | owners of blocks, what a handler does to the chains, a block for every byte, no block lost |
| `MyOnDiskFSRefinement_proofs` | the handlers implement `FileStore` |
| `MyOnDiskFSSteps_proofs` | which bytes the loop of `fuseWrite` fills; types of the locals of a handler, owners of blocks over single steps and kills within a handler |
| `MyOnDiskFSStepsRefinement_proofs` | what a handler has done so far; the steps of a handler implement its action |
| `FileBlocks_proofs`, `MyInMemoryFS_proofs` | theorems about these two, the latter with its refinement and its clients |

### How the state corresponds

`rootFiles`, `fatArray`, `dmapArray`, `openFiles`, `openCount` have the names
of the code. `rootDisc`, `fatDisc`, `dmapDisc`, `blockData` are the container,
as the code that reads it would see it: `rootDisc[s]` is `NULL` where the
`valid` flag is not set, `fatDisc` is decoded, and `dmapDisc` is kept by device
block because writing and reading disagree about where an entry is.
`container` says whether the file exists, `mounted` whether the process runs.
`openFiles[h]` is the slot of the entry the pointer leads to, `NULL`, or
`DANGLING` when `deleteFile` has deleted the entry. Times, group ids and the
block size in an entry are left out, as no decision depends on them.

In `MyInMemoryFS`, `files` is a function from the names in use to records: the
bytes (`data`, whose length is the `size` of the code), the flag `used`
(the file is open), permissions and owner.

`MyOnDiskFSSteps` adds `run`: the handler that runs, its arguments and its
locals (`k` = `blocksAll`, `new` = `newBlocks`, `cur` = `currentBlock`, `next`,
`i`), and where in its code it is (`at`). `FileBlocks` reduces a file to three
numbers: its size, the length of its chain, and how many blocks are free.

### How the actions correspond

In `MyOnDiskFS` and `MyInMemoryFS` there is one action per handler, with the
name of the handler, and it is the whole handler: every early return is a
disjunct, in the order of the code. Loops are given in closed form by operators
named for what they do:

- `Chain`: `while (block != FAT_END) block = getNext(block)`;
- `getCertainNumberOfFreeBlocks`: repeated search for the first free block, each
  marked before the next search, hence the smallest free blocks, ascending;
- `Marked`, `DmapDiscWrite`: `setBlock` and `discWrite` for each block of a
  sequence. `discWrite` (`DMAP.cpp:67`) copies a window of the map as it is at
  that moment, so the result depends on the last setting that hits it;
- `Linked`, `Unlinked`, `FatDiscWrite`: `setNext`, `freeBlock` and `discWrite`
  for each block. Of the writes of one device block the last one counts, and it
  sees the final table;
- `Written`: the copying of bytes, block by block.

Three actions have no handler. `Kill` is the death of the process between two
handlers. `GoesAstray` is undefined behaviour: a read past the end of
`rootFiles` in a full directory (`Root.cpp:77`; the build may return `EINVAL`
instead, and the model has both), a handle whose entry was deleted, a read
whose size wraps around (`myondiskfs.cpp:274`). After it the model says nothing
(`Undefined`). `OutOfBlocks` is the null pointer of `setFATBlocks`
(`myondiskfs.cpp:384`).

`MyOnDiskFSSteps` has the same handlers, but `fuseUnlink`, `fuseWrite` and
`fuseTruncate` run step by step: `StartUnlink`, `StartWrite`, `StartTruncate` go
to the first block write, and then each action is one turn of a loop (`TakeBlock`
and `Attach` and `Link` in `setFATBlocks`, `WriteData` and `WriteEntry` in
`fuseWrite`, `KeepBlock`, `CutBlock`, `FreeSpareBlock` and `StoreSize` in
`fuseTruncate`, `FreeInMap`, `FreeInTable` and `DeleteEntry` in `fuseUnlink`)
with the at most one device block it writes. No other handler runs in between
(`-s`), but `KillWithin` may end the process there, and a block write may fail
without anybody noticing (`DeviceWrite`). `Faults` says in which handlers kills
happen, and whether writes fail (`"device"`).

### The environment

From how `mount.myfs.c` starts it, libfuse: calls one handler at a time; calls
`release` once per open and ignores its result; does not pass on the removal
of an open file nor a rename onto one (it renames the open file to a free name
first, as `hard_remove` is not given); moves the path of open files along with
renames. The kernel asks for no bytes behind the end of the file, and unmounts
only when no file is open. These are guards in the handlers of the model.

A new container starts with `dmapArray` uninitialised (`DMAP::DMAP` sets
nothing and `fuseInit` reads nothing): `Garbage` is a set of maps it may start
with. `fatArray` is not initialised either (`FAT.cpp:7`), but taken as zeros
(`BlankFat`): it is so large that the allocator gets its pages from the kernel,
which hands them out zeroed. Without this, `FatPersisted` and `ChainsEnd` would
not hold on a new container.

### Workload

Some calls expose the faults listed below and then everything is possible that
follows from them. So that the rest can be checked too, `Workload` says which
of these calls the clients make:

- `"replace"`: rename onto an existing name;
- `"shrink"`: truncate so that some but not all blocks become spare;
- `"grow"`: truncate to a larger size;
- `"straddle"`: write from in front of the last block to behind it;
- `"fill"`: ask for more blocks than are free.

and for the in-memory version:

- `"replace"`: as above;
- `"reopen"`: open a file that is open.

A property that depends on a Workload says so in its comment. The invariants of
run `disc_any`, and the theorems without an assumption about `Workload`, hold
for every Workload.

## Runs

| Run | Bounds | Checks |
|---|---|---|
| `disc_any` | every Workload; 3 names, 2 slots, 1 handle, 3 data blocks of 1 byte, 2 device blocks of table and map, a new map with garbage | types; walks end; table and directory survive a kill between calls; handles accounted for; paths of open files resolve |
| `disc_store` | none of the risky calls; 3 names, 2 slots, 2 handles, 3 data blocks of 1 byte with 2 values, files of up to 3 bytes | names unique, handles mean the entry of their path, a block for every byte, no block lost, shared or given away, the map survives a kill, and the handlers implement `FileStore` |
| `steps_atomic` | every Workload, no faults; 2 names, 2 slots, 1 handle, 2 data blocks of 1 byte, files of up to 2 bytes, 2 device blocks of map | every handler returns; the steps of a handler amount to the action of `MyOnDiskFS` |
| `steps_torn` | `"fill"`, kills within writes; 2 names, 2 data blocks of 2 bytes with 2 values, files of up to 3 bytes | a kill at any point within a write costs no more than that write (`FileStore` with `TornWrite`) |
| `steps_tears` | all but `"shrink"`, kills within writes and truncations, a new map with garbage; 2 names, 3 data blocks of 1 byte | no block gets two owners, blocks of files are marked whenever no handler runs, and no block of a file is handed out |
| `file_blocks` | writes and cuts to 0; blocks of 2 bytes, 11 blocks, sizes up to 31, an `int` of 6 bits | a block for every byte, and at most twice the blocks that are needed |
| `mem_store` | both risky calls, and clients that make none; 3 names, limit of 2 open files, 2 bytes with 2 values | paths of open files exist, the limit holds, no file stays marked as open; for clients that make none: flags and count are exact and the handlers implement `FileStore` |

`Faults` is empty where none are named. Five runs expect a violation (see
Findings): `truncate_blocks`, `write_own`, `dmap_persisted`, `torn_unlink`,
`torn_append`.

**The bounds.** Two files suffice for sharing a block, and a third name for one
that is free beside them. With three data blocks two chains interleave (one
file has the first and the third), are freed and are reallocated in another
order, a truncated chain runs into a block of another file, and the volume fills
up. There is one value of permissions; that the in-memory handlers set the ones
they are given is proved (`InMemoryImplementsFileStore`). Two bytes per block give positions at,
before and behind a boundary; of the three `memcpy`s of `fuseWrite`, a write of
three bytes from position 0 or 1 uses two. Two device blocks of table and map
tell writing the right one from writing another. `MaxSize` bounds files, nothing
else grows. The map of `disc_store`, `steps_torn` and `steps_tears` fits one
device block, because behind that a remount reads another map (finding 3) and
blocks get two owners; `disc_any` and `steps_atomic` have two. In `file_blocks`
11 blocks run out for sizes from 22 on, and before that where a write skips
blocks.

**Views.** `MCMyOnDiskFS` drops the last call and its result, and the identity
of names, from the states TLC tells apart; `MCMyOnDiskFSSteps` and
`MCMyInMemoryFS` drop the former. No action depends on what is dropped (but for
`ret = "undefined"`, which is kept), the invariants do not look at it, and the
properties that do (the refinements) are about steps, and TLC checks every step,
also one into a state already seen. `HandlersReturn` depends on `run` alone,
which the view keeps.

**Careful clients.** The variable `careful` of `MyInMemoryFSClients`, which
`mem_store` checks, is set at the start and never changes: the clients of a
behavior make none of the risky calls, or any. One run so checks both what
always holds and what holds for them.

**Liveness and fairness.** `StepsSpec` assumes `WF(HandlerStep)`: the thread that
runs a handler goes on with it. Nothing else competes for that thread, since `-s`
makes libfuse serve one call at a time. Calls and kills are not fair: nobody has
to make them. `HandlersReturn` says that no handler runs for ever. It can fail
only in the loop of `setFATBlocks` (`myondiskfs.cpp:386`), which does not change
what it walks; there a turn along a block that points to itself changes nothing
at all, which counts as a step that is not taken, as it is for the client. The
other specifications have one step per call and state no fairness.

### Findings

Each has a run in which TLC finds the promise of a comment broken.

1. `truncate_blocks`: truncating to a smaller size frees blocks that stay in
   the chain of the file; other files are given them (`myondiskfs.cpp:471`).
2. `write_own`: a write that starts in front of the last block and needs new
   blocks gets too few, and writes its last bytes to data block 0, which all
   such files share (`myondiskfs.cpp:377`).
3. `dmap_persisted`: behind its first device block the map is written to the
   wrong places, so a remount reads another map: used blocks as free, or free
   ones as used, as in the trace (`DMAP.cpp:67`).
4. `torn_unlink`: a kill within a removal leaves a file whose blocks count as
   free; after the next mount they are given to others, or to that file again,
   as in the trace (`myondiskfs.cpp:106`).
5. `torn_append`: a truncated file is given its own freed block, and a kill
   keeps the cycle that this closes for one step; after the next mount an
   append to the file never returns (`myondiskfs.cpp:389`).

Further configurations lie beside these. Each shows one more disagreement; run
them with `tlc -config <name>.cfg <module>`:

| Configuration | Module | Shows |
|---|---|---|
| `rename_replaces` | `MCMyOnDiskFS` | a rename onto an existing name leaves the name twice (`myondiskfs.cpp:140`) |
| `truncate_size` | `MCMyOnDiskFS` | a truncation to a larger size does not set the size (`:459`) |
| `write_returns` | `MCMyOnDiskFS` | a write to a full volume ends the process (`:384`) |
| `read_behind` | `MCMyOnDiskFS` | a file whose name was given twice is read through the other one, behind its end (`:274`) |
| `mknod_mode` | `MCMyOnDiskFS` | the permissions that `mknod` is given are ignored |
| `mknod_full` | `MCMyOnDiskFS` | in a full directory the search leaves `rootFiles` (`Root.cpp:77`) |
| `write_2gib` | `FileBlocks` | from 2 GiB on a file has no blocks for its bytes (`:370`) |
| `device_fails` | `MyOnDiskFSSteps` | one failed block write, and a successful `write` cannot be read back (`blockdevice.cpp:109`) |
| `mem_rename` | `MCMyInMemoryFS` | a rename onto an existing name loses the file that is renamed (`myinmemoryfs.cpp:141`) |
| `mem_read` | `MCMyInMemoryFS` | a read reports bytes behind the end of the file (`myinmemoryfs.cpp:290`) |
| `mem_owner` | `MCMyInMemoryFS` | the owner that `getattr` reports is not that of the file |

A misspelling without effect on clients of this model: `ENONET` for `ENOENT`
(`myinmemoryfs.cpp:213` and `:234`); the refinement takes one for the other.

## Proofs

TLAPS proves, from the named assumptions about the constants
(`LayoutAssumption`, `FuseAssumption`, `NullAssumption`, `OnDiskAssumption`,
`FileBlocksAssumption`, `InMemoryAssumption`, `JobAssumption`: sizes are positive, block numbers
fit two bytes, the window of `discWrite` lies inside the map, the null values
differ from the others):

| Theorem | Says | For |
|---|---|---|
| `TypeCorrect` | `Spec => []TypeOK` | every Workload |
| `DescriptorsNeverLeak` | `Spec => []DescriptorsAccounted` | every Workload |
| `OpenPathsResolve` | `Spec => []OpenPathsExist` | every Workload |
| `WalksEnd` | `Spec => []ChainsEnd` | every Workload |
| `TableSurvives` | `Spec => []FatPersisted` | every Workload |
| `DirectorySurvives` | `Spec => []RootPersisted` | every Workload |
| `MapSurvives` | `Spec => []MapPersisted` | every Workload; a new map that starts clean |
| `NamesStayUnique`, `HandlesMeanTheirPath` | `Spec => []NamesUnique`, `[]HandlesResolve` | clients without `"replace"` |
| `BlocksStayApart`, `BlocksStayUsed` | `Spec /\ []UsedInFirstMapBlock => []BlocksNotShared`, `[]BlocksOfFilesUsed` | clients without `"shrink"` |
| `SizesStayCovered` | `Spec /\ []UsedInFirstMapBlock => []ChainCoversSize` | clients without `"shrink"` and `"straddle"` |
| `NothingLeaks` | `Spec /\ []UsedInFirstMapBlock => []NoLeak` | no risky calls but `"straddle"`; a new map that starts clean |
| `OnDiskImplementsFileStore` | `Spec /\ []UsedInFirstMapBlock => ImplementsFileStore` of `MyOnDiskFS` | no risky calls but `"fill"`; one mode |
| `StepsTyped` | `StepsSpec => []StepsTypeOK` | every Workload and all Faults |
| `StepsKeepBlocksApart`, `StepsLeaveMarks` | `StepsSpec /\ []UsedInFirstMapBlock => []BlocksNotShared`, `[]MarkedAtRest` | clients without `"shrink"`; kills within writes and truncations |
| `StepsTakeFreeBlocks` | `StepsSpec /\ []UsedInFirstMapBlock => TakesFreeBlocks` | the same |
| `StepsImplementHandlers` | `HistorySpec => ImplementsAtomicHandlers`: the steps amount to `Spec` of `MyOnDiskFS` | every Workload; no Faults |
| `WriteFillsItsBytes` | the i-th turn of the loop of `fuseWrite` fills the bytes from `offset` up to `offset + size`, and no other | every block size, offset and length |
| `DmapFirstBlock` | `DmapSpec => []FirstDmapBlockPersisted` | any calls and restarts |
| `CountsTyped`, `CountsConserved` | `Spec => []TypeOK`, `[]Conserved` of `FileBlocks` | every width of `int` |
| `SizesCovered` | `Spec => []SizeCovered` of `FileBlocks` | sizes that fit an `int`, without `"straddle"` |
| `SpaceIsBounded` | `Spec => []SpaceBounded` of `FileBlocks` | sizes that fit an `int`, without `"grow"` |
| `FilesTyped`, `OpenPathsLeadToFiles`, `LimitIsUpheld`, `NoFileStuckInUse` | the invariants of `MyInMemoryFS` | every Workload |
| `MemoryDescriptorsAccounted` | `Spec => []DescriptorsAccounted` of `MyInMemoryFS` | clients without `"replace"` |
| `InMemoryImplementsFileStore` | `Spec => Store!Spec` of `MyInMemoryFSRefinement` | no risky calls; one user |
| `CarefulClientsAccounted` | `ClientsSpec => []CarefulAccounted` | every Workload; says something of careful clients |
| `CarefulClientsStore` | `ClientsSpec => CarefulStore` | the same; one user |

The arguments, on disc (`MyOnDiskFS`):

- **Open files** (`OpenInv`). Types alone are not inductive: `openCount - 1`
  stays in range only because the count is that of the open handles; the
  handle is given back only because the path still names an entry; and a write
  through a handle is typed only because the slot it points to holds an entry
  (`HandlesRefer`). A mount changes the directory, so no handle may be open
  before it (`UnmountedClosed`). One lemma per handler.
- **Table** (`FatInv`). `FatPersisted` needs that an unmounted process has a
  blank table and that a missing container reads as one. For `ChainsEnd`: no
  set of data blocks is closed under the table. Freeing maps blocks to
  `FAT_END`, which is outside of every such set. After appending, a set that
  holds one of the new blocks is left behind the last of its new blocks
  (blocks are distinct, so the largest index is well defined); a set without
  one is left where it was before, unless that was at the block appended to,
  and then at the first new block. The argument does not need that the new
  blocks are not in the chain already, which truncation makes false.
- **Directory** (`RootInv`). `RootPersisted` is not inductive: an extension
  writes nothing, so the first block it sets must be that of an empty file.
  That needs `HaveFirstBlocks`: a file with bytes has a first block; and that
  needs the arithmetic of `blocksAll` for the first write to an empty file.
- **Map** (`FirstInv`, `MapInv`). The window of the first device block is
  copied after the last setting in it. What the container holds before the first
  mount is blank, as is the map in memory if it starts clean.
- **Names** (`NameInv`). Names must be unique on disc as well, as a mount reads
  them; and a handle must point to the entry with its path, or a removal that
  goes by the path would leave another handle dangling.
- **Owners** (`OwnInv`). There is a function from blocks to slots, or to nobody,
  such that the table leads from a block to one of the same owner, each file
  owns its first block, in memory and on disc, and a block with an owner is
  marked, so that the next mount finds the mark. The function is no part of the
  state. Blocks that leak keep their owner; an allocation takes free blocks,
  which have none; the end of the process in a full volume only adds marks. From
  it, everything a walk visits has one owner (`ChainOwned`). The assumption
  `[]UsedInFirstMapBlock`, that blocks in use have their marks in the first
  device block of the map, is needed because of finding 3 (at 512 bytes per
  block, a volume of which only the first 512 blocks are in use).

- **Chains**. `ChainsAppend` and `ChainsFree` say what a handler does to the
  blocks `getNth` counts off: appending `new` to the last block of a file makes
  its chain longer by `Len(new)` and leaves the chains of the others alone,
  because these run through blocks of other owners; freeing the blocks of a
  removed file leaves the chains of the others alone. Neither holds without
  `OwnInv`.
- **A block for every byte** (`CoverInv`). `ChainCoversSize`, in memory and in
  the container. That blocks exist for the bytes is arithmetic of `blocksAll`
  when the file is extended, and `ChainsAppend`.
- **No block lost** (`LeakInv`). A block that is marked is on the chain of an
  entry, in memory and in what a mount would read. TLC shows that both fail
  otherwise: with `"shrink"` a file is shorter than its size, and with
  `"replace"` nobody reaches the blocks of the second entry.
- **Files are byte sequences** (`StoreInv`). The refinement joins the invariants
  above, since each handler's step needs several of them, and there is one lemma
  per handler (`WriteFileStep`, `TruncateStep`, ...) that says which action of
  `FileStore` it is. A write: no block is twice in a chain, so the bytes written
  are the bytes meant and no others (`WrittenBytes`); the blocks of other files
  are none of these (`AppendedOthers`); a new block is one nobody reads. A kill
  and an unmount lose nothing: the container holds what memory holds
  (`DiscFiles`). `Modes = {DefaultMode}`, as `fuseMknod` ignores the mode it is
  given (`mknod_mode`), and `FileStore` does not.

Over single steps (`MyOnDiskFSSteps`):

- **Locals** (`OpenInv`, `JobInv`). That a handler never holds more blocks than
  there are, and so that `new` stays in its type, is no matter of its guards:
  each block it has taken is marked, so the blocks are distinct, and distinct
  data blocks are at most `NUMBER_DATA_BLOCKS`. The entry it works on is there
  until it returns, because no other handler runs in between (`KeepsEntries`).
  `OpenInv` is that of the one-step handlers, and the lemmas about those are
  used again where a handler returns at once.
- **Owners** (`StepsOwnInv`). Again a function from blocks to slots, which no
  variable holds. A block that was taken is marked but has no owner and no link
  (`Loose`) until `Attach` or `Link` gives it one, so a kill at this point loses
  space and no data. A block that is being freed keeps its owner until the
  handler returns, and for as long may be without a mark (`Freeing`); this is
  sound since the handler that frees takes no block, and it is why a kill within
  `fuseUnlink` is left out: it makes the exemption permanent, and `torn_unlink`
  shows where that leads. `LinksMarked` is the part that was missing from a
  first attempt: a block without a mark must not lead anywhere, or what is taken
  would bring the rest of an old chain with it; a truncation that
  stops half way breaks it (`truncate_blocks`, `torn_append`). A truncation that
  keeps all blocks walks the chain to its end and does not find one to cut
  (`KeepsChain`). `FatInv` holds at every step, since the copy in memory and the
  one in the container are changed together. When no handler runs,
  `StepsOwnInv` says what `OwnInv` says of the one-step handlers
  (`RestingOwners`).

- **Done so far** (`DoneSoFar`). From outside, the state while a handler runs is
  the one in which it was called (`before`, a history variable of
  `MyOnDiskFSStepsRefinement`). So all its steps but the last must be stutters,
  and the last one must take that state to what the action makes of it. The
  invariant says, at each place in the code, what the state is in terms of the
  one the handler was called in: which free blocks are marked (`Extending`), up
  to which the links are made (`LinkedUpTo`), which bytes are written
  (`WrittenUpTo`), which blocks are freed in the map and in the table, between
  which two writes the loop may stand (`FreedUpTo`), and which entries are
  deleted (`Unlinking`). One lemma per step keeps it (`TakeStep`, `LinkStep`,
  ...), and at the last step it is the effect of the action: the first free
  blocks one by one are `getCertainNumberOfFreeBlocks`; links one by one are
  `Linked`; the three lengths for `memcpy` make `Written` (`SameBytes`, from
  `WriteFillsItsBytes`); writes of the map after each change are
  `DmapDiscWrite`. No owners are needed, only that walks end, so this holds for
  every Workload. A walk that the action does in the table as it was and the
  loop in the table as it has become must not see its own changes: the loop
  reads the successor of a block before it frees the block.

What a walk computes is defined by recursion over its steps. `MyOnDiskFS_proofs` unfolds
it without induction: a least number of steps for which no such walk exists
would have a predecessor (`WalkExists`, `WalksAgree`, `getNthSteps`); the same
way, a walk that starts in a set closed under the table but for `FAT_END` stays
in it (`WalkStays`, `ChainBlocks`). The invariants of the container share the
case distinction `StepKinds`.

`WriteFillsItsBytes` is about numbers only: `numBlocks` of the bytes from the
beginning of the first block is the index of the last one plus one (`LastBlock`),
and what `newOffset` has grown to is a multiple of the block size less what the
first block skips.

In `FileBlocks`, `SpaceBounded` is not inductive; the strengthening `Excess` is
sharper and distinguishes a file whose last block is full. In `MyInMemoryFS`,
`MemInv` joins the four invariants: the limit holds because every step that
lowers `openCount` closes a handle whose file is marked. That flags and count are
exact is kept by each step that is no risky call (`NoReplace`), and so is the
refinement (`NoRisk`), whatever `Workload` would permit; the steps of careful
clients are such steps (`CarefulClientsAccounted`, `CarefulClientsStore`). The
refinement has one user, as `getattr` reports the one who asks (`mem_owner`).

Only model-checked: that the steps with kills within writes implement the store
with torn writes (`ImplementsTornStore`; its proof would use the lemmas about
`MyOnDiskFS` for the state seen from outside, and the prover does not find the
lemmas of a module that is instantiated under a mapping); what holds with kills within
`fuseUnlink`, which is less, and with failing block writes, beyond the types; and
liveness (`HandlersReturn`), which is beyond the prover, as is ENABLED.

## Not modelled

- Reads and opens of the container that fail, and writes that fail in handlers
  that write one block at most; the error paths of `fuseInit`, two processes on
  one container.
- Kills within `fuseUnlink` and `fuseTruncate` are modelled (`torn_unlink`,
  `steps_tears`), but no abstract promise is stated for them: `FileStore` has
  torn writes only.
- An allocation that fails (`realloc` in `fuseTruncate` of the in-memory
  version), and `FAT::setNext`, which is declared to return an `int` and returns
  none; no caller looks at it.
- Bytes: the models have one or two values, and all bytes of one write the same.
  So it is exact which bytes of a file a write changes, but not from where in the
  buffer they come (`buf + newOffset`, `myondiskfs.cpp:349`). Times, group ids, the layout of an
  entry and of the attributes libfuse is given.
- Logging, option parsing, `mount.myfs.c` beyond the options it sets, forwarding
  (`wrap.cpp`, `myfs.cpp`): no state, or none that decides anything. The tests,
  and `catch.hpp`, the vendored framework, which alone is most of the lines of
  the repository.
- Reads that start behind the end of a file, but where a rename has given its
  name twice: the kernel does not ask for them. What `getattr` says of `/`, and
  `.` and `..` in `readdir`: no state.
- Five hazards have no property, as none can hold there, but a configuration that
  shows what happens: a read that starts behind the end (`myondiskfs.cpp:274`,
  `read_behind`); sizes that do not fit an `int` (`:370`, `write_2gib`); a read
  of the in-memory version that is not cut off (`myinmemoryfs.cpp:290`,
  `mem_read`; the refinement cuts it off as the kernel does); the search past the
  end of a full directory (`Root.cpp:77`, `mknod_full`; the model ends the
  process or reports the error); and a device that fails (`blockdevice.cpp:109`,
  `device_fails`; no caller looks at the result).

## Plan

Done: all handlers of both versions, mounts, kills between and within handlers,
refinement to `FileStore` of both and of the steps to the handlers, liveness of
the handlers, the arithmetic of blocks; proofs of all invariants of the two
versions and of their refinements to `FileStore`; types, owners of blocks and
marks over single steps; the refinement of the steps to the handlers.

Next:

1. Chains over single steps, in the way of `CoverInv`, and with `DoneSoFar` what
   a kill leaves of a write, towards a proof of `ImplementsTornStore`; the lemmas
   of `MyOnDiskFSRefinement_proofs` restated for two given states.
2. An abstract promise for kills within `fuseTruncate` and `fuseUnlink`.
