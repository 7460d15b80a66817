----------------------- MODULE MyOnDiskFSSteps_proofs -----------------------
(***************************************************************************)
(* The handlers step by step: the arithmetic of the copying loop of        *)
(* fuseWrite, what the locals of a running handler may be, and who owns    *)
(* the blocks while handlers run and when they are killed within.          *)
(***************************************************************************)
EXTENDS MyOnDiskFSSteps, MyOnDiskFSBlocks_proofs

-----------------------------------------------------------------------------
(* The bytes that a write fills.                                           *)

\* Multiples of a number keep the order of what is multiplied.
LEMMA TimesMonotone ==
    ASSUME NEW d \in Nat, NEW x \in Nat, NEW y \in Nat, x <= y
    PROVE  x * d <= y * d
OBVIOUS

LEMMA DivMod ==
    ASSUME NEW d \in Nat \ {0}, NEW x \in Nat
    PROVE  /\ x \div d \in Nat /\ x % d \in 0..(d - 1)
           /\ x = (x \div d) * d + (x % d)
OBVIOUS

\* The last of numBlocks(x) blocks, for x > 0, is reached and is not exceeded.
LEMMA LastBlock ==
    ASSUME NEW x \in Nat \ {0}
    PROVE  /\ numBlocks(x) \in Nat \ {0}
           /\ (numBlocks(x) - 1) * BLOCK_SIZE < x
           /\ x <= (numBlocks(x) - 1) * BLOCK_SIZE + BLOCK_SIZE
<1>1. BLOCK_SIZE \in Nat \ {0}
  BY LayoutAssumption
<1> DEFINE a == x \div BLOCK_SIZE
           r == x % BLOCK_SIZE
<1>2. a \in Nat /\ r \in 0..(BLOCK_SIZE - 1) /\ x = a * BLOCK_SIZE + r
  BY <1>1, DivMod
<1>3. numBlocks(x) = a + (IF r # 0 THEN 1 ELSE 0)
  BY DEF numBlocks
<1> HIDE DEF a, r
<1>4. CASE r # 0
  BY <1>1, <1>2, <1>3, <1>4
<1>5. CASE r = 0
  <2>1. a # 0
    BY <1>1, <1>2, <1>5
  <2>2. numBlocks(x) - 1 = a - 1 /\ (a - 1) * BLOCK_SIZE = a * BLOCK_SIZE - BLOCK_SIZE
    BY <1>1, <1>2, <1>3, <1>5
  <2>3. (numBlocks(x) - 1) * BLOCK_SIZE = a * BLOCK_SIZE - BLOCK_SIZE
    BY <2>2
  <2>4. numBlocks(x) \in Nat \ {0}
    BY <1>2, <1>3, <1>5, <2>1
  <2> QED
    BY <1>1, <1>2, <1>5, <2>3, <2>4
<1> QED
  BY <1>4, <1>5

(***************************************************************************)
(* In the i-th block it visits, fuseWrite fills the bytes whose positions  *)
(* in the file lie between the offset and the end of the write, and leaves *)
(* the others as they were: the three lengths it hands to memcpy fit       *)
(* together for every size and offset, also where one block is all.        *)
(***************************************************************************)
THEOREM WriteFillsItsBytes ==
    ASSUME NEW off \in Nat, NEW size \in Nat \ {0},
           NEW i \in 0..(numBlocks(size + (off % BLOCK_SIZE)) - 1),
           NEW j \in 0..(BLOCK_SIZE - 1)
    PROVE  LET position == ((off \div BLOCK_SIZE) + i) * BLOCK_SIZE + j
           IN  j \in Copied(i, off, size) <=> off <= position /\ position < off + size
<1>1. BLOCK_SIZE \in Nat \ {0}
  BY LayoutAssumption
<1> DEFINE q == off \div BLOCK_SIZE
           skip == off % BLOCK_SIZE
           n == numBlocks(size + skip)
           start == i * BLOCK_SIZE
<1>2. q \in Nat /\ skip \in 0..(BLOCK_SIZE - 1) /\ off = q * BLOCK_SIZE + skip
  BY <1>1, DivMod
<1>3. /\ n \in Nat \ {0}
      /\ (n - 1) * BLOCK_SIZE < size + skip
      /\ size + skip <= (n - 1) * BLOCK_SIZE + BLOCK_SIZE
  <2>1. size + skip \in Nat \ {0}
    BY <1>2
  <2> QED
    BY <2>1, LastBlock
<1>4. i \in Nat /\ i <= n - 1
  BY <1>3
<1>5. start \in Nat /\ (i = 0 => start = 0) /\ (i # 0 => BLOCK_SIZE <= start)
  <2>1. i # 0 => 1 * BLOCK_SIZE <= i * BLOCK_SIZE
    BY <1>1, <1>4, TimesMonotone
  <2> QED
    BY <1>1, <1>4, <2>1
<1>6. i # n - 1 => start + BLOCK_SIZE < size + skip
  <2> SUFFICES ASSUME i # n - 1 PROVE start + BLOCK_SIZE < size + skip
    OBVIOUS
  <2>1. i + 1 \in Nat /\ n - 1 \in Nat /\ i + 1 <= n - 1
    BY <1>3, <1>4
  <2> HIDE DEF n
  <2>2. (i + 1) * BLOCK_SIZE <= (n - 1) * BLOCK_SIZE
    BY <1>1, <2>1, TimesMonotone
  <2>3. (i + 1) * BLOCK_SIZE = start + BLOCK_SIZE
    BY <1>1, <1>4
  <2>4. (n - 1) * BLOCK_SIZE \in Nat
    BY <1>1, <2>1
  <2> HIDE DEF start
  <2> QED
    BY <1>1, <1>2, <1>3, <1>5, <2>2, <2>3, <2>4
<1>7. i = n - 1 => start < size + skip /\ size + skip <= start + BLOCK_SIZE
  BY <1>3
<1>8. ((off \div BLOCK_SIZE) + i) * BLOCK_SIZE + j = q * BLOCK_SIZE + start + j
  BY <1>1, <1>2, <1>4
<1>9. j \in Copied(i, off, size) <=> skip <= start + j /\ start + j < size + skip
  <2>1. Copied(i, off, size) =
          IF i = 0 /\ size < BLOCK_SIZE - skip THEN skip..(skip + size - 1)
          ELSE IF i = 0 THEN skip..(BLOCK_SIZE - 1)
          ELSE IF i = n - 1 THEN 0..(size - (start - skip) - 1)
          ELSE 0..(BLOCK_SIZE - 1)
    BY DEF Copied
  <2> HIDE DEF q, skip, n, start
  <2>2. CASE i = 0
    BY <1>1, <1>2, <1>5, <1>6, <1>7, <2>1, <2>2
  <2>3. CASE i # 0 /\ i = n - 1
    BY <1>1, <1>2, <1>5, <1>7, <2>1, <2>3
  <2>4. CASE i # 0 /\ i # n - 1
    BY <1>1, <1>2, <1>5, <1>6, <2>1, <2>4
  <2> QED
    BY <2>2, <2>3, <2>4
<1>10. q * BLOCK_SIZE \in Nat
  BY <1>1, <1>2
<1> DEFINE first == q * BLOCK_SIZE
<1>11. off = first + skip /\ first \in Nat
  BY <1>2, <1>10
<1>12. ((off \div BLOCK_SIZE) + i) * BLOCK_SIZE + j = first + start + j
  BY <1>8
<1> DEFINE position == ((off \div BLOCK_SIZE) + i) * BLOCK_SIZE + j
<1>13. position = first + start + j
  BY <1>12
<1> SUFFICES j \in Copied(i, off, size) <=> off <= position /\ position < off + size
  OBVIOUS
<1> HIDE DEF first, start, skip, position, q, n
<1> QED
  BY <1>1, <1>2, <1>5, <1>9, <1>11, <1>13

-----------------------------------------------------------------------------
(* Types: what the locals of a running handler may be.                     *)

\* What a handler that runs has of its own.  The blocks it has taken are
\* marked, so it takes none twice and has no more than there are.
JobInv ==
    ~Idle =>
    /\ run \in Job
    /\ mounted
    /\ run.op = "unlink" => run.at \in {"freeMap", "freeFat"} /\ ~IsOpen(run.n)
    /\ run.op # "unlink" => rootFiles[run.s] # NULL
    /\ run.op = "write" =>
          /\ run.at \in {"take", "attach", "link", "data", "entry"}
          /\ run.v \in Bytes
          /\ run.off + run.size <= MaxSize
    /\ run.op = "truncate" => run.at \in {"take", "attach", "link", "spare", "spareMap"}
    /\ Distinct(run.new)
    /\ run.at = "take" =>
          /\ Len(run.new) < run.k
          /\ \A b \in Range(run.new) : dmapArray[b]
    /\ run.at \in {"attach", "link"} => Len(run.new) = run.k /\ run.k # 0
    /\ run.at = "link" => run.i \in 1..run.k

\* The tables and the data, without the open files.
TablesOK ==
    /\ RootTypeOK
    /\ FatTypeOK
    /\ DmapTypeOK
    /\ blockData \in [Blocks -> [0..(BLOCK_SIZE - 1) -> Bytes]]

\* No entry goes and none gets another name.
KeepsEntries ==
    \A s \in Slots : rootFiles[s] # NULL =>
        rootFiles'[s] # NULL /\ rootFiles'[s].name = rootFiles[s].name

\* The sequences of blocks that a job may hold.
LEMMA BlockLists ==
    /\ \A new \in UNION {[1..j -> DataBlocks] : j \in 0..NUMBER_DATA_BLOCKS} :
          new \in Seq(DataBlocks)
    /\ \A new \in Seq(DataBlocks) : Distinct(new) =>
          new \in UNION {[1..j -> DataBlocks] : j \in 0..NUMBER_DATA_BLOCKS}
<1>1. ASSUME NEW new \in UNION {[1..j -> DataBlocks] : j \in 0..NUMBER_DATA_BLOCKS}
      PROVE  new \in Seq(DataBlocks)
  <2>1. PICK j \in 0..NUMBER_DATA_BLOCKS : new \in [1..j -> DataBlocks]
    OBVIOUS
  <2>2. j \in Nat
    BY LayoutAssumption
  <2> QED
    BY <2>1, <2>2
<1>2. ASSUME NEW new \in Seq(DataBlocks), Distinct(new)
      PROVE  new \in UNION {[1..j -> DataBlocks] : j \in 0..NUMBER_DATA_BLOCKS}
  <2>1. Len(new) < NUMBER_DATA_BLOCKS /\ Len(new) \in Nat /\ NUMBER_DATA_BLOCKS \in Nat
    BY <1>2, DistinctBlocks, LayoutAssumption
  <2>2. Len(new) \in 0..NUMBER_DATA_BLOCKS /\ new \in [1..Len(new) -> DataBlocks]
    BY <2>1
  <2> QED
    BY <2>2
<1> QED
  BY <1>1, <1>2

\* The fields of a job.
LEMMA JobFields ==
    ASSUME NEW r \in Job
    PROVE  /\ r.op \in {"write", "truncate", "unlink"}
           /\ r.s \in Slots /\ r.n \in Names \cup {NULL}
           /\ r.off \in 0..MaxSize /\ r.size \in 0..MaxSize
           /\ r.k \in Nat /\ r.i \in Nat /\ r.cur \in Blocks /\ r.next \in Blocks
           /\ r.new \in Seq(DataBlocks)
           /\ r.v \in Bytes \cup {NULL}
BY BlockLists DEF Job

\* A step within a handler that keeps the entries keeps the open files.
LEMMA PartKeepsOpen ==
    ASSUME OpenInv, UNCHANGED openVars, UNCHANGED <<container, mounted>>,
           ret' \in Outcomes, TablesOK', KeepsEntries
    PROVE  OpenInv'
<1>1. rootFiles \in RootDirectories
  BY DEF OpenInv, TypeOK, RootTypeOK, RootDirectories
<1>2. \A n \in Names : Named(rootFiles, n) # {} => Named(rootFiles', n) # {}
  BY DEF Named, KeepsEntries
<1>3. DescriptorsAccounted' /\ OpenPathsExist' /\ HandlesRefer' /\ UnmountedClosed'
  BY <1>2, KeepsHandles DEF KeepsEntries
<1>4. TypeOK'
  BY DEF OpenInv, TypeOK, TablesOK, FuseTypeOK, openVars
<1> QED
  BY <1>3, <1>4 DEF OpenInv

\* The write of one block leaves the container well typed, or as it was.
LEMMA setNextType ==
    ASSUME OpenInv, NEW b \in Blocks, NEW next \in Blocks, setNext(b, next)
    PROVE  TablesOK' /\ KeepsEntries
<1>1. fatArray \in [Blocks -> Blocks] /\ fatDisc \in [Blocks -> Blocks]
  BY DEF OpenInv, TypeOK, FatTypeOK
<1>2. fatArray' \in [Blocks -> Blocks]
  BY <1>1 DEF setNext
<1>3. fatDisc' = fatDisc \/ fatDisc' = FatDiscWrite(fatDisc, fatArray', {b})
  BY DEF setNext, DeviceWrite
<1>4. fatDisc' \in [Blocks -> Blocks]
  BY <1>1, <1>2, <1>3, FatDiscWriteType
<1> QED
  BY <1>2, <1>4 DEF setNext, OpenInv, TypeOK, TablesOK, RootTypeOK, FatTypeOK, DmapTypeOK,
     KeepsEntries

LEMMA setMapType ==
    ASSUME OpenInv, NEW b \in Blocks, NEW used \in BOOLEAN, setMap(b, used)
    PROVE  TablesOK' /\ KeepsEntries
<1>1. DmapTypeOK
  BY DEF OpenInv, TypeOK
<1>2. dmapDisc' \in [DmapGroups -> [DmapOffsets -> BOOLEAN]]
  BY <1>1, DmapDiscWriteType DEF setMap, DeviceWrite, DmapTypeOK
<1>3. dmapArray' \in [Blocks -> BOOLEAN]
  BY <1>1 DEF setMap, DmapTypeOK
<1> QED
  BY <1>2, <1>3 DEF setMap, OpenInv, TypeOK, TablesOK, RootTypeOK, FatTypeOK, DmapTypeOK,
     KeepsEntries

LEMMA setEntryType ==
    ASSUME OpenInv, NEW s \in Slots, NEW f \in rootFile \cup {NULL}, setEntry(s, f)
    PROVE  /\ TablesOK'
           /\ rootFiles[s] # NULL /\ f # NULL /\ f.name = rootFiles[s].name => KeepsEntries
<1>1. rootFiles \in RootDirectories /\ rootDisc \in RootDirectories
  BY DEF OpenInv, TypeOK, RootTypeOK, RootDirectories
<1>2. rootFiles' = [rootFiles EXCEPT ![s] = f]
      /\ (rootDisc' = rootDisc \/ rootDisc' = [rootDisc EXCEPT ![s] = f])
  BY DEF setEntry, DeviceWrite
<1>3. RootTypeOK'
  BY <1>1, <1>2 DEF RootTypeOK, RootDirectories
<1>4. rootFiles[s] # NULL /\ f # NULL /\ f.name = rootFiles[s].name => KeepsEntries
  BY <1>1, <1>2 DEF KeepsEntries, RootDirectories
<1> QED
  BY <1>3, <1>4 DEF setEntry, OpenInv, TypeOK, TablesOK, FatTypeOK, DmapTypeOK

\* Nothing is changed.
LEMMA NothingType ==
    ASSUME OpenInv, UNCHANGED fsVars
    PROVE  TablesOK' /\ KeepsEntries
BY DEF fsVars, OpenInv, TypeOK, TablesOK, RootTypeOK, FatTypeOK, DmapTypeOK, KeepsEntries

\* A handler goes on, or returns.
LEMMA GoesOnKeepsOpen ==
    ASSUME OpenInv, TablesOK', KeepsEntries, Finishes \/ \E job : GoesOn(job)
    PROVE  OpenInv'
<1>1. UNCHANGED openVars /\ UNCHANGED <<container, mounted>> /\ ret' \in Outcomes
  BY OutcomesOf DEF Finishes, Completes, Replies, GoesOn, OpenInv, TypeOK, FuseTypeOK
<1> QED
  BY <1>1, PartKeepsOpen

\* A job as it is when its handler starts.
LEMMA NewJobType ==
    ASSUME NEW op \in {"write", "truncate", "unlink"}, NEW n \in Names \cup {NULL}, NEW s \in Slots
    PROVE  NewJob(op, n, s) \in Job /\ NewJob(op, n, s).new = <<>>
<1>1. <<>> \in UNION {[1..j -> DataBlocks] : j \in 0..NUMBER_DATA_BLOCKS}
  <2>1. <<>> \in Seq(DataBlocks) /\ Distinct(<<>>)
    BY DEF Distinct
  <2> QED
    BY <2>1, BlockLists
<1>2. 0 \in 0..MaxSize /\ FAT_END \in Blocks
  BY FuseAssumption, EndIsNoDataBlock
<1> QED
  BY <1>1, <1>2 DEF NewJob, Job

\* The data phase of a write starts in some block.
LEMMA DataPhaseType ==
    ASSUME NEW job \in Job, NEW fat \in [Blocks -> Blocks],
           rootFiles[job.s] \in rootFile
    PROVE  /\ DataPhase(job, fat) \in Job
           /\ DataPhase(job, fat) = [job EXCEPT !.at = "data", !.i = 0,
                                                !.cur = DataPhase(job, fat).cur]
<1> DEFINE first == rootFiles[job.s].firstBlock
           m == job.off \div BLOCK_SIZE
<1>1. first \in Blocks /\ m \in Nat
  <2>1. job.off \in Nat /\ BLOCK_SIZE \in Nat \ {0}
    BY JobFields, LayoutAssumption, FuseAssumption
  <2>2. m \in Nat
    BY <2>1, DivMod
  <2> QED
    BY <2>2 DEF rootFile
<1>2. getNth(fat, first, 0) \in Blocks
  BY <1>1, getNthSteps
<1>3. \A j \in 0..(m - 1) : getNth(fat, first, j) \in Blocks => getNth(fat, first, j + 1) \in Blocks
  <2> SUFFICES ASSUME NEW j \in Nat, getNth(fat, first, j) \in Blocks
               PROVE  getNth(fat, first, j + 1) \in Blocks
    BY <1>1
  <2> HIDE DEF first
  <2>1. getNth(fat, first, j + 1) = fat[getNth(fat, first, j)]
    BY getNthSteps
  <2> QED
    BY <2>1
<1> HIDE DEF first, m
<1>4. getNth(fat, first, m) \in Blocks
  BY <1>1, <1>2, <1>3, WalkStays
<1>5. DataPhase(job, fat) = [job EXCEPT !.at = "data", !.i = 0, !.cur = getNth(fat, first, m)]
  BY DEF DataPhase, first, m
<1> DEFINE cur == getNth(fat, first, m)
<1> HIDE DEF cur
<1>6. /\ [job EXCEPT !.at = "data", !.i = 0, !.cur = cur] \in Job
      /\ [job EXCEPT !.at = "data", !.i = 0, !.cur = cur].cur = cur
  BY <1>4 DEF Job, cur
<1> QED
  BY <1>5, <1>6 DEF cur

\* A call that returns at once, or ends the process.
LEMMA ReturnsTyped ==
    ASSUME OpenInv, Idle, UNCHANGED run,
           GoesAstray \/ \E r \in Outcomes : Returns(r)
    PROVE  OpenInv' /\ JobInv'
BY DoesNothing, AstrayKeepsInv DEF Idle, JobInv

LEMMA StartUnlinkTyped ==
    ASSUME OpenInv, NEW n \in Names, StartUnlink(n), Idle
    PROVE  OpenInv' /\ JobInv'
<1>1. CASE NotFound(n, "ENOENT") /\ UNCHANGED run
  BY <1>1, ReturnsTyped, OutcomesOf DEF NotFound
<1>2. ASSUME NEW s \in getRootEntryFile(rootFiles, n),
             Starts([NewJob("unlink", n, s) EXCEPT
                        !.at = "freeMap", !.cur = rootFiles[s].firstBlock])
      PROVE  OpenInv' /\ JobInv'
  <2> DEFINE job == [NewJob("unlink", n, s) EXCEPT
                        !.at = "freeMap", !.cur = rootFiles[s].firstBlock]
  <2>1. s \in Slots /\ rootFiles[s] \in rootFile /\ rootFiles[s].firstBlock \in Blocks
    BY <1>2, EntryFound DEF OpenInv, TypeOK, RootTypeOK, RootDirectories, rootFile
  <2>2. NewJob("unlink", n, s) \in Job
    BY <2>1, NewJobType
  <2>3. /\ job \in Job /\ job.op = "unlink" /\ job.at = "freeMap" /\ job.n = n
        /\ job.new = <<>>
    BY <2>1, <2>2 DEF Job, NewJob
  <2>4. GoesOn(job) /\ UNCHANGED fsVars /\ run' = job
    BY <1>2 DEF Starts, GoesOn
  <2> HIDE DEF job
  <2>5. OpenInv'
    BY <2>4, NothingType, GoesOnKeepsOpen
  <2>6. mounted' /\ ~IsOpen(n)'
    BY <2>4 DEF StartUnlink, GoesOn, IsOpen, openVars
  <2>7. JobInv'
    BY <2>3, <2>4, <2>6 DEF JobInv, Distinct, IsOpen
  <2> QED
    BY <2>5, <2>7
<1> QED
  BY <1>1, <1>2 DEF StartUnlink

\* A handler that appends starts to take blocks.
LEMMA TakesTyped ==
    ASSUME OpenInv, mounted, NEW job \in Job, Starts(job),
           job.op \in {"write", "truncate"}, job.at = "take", job.new = <<>>, job.k > 0,
           rootFiles[job.s] # NULL,
           job.op = "write" => job.v \in Bytes /\ job.off + job.size <= MaxSize
    PROVE  OpenInv' /\ JobInv'
<1>1. GoesOn(job) /\ UNCHANGED fsVars /\ run' = job
  BY DEF Starts, GoesOn
<1>2. OpenInv'
  BY <1>1, NothingType, GoesOnKeepsOpen
<1>3. mounted' /\ rootFiles' = rootFiles
  BY <1>1 DEF GoesOn, fsVars
<1>4. JobInv'
  BY <1>1, <1>3 DEF JobInv, Distinct, Range
<1> QED
  BY <1>2, <1>4

LEMMA StartWriteTyped ==
    ASSUME OpenInv, Idle, NEW h \in Handles, NEW off \in 0..(MaxSize - 1), NEW size \in 1..MaxSize,
           NEW v \in Bytes, off + size <= MaxSize, StartWrite(h, off, size, v)
    PROVE  OpenInv' /\ JobInv'
<1>1. CASE (Returns("EBADF") \/ GoesAstray) /\ UNCHANGED run
  BY <1>1, ReturnsTyped, OutcomesOf
<1> DEFINE s == openFiles[h]
           old == rootFiles[s].st_size
           k == IF off + size > old THEN blocksAll(size, off, old) ELSE 0
           job == [NewJob("write", NULL, s) EXCEPT !.off = off, !.size = size, !.v = v]
<1>2. CASE s \in Slots /\ (IF k > 0 THEN Starts([job EXCEPT !.k = k])
                                    ELSE Starts(DataPhase(job, fatArray)))
  <2>1. mounted /\ rootFiles[s] # NULL /\ rootFiles[s] \in rootFile
    BY <1>2 DEF StartWrite, OpenInv, HandlesRefer, TypeOK, RootTypeOK
  <2>2. off \in 0..MaxSize /\ size \in 0..MaxSize /\ off \in Nat /\ size \in Nat /\ old \in Nat
    BY <2>1, FuseAssumption DEF rootFile
  <2>3. k \in Int
    BY <2>2, blocksAllType
  <2> HIDE DEF k
  <2>4. CASE k > 0
    <3> DEFINE takes == [job EXCEPT !.k = k]
    <3>1. NewJob("write", NULL, s) \in Job /\ k \in Nat
      <4>1. NewJob("write", NULL, s) \in Job
        BY <1>2, NewJobType
      <4> QED
        BY <2>3, <2>4, <4>1
    <3>2. /\ takes \in Job /\ takes.op = "write" /\ takes.at = "take" /\ takes.s = s
          /\ takes.v = v /\ takes.off = off /\ takes.size = size
          /\ takes.new = <<>> /\ takes.k = k
      BY <2>2, <3>1 DEF Job, NewJob
    <3>3. Starts(takes)
      BY <1>2, <2>4
    <3> HIDE DEF takes
    <3> QED
      BY <2>1, <2>4, <3>2, <3>3, TakesTyped
  <2>5. CASE ~(k > 0)
    <3>1. NewJob("write", NULL, s) \in Job
      BY <1>2, NewJobType
    <3>2. /\ job \in Job /\ job.op = "write" /\ job.s = s /\ job.v = v
          /\ job.off = off /\ job.size = size /\ job.new = <<>>
      BY <2>2, <3>1 DEF Job, NewJob
    <3> DEFINE data == DataPhase(job, fatArray)
    <3>3. Starts(data)
      BY <1>2, <2>5
    <3> HIDE DEF job
    <3>4. /\ data \in Job
          /\ data = [job EXCEPT !.at = "data", !.i = 0, !.cur = data.cur]
      BY <2>1, <3>2, DataPhaseType DEF OpenInv, TypeOK, FatTypeOK
    <3> HIDE DEF data
    <3>5. /\ data.op = "write" /\ data.at = "data" /\ data.s = s /\ data.v = v
          /\ data.off = off /\ data.size = size /\ data.new = <<>>
      BY <3>2, <3>4 DEF Job
    <3>6. GoesOn(data) /\ UNCHANGED fsVars /\ run' = data
      BY <3>3 DEF Starts, GoesOn
    <3>7. OpenInv'
      BY <3>6, NothingType, GoesOnKeepsOpen
    <3>8. mounted' /\ rootFiles' = rootFiles
      BY <2>1, <3>6 DEF GoesOn, fsVars
    <3>9. JobInv'
      BY <2>1, <3>4, <3>5, <3>6, <3>8 DEF JobInv, Distinct
    <3> QED
      BY <3>7, <3>9
  <2> QED
    BY <2>4, <2>5
<1> QED
  BY <1>1, <1>2 DEF StartWrite

LEMMA StartTruncateTyped ==
    ASSUME OpenInv, Idle, NEW n \in Names, NEW newSize \in 0..MaxSize, StartTruncate(n, newSize)
    PROVE  OpenInv' /\ JobInv'
<1>1. CASE NotFound(n, "ENFILE") /\ UNCHANGED run
  BY <1>1, ReturnsTyped, OutcomesOf DEF NotFound
<1>2. CASE Returns("ok") /\ UNCHANGED run
  BY <1>2, ReturnsTyped, OutcomesOf
<1>3. mounted
  BY DEF StartTruncate
<1>4. ASSUME NEW s \in getRootEntryFile(rootFiles, n)
      PROVE  s \in Slots /\ rootFiles[s] \in rootFile /\ rootFiles[s] # NULL
  BY <1>4, EntryFound DEF OpenInv, TypeOK, RootTypeOK, RootDirectories
<1>5. ASSUME NEW s \in getRootEntryFile(rootFiles, n),
             StartShrink([NewJob("truncate", n, s) EXCEPT !.size = newSize])
      PROVE  OpenInv' /\ JobInv'
  <2> DEFINE start == [NewJob("truncate", n, s) EXCEPT !.size = newSize]
             f == rootFiles[s]
             job == [start EXCEPT !.at = "spare", !.cur = f.firstBlock]
  <2>1. s \in Slots /\ f \in rootFile /\ f # NULL /\ f.firstBlock \in Blocks
    BY <1>4, <1>5 DEF rootFile
  <2>2. NewJob("truncate", n, s) \in Job
    BY <2>1, NewJobType
  <2>3. start.s = s /\ start.size = newSize
    BY DEF NewJob
  <2>4. /\ job \in Job /\ job.op = "truncate" /\ job.at = "spare" /\ job.s = s
        /\ job.new = <<>>
    BY <2>1, <2>2 DEF Job, NewJob
  <2>5. /\ GoesOn(job) /\ run' = job
        /\ setEntry(s, [f EXCEPT !.firstBlock = FAT_END]) \/ UNCHANGED fsVars
    BY <1>5, <2>3 DEF StartShrink, GoesOn
  <2>6. [f EXCEPT !.firstBlock = FAT_END] \in rootFile
        /\ [f EXCEPT !.firstBlock = FAT_END].name = f.name
    BY <2>1, EndIsNoDataBlock DEF rootFile
  <2> HIDE DEF job
  <2>7. TablesOK' /\ KeepsEntries
    BY <2>1, <2>5, <2>6, setEntryType, NothingType, NullAssumption
  <2>8. OpenInv'
    BY <2>5, <2>7, GoesOnKeepsOpen
  <2>9. mounted' /\ rootFiles'[s] # NULL
    BY <1>3, <2>1, <2>5, <2>7 DEF GoesOn, KeepsEntries
  <2>10. JobInv'
    BY <2>4, <2>5, <2>9 DEF JobInv, Distinct
  <2> QED
    BY <2>8, <2>10
<1>6. ASSUME NEW s \in getRootEntryFile(rootFiles, n),
             LET k == blocksAll(newSize, 0, rootFiles[s].st_size)
             IN  k > 0 /\ Starts([[NewJob("truncate", n, s) EXCEPT !.size = newSize]
                                  EXCEPT !.k = k])
      PROVE  OpenInv' /\ JobInv'
  <2> DEFINE k == blocksAll(newSize, 0, rootFiles[s].st_size)
  <2>1. k \in Int
    <3>1. rootFiles[s].st_size \in Nat /\ newSize \in Nat /\ 0 \in Nat
      BY <1>4, <1>6, FuseAssumption DEF rootFile
    <3> QED
      BY <3>1, blocksAllType
  <2>2. k > 0 /\ Starts([[NewJob("truncate", n, s) EXCEPT !.size = newSize] EXCEPT !.k = k])
    BY <1>6
  <2> DEFINE takes == [[NewJob("truncate", n, s) EXCEPT !.size = newSize] EXCEPT !.k = k]
  <2>3. NewJob("truncate", n, s) \in Job /\ k \in Nat
    BY <1>4, <1>6, <2>1, <2>2, NewJobType
  <2>4. Starts(takes)
    BY <2>2
  <2> HIDE DEF k
  <2>5. /\ takes \in Job /\ takes.op = "truncate" /\ takes.at = "take" /\ takes.s = s
        /\ takes.new = <<>> /\ takes.k = k
    BY <2>3 DEF Job, NewJob
  <2> HIDE DEF takes
  <2> QED
    BY <1>3, <1>4, <1>6, <2>2, <2>4, <2>5, TakesTyped
<1> QED
  BY <1>1, <1>2, <1>5, <1>6 DEF StartTruncate

\* The steps of a handler.  What they know of it.
LEMMA RunningJob ==
    ASSUME OpenInv, JobInv, ~Idle
    PROVE  /\ run \in Job /\ run.s \in Slots /\ run.cur \in Blocks /\ run.next \in Blocks
           /\ run.new \in Seq(DataBlocks) /\ Len(run.new) \in Nat
           /\ run.k \in Nat /\ run.i \in Nat
           /\ mounted
           /\ fatArray \in [Blocks -> Blocks] /\ dmapArray \in [Blocks -> BOOLEAN]
           /\ run.op # "unlink" => rootFiles[run.s] \in rootFile /\ rootFiles[run.s] # NULL
BY JobFields DEF JobInv, OpenInv, TypeOK, RootTypeOK, FatTypeOK, DmapTypeOK

\* Another free block is taken, or there is none.
LEMMA TakeBlockTyped ==
    ASSUME OpenInv, JobInv, ~Idle, TakeBlock
    PROVE  OpenInv' /\ JobInv'
<1>1. CASE ProcessEnds("SIGSEGV") /\ run' = NULL
           /\ UNCHANGED <<container, rootDisc, fatDisc, dmapDisc, blockData>>
  <2>1. dmapDisc' \in [DmapGroups -> [DmapOffsets -> BOOLEAN]]
    BY <1>1 DEF OpenInv, TypeOK, DmapTypeOK
  <2> QED
    BY <1>1, <2>1, EndKeepsInv, OutcomesOf DEF JobInv, Idle
<1>2. ASSUME run.at = "take", NEW b \in getFirstFreeBlock, setMap(b, TRUE),
             GoesOn([run EXCEPT
                   !.new = Append(@, b),
                   !.at = IF Len(run.new) + 1 = run.k THEN "attach" ELSE "take",
                   !.cur = rootFiles[run.s].firstBlock])
      PROVE  OpenInv' /\ JobInv'
  <2> DEFINE new == Append(run.new, b)
             at == IF Len(run.new) + 1 = run.k THEN "attach" ELSE "take"
             cur == rootFiles[run.s].firstBlock
             job == [run EXCEPT !.new = new, !.at = at, !.cur = cur]
  <2>1. b \in DataBlocks /\ ~dmapArray[b] /\ b \in Blocks
    BY <1>2, EndIsNoDataBlock DEF getFirstFreeBlock, FreeBlocks
  <2>2. run.op \in {"write", "truncate"} /\ Len(run.new) < run.k
        /\ Distinct(run.new) /\ \A c \in Range(run.new) : dmapArray[c]
    BY <1>2, JobFields DEF JobInv
  <2>3. /\ new \in Seq(DataBlocks) /\ Len(new) = Len(run.new) + 1
        /\ new[Len(new)] = b /\ \A i \in 1..Len(run.new) : new[i] = run.new[i]
    BY <2>1, RunningJob
  <2>4. \A i \in 1..Len(run.new) : run.new[i] # b
    BY <2>1, <2>2 DEF Range
  <2>5. Distinct(new)
    BY <2>2, <2>3, <2>4, RunningJob DEF Distinct
  <2>6. new \in UNION {[1..j -> DataBlocks] : j \in 0..NUMBER_DATA_BLOCKS}
    BY <2>3, <2>5, BlockLists
  <2>7. cur \in Blocks
    BY <2>2, RunningJob DEF rootFile
  <2>8. run' = job /\ GoesOn(job)
    BY <1>2 DEF GoesOn
  <2>9. \A c \in Range(new) : dmapArray'[c]
    <3>1. \A i \in 1..Len(new) : new[i] \in Blocks /\ dmapArray'[new[i]]
      <4> SUFFICES ASSUME NEW i \in 1..Len(new)
                   PROVE  new[i] \in Blocks /\ dmapArray'[new[i]]
        OBVIOUS
      <4>1. new[i] \in Blocks
        BY <2>3, EndIsNoDataBlock
      <4>2. new[i] = b \/ new[i] \in Range(run.new)
        BY <2>3, RunningJob DEF Range
      <4> QED
        BY <1>2, <2>1, <2>2, <4>1, <4>2, RunningJob DEF setMap
    <3> QED
      BY <2>3, <3>1 DEF Range
  <2>10. Len(new) = run.k \/ Len(new) < run.k
    BY <2>2, <2>3, RunningJob
  <2> HIDE DEF new, cur
  <2>11. /\ job \in Job /\ job.op = run.op /\ job.s = run.s /\ job.new = new /\ job.k = run.k
         /\ job.at = at /\ job.v = run.v /\ job.off = run.off /\ job.size = run.size
    BY <2>6, <2>7, RunningJob DEF Job
  <2> HIDE DEF job
  <2>12. TablesOK' /\ KeepsEntries
    BY <1>2, <2>1, setMapType
  <2>13. OpenInv'
    BY <2>8, <2>12, GoesOnKeepsOpen
  <2>14. mounted' /\ rootFiles'[run.s] # NULL
    BY <2>2, <2>8, <2>12, RunningJob DEF GoesOn, KeepsEntries
  <2>15. at = "attach" => Len(new) = run.k
    BY <2>3
  <2>16. at = "take" => Len(new) < run.k
    BY <2>3, <2>10
  <2>17. run.k # 0
    BY <2>2, RunningJob
  <2>18. at \in {"take", "attach"}
    OBVIOUS
  <2> HIDE DEF at
  <2>19. JobInv'
    <3>1. run.op = "write" => run.v \in Bytes /\ run.off + run.size <= MaxSize
      BY DEF JobInv
    <3> QED
      BY <2>2, <2>5, <2>8, <2>9, <2>11, <2>14, <2>15, <2>16, <2>17, <2>18, <3>1 DEF JobInv
  <2> QED
    BY <2>13, <2>19
<1> QED
  BY <1>1, <1>2 DEF TakeBlock

\* A step after which the handler goes on with the blocks it has.
LEMMA JobGoesOn ==
    ASSUME OpenInv, JobInv, ~Idle, NEW job \in Job, GoesOn(job), TablesOK', KeepsEntries,
           job.op = run.op, job.n = run.n, job.s = run.s, job.new = run.new, job.k = run.k,
           job.v = run.v, job.off = run.off, job.size = run.size,
           \/ run.op = "unlink" /\ job.at \in {"freeMap", "freeFat"}
           \/ run.op = "truncate" /\ job.at \in {"spare", "spareMap"}
           \/ run.op = "write" /\ job.at \in {"data", "entry"}
           \/ run.op \in {"write", "truncate"} /\ job.at = "attach" /\ run.at = "attach"
           \/ /\ run.op \in {"write", "truncate"}
              /\ job.at = "link" /\ run.at \in {"attach", "link"} /\ job.i \in 1..run.k
    PROVE  OpenInv' /\ JobInv'
<1>1. OpenInv'
  BY GoesOnKeepsOpen
<1>2. run' = job /\ mounted' /\ handles' = handles
  BY RunningJob DEF GoesOn, openVars
<1>3. run.op # "unlink" => rootFiles'[run.s] # NULL
  BY RunningJob DEF KeepsEntries
<1>4. JobInv'
  BY <1>2, <1>3 DEF JobInv, IsOpen
<1> QED
  BY <1>1, <1>4

\* The handler returns.
LEMMA JobFinishes ==
    ASSUME OpenInv, TablesOK', KeepsEntries, Finishes
    PROVE  OpenInv' /\ JobInv'
BY GoesOnKeepsOpen DEF Finishes, JobInv, Idle

LEMMA AttachTyped ==
    ASSUME OpenInv, JobInv, ~Idle, Attach
    PROVE  OpenInv' /\ JobInv'
<1> DEFINE f == rootFiles[run.s]
           linked == [run EXCEPT !.at = "link", !.i = 1]
           next == [run EXCEPT !.cur = fatArray[@]]
<1>1. /\ run.at = "attach" /\ run.op \in {"write", "truncate"}
      /\ Len(run.new) = run.k /\ run.k # 0
  BY JobFields DEF Attach, JobInv
<1>2. run.new[1] \in DataBlocks /\ run.new[1] \in Blocks /\ 1 \in 1..run.k
  BY <1>1, RunningJob, EndIsNoDataBlock
<1>3. /\ linked \in Job /\ linked.op = run.op /\ linked.n = run.n /\ linked.s = run.s
      /\ linked.new = run.new /\ linked.k = run.k /\ linked.v = run.v
      /\ linked.off = run.off /\ linked.size = run.size /\ linked.at = "link" /\ linked.i = 1
  BY RunningJob DEF Job
<1>4. /\ next \in Job /\ next.op = run.op /\ next.n = run.n /\ next.s = run.s
      /\ next.new = run.new /\ next.k = run.k /\ next.v = run.v
      /\ next.off = run.off /\ next.size = run.size /\ next.at = run.at
  BY RunningJob DEF Job
<1>5. \/ /\ rootFiles' = [rootFiles EXCEPT ![run.s].firstBlock = run.new[1]]
         /\ UNCHANGED <<rootDisc, fatArray, fatDisc, dmapArray, dmapDisc, blockData>>
         /\ GoesOn(linked)
      \/ UNCHANGED fsVars /\ GoesOn(next)
      \/ setNext(run.cur, run.new[1]) /\ GoesOn(linked)
  BY DEF Attach
<1> HIDE DEF linked, next
<1>6. CASE UNCHANGED fsVars /\ GoesOn(next)
  BY <1>1, <1>4, <1>6, NothingType, JobGoesOn
<1>7. CASE setNext(run.cur, run.new[1]) /\ GoesOn(linked)
  <2>1. TablesOK' /\ KeepsEntries
    BY <1>2, <1>7, RunningJob, setNextType
  <2> QED
    BY <1>1, <1>2, <1>3, <1>7, <2>1, JobGoesOn
<1>8. CASE /\ rootFiles' = [rootFiles EXCEPT ![run.s].firstBlock = run.new[1]]
           /\ UNCHANGED <<rootDisc, fatArray, fatDisc, dmapArray, dmapDisc, blockData>>
           /\ GoesOn(linked)
  <2>1. rootFiles \in RootDirectories /\ f \in rootFile /\ f # NULL /\ run.s \in Slots
    BY <1>1, RunningJob DEF OpenInv, TypeOK, RootTypeOK, RootDirectories
  <2> DEFINE g == [f EXCEPT !.firstBlock = run.new[1]]
  <2>2. g \in rootFile /\ g.name = f.name /\ g # NULL
    BY <1>2, <2>1, NullAssumption DEF rootFile
  <2>3. rootFiles' = [rootFiles EXCEPT ![run.s] = g]
    BY <1>8
  <2> HIDE DEF g
  <2>4. RootTypeOK' /\ KeepsEntries
    BY <1>8, <2>1, <2>2, <2>3 DEF OpenInv, TypeOK, RootTypeOK, RootDirectories, KeepsEntries
  <2>5. TablesOK'
    BY <1>8, <2>4 DEF OpenInv, TypeOK, TablesOK, FatTypeOK, DmapTypeOK
  <2> QED
    BY <1>1, <1>2, <1>3, <1>8, <2>4, <2>5, JobGoesOn
<1> QED
  BY <1>5, <1>6, <1>7, <1>8

LEMMA LinkTyped ==
    ASSUME OpenInv, JobInv, ~Idle, Link
    PROVE  OpenInv' /\ JobInv'
<1>1. /\ run.at = "link" /\ run.op \in {"write", "truncate"}
      /\ Len(run.new) = run.k /\ run.k # 0 /\ run.i \in 1..run.k
  BY JobFields DEF Link, JobInv
<1>2. \A j \in 1..run.k : run.new[j] \in DataBlocks /\ run.new[j] \in Blocks
  BY <1>1, RunningJob, EndIsNoDataBlock
<1>3. CASE /\ run.i < run.k
           /\ setNext(run.new[run.i], run.new[run.i + 1])
           /\ GoesOn([run EXCEPT !.i = @ + 1])
  <2> DEFINE job == [run EXCEPT !.i = @ + 1]
  <2>1. run.i + 1 \in 1..run.k /\ run.i + 1 \in Nat
    BY <1>1, <1>3, RunningJob
  <2>2. /\ job \in Job /\ job.op = run.op /\ job.n = run.n /\ job.s = run.s
        /\ job.new = run.new /\ job.k = run.k /\ job.v = run.v
        /\ job.off = run.off /\ job.size = run.size /\ job.at = run.at /\ job.i = run.i + 1
    BY <2>1, RunningJob DEF Job
  <2>3. TablesOK' /\ KeepsEntries
    BY <1>1, <1>2, <1>3, <2>1, setNextType
  <2>4. GoesOn(job)
    BY <1>3
  <2> HIDE DEF job
  <2> QED
    BY <1>1, <2>1, <2>2, <2>3, <2>4, JobGoesOn
<1>4. CASE /\ run.i = run.k
           /\ setNext(run.new[run.k], AfterLast(run.new[run.k]))
           /\ \/ run.op = "write" /\ GoesOn(DataPhase(run, fatArray'))
              \/ run.op = "truncate" /\ Finishes
  <2>1. TablesOK' /\ KeepsEntries
    <3>1. run.new[run.k] \in Blocks /\ AfterLast(run.new[run.k]) \in Blocks
      BY <1>1, <1>2, <1>4, EndIsNoDataBlock DEF AfterLast
    <3> QED
      BY <1>4, <3>1, setNextType
  <2>2. CASE run.op = "truncate" /\ Finishes
    BY <2>1, <2>2, JobFinishes
  <2>3. CASE run.op = "write" /\ GoesOn(DataPhase(run, fatArray'))
    <3> DEFINE job == DataPhase(run, fatArray')
    <3>1. fatArray' \in [Blocks -> Blocks]
      BY <2>1 DEF TablesOK, FatTypeOK
    <3>2. run \in Job /\ rootFiles[run.s] \in rootFile
      BY <1>1, RunningJob
    <3>3. /\ job \in Job
          /\ job = [run EXCEPT !.at = "data", !.i = 0, !.cur = job.cur]
      BY <3>1, <3>2, DataPhaseType
    <3>4. GoesOn(job)
      BY <2>3
    <3> HIDE DEF job
    <3>5. /\ job.op = run.op /\ job.n = run.n /\ job.s = run.s
          /\ job.new = run.new /\ job.k = run.k /\ job.v = run.v
          /\ job.off = run.off /\ job.size = run.size /\ job.at = "data"
      BY <3>2, <3>3 DEF Job
    <3> QED
      BY <2>1, <2>3, <3>3, <3>4, <3>5, JobGoesOn
  <2> QED
    BY <1>4, <2>2, <2>3
<1> QED
  BY <1>3, <1>4 DEF Link

LEMMA WriteDataTyped ==
    ASSUME OpenInv, JobInv, ~Idle, WriteData
    PROVE  OpenInv' /\ JobInv'
<1> DEFINE at == IF run.i + 1 = numBlocks(run.size + (run.off % BLOCK_SIZE))
                 THEN "entry" ELSE "data"
           job == [run EXCEPT !.cur = fatArray[@], !.i = @ + 1, !.at = at]
<1>1. run.at = "data" /\ run.op = "write" /\ run.v \in Bytes
  BY JobFields DEF WriteData, JobInv
<1>2. at \in {"data", "entry"} /\ run.i + 1 \in Nat
  BY RunningJob
<1>3. GoesOn(job)
  BY DEF WriteData
<1> HIDE DEF at
<1>4. /\ job \in Job /\ job.op = run.op /\ job.n = run.n /\ job.s = run.s
      /\ job.new = run.new /\ job.k = run.k /\ job.v = run.v
      /\ job.off = run.off /\ job.size = run.size /\ job.at = at
  BY <1>2, RunningJob DEF Job
<1> HIDE DEF job
<1>5. blockData' \in [Blocks -> [0..(BLOCK_SIZE - 1) -> Bytes]]
  <2>1. blockData \in [Blocks -> [0..(BLOCK_SIZE - 1) -> Bytes]]
    BY DEF OpenInv, TypeOK
  <2> DEFINE filled == [j \in 0..(BLOCK_SIZE - 1) |->
                  IF j \in Copied(run.i, run.off, run.size) THEN run.v ELSE blockData[run.cur][j]]
  <2>2. filled \in [0..(BLOCK_SIZE - 1) -> Bytes]
    <3>1. blockData[run.cur] \in [0..(BLOCK_SIZE - 1) -> Bytes]
      BY <2>1, RunningJob
    <3> QED
      BY <1>1, <3>1
  <2>3. blockData' = blockData \/ blockData' = [blockData EXCEPT ![run.cur] = filled]
    BY DEF WriteData, DeviceWrite
  <2> HIDE DEF filled
  <2> QED
    BY <2>1, <2>2, <2>3, RunningJob
<1>6. TablesOK' /\ KeepsEntries
  BY <1>5 DEF WriteData, OpenInv, TypeOK, TablesOK, RootTypeOK, FatTypeOK, DmapTypeOK, KeepsEntries
<1> QED
  BY <1>1, <1>2, <1>3, <1>4, <1>6, JobGoesOn

\* The last step of a write, and of a truncation to a smaller size, stores the
\* entry with its new size.
LEMMA EntryTyped ==
    ASSUME OpenInv, JobInv, ~Idle, WriteEntry \/ StoreSize
    PROVE  OpenInv' /\ JobInv'
<1> DEFINE f == rootFiles[run.s]
<1>1. run.op # "unlink"
  BY DEF WriteEntry, StoreSize, JobInv
<1>2. f \in rootFile /\ f # NULL /\ f.st_size \in 0..MaxSize
  BY <1>1, RunningJob DEF rootFile
<1>3. PICK size \in 0..MaxSize : setEntry(run.s, [f EXCEPT !.st_size = size]) /\ Finishes
  <2>1. CASE StoreSize
    <3>1. run.size \in 0..MaxSize
      BY RunningJob, JobFields
    <3> QED
      BY <2>1, <3>1 DEF StoreSize
  <2>2. CASE WriteEntry
    <3> DEFINE end == run.off + run.size
               size == IF end > f.st_size THEN end ELSE f.st_size
    <3>1. end \in 0..MaxSize
      <4>1. run.op = "write" /\ end <= MaxSize
        BY <1>1, <2>2, JobFields DEF WriteEntry, JobInv
      <4> QED
        BY <4>1, RunningJob, JobFields, FuseAssumption
    <3>2. size \in 0..MaxSize
      BY <1>2, <3>1
    <3>3. setEntry(run.s, [f EXCEPT !.st_size = size]) /\ Finishes
      BY <2>2 DEF WriteEntry
    <3> HIDE DEF size
    <3> QED
      BY <3>2, <3>3
  <2> QED
    BY <2>1, <2>2
<1> DEFINE g == [f EXCEPT !.st_size = size]
<1>4. g \in rootFile /\ g.name = f.name /\ g # NULL
  BY <1>2, NullAssumption DEF rootFile
<1>5. setEntry(run.s, g)
  BY <1>3
<1> HIDE DEF g
<1>6. TablesOK' /\ KeepsEntries
  BY <1>2, <1>4, <1>5, RunningJob, setEntryType
<1> QED
  BY <1>3, <1>6, JobFinishes

\* A truncation to a smaller size walks along the chain and frees blocks.
LEMMA SpareTyped ==
    ASSUME OpenInv, JobInv, ~Idle, KeepBlock \/ CutBlock \/ FreeSpareBlock
    PROVE  OpenInv' /\ JobInv'
<1>1. run.op = "truncate"
  BY JobFields DEF KeepBlock, CutBlock, FreeSpareBlock, JobInv
<1>2. PICK cur \in Blocks, next \in Blocks, at \in {"spare", "spareMap"}, i \in Nat :
         GoesOn([run EXCEPT !.cur = cur, !.next = next, !.at = at, !.i = i])
  <2>1. CASE KeepBlock
    <3>1. [run EXCEPT !.cur = fatArray[@], !.i = @ + 1]
            = [run EXCEPT !.cur = fatArray[run.cur], !.next = run.next, !.at = "spare",
                          !.i = run.i + 1]
      BY <2>1, RunningJob DEF KeepBlock, Job
    <3>2. fatArray[run.cur] \in Blocks /\ run.i + 1 \in Nat
      BY RunningJob
    <3> QED
      BY <2>1, <3>1, <3>2, RunningJob DEF KeepBlock
  <2>2. CASE CutBlock
    <3>1. [run EXCEPT !.next = fatArray[run.cur], !.at = "spareMap"]
            = [run EXCEPT !.cur = run.cur, !.next = fatArray[run.cur], !.at = "spareMap",
                          !.i = run.i]
      BY RunningJob DEF Job
    <3>2. fatArray[run.cur] \in Blocks
      BY RunningJob
    <3>3. GoesOn([run EXCEPT !.cur = run.cur, !.next = fatArray[run.cur], !.at = "spareMap",
                             !.i = run.i])
      BY <2>2, <3>1 DEF CutBlock
    <3> QED
      BY <3>2, <3>3, RunningJob
  <2>3. CASE FreeSpareBlock
    <3>1. [run EXCEPT !.cur = run.next, !.i = @ + 1, !.at = "spare"]
            = [run EXCEPT !.cur = run.next, !.next = run.next, !.at = "spare", !.i = run.i + 1]
      BY RunningJob DEF Job
    <3>2. run.i + 1 \in Nat
      BY RunningJob
    <3>3. GoesOn([run EXCEPT !.cur = run.next, !.next = run.next, !.at = "spare",
                             !.i = run.i + 1])
      BY <2>3, <3>1 DEF FreeSpareBlock
    <3> QED
      BY <3>2, <3>3, RunningJob
  <2> QED
    BY <2>1, <2>2, <2>3
<1> DEFINE job == [run EXCEPT !.cur = cur, !.next = next, !.at = at, !.i = i]
<1>3. /\ job \in Job /\ job.op = run.op /\ job.n = run.n /\ job.s = run.s
      /\ job.new = run.new /\ job.k = run.k /\ job.v = run.v
      /\ job.off = run.off /\ job.size = run.size /\ job.at = at
  BY RunningJob DEF Job
<1>4. GoesOn(job)
  BY <1>2
<1> HIDE DEF job
<1>5. TablesOK' /\ KeepsEntries
  <2>1. CASE KeepBlock
    BY <2>1, NothingType DEF KeepBlock
  <2>2. CASE CutBlock
    BY <2>2, RunningJob, setNextType, EndIsNoDataBlock DEF CutBlock
  <2>3. CASE FreeSpareBlock
    BY <2>3, RunningJob, setMapType DEF FreeSpareBlock
  <2> QED
    BY <2>1, <2>2, <2>3
<1> QED
  BY <1>1, <1>2, <1>3, <1>4, <1>5, JobGoesOn

\* A removal frees the blocks one after the other.
LEMMA FreeTyped ==
    ASSUME OpenInv, JobInv, ~Idle, FreeInMap \/ FreeInTable
    PROVE  OpenInv' /\ JobInv'
<1>1. run.op = "unlink"
  BY JobFields DEF FreeInMap, FreeInTable, JobInv
<1>2. PICK cur \in Blocks, next \in Blocks, at \in {"freeMap", "freeFat"} :
         GoesOn([run EXCEPT !.cur = cur, !.next = next, !.at = at])
  <2>1. CASE FreeInMap
    <3>1. [run EXCEPT !.next = fatArray[run.cur], !.at = "freeFat"]
            = [run EXCEPT !.cur = run.cur, !.next = fatArray[run.cur], !.at = "freeFat"]
      BY RunningJob DEF Job
    <3>2. fatArray[run.cur] \in Blocks
      BY RunningJob
    <3> QED
      BY <2>1, <3>1, <3>2, RunningJob DEF FreeInMap
  <2>2. CASE FreeInTable
    <3>1. [run EXCEPT !.cur = run.next, !.at = "freeMap"]
            = [run EXCEPT !.cur = run.next, !.next = run.next, !.at = "freeMap"]
      BY RunningJob DEF Job
    <3> QED
      BY <2>2, <3>1, RunningJob DEF FreeInTable
  <2> QED
    BY <2>1, <2>2
<1> DEFINE job == [run EXCEPT !.cur = cur, !.next = next, !.at = at]
<1>3. /\ job \in Job /\ job.op = run.op /\ job.n = run.n /\ job.s = run.s
      /\ job.new = run.new /\ job.k = run.k /\ job.v = run.v
      /\ job.off = run.off /\ job.size = run.size /\ job.at = at
  BY RunningJob DEF Job
<1>4. GoesOn(job)
  BY <1>2
<1> HIDE DEF job
<1>5. TablesOK' /\ KeepsEntries
  <2>1. CASE FreeInMap
    BY <2>1, RunningJob, setMapType DEF FreeInMap
  <2>2. CASE FreeInTable
    BY <2>2, RunningJob, setNextType, EndIsNoDataBlock DEF FreeInTable
  <2> QED
    BY <2>1, <2>2
<1> QED
  BY <1>1, <1>2, <1>3, <1>4, <1>5, JobGoesOn

\* The entries that go are those of a name that is not open.
LEMMA DeleteEntryTyped ==
    ASSUME OpenInv, JobInv, ~Idle, DeleteEntry, UNCHANGED call
    PROVE  OpenInv' /\ JobInv'
<1>1. /\ rootFiles \in RootDirectories /\ rootDisc \in RootDirectories
      /\ openFiles \in [Handles -> Slots \cup {NULL, DANGLING}]
      /\ handles \in [Handles -> Names \cup {NULL}]
  BY DEF OpenInv, TypeOK, RootTypeOK, FuseTypeOK, RootDirectories
<1>2. run.op = "unlink" /\ ~IsOpen(run.n)
  BY JobFields DEF DeleteEntry, JobInv
<1>3. PICK s \in getRootEntryFile(rootFiles, run.n) :
        /\ setEntry(s, NULL)
        /\ openFiles' = [h \in Handles |-> IF openFiles[h] = s THEN DANGLING ELSE openFiles[h]]
        /\ run' = IF Named(rootFiles, run.n) = {s} THEN NULL ELSE run
  BY DEF DeleteEntry
<1>4. s \in Slots /\ s \in Named(rootFiles, run.n) /\ rootFiles[s].name = run.n /\ s # NULL
  BY <1>1, <1>3, EntryFound, OnDiskAssumption
<1>5. TablesOK' /\ rootFiles' = [rootFiles EXCEPT ![s] = NULL]
  BY <1>3, <1>4, setEntryType DEF setEntry
<1>6. UNCHANGED <<openCount, handles, container, mounted>>
  BY DEF DeleteEntry
<1>7. ret' \in Outcomes
  BY OutcomesOf DEF DeleteEntry, Replies, OpenInv, TypeOK, FuseTypeOK
<1>8. TypeOK'
  <2>1. openFiles' \in [Handles -> Slots \cup {NULL, DANGLING}]
    BY <1>1, <1>3
  <2> QED
    BY <1>5, <1>6, <1>7, <2>1 DEF OpenInv, TypeOK, TablesOK, FuseTypeOK
<1>9. DescriptorsAccounted'
  <2>1. \A h \in Handles : openFiles'[h] # NULL <=> openFiles[h] # NULL
    BY <1>3, <1>4, OnDiskAssumption
  <2> QED
    BY <1>6, <2>1 DEF OpenInv, DescriptorsAccounted
<1>10. OpenPathsExist'
  <2> SUFFICES ASSUME NEW h \in Handles, handles[h] # NULL
               PROVE  Named(rootFiles', handles[h]) # {}
    BY <1>6 DEF OpenPathsExist
  <2>1. handles[h] # run.n
    BY <1>2 DEF IsOpen
  <2>2. PICK t \in Named(rootFiles, handles[h]) : TRUE
    BY DEF OpenInv, OpenPathsExist
  <2>3. t # s
    BY <1>4, <2>1, <2>2 DEF Named
  <2>4. t \in Named(rootFiles', handles[h])
    BY <1>1, <1>5, <2>2, <2>3 DEF Named, RootDirectories
  <2> QED
    BY <2>4
<1>11. UnmountedClosed'
  BY <1>6 DEF OpenInv, UnmountedClosed
<1>12. HandlesRefer'
  <2> SUFFICES ASSUME NEW h \in Handles, openFiles'[h] \in Slots
               PROVE  rootFiles'[openFiles'[h]] # NULL
    BY DEF HandlesRefer
  <2>1. openFiles'[h] = openFiles[h] /\ openFiles[h] # s
    BY <1>3, OnDiskAssumption
  <2> QED
    BY <1>1, <1>5, <2>1 DEF OpenInv, HandlesRefer, RootDirectories
<1>13. OpenInv'
  BY <1>8, <1>9, <1>10, <1>11, <1>12 DEF OpenInv
<1>14. JobInv'
  <2>1. CASE run' = NULL
    BY <2>1 DEF JobInv, Idle
  <2>2. CASE run' = run
    <3>1. run.at = "freeMap"
      BY DEF DeleteEntry
    <3> QED
      BY <1>2, <1>6, <2>2, <3>1 DEF JobInv, IsOpen, Idle
  <2> QED
    BY <1>3, <2>1, <2>2
<1> QED
  BY <1>13, <1>14

-----------------------------------------------------------------------------
(* Types: the theorem.                                                     *)

\* A step of the handler that runs.
LEMMA HandlerStepTyped ==
    ASSUME OpenInv, JobInv, HandlerStep
    PROVE  OpenInv' /\ JobInv'
BY TakeBlockTyped, AttachTyped, LinkTyped, WriteDataTyped, EntryTyped, SpareTyped, FreeTyped,
   DeleteEntryTyped DEF HandlerStep

\* The handlers that are one step are those of MyOnDiskFS.
LEMMA ShortHandlersAreNext == ShortHandler => Next
BY DEF ShortHandler, Next

LEMMA StepsInvInductive == OpenInv /\ JobInv /\ [StepsNext]_stepVars => OpenInv' /\ JobInv'
<1> SUFFICES ASSUME OpenInv, JobInv, [StepsNext]_stepVars
             PROVE  OpenInv' /\ JobInv'
  OBVIOUS
<1>1. CASE UNCHANGED stepVars
  <2>1. UNCHANGED vars /\ UNCHANGED run
    BY <1>1 DEF stepVars
  <2>2. OpenInv'
    BY <2>1, OpenInvInductive
  <2>3. JobInv'
    BY <2>1 DEF vars, fsVars, openVars, JobInv, Idle, IsOpen
  <2> QED
    BY <2>2, <2>3
<1>2. CASE Idle /\ ShortHandler /\ UNCHANGED run
  <2>1. OpenInv'
    BY <1>2, ShortHandlersAreNext, OpenInvInductive
  <2>2. JobInv'
    BY <1>2 DEF JobInv, Idle
  <2> QED
    BY <2>1, <2>2
<1>3. ASSUME NEW n \in Names, StartUnlink(n)
      PROVE  OpenInv' /\ JobInv'
  <2>1. Idle
    BY <1>3 DEF StartUnlink, Starts
  <2> QED
    BY <1>3, <2>1, StartUnlinkTyped
<1>4. ASSUME NEW h \in Handles, NEW off \in 0..(MaxSize - 1), NEW size \in 1..MaxSize,
             NEW v \in Bytes, off + size <= MaxSize, StartWrite(h, off, size, v)
      PROVE  OpenInv' /\ JobInv'
  <2>1. Idle
    BY <1>4 DEF StartWrite, Starts
  <2> QED
    BY <1>4, <2>1, StartWriteTyped
<1>5. ASSUME NEW n \in Names, NEW newSize \in 0..MaxSize, StartTruncate(n, newSize)
      PROVE  OpenInv' /\ JobInv'
  <2>1. Idle
    BY <1>5 DEF StartTruncate, Starts, StartShrink
  <2> QED
    BY <1>5, <2>1, StartTruncateTyped
<1>6. CASE HandlerStep
  BY <1>6, HandlerStepTyped
<1>7. CASE KillWithin
  <2>1. dmapDisc' \in [DmapGroups -> [DmapOffsets -> BOOLEAN]]
    BY <1>7 DEF KillWithin, OpenInv, TypeOK, DmapTypeOK
  <2>2. OpenInv'
    BY <1>7, <2>1, EndKeepsInv, OutcomesOf DEF KillWithin
  <2>3. JobInv'
    BY <1>7 DEF KillWithin, JobInv, Idle
  <2> QED
    BY <2>2, <2>3
<1> QED
  BY <1>1, <1>2, <1>3, <1>4, <1>5, <1>6, <1>7 DEF StepsNext

\* Both invariants hold in every state of every behaviour.
LEMMA StepsInvariant == StepsSpec => [](OpenInv /\ JobInv)
<1>1. StepsInit => OpenInv /\ JobInv
  BY InitOpenInv DEF StepsInit, JobInv, Idle
<1> QED
  BY <1>1, StepsInvInductive, PTL DEF StepsSpec

(***************************************************************************)
(* Whatever the clients do, wherever the process is killed and whichever   *)
(* block writes fail: the tables and the locals of the handler that runs   *)
(* keep their types; a write or truncation never holds more blocks than    *)
(* there are, and its entry is there until it returns.                     *)
(***************************************************************************)
THEOREM StepsTyped == StepsSpec => []StepsTypeOK
<1>1. OpenInv /\ JobInv => StepsTypeOK
  BY DEF OpenInv, JobInv, StepsTypeOK, Idle
<1> QED
  BY <1>1, StepsInvariant, PTL

-----------------------------------------------------------------------------
(* The owners of blocks while handlers run, for clients without "shrink",  *)
(* when no block write fails and no removal is interrupted.                *)

\* The blocks that are marked as used, in memory and where a mount reads it.
Kept ==
    {b \in DataBlocks : b < DMAP_PER_BLOCK /\ dmapDisc[0][b] /\ (mounted => dmapArray[b])}

\* The handler that runs is to free all blocks of its file.
Freeing ==
    /\ ~Idle
    /\ run.op = "unlink" \/ (run.at \in {"spare", "spareMap"} /\ run.size = 0)

\* A block with an owner is marked, unless it is about to lose its owner.
StepsMarked(own) ==
    \A b \in DataBlocks : own[b] # NULL => b \in Kept \/ (Freeing /\ own[b] = run.s)

\* No link leads on from a block that is not marked, but from the one that a
\* removal has just unmarked.
LinksMarked ==
    \A b \in DataBlocks : fatDisc[b] # FAT_END =>
        b \in Kept \/ (~Idle /\ run.at = "freeFat" /\ b = run.cur)

\* Blocks that may have been taken and not linked yet.
Loose(own) == {b \in Kept : own[b] = NULL /\ fatDisc[b] = FAT_END}

\* The block b is one of the file of the handler that runs, or the end.
AtOwn(own, b) == b = FAT_END \/ own[b] = run.s

\* A directory names no first block for the slot s.
NoFirst(dir, s) == dir[s] = NULL \/ dir[s].firstBlock = FAT_END

\* A truncation that keeps all blocks walks along the chain, to its end.
KeepsChain ==
    LET c == Chain(fatArray, rootFiles[run.s].firstBlock)
    IN  /\ run.at = "spare"
        /\ Len(c) <= numBlocks(run.size)
        /\ run.i <= Len(c)
        /\ run.cur = IF run.i < Len(c) THEN c[run.i + 1] ELSE FAT_END

\* Where the handler that runs has got to.
JobOwns(own) ==
    /\ run.at \in {"take", "attach"} => \A j \in 1..Len(run.new) : run.new[j] \in Loose(own)
    /\ (run.at = "attach" /\ rootFiles[run.s].firstBlock # FAT_END) =>
          run.cur # FAT_END /\ own[run.cur] = run.s
    /\ run.at = "link" => \A j \in 1..Len(run.new) :
          /\ j > run.i => run.new[j] \in Loose(own)
          /\ j <= run.i => own[run.new[j]] = run.s
          /\ j = run.i => fatDisc[run.new[j]] = FAT_END
    /\ run.at \in {"spare", "spareMap", "freeMap", "freeFat"} => AtOwn(own, run.cur)
    /\ run.at \in {"spareMap", "freeFat"} => run.cur # FAT_END /\ AtOwn(own, run.next)
    /\ run.at = "spareMap" => fatDisc[run.cur] = FAT_END
    /\ run.at \in {"spare", "spareMap"} =>
          IF run.size = 0 THEN NoFirst(rootFiles, run.s) /\ NoFirst(rootDisc, run.s)
                          ELSE KeepsChain
    /\ run.op = "unlink" =>
          \/ rootFiles[run.s] = NULL /\ rootDisc[run.s] = NULL
          \/ run.s \in getRootEntryFile(rootFiles, run.n)

\* What Owned is for single steps: links and first blocks in memory and on disc.
StepsOwned(own) ==
    /\ OwnsLinks(own, fatDisc)
    /\ OwnsFirsts(own, rootFiles)
    /\ OwnsFirsts(own, rootDisc)
    /\ StepsMarked(own)
    /\ ~Idle => JobOwns(own)

\* The inductive invariant.  When no handler runs, it is the one of MyOnDiskFS.
StepsOwnInv ==
    /\ FatInv
    /\ UnmountedEmpty
    /\ LinksMarked
    /\ \E own \in Owners : StepsOwned(own)

LEMMA RestingOwners ==
    ASSUME Idle, NEW own
    PROVE  StepsOwned(own) <=> Owned(own)
BY EndIsNoDataBlock
   DEF StepsOwned, Owned, StepsMarked, OwnsMarked, Freeing, Kept, Idle

\* What is not the end is a data block.
LEMMA NotTheEnd == \A b \in Blocks : b # FAT_END => b \in DataBlocks
BY LayoutAssumption DEF Blocks, DataBlocks, FAT_END

\* What the steps of a running handler start from.
LEMMA RunningOwner ==
    ASSUME OpenInv, JobInv, ~Idle, StepsOwnInv, NEW own \in Owners, StepsOwned(own)
    PROVE  /\ mounted /\ fatDisc = fatArray /\ fatArray \in [Blocks -> Blocks]
           /\ Terminates(fatArray)
           /\ rootFiles \in RootDirectories /\ rootDisc \in RootDirectories
           /\ own \in [Blocks -> Slots \cup {NULL}] /\ NULL \notin Slots
           /\ OwnsLinks(own, fatArray) /\ OwnsFirsts(own, rootFiles) /\ OwnsFirsts(own, rootDisc)
           /\ StepsMarked(own) /\ JobOwns(own)
BY OnDiskAssumption
   DEF OpenInv, TypeOK, FatTypeOK, RootTypeOK, RootDirectories, JobInv, StepsOwnInv, FatInv,
       FatPersisted, ChainsEnd, StepsOwned, Owners

\* The table without cycles, after one entry is cut, or leads to a block from
\* which no link leads on.
LEMMA OneLinkTerminates ==
    ASSUME NEW fat \in [Blocks -> Blocks], Terminates(fat), NEW b \in Blocks, NEW c \in Blocks,
           c = FAT_END \/ (c # b /\ fat[c] = FAT_END)
    PROVE  Terminates([fat EXCEPT ![b] = c])
<1> DEFINE new == [fat EXCEPT ![b] = c]
<1> SUFFICES ASSUME NEW S \in SUBSET DataBlocks, S # {}
             PROVE  \E x \in S : new[x] \notin S
  BY DEF Terminates
<1>1. FAT_END \notin S /\ S \subseteq Blocks
  BY EndIsNoDataBlock
<1>2. CASE c \in S
  BY <1>1, <1>2
<1>3. CASE c \notin S
  <2>1. PICK x \in S : fat[x] \notin S
    BY DEF Terminates
  <2> QED
    BY <1>1, <1>3, <2>1
<1> QED
  BY <1>2, <1>3

\* One link more, between blocks of one owner, or one less.
LEMMA OwnsOneLink ==
    ASSUME NEW own \in Owners, NEW fat \in [Blocks -> Blocks], OwnsLinks(own, fat),
           NEW b \in Blocks, NEW c \in Blocks, c = FAT_END \/ own[c] = own[b]
    PROVE  OwnsLinks(own, [fat EXCEPT ![b] = c])
BY EndIsNoDataBlock DEF OwnsLinks, Owners

\* A block from which no link leads on gets an owner.
LEMMA OwnerGiven ==
    ASSUME NEW own \in Owners, NEW fat \in [Blocks -> Blocks], OwnsLinks(own, fat),
           NEW b \in DataBlocks, own[b] = NULL, fat[b] = FAT_END, NEW s \in Slots
    PROVE  LET own2 == [own EXCEPT ![b] = s]
           IN  /\ own2 \in Owners /\ own2[b] = s
               /\ \A c \in Blocks : c # b => own2[c] = own[c]
               /\ \A c \in Blocks : own[c] # NULL => own2[c] = own[c]
               /\ OwnsLinks(own2, fat)
               /\ \A dir \in RootDirectories : OwnsFirsts(own, dir) => OwnsFirsts(own2, dir)
<1> DEFINE own2 == [own EXCEPT ![b] = s]
<1>1. own2 \in Owners /\ own2[b] = s /\ \A c \in Blocks : c # b => own2[c] = own[c]
  BY EndIsNoDataBlock DEF Owners
<1>2. \A c \in Blocks : own[c] # NULL => own2[c] = own[c]
  BY <1>1
<1> HIDE DEF own2
<1>3. OwnsLinks(own2, fat)
  <2> SUFFICES ASSUME NEW c \in DataBlocks, own2[c] # NULL, fat[c] # FAT_END
               PROVE  own2[fat[c]] = own2[c]
    BY DEF OwnsLinks
  <2>1. c # b /\ c \in Blocks /\ fat[c] \in Blocks
    BY EndIsNoDataBlock
  <2>2. own[c] # NULL /\ own[fat[c]] = own[c]
    BY <1>1, <2>1 DEF OwnsLinks
  <2> QED
    BY <1>2, <2>1, <2>2
<1>4. ASSUME NEW dir \in RootDirectories, OwnsFirsts(own, dir)
      PROVE  OwnsFirsts(own2, dir)
  <2> SUFFICES ASSUME NEW t \in Slots, dir[t] # NULL, dir[t].firstBlock # FAT_END
               PROVE  own2[dir[t].firstBlock] = t
    BY DEF OwnsFirsts
  <2>1. dir[t].firstBlock \in Blocks
    BY DEF RootDirectories, rootFile
  <2>2. own[dir[t].firstBlock] = t /\ t # NULL
    BY <1>4, OnDiskAssumption DEF OwnsFirsts
  <2> QED
    BY <1>2, <2>1, <2>2
<1> QED
  BY <1>1, <1>2, <1>3, <1>4 DEF own2

\* All blocks of the slot s lose their owner.
LEMMA OwnerLost ==
    ASSUME NEW own \in Owners, NEW fat \in [Blocks -> Blocks], OwnsLinks(own, fat),
           NEW s \in Slots
    PROVE  LET own2 == [b \in Blocks |-> IF own[b] = s THEN NULL ELSE own[b]]
           IN  /\ own2 \in Owners
               /\ \A b \in Blocks : own2[b] # NULL => own2[b] = own[b] /\ own[b] # s
               /\ OwnsLinks(own2, fat)
               /\ \A dir \in RootDirectories :
                     OwnsFirsts(own, dir) /\ NoFirst(dir, s) => OwnsFirsts(own2, dir)
<1> DEFINE own2 == [b \in Blocks |-> IF own[b] = s THEN NULL ELSE own[b]]
<1>1. own2 \in Owners
  BY DEF Owners
<1>2. \A b \in Blocks : /\ own2[b] # NULL => own2[b] = own[b] /\ own[b] # s
                        /\ own[b] # s => own2[b] = own[b]
  OBVIOUS
<1> HIDE DEF own2
<1>3. OwnsLinks(own2, fat)
  <2> SUFFICES ASSUME NEW c \in DataBlocks, own2[c] # NULL, fat[c] # FAT_END
               PROVE  own2[fat[c]] = own2[c]
    BY DEF OwnsLinks
  <2>1. c \in Blocks /\ fat[c] \in Blocks
    BY EndIsNoDataBlock
  <2>2. own[c] # NULL /\ own[c] # s /\ own[fat[c]] = own[c]
    BY <1>2, <2>1 DEF OwnsLinks
  <2> QED
    BY <1>2, <2>1, <2>2
<1>4. ASSUME NEW dir \in RootDirectories, OwnsFirsts(own, dir), NoFirst(dir, s)
      PROVE  OwnsFirsts(own2, dir)
  <2> SUFFICES ASSUME NEW t \in Slots, dir[t] # NULL, dir[t].firstBlock # FAT_END
               PROVE  own2[dir[t].firstBlock] = t
    BY DEF OwnsFirsts
  <2>1. dir[t].firstBlock \in Blocks /\ t # s
    BY <1>4 DEF RootDirectories, rootFile, NoFirst
  <2>2. own[dir[t].firstBlock] = t
    BY <1>4 DEF OwnsFirsts
  <2> QED
    BY <1>2, <2>1, <2>2
<1> QED
  BY <1>1, <1>2, <1>3, <1>4 DEF own2

\* What one block write does, if none fails.
LEMMA setNextWrites ==
    ASSUME "device" \notin Faults, OpenInv, FatInv, mounted, UNCHANGED <<container, mounted>>,
           NEW b \in Blocks, NEW c \in Blocks, c = FAT_END \/ (c # b /\ fatArray[c] = FAT_END),
           setNext(b, c)
    PROVE  /\ FatInv'
           /\ fatArray' = [fatArray EXCEPT ![b] = c] /\ fatDisc' = fatArray'
           /\ Kept' = Kept /\ UNCHANGED <<rootFiles, rootDisc>>
<1> DEFINE new == [fatArray EXCEPT ![b] = c]
<1>1. fatArray \in [Blocks -> Blocks] /\ fatDisc = fatArray /\ new \in [Blocks -> Blocks]
      /\ Terminates(fatArray)
  BY DEF OpenInv, TypeOK, FatTypeOK, FatInv, FatPersisted, ChainsEnd
<1>2. fatArray' = new /\ fatDisc' = FatDiscWrite(fatArray, new, {b})
      /\ UNCHANGED <<rootFiles, rootDisc, dmapArray, dmapDisc>>
  BY <1>1 DEF setNext, DeviceWrite
<1>3. \A x \in Blocks : x \notin {b} => new[x] = fatArray[x]
  BY <1>1
<1>4. Terminates(new)
  BY <1>1, OneLinkTerminates
<1> HIDE DEF new
<1>5. FatDiscWrite(fatArray, new, {b}) = new
  BY <1>1, <1>3, FatDiscWriteComplete
<1>6. FatInv'
  BY <1>2, <1>4, <1>5, FatChanged
<1>7. Kept' = Kept
  BY <1>2 DEF Kept
<1> QED
  BY <1>2, <1>5, <1>6, <1>7 DEF new

LEMMA setMapWrites ==
    ASSUME "device" \notin Faults, OpenInv, FatInv, mounted, UNCHANGED <<container, mounted>>,
           NEW b \in DataBlocks, NEW used \in BOOLEAN, setMap(b, used)
    PROVE  /\ FatInv'
           /\ UNCHANGED <<rootFiles, rootDisc, fatArray, fatDisc>>
           /\ Kept \ {b} \subseteq Kept'
           /\ used => Kept \subseteq Kept'
           /\ used /\ b < DMAP_PER_BLOCK => b \in Kept'
<1>1. DmapTypeOK /\ <<b>> \in Seq(DataBlocks) /\ Len(<<b>>) = 1 /\ <<b>>[1] = b
  BY DEF OpenInv, TypeOK
<1>2. /\ dmapArray' = [dmapArray EXCEPT ![b] = used]
      /\ dmapDisc' = DmapDiscWrite(dmapDisc, dmapArray, <<b>>, used)
      /\ UNCHANGED <<rootFiles, rootDisc, fatArray, fatDisc>>
  BY DEF setMap, DeviceWrite
<1>3. FatInv'
  BY <1>2, FatSame
<1>4. \A c \in DataBlocks : c \in Blocks /\ dmapArray'[c] = IF c = b THEN used ELSE dmapArray[c]
  BY <1>1, <1>2, EndIsNoDataBlock DEF DmapTypeOK
<1>5. ASSUME NEW c \in DataBlocks, c < DMAP_PER_BLOCK
      PROVE  /\ dmapArray[c] /\ dmapDisc[0][c] /\ (used \/ c # b) => dmapDisc'[0][c]
             /\ used /\ c = b => dmapDisc'[0][c]
  <2>1. \A i \in 1..Len(<<b>>) : <<b>>[i] = b
    OBVIOUS
  <2>2. \E i \in 1..Len(<<b>>) : <<b>>[i] = b
    BY <1>1
  <2> DEFINE s == <<b>>
  <2>3. s \in Seq(DataBlocks) /\ dmapDisc' = DmapDiscWrite(dmapDisc, dmapArray, s, used)
    BY <1>1, <1>2
  <2>4. (\A i \in 1..Len(s) : s[i] # c) <=> c # b
    BY <2>1, <2>2
  <2>5. c = b => \E i \in 1..Len(s) : s[i] = c
    BY <2>2
  <2> HIDE DEF s
  <2>6. c \in Blocks
    BY <1>4
  <2> QED
    BY <1>1, <1>5, <2>3, <2>4, <2>5, <2>6, FirstMarks
<1>6. ASSUME NEW c \in Kept, used \/ c # b
      PROVE  c \in Kept'
  BY <1>4, <1>5, <1>6 DEF Kept
<1>7. used /\ b < DMAP_PER_BLOCK => b \in Kept'
  BY <1>4, <1>5 DEF Kept
<1> QED
  BY <1>2, <1>3, <1>6, <1>7

LEMMA setEntryWrites ==
    ASSUME "device" \notin Faults, OpenInv, FatInv, UNCHANGED <<container, mounted>>,
           NEW s \in Slots, NEW f, setEntry(s, f)
    PROVE  /\ FatInv'
           /\ rootFiles' = [rootFiles EXCEPT ![s] = f]
           /\ rootDisc' = [rootDisc EXCEPT ![s] = f]
           /\ UNCHANGED <<fatArray, fatDisc>> /\ Kept' = Kept
<1>1. /\ rootFiles' = [rootFiles EXCEPT ![s] = f] /\ rootDisc' = [rootDisc EXCEPT ![s] = f]
      /\ UNCHANGED <<fatArray, fatDisc, dmapArray, dmapDisc>>
  BY DEF setEntry, DeviceWrite
<1>2. FatInv'
  BY <1>1, FatSame
<1>3. Kept' = Kept
  BY <1>1 DEF Kept
<1> QED
  BY <1>1, <1>2, <1>3

\* Entries that change keep their first blocks, or have none.
LEMMA FirstsStay ==
    ASSUME NEW own, NEW dir \in RootDirectories, OwnsFirsts(own, dir), NEW s \in Slots,
           NEW f, f = NULL \/ f.firstBlock = FAT_END \/ own[f.firstBlock] = s
    PROVE  OwnsFirsts(own, [dir EXCEPT ![s] = f])
BY DEF OwnsFirsts, RootDirectories

\* The handler has returned, and its file has all its blocks, or has none.
LEMMA OwnersReturn ==
    ASSUME OpenInv, JobInv, ~Idle, StepsOwnInv, NEW own \in Owners, StepsOwned(own),
           run' = NULL, FatInv', UnmountedEmpty', fatDisc' = fatDisc, Kept \subseteq Kept',
           OwnsFirsts(own, rootFiles'), OwnsFirsts(own, rootDisc'),
           rootFiles' \in RootDirectories, rootDisc' \in RootDirectories,
           run.at # "freeFat",
           Freeing => NoFirst(rootFiles', run.s) /\ NoFirst(rootDisc', run.s)
    PROVE  StepsOwnInv'
<1>1. Idle'
  BY DEF Idle
<1>2. LinksMarked'
  BY DEF StepsOwnInv, LinksMarked
<1>3. run.s \in Slots /\ fatDisc \in [Blocks -> Blocks] /\ OwnsLinks(own, fatDisc)
      /\ StepsMarked(own)
  BY JobFields DEF JobInv, OpenInv, TypeOK, FatTypeOK, StepsOwned
<1>4. CASE ~Freeing
  <2>1. StepsMarked(own)'
    BY <1>3, <1>4 DEF StepsMarked
  <2>2. StepsOwned(own)'
    BY <1>1, <1>3, <2>1 DEF StepsOwned
  <2> QED
    BY <1>2, <2>2 DEF StepsOwnInv, Owners
<1>5. CASE Freeing
  <2>1. PICK own2 \in Owners :
              /\ \A b \in Blocks : own2[b] # NULL => own2[b] = own[b] /\ own[b] # run.s
              /\ OwnsLinks(own2, fatDisc)
              /\ OwnsFirsts(own2, rootFiles') /\ OwnsFirsts(own2, rootDisc')
    BY <1>3, <1>5, OwnerLost
  <2>2. \A b \in DataBlocks : own2[b] # NULL => b \in Kept'
    BY <1>3, <2>1, EndIsNoDataBlock DEF StepsMarked
  <2>3. StepsOwned(own2)'
    BY <1>1, <2>1, <2>2 DEF StepsOwned, StepsMarked
  <2> QED
    BY <1>2, <2>3 DEF StepsOwnInv, Owners
<1> QED
  BY <1>4, <1>5

\* The handler goes on.
LEMMA OwnersProceed ==
    ASSUME FatInv', mounted', NEW own \in Owners,
           OwnsLinks(own, fatDisc'), OwnsFirsts(own, rootFiles'), OwnsFirsts(own, rootDisc'),
           StepsMarked(own)', LinksMarked', JobOwns(own)'
    PROVE  StepsOwnInv'
<1>1. StepsOwned(own)'
  BY DEF StepsOwned
<1> QED
  BY <1>1 DEF StepsOwnInv, Owners, UnmountedEmpty

\* The process ends within a write or a truncation.
LEMMA EndsOwned ==
    ASSUME OpenInv, JobInv, ~Idle, StepsOwnInv, run.op # "unlink",
           NEW r, ProcessEnds(r), run' = NULL, UNCHANGED <<container, rootDisc, fatDisc, dmapDisc>>
    PROVE  StepsOwnInv'
<1>1. PICK own \in Owners : StepsOwned(own)
  BY DEF StepsOwnInv
<1>2. rootFiles' = EmptyDirectory /\ ~mounted' /\ FatInv'
  BY FatEnds DEF ProcessEnds, StepsOwnInv
<1>3. /\ UnmountedEmpty' /\ OwnsFirsts(own, rootFiles')
      /\ rootFiles' \in RootDirectories /\ NoFirst(rootFiles', run.s)
  BY <1>2, JobFields DEF UnmountedEmpty, OwnsFirsts, EmptyDirectory, RootDirectories, NoFirst, JobInv
<1>4. /\ OwnsFirsts(own, rootDisc') /\ rootDisc' \in RootDirectories
      /\ Freeing => NoFirst(rootDisc', run.s)
  BY <1>1, RunningOwner DEF Freeing, JobOwns
<1>5. Kept \subseteq Kept'
  BY <1>2 DEF Kept
<1>6. run.at # "freeFat"
  BY JobFields DEF JobInv
<1> QED
  BY <1>1, <1>2, <1>3, <1>4, <1>5, <1>6, OwnersReturn

\* A block that is taken has a mark after, and neither an owner nor a link.
LEMMA TakeBlockOwned ==
    ASSUME "device" \notin Faults, OpenInv, JobInv, ~Idle, StepsOwnInv, UsedInFirstMapBlock',
           TakeBlock
    PROVE  StepsOwnInv'
<1>1. PICK own \in Owners : StepsOwned(own)
  BY DEF StepsOwnInv
<1>2. run.at = "take" /\ run.op \in {"write", "truncate"} /\ run \in Job
  BY JobFields DEF TakeBlock, JobInv
<1>3. ~Freeing
  BY <1>2 DEF Freeing
<1>4. CASE /\ ProcessEnds("SIGSEGV") /\ run' = NULL
           /\ UNCHANGED <<container, rootDisc, fatDisc, dmapDisc, blockData>>
  BY <1>2, <1>4, EndsOwned
<1>5. ASSUME NEW b \in getFirstFreeBlock, setMap(b, TRUE),
             GoesOn([run EXCEPT
                   !.new = Append(@, b),
                   !.at = IF Len(run.new) + 1 = run.k THEN "attach" ELSE "take",
                   !.cur = rootFiles[run.s].firstBlock])
      PROVE  StepsOwnInv'
  <2> DEFINE new == Append(run.new, b)
             at == IF Len(run.new) + 1 = run.k THEN "attach" ELSE "take"
             first == rootFiles[run.s].firstBlock
             job == [run EXCEPT !.new = new, !.at = at, !.cur = first]
  <2>1. b \in DataBlocks /\ ~dmapArray[b] /\ b \in Blocks
    BY <1>5, EndIsNoDataBlock DEF getFirstFreeBlock, FreeBlocks
  <2>2. mounted /\ b \notin Kept
    BY <2>1 DEF JobInv, Kept
  <2>3. own[b] = NULL /\ fatDisc[b] = FAT_END
    BY <1>1, <1>2, <1>3, <2>1, <2>2 DEF StepsOwned, StepsMarked, StepsOwnInv, LinksMarked
  <2>4. /\ new \in Seq(DataBlocks) /\ Len(new) = Len(run.new) + 1
        /\ new[Len(new)] = b /\ \A i \in 1..Len(run.new) : new[i] = run.new[i]
    BY <2>1, RunningJob
  <2>5. run' = job /\ UNCHANGED <<container, mounted>>
    BY <1>5 DEF GoesOn
  <2>6. /\ FatInv' /\ UNCHANGED <<rootFiles, rootDisc, fatArray, fatDisc>>
        /\ Kept \subseteq Kept' /\ (b < DMAP_PER_BLOCK => b \in Kept')
    BY <1>5, <2>1, <2>2, <2>5, setMapWrites DEF StepsOwnInv
  <2>7. dmapArray'[b]
    BY <1>5, <2>1 DEF setMap, OpenInv, TypeOK, DmapTypeOK
  <2>8. b \in Kept'
    BY <2>1, <2>6, <2>7 DEF UsedInFirstMapBlock
  <2> HIDE DEF new
  <2>9. /\ job.op = run.op /\ job.s = run.s /\ job.new = new /\ job.at = at /\ job.cur = first
    BY <1>2 DEF Job
  <2>10. at \in {"take", "attach"}
    OBVIOUS
  <2> HIDE DEF job, at
  <2>11. \A j \in 1..Len(new) : new[j] \in Kept' /\ own[new[j]] = NULL /\ fatDisc'[new[j]] = FAT_END
    <3> SUFFICES ASSUME NEW j \in 1..Len(new)
                 PROVE  new[j] \in Kept' /\ own[new[j]] = NULL /\ fatDisc'[new[j]] = FAT_END
      OBVIOUS
    <3>1. CASE j \in 1..Len(run.new)
      <4>1. run.new[j] \in Loose(own)
        BY <1>1, <1>2, <3>1, RunningOwner DEF JobOwns
      <4> QED
        BY <2>4, <2>6, <3>1, <4>1 DEF Loose
    <3>2. CASE j = Len(new)
      BY <2>3, <2>4, <2>6, <2>8, <3>2
    <3>3. Len(run.new) \in Nat
      BY RunningJob
    <3> QED
      BY <2>4, <3>1, <3>2, <3>3
  <2>12. first = FAT_END \/ own[first] = run.s
    BY <1>1, <1>2, RunningOwner, RunningJob DEF OwnsFirsts
  <2>13. JobOwns(own)'
    BY <1>2, <2>5, <2>6, <2>9, <2>10, <2>11, <2>12 DEF JobOwns, Loose
  <2>14. StepsMarked(own)'
    BY <1>1, <1>3, <2>6 DEF StepsOwned, StepsMarked
  <2>15. LinksMarked'
    BY <1>2, <2>6 DEF StepsOwnInv, LinksMarked
  <2>16. mounted'
    BY <2>2, <2>5
  <2>17. OwnsLinks(own, fatDisc') /\ OwnsFirsts(own, rootFiles') /\ OwnsFirsts(own, rootDisc')
    BY <1>1, <2>6 DEF StepsOwned
  <2> QED
    BY <2>6, <2>13, <2>14, <2>15, <2>16, <2>17, OwnersProceed
<1> QED
  BY <1>4, <1>5 DEF TakeBlock

\* The first new block gets the file as its owner.
LEMMA AttachOwned ==
    ASSUME "device" \notin Faults, OpenInv, JobInv, ~Idle, StepsOwnInv, Attach
    PROVE  StepsOwnInv'
<1> DEFINE linked == [run EXCEPT !.at = "link", !.i = 1]
           next == [run EXCEPT !.cur = fatArray[@]]
           first == rootFiles[run.s].firstBlock
           b == run.new[1]
<1>1. PICK own \in Owners : StepsOwned(own)
  BY DEF StepsOwnInv
<1>2. /\ run.at = "attach" /\ run.op \in {"write", "truncate"} /\ run \in Job
      /\ Len(run.new) = run.k /\ run.k # 0 /\ Distinct(run.new) /\ rootFiles[run.s] # NULL
  BY JobFields DEF Attach, JobInv
<1>3. /\ mounted /\ fatDisc = fatArray /\ fatArray \in [Blocks -> Blocks]
      /\ rootFiles \in RootDirectories /\ rootDisc \in RootDirectories
      /\ own \in [Blocks -> Slots \cup {NULL}] /\ NULL \notin Slots /\ run.s \in Slots
      /\ OwnsLinks(own, fatArray) /\ OwnsFirsts(own, rootFiles) /\ OwnsFirsts(own, rootDisc)
      /\ StepsMarked(own) /\ JobOwns(own) /\ run.cur \in Blocks
  BY <1>1, RunningOwner, RunningJob
<1>4. ~Freeing
  BY <1>2 DEF Freeing
<1>5. \A c \in DataBlocks : own[c] # NULL => c \in Kept
  BY <1>3, <1>4 DEF StepsMarked
<1>6. /\ \A j \in 1..Len(run.new) : run.new[j] \in Loose(own)
      /\ first # FAT_END => run.cur # FAT_END /\ own[run.cur] = run.s
  BY <1>2, <1>3 DEF JobOwns
<1>7. 1 \in 1..Len(run.new) /\ b \in DataBlocks /\ b \in Blocks
  BY <1>2, RunningJob, EndIsNoDataBlock
<1>8. b \in Kept /\ own[b] = NULL /\ fatArray[b] = FAT_END
  BY <1>3, <1>6, <1>7 DEF Loose
<1>9. PICK own2 \in Owners :
          /\ own2[b] = run.s
          /\ \A c \in Blocks : c # b => own2[c] = own[c]
          /\ \A c \in Blocks : own[c] # NULL => own2[c] = own[c]
          /\ OwnsLinks(own2, fatArray)
          /\ \A dir \in RootDirectories : OwnsFirsts(own, dir) => OwnsFirsts(own2, dir)
  <2> DEFINE o == [own EXCEPT ![b] = run.s]
  <2>1. /\ o \in Owners /\ o[b] = run.s
        /\ \A c \in Blocks : c # b => o[c] = own[c]
        /\ \A c \in Blocks : own[c] # NULL => o[c] = own[c]
        /\ OwnsLinks(o, fatArray)
        /\ \A dir \in RootDirectories : OwnsFirsts(own, dir) => OwnsFirsts(o, dir)
    BY <1>3, <1>7, <1>8, OwnerGiven
  <2> QED
    BY <2>1
<1>10. \A c \in DataBlocks : own2[c] # NULL => c \in Kept
  BY <1>5, <1>8, <1>9, EndIsNoDataBlock
<1>11. \A j \in 1..Len(run.new) : j # 1 =>
          run.new[j] \in Kept /\ own2[run.new[j]] = NULL /\ fatArray[run.new[j]] = FAT_END
  <2> SUFFICES ASSUME NEW j \in 1..Len(run.new), j # 1
               PROVE  run.new[j] \in Kept /\ own2[run.new[j]] = NULL /\ fatArray[run.new[j]] = FAT_END
    OBVIOUS
  <2>1. run.new[j] # b
    BY <1>2, <1>7 DEF Distinct
  <2>2. run.new[j] \in Kept /\ own[run.new[j]] = NULL /\ fatArray[run.new[j]] = FAT_END
    BY <1>3, <1>6 DEF Loose
  <2>3. run.new[j] \in Blocks
    BY <2>2, EndIsNoDataBlock DEF Kept
  <2> QED
    BY <1>9, <2>1, <2>2, <2>3
<1>12. /\ linked.op = run.op /\ linked.s = run.s /\ linked.new = run.new
       /\ linked.at = "link" /\ linked.i = 1
       /\ next.op = run.op /\ next.s = run.s /\ next.new = run.new /\ next.at = run.at
       /\ next.cur = fatArray[run.cur]
  BY <1>2 DEF Job
<1>13. \/ /\ first = FAT_END
          /\ rootFiles' = [rootFiles EXCEPT ![run.s].firstBlock = b]
          /\ UNCHANGED <<rootDisc, fatArray, fatDisc, dmapArray, dmapDisc, blockData>>
          /\ GoesOn(linked)
       \/ first # FAT_END /\ fatArray[run.cur] # FAT_END /\ UNCHANGED fsVars /\ GoesOn(next)
       \/ first # FAT_END /\ setNext(run.cur, b) /\ GoesOn(linked)
  BY DEF Attach
<1>14. LinksMarked /\ FatInv
  BY DEF StepsOwnInv
<1> HIDE DEF linked, next, b
<1>15. CASE first # FAT_END /\ fatArray[run.cur] # FAT_END /\ UNCHANGED fsVars /\ GoesOn(next)
  <2>1. run' = next /\ UNCHANGED <<container, mounted, rootFiles, rootDisc, fatArray, fatDisc>>
        /\ Kept' = Kept
    BY <1>15 DEF GoesOn, fsVars, Kept
  <2>2. run.cur \in DataBlocks
    BY <1>3, <1>6, <1>15, NotTheEnd
  <2>3. own[fatArray[run.cur]] = run.s
    BY <1>3, <1>6, <1>15, <2>2 DEF OwnsLinks
  <2>4. JobOwns(own)'
    BY <1>2, <1>3, <1>6, <1>12, <1>15, <2>1, <2>3 DEF JobOwns, Loose
  <2>5. StepsMarked(own)' /\ LinksMarked'
    BY <1>2, <1>5, <1>14, <2>1 DEF StepsMarked, LinksMarked
  <2>6. FatInv' /\ mounted'
    BY <1>3, <1>14, <2>1, FatSame
  <2> QED
    BY <1>3, <2>1, <2>4, <2>5, <2>6, OwnersProceed
<1>16. ASSUME run' = linked, UNCHANGED <<container, mounted>>, Kept' = Kept,
              OwnsLinks(own2, fatDisc'), OwnsFirsts(own2, rootFiles'), OwnsFirsts(own2, rootDisc'),
              FatInv', \A c \in DataBlocks : own[c] = NULL => fatDisc'[c] = fatDisc[c],
              \A c \in DataBlocks : c \notin Kept => fatDisc'[c] = fatDisc[c]
       PROVE  StepsOwnInv'
  <2>1. StepsMarked(own2)' /\ LinksMarked'
    BY <1>2, <1>10, <1>14, <1>16 DEF StepsMarked, LinksMarked
  <2>2. \A j \in 1..Len(run.new) : j > 1 =>
           run.new[j] \in Kept' /\ own2[run.new[j]] = NULL /\ fatDisc'[run.new[j]] = FAT_END
    <3> SUFFICES ASSUME NEW j \in 1..Len(run.new), j > 1
                 PROVE  run.new[j] \in Kept' /\ own2[run.new[j]] = NULL
                        /\ fatDisc'[run.new[j]] = FAT_END
      OBVIOUS
    <3>1. run.new[j] \in Kept /\ own2[run.new[j]] = NULL /\ fatArray[run.new[j]] = FAT_END
      BY <1>11
    <3>2. own[run.new[j]] = NULL /\ run.new[j] \in DataBlocks
      BY <1>6 DEF Loose, Kept
    <3> QED
      BY <1>3, <1>16, <3>1, <3>2
  <2>3. fatDisc'[b] = FAT_END
    BY <1>3, <1>7, <1>8, <1>16
  <2>4. \A j \in 1..Len(run.new) : j <= 1 => j = 1
    OBVIOUS
  <2>5. b = run.new[1]
    BY DEF b
  <2>6. JobOwns(own2)'
    BY <1>2, <1>9, <1>12, <1>16, <2>2, <2>3, <2>4, <2>5 DEF JobOwns, Loose
  <2>7. mounted'
    BY <1>3, <1>16
  <2> QED
    BY <1>16, <2>1, <2>6, <2>7, OwnersProceed
<1>17. CASE first # FAT_END /\ setNext(run.cur, b) /\ GoesOn(linked)
  <2>1. run.cur # b /\ own[run.cur] = run.s /\ run.cur # FAT_END
    BY <1>3, <1>6, <1>8, <1>17
  <2>2. run' = linked /\ UNCHANGED <<container, mounted>>
    BY <1>17 DEF GoesOn
  <2>3. /\ FatInv' /\ fatArray' = [fatArray EXCEPT ![run.cur] = b] /\ fatDisc' = fatArray'
        /\ Kept' = Kept /\ UNCHANGED <<rootFiles, rootDisc>>
    BY <1>3, <1>7, <1>8, <1>14, <1>17, <2>1, <2>2, setNextWrites
  <2>4. OwnsLinks(own2, fatDisc')
    <3>1. own2[b] = own2[run.cur]
      BY <1>3, <1>9, <2>1
    <3> QED
      BY <1>3, <1>7, <1>9, <2>3, <3>1, OwnsOneLink
  <2>5. \A c \in DataBlocks : (own[c] = NULL \/ c \notin Kept) => fatDisc'[c] = fatDisc[c]
    BY <1>3, <1>5, <2>1, <2>3, EndIsNoDataBlock
  <2>6. OwnsFirsts(own2, rootFiles') /\ OwnsFirsts(own2, rootDisc')
    BY <1>3, <1>9, <2>3
  <2> QED
    BY <1>16, <2>2, <2>3, <2>4, <2>5, <2>6
<1>18. CASE /\ first = FAT_END
            /\ rootFiles' = [rootFiles EXCEPT ![run.s].firstBlock = b]
            /\ UNCHANGED <<rootDisc, fatArray, fatDisc, dmapArray, dmapDisc, blockData>>
            /\ GoesOn(linked)
  <2>1. run' = linked /\ UNCHANGED <<container, mounted>> /\ Kept' = Kept
    BY <1>18 DEF GoesOn, Kept
  <2>2. FatInv'
    BY <1>14, <1>18, <2>1, FatSame
  <2> DEFINE g == [rootFiles[run.s] EXCEPT !.firstBlock = b]
  <2>3. rootFiles' = [rootFiles EXCEPT ![run.s] = g] /\ g.firstBlock = b
    BY <1>2, <1>3, <1>18 DEF RootDirectories, rootFile
  <2> HIDE DEF g
  <2>4. OwnsFirsts(own2, rootFiles')
    BY <1>3, <1>9, <2>3, FirstsStay
  <2>5. OwnsFirsts(own2, rootDisc') /\ OwnsLinks(own2, fatDisc')
    BY <1>3, <1>9, <1>18
  <2>6. fatDisc' = fatDisc
    BY <1>18
  <2> QED
    BY <1>16, <2>1, <2>2, <2>4, <2>5, <2>6
<1> QED
  BY <1>13, <1>15, <1>17, <1>18

\* Each new block is linked to the next, which gets the file as its owner.
LEMMA LinkOwned ==
    ASSUME "device" \notin Faults, OpenInv, JobInv, ~Idle, StepsOwnInv, Link
    PROVE  StepsOwnInv'
<1>1. PICK own \in Owners : StepsOwned(own)
  BY DEF StepsOwnInv
<1>2. /\ run.at = "link" /\ run.op \in {"write", "truncate"} /\ run \in Job
      /\ Len(run.new) = run.k /\ run.k # 0 /\ run.i \in 1..run.k /\ run.k \in Nat
      /\ Distinct(run.new)
  BY JobFields DEF Link, JobInv
<1>3. /\ mounted /\ fatDisc = fatArray /\ fatArray \in [Blocks -> Blocks]
      /\ rootFiles \in RootDirectories /\ rootDisc \in RootDirectories
      /\ own \in [Blocks -> Slots \cup {NULL}] /\ NULL \notin Slots /\ run.s \in Slots
      /\ OwnsLinks(own, fatArray) /\ OwnsFirsts(own, rootFiles) /\ OwnsFirsts(own, rootDisc)
      /\ StepsMarked(own) /\ JobOwns(own)
  BY <1>1, RunningOwner, RunningJob
<1>4. ~Freeing /\ LinksMarked /\ FatInv
  BY <1>2 DEF Freeing, StepsOwnInv
<1>5. \A c \in DataBlocks : own[c] # NULL => c \in Kept
  BY <1>3, <1>4 DEF StepsMarked
<1>6. \A j \in 1..Len(run.new) :
         /\ run.new[j] \in DataBlocks /\ run.new[j] \in Blocks
         /\ j > run.i => run.new[j] \in Loose(own)
         /\ j <= run.i => own[run.new[j]] = run.s
         /\ j = run.i => fatDisc[run.new[j]] = FAT_END
  BY <1>2, <1>3, RunningJob, EndIsNoDataBlock DEF JobOwns
<1> DEFINE b == run.new[run.i]
<1>7. b \in DataBlocks /\ b \in Blocks /\ own[b] = run.s /\ fatArray[b] = FAT_END
  BY <1>2, <1>3, <1>6
<1>8. CASE /\ run.i < run.k
           /\ setNext(run.new[run.i], run.new[run.i + 1])
           /\ GoesOn([run EXCEPT !.i = @ + 1])
  <2> DEFINE job == [run EXCEPT !.i = @ + 1]
             c == run.new[run.i + 1]
  <2>1. /\ run.i + 1 \in 1..Len(run.new)
        /\ c \in DataBlocks /\ c \in Blocks /\ c \in Loose(own)
    BY <1>2, <1>6, <1>8
  <2>2. c \in Kept /\ own[c] = NULL /\ fatArray[c] = FAT_END /\ c # b
    BY <1>3, <1>7, <2>1 DEF Loose
  <2>3. run' = job /\ UNCHANGED <<container, mounted>>
    BY <1>8 DEF GoesOn
  <2>4. /\ job.op = run.op /\ job.s = run.s /\ job.new = run.new
        /\ job.at = run.at /\ job.i = run.i + 1
    BY <1>2 DEF Job
  <2>5. setNext(b, c)
    BY <1>8
  <2>6. \A j \in 1..Len(run.new) : j # run.i + 1 => run.new[j] # c
    BY <1>2, <2>1 DEF Distinct
  <2> HIDE DEF job, b, c
  <2>7. /\ FatInv' /\ fatArray' = [fatArray EXCEPT ![b] = c] /\ fatDisc' = fatArray'
        /\ Kept' = Kept /\ UNCHANGED <<rootFiles, rootDisc>>
    BY <1>3, <1>4, <1>7, <2>1, <2>2, <2>3, <2>5, setNextWrites
  <2>8. PICK own2 \in Owners :
            /\ own2[c] = run.s
            /\ \A x \in Blocks : x # c => own2[x] = own[x]
            /\ \A x \in Blocks : own[x] # NULL => own2[x] = own[x]
            /\ OwnsLinks(own2, fatArray)
            /\ \A dir \in RootDirectories : OwnsFirsts(own, dir) => OwnsFirsts(own2, dir)
    <3> DEFINE o == [own EXCEPT ![c] = run.s]
    <3>1. /\ o \in Owners /\ o[c] = run.s
          /\ \A x \in Blocks : x # c => o[x] = own[x]
          /\ \A x \in Blocks : own[x] # NULL => o[x] = own[x]
          /\ OwnsLinks(o, fatArray)
          /\ \A dir \in RootDirectories : OwnsFirsts(own, dir) => OwnsFirsts(o, dir)
      BY <1>3, <2>1, <2>2, OwnerGiven
    <3> QED
      BY <3>1
  <2>9. OwnsLinks(own2, fatDisc')
    <3>1. own2[c] = own2[b]
      BY <1>7, <2>2, <2>8
    <3> QED
      BY <1>3, <1>7, <2>1, <2>7, <2>8, <3>1, OwnsOneLink
  <2>10. OwnsFirsts(own2, rootFiles') /\ OwnsFirsts(own2, rootDisc')
    BY <1>3, <2>7, <2>8
  <2>11. StepsMarked(own2)'
    BY <1>5, <2>2, <2>7, <2>8, EndIsNoDataBlock DEF StepsMarked
  <2>12. LinksMarked'
    <3>1. b \in Kept
      BY <1>3, <1>5, <1>7
    <3> QED
      BY <1>2, <1>3, <1>4, <2>7, <3>1, EndIsNoDataBlock DEF LinksMarked
  <2>13. ASSUME NEW j \in 1..Len(run.new)
         PROVE  /\ j > run.i + 1 => run.new[j] \in Kept /\ own2[run.new[j]] = NULL
                                    /\ fatDisc'[run.new[j]] = FAT_END
                /\ j <= run.i + 1 => own2[run.new[j]] = run.s
                /\ j = run.i + 1 => fatDisc'[run.new[j]] = FAT_END
    <3>1. CASE j > run.i + 1
      <4>1. j > run.i /\ j # run.i + 1
        BY <1>2, <3>1
      <4>2. run.new[j] \in Kept /\ own[run.new[j]] = NULL /\ fatArray[run.new[j]] = FAT_END
        BY <1>3, <1>6, <4>1 DEF Loose
      <4>3. run.new[j] # c /\ run.new[j] # b
        BY <1>3, <1>7, <2>6, <4>1, <4>2
      <4> QED
        BY <1>2, <1>3, <1>6, <2>7, <2>8, <3>1, <4>2, <4>3
    <3>2. CASE j = run.i + 1
      <4>1. run.new[j] = c
        BY <3>2 DEF c
      <4> QED
        BY <1>2, <1>3, <2>1, <2>2, <2>7, <2>8, <3>2, <4>1
    <3>3. CASE j < run.i + 1
      <4>1. j <= run.i /\ ~(j > run.i + 1) /\ j # run.i + 1
        BY <1>2, <3>3
      <4>2. own[run.new[j]] = run.s
        BY <1>6, <4>1
      <4>3. own2[run.new[j]] = run.s
        BY <1>3, <1>6, <2>8, <4>2
      <4> QED
        BY <4>1, <4>3
    <3> QED
      BY <1>2, <3>1, <3>2, <3>3
  <2>14. JobOwns(own2)'
    BY <1>2, <2>3, <2>4, <2>7, <2>13 DEF JobOwns, Loose
  <2> QED
    BY <1>3, <2>3, <2>7, <2>9, <2>10, <2>11, <2>12, <2>14, OwnersProceed
<1>9. CASE /\ run.i = run.k
           /\ setNext(run.new[run.k], AfterLast(run.new[run.k]))
           /\ \/ run.op = "write" /\ GoesOn(DataPhase(run, fatArray'))
              \/ run.op = "truncate" /\ Finishes
  <2>1. setNext(b, FAT_END) /\ UNCHANGED <<container, mounted>>
    BY <1>9 DEF AfterLast, GoesOn, Finishes, Completes
  <2> HIDE DEF b
  <2>2. /\ FatInv' /\ fatArray' = [fatArray EXCEPT ![b] = FAT_END] /\ fatDisc' = fatArray'
        /\ Kept' = Kept /\ UNCHANGED <<rootFiles, rootDisc>>
    BY <1>3, <1>4, <1>7, <2>1, EndIsNoDataBlock, setNextWrites
  <2>3. fatDisc' = fatDisc
    BY <1>3, <1>7, <2>2
  <2>4. CASE run.op = "truncate" /\ Finishes
    <3>1. run' = NULL /\ UnmountedEmpty'
      BY <1>3, <2>1, <2>4 DEF Finishes, UnmountedEmpty
    <3> QED
      BY <1>1, <1>2, <1>3, <1>4, <2>2, <2>3, <3>1, OwnersReturn
  <2>5. CASE run.op = "write" /\ GoesOn(DataPhase(run, fatArray'))
    <3>1. run' = DataPhase(run, fatArray')
      BY <2>5 DEF GoesOn
    <3>2. run'.at = "data" /\ run'.op = "write"
      BY <1>2, <2>5, <3>1 DEF DataPhase, Job
    <3>3. JobOwns(own)'
      BY <3>2 DEF JobOwns
    <3>4. StepsMarked(own)' /\ LinksMarked'
      BY <1>2, <1>4, <1>5, <2>2, <2>3 DEF StepsMarked, LinksMarked
    <3> QED
      BY <1>3, <2>1, <2>2, <2>3, <3>3, <3>4, OwnersProceed
  <2> QED
    BY <1>9, <2>4, <2>5
<1> QED
  BY <1>8, <1>9 DEF Link

\* The rest of a write stores bytes, and the size.
LEMMA WriteOwned ==
    ASSUME "device" \notin Faults, OpenInv, JobInv, ~Idle, StepsOwnInv, WriteData \/ WriteEntry
    PROVE  StepsOwnInv'
<1>1. PICK own \in Owners : StepsOwned(own)
  BY DEF StepsOwnInv
<1>2. /\ run.at \in {"data", "entry"} /\ run.op = "write" /\ run \in Job
      /\ rootFiles[run.s] # NULL
  BY JobFields DEF WriteData, WriteEntry, JobInv
<1>3. /\ mounted /\ fatDisc = fatArray
      /\ rootFiles \in RootDirectories /\ rootDisc \in RootDirectories /\ run.s \in Slots
      /\ OwnsLinks(own, fatArray) /\ OwnsFirsts(own, rootFiles) /\ OwnsFirsts(own, rootDisc)
      /\ StepsMarked(own)
  BY <1>1, RunningOwner, RunningJob
<1>4. ~Freeing /\ LinksMarked /\ FatInv
  BY <1>2 DEF Freeing, StepsOwnInv
<1>5. CASE WriteData
  <2>1. /\ UNCHANGED <<container, mounted, rootFiles, rootDisc, fatArray, fatDisc>>
        /\ Kept' = Kept
    BY <1>5 DEF WriteData, GoesOn, Kept
  <2>2. run'.op = "write" /\ run'.at \in {"data", "entry"}
    BY <1>2, <1>5 DEF WriteData, GoesOn, Job
  <2>3. JobOwns(own)'
    BY <2>2 DEF JobOwns
  <2>4. StepsMarked(own)' /\ LinksMarked'
    BY <1>2, <1>3, <1>4, <2>1 DEF StepsMarked, LinksMarked
  <2>5. FatInv'
    BY <1>4, <2>1, FatSame
  <2> QED
    BY <1>3, <2>1, <2>3, <2>4, <2>5, OwnersProceed
<1>6. CASE WriteEntry
  <2> DEFINE f == rootFiles[run.s]
             end == run.off + run.size
             g == [f EXCEPT !.st_size = IF end > @ THEN end ELSE @]
  <2>1. setEntry(run.s, g) /\ run' = NULL /\ UNCHANGED <<container, mounted>>
    BY <1>6 DEF WriteEntry, Finishes, Completes
  <2>2. g.firstBlock = f.firstBlock
    BY <1>2, <1>3 DEF RootDirectories, rootFile
  <2> HIDE DEF g
  <2>3. /\ FatInv' /\ rootFiles' = [rootFiles EXCEPT ![run.s] = g]
        /\ rootDisc' = [rootDisc EXCEPT ![run.s] = g]
        /\ UNCHANGED <<fatArray, fatDisc>> /\ Kept' = Kept
    BY <1>3, <1>4, <2>1, setEntryWrites
  <2>4. f.firstBlock = FAT_END \/ own[f.firstBlock] = run.s
    BY <1>2, <1>3 DEF OwnsFirsts
  <2>5. OwnsFirsts(own, rootFiles') /\ OwnsFirsts(own, rootDisc')
    BY <1>3, <2>2, <2>3, <2>4, FirstsStay
  <2>6. rootFiles' \in RootDirectories /\ rootDisc' \in RootDirectories
    <3>1. OpenInv'
      BY <1>6, EntryTyped
    <3> QED
      BY <3>1 DEF OpenInv, TypeOK, RootTypeOK, RootDirectories
  <2>7. UnmountedEmpty'
    BY <1>3, <2>1 DEF UnmountedEmpty
  <2> QED
    BY <1>1, <1>2, <1>4, <2>1, <2>3, <2>5, <2>6, <2>7, OwnersReturn
<1> QED
  BY <1>5, <1>6

\* A truncation that keeps all blocks passes them by; one that cuts the file to
\* nothing frees all, and no entry leads to them any more.
LEMMA SpareOwned ==
    ASSUME "device" \notin Faults, OpenInv, JobInv, ~Idle, StepsOwnInv,
           KeepBlock \/ CutBlock \/ FreeSpareBlock \/ StoreSize
    PROVE  StepsOwnInv'
<1> DEFINE f == rootFiles[run.s]
           c == Chain(fatArray, f.firstBlock)
<1>1. PICK own \in Owners : StepsOwned(own)
  BY DEF StepsOwnInv
<1>2. /\ run.op = "truncate" /\ run.at \in {"spare", "spareMap"} /\ run \in Job /\ f # NULL
  BY JobFields DEF KeepBlock, CutBlock, FreeSpareBlock, StoreSize, JobInv
<1>3. /\ mounted /\ fatDisc = fatArray /\ fatArray \in [Blocks -> Blocks]
      /\ rootFiles \in RootDirectories /\ rootDisc \in RootDirectories
      /\ own \in [Blocks -> Slots \cup {NULL}] /\ NULL \notin Slots /\ run.s \in Slots
      /\ OwnsLinks(own, fatArray) /\ OwnsFirsts(own, rootFiles) /\ OwnsFirsts(own, rootDisc)
      /\ StepsMarked(own) /\ JobOwns(own)
      /\ run.cur \in Blocks /\ run.next \in Blocks /\ run.i \in Nat
  BY <1>1, RunningOwner, RunningJob
<1>4. /\ LinksMarked /\ FatInv /\ AtOwn(own, run.cur)
      /\ IF run.size = 0 THEN NoFirst(rootFiles, run.s) /\ NoFirst(rootDisc, run.s)
                         ELSE KeepsChain
  BY <1>2, <1>3 DEF StepsOwnInv, JobOwns
<1>5. run.cur # FAT_END =>
         /\ run.cur \in DataBlocks /\ own[run.cur] = run.s
         /\ fatArray[run.cur] \in Blocks /\ AtOwn(own, fatArray[run.cur])
  BY <1>3, <1>4, NotTheEnd DEF AtOwn, OwnsLinks
<1>6. /\ c \in Seq(DataBlocks)
      /\ \A j \in 1..Len(c) : fatArray[c[j]] = IF j < Len(c) THEN c[j + 1] ELSE FAT_END
  <2>1. f.firstBlock \in Blocks
    BY <1>2, <1>3 DEF RootDirectories, rootFile
  <2>2. \A S \in SUBSET DataBlocks : S # {} => \E b \in S : fatArray[b] \notin S
    BY <1>1, RunningOwner DEF Terminates
  <2> QED
    BY <1>3, <2>1, <2>2, ChainEnds DEF IsChain
<1>7. run.size # 0 =>
         /\ run.at = "spare" /\ Len(c) <= numBlocks(run.size) /\ run.i <= Len(c)
         /\ run.cur = IF run.i < Len(c) THEN c[run.i + 1] ELSE FAT_END
  BY <1>4 DEF KeepsChain
<1>8. run.size = 0 => Freeing
  BY <1>2 DEF Freeing
<1>9. numBlocks(run.size) \in Nat
  BY <1>2, numBlocksType, JobFields, FuseAssumption
<1> HIDE DEF c, f
<1>10. CASE KeepBlock
  <2> DEFINE job == [run EXCEPT !.cur = fatArray[@], !.i = @ + 1]
  <2>1. /\ run' = job /\ run.at = "spare" /\ run.cur # FAT_END /\ run.i < numBlocks(run.size)
        /\ UNCHANGED <<container, mounted, rootFiles, rootDisc, fatArray, fatDisc>> /\ Kept' = Kept
    BY <1>10 DEF KeepBlock, GoesOn, fsVars, Kept
  <2>2. /\ job.op = run.op /\ job.s = run.s /\ job.at = run.at /\ job.size = run.size
        /\ job.cur = fatArray[run.cur] /\ job.i = run.i + 1
    BY <1>2 DEF Job
  <2> HIDE DEF job
  <2>3. run.size # 0
    BY <1>3, <2>1, numBlocksZero
  <2>4. /\ run.i < Len(c) /\ run.cur = c[run.i + 1] /\ Len(c) \in Nat
        /\ run.i + 1 \in 1..Len(c)
    BY <1>3, <1>6, <1>7, <2>1, <2>3
  <2>5. fatArray[run.cur] = IF run.i + 1 < Len(c) THEN c[run.i + 2] ELSE FAT_END
    <3>1. run.i + 1 + 1 = run.i + 2
      BY <1>3
    <3> QED
      BY <1>6, <2>4, <3>1
  <2>6. KeepsChain'
    <3>1. (run.i + 1) + 1 = run.i + 2 /\ run.i + 1 <= Len(c)
      BY <1>3, <2>4
    <3>2. Chain(fatArray', rootFiles'[run'.s].firstBlock) = c
      BY <2>1, <2>2 DEF c, f
    <3> QED
      BY <1>7, <2>1, <2>2, <2>3, <2>5, <3>1, <3>2 DEF KeepsChain
  <2>7. JobOwns(own)'
    BY <1>2, <1>5, <2>1, <2>2, <2>3, <2>6 DEF JobOwns, AtOwn
  <2>8. StepsMarked(own)' /\ LinksMarked'
    BY <1>2, <1>3, <1>4, <2>1, <2>2, <2>3 DEF StepsMarked, LinksMarked, Freeing
  <2>9. FatInv'
    BY <1>4, <2>1, FatSame
  <2> QED
    BY <1>3, <2>1, <2>7, <2>8, <2>9, OwnersProceed
<1>11. CASE CutBlock
  <2> DEFINE job == [run EXCEPT !.next = fatArray[run.cur], !.at = "spareMap"]
  <2>1. /\ run' = job /\ run.at = "spare" /\ run.cur # FAT_END /\ run.i >= numBlocks(run.size)
        /\ setNext(run.cur, FAT_END) /\ UNCHANGED <<container, mounted>>
    BY <1>11 DEF CutBlock, GoesOn
  <2>2. /\ job.op = run.op /\ job.s = run.s /\ job.at = "spareMap" /\ job.size = run.size
        /\ job.cur = run.cur /\ job.next = fatArray[run.cur] /\ job # NULL
    BY <1>2, <1>3, <1>5, <2>1, JobAssumption DEF Job
  <2> HIDE DEF job
  <2>3. run.size = 0
    <3>1. Len(c) \in Nat
      BY <1>6
    <3> QED
      BY <1>3, <1>7, <1>9, <2>1, <3>1
  <2>4. /\ FatInv' /\ fatArray' = [fatArray EXCEPT ![run.cur] = FAT_END] /\ fatDisc' = fatArray'
        /\ Kept' = Kept /\ UNCHANGED <<rootFiles, rootDisc>>
    BY <1>3, <1>4, <2>1, EndIsNoDataBlock, setNextWrites
  <2>5. OwnsLinks(own, fatDisc')
    BY <1>3, <2>4, EndIsNoDataBlock, OwnsOneLink
  <2>6. JobOwns(own)'
    BY <1>2, <1>3, <1>4, <1>5, <2>1, <2>2, <2>3, <2>4 DEF JobOwns, AtOwn
  <2>7. StepsMarked(own)'
    BY <1>2, <1>3, <2>1, <2>2, <2>3, <2>4 DEF StepsMarked, Freeing, Idle
  <2>8. LinksMarked'
    BY <1>2, <1>3, <1>4, <2>4, EndIsNoDataBlock DEF LinksMarked
  <2> QED
    BY <1>3, <2>1, <2>4, <2>5, <2>6, <2>7, <2>8, OwnersProceed
<1>12. CASE FreeSpareBlock
  <2> DEFINE job == [run EXCEPT !.cur = run.next, !.i = @ + 1, !.at = "spare"]
  <2>1. /\ run' = job /\ run.at = "spareMap" /\ setMap(run.cur, FALSE)
        /\ UNCHANGED <<container, mounted>>
    BY <1>12 DEF FreeSpareBlock, GoesOn
  <2>2. /\ job.op = run.op /\ job.s = run.s /\ job.at = "spare" /\ job.size = run.size
        /\ job.cur = run.next /\ job # NULL
    <3>1. run.i + 1 \in Nat
      BY <1>3
    <3>2. job \in Job
      BY <1>2, <1>3, <3>1 DEF Job
    <3> QED
      BY <1>2, <3>2, JobAssumption DEF Job
  <2> HIDE DEF job
  <2>3. run.size = 0 /\ run.cur # FAT_END /\ AtOwn(own, run.next) /\ fatDisc[run.cur] = FAT_END
    BY <1>3, <1>7, <2>1 DEF JobOwns
  <2>4. /\ FatInv' /\ UNCHANGED <<rootFiles, rootDisc, fatArray, fatDisc>>
        /\ Kept \ {run.cur} \subseteq Kept'
    BY <1>3, <1>4, <1>5, <2>1, <2>3, setMapWrites
  <2>5. JobOwns(own)'
    BY <1>2, <1>4, <2>1, <2>2, <2>3, <2>4 DEF JobOwns, AtOwn
  <2>6. StepsMarked(own)'
    BY <1>2, <1>3, <1>5, <2>1, <2>2, <2>3, <2>4 DEF StepsMarked, Freeing, Idle
  <2>7. LinksMarked'
    BY <1>2, <1>4, <2>3, <2>4 DEF LinksMarked
  <2> QED
    BY <1>3, <2>1, <2>4, <2>5, <2>6, <2>7, OwnersProceed
<1>13. CASE StoreSize
  <2> DEFINE g == [f EXCEPT !.st_size = run.size]
  <2>1. /\ run.at = "spare" /\ setEntry(run.s, g) /\ run' = NULL
        /\ UNCHANGED <<container, mounted>>
    BY <1>13 DEF StoreSize, Finishes, Completes, f
  <2>2. g.firstBlock = f.firstBlock
    BY <1>2, <1>3 DEF RootDirectories, rootFile, f
  <2> HIDE DEF g
  <2>3. /\ FatInv' /\ rootFiles' = [rootFiles EXCEPT ![run.s] = g]
        /\ rootDisc' = [rootDisc EXCEPT ![run.s] = g]
        /\ UNCHANGED <<fatArray, fatDisc>> /\ Kept' = Kept
    BY <1>3, <1>4, <2>1, setEntryWrites
  <2>4. f.firstBlock = FAT_END \/ own[f.firstBlock] = run.s
    BY <1>2, <1>3 DEF OwnsFirsts, f
  <2>5. OwnsFirsts(own, rootFiles') /\ OwnsFirsts(own, rootDisc')
    BY <1>3, <2>2, <2>3, <2>4, FirstsStay
  <2>6. rootFiles' \in RootDirectories /\ rootDisc' \in RootDirectories
    <3>1. OpenInv'
      BY <1>13, EntryTyped
    <3> QED
      BY <3>1 DEF OpenInv, TypeOK, RootTypeOK, RootDirectories
  <2>7. UnmountedEmpty'
    BY <1>3, <2>1 DEF UnmountedEmpty
  <2>8. Freeing => NoFirst(rootFiles', run.s) /\ NoFirst(rootDisc', run.s)
    <3>1. Freeing => run.size = 0
      BY <1>2 DEF Freeing
    <3>2. rootFiles'[run.s] = g /\ rootDisc'[run.s] = g
      BY <1>3, <2>3 DEF RootDirectories
    <3> QED
      BY <1>2, <1>4, <2>2, <3>1, <3>2 DEF NoFirst, f
  <2> QED
    BY <1>1, <2>1, <2>3, <2>5, <2>6, <2>7, <2>8, OwnersReturn
<1> QED
  BY <1>10, <1>11, <1>12, <1>13

\* A removal frees the blocks of the file one by one, and then deletes the entry
\* that has led to them.
LEMMA FreeOwned ==
    ASSUME "device" \notin Faults, OpenInv, JobInv, ~Idle, StepsOwnInv,
           FreeInMap \/ FreeInTable \/ DeleteEntry
    PROVE  StepsOwnInv'
<1>1. PICK own \in Owners : StepsOwned(own)
  BY DEF StepsOwnInv
<1>2. /\ run.op = "unlink" /\ run.at \in {"freeMap", "freeFat"} /\ run \in Job
  BY JobFields DEF FreeInMap, FreeInTable, DeleteEntry, JobInv
<1>3. /\ mounted /\ fatDisc = fatArray /\ fatArray \in [Blocks -> Blocks]
      /\ rootFiles \in RootDirectories /\ rootDisc \in RootDirectories
      /\ own \in [Blocks -> Slots \cup {NULL}] /\ NULL \notin Slots /\ run.s \in Slots
      /\ OwnsLinks(own, fatArray) /\ OwnsFirsts(own, rootFiles) /\ OwnsFirsts(own, rootDisc)
      /\ StepsMarked(own) /\ JobOwns(own)
      /\ run.cur \in Blocks /\ run.next \in Blocks
  BY <1>1, RunningOwner, RunningJob
<1>4. /\ LinksMarked /\ FatInv /\ AtOwn(own, run.cur)
      /\ \/ rootFiles[run.s] = NULL /\ rootDisc[run.s] = NULL
         \/ run.s \in getRootEntryFile(rootFiles, run.n)
  BY <1>2, <1>3 DEF StepsOwnInv, JobOwns
<1>5. run.cur # FAT_END =>
         /\ run.cur \in DataBlocks /\ own[run.cur] = run.s
         /\ fatArray[run.cur] \in Blocks /\ AtOwn(own, fatArray[run.cur])
  BY <1>3, <1>4, NotTheEnd DEF AtOwn, OwnsLinks
<1>6. CASE FreeInMap
  <2> DEFINE job == [run EXCEPT !.next = fatArray[run.cur], !.at = "freeFat"]
  <2>1. /\ run' = job /\ run.at = "freeMap" /\ run.cur # FAT_END /\ setMap(run.cur, FALSE)
        /\ UNCHANGED <<container, mounted>>
    BY <1>6 DEF FreeInMap, GoesOn
  <2>2. /\ job.op = run.op /\ job.s = run.s /\ job.n = run.n /\ job.at = "freeFat"
        /\ job.cur = run.cur /\ job.next = fatArray[run.cur] /\ job # NULL
    BY <1>2, <1>3, <1>5, <2>1, JobAssumption DEF Job
  <2> HIDE DEF job
  <2>3. /\ FatInv' /\ UNCHANGED <<rootFiles, rootDisc, fatArray, fatDisc>>
        /\ Kept \ {run.cur} \subseteq Kept'
    BY <1>3, <1>4, <1>5, <2>1, setMapWrites
  <2>4. JobOwns(own)'
    BY <1>2, <1>4, <1>5, <2>1, <2>2, <2>3 DEF JobOwns, AtOwn
  <2>5. StepsMarked(own)'
    BY <1>2, <1>3, <1>5, <2>1, <2>2, <2>3 DEF StepsMarked, Freeing, Idle
  <2>6. LinksMarked'
    BY <1>2, <1>4, <2>1, <2>2, <2>3 DEF LinksMarked, Idle
  <2> QED
    BY <1>3, <2>1, <2>3, <2>4, <2>5, <2>6, OwnersProceed
<1>7. CASE FreeInTable
  <2> DEFINE job == [run EXCEPT !.cur = run.next, !.at = "freeMap"]
  <2>1. /\ run' = job /\ run.at = "freeFat" /\ setNext(run.cur, FAT_END)
        /\ UNCHANGED <<container, mounted>>
    BY <1>7 DEF FreeInTable, GoesOn
  <2>2. /\ job.op = run.op /\ job.s = run.s /\ job.n = run.n /\ job.at = "freeMap"
        /\ job.cur = run.next /\ job # NULL
    BY <1>2, <1>3, JobAssumption DEF Job
  <2> HIDE DEF job
  <2>3. run.cur # FAT_END /\ AtOwn(own, run.next)
    BY <1>3, <2>1 DEF JobOwns
  <2>4. /\ FatInv' /\ fatArray' = [fatArray EXCEPT ![run.cur] = FAT_END] /\ fatDisc' = fatArray'
        /\ Kept' = Kept /\ UNCHANGED <<rootFiles, rootDisc>>
    BY <1>3, <1>4, <2>1, EndIsNoDataBlock, setNextWrites
  <2>5. OwnsLinks(own, fatDisc')
    BY <1>3, <2>4, EndIsNoDataBlock, OwnsOneLink
  <2>6. JobOwns(own)'
    BY <1>2, <1>4, <2>1, <2>2, <2>3, <2>4 DEF JobOwns, AtOwn
  <2>7. StepsMarked(own)'
    BY <1>2, <1>3, <2>1, <2>2, <2>4 DEF StepsMarked, Freeing, Idle
  <2>8. LinksMarked'
    BY <1>3, <1>4, <2>4, EndIsNoDataBlock DEF LinksMarked
  <2> QED
    BY <1>3, <2>1, <2>4, <2>5, <2>6, <2>7, <2>8, OwnersProceed
<1>8. CASE DeleteEntry
  <2>1. PICK s \in getRootEntryFile(rootFiles, run.n) :
            /\ setEntry(s, NULL)
            /\ run' = IF Named(rootFiles, run.n) = {s} THEN NULL ELSE run
    BY <1>8 DEF DeleteEntry
  <2>2. /\ run.at = "freeMap" /\ run.cur = FAT_END /\ UNCHANGED <<container, mounted>>
    BY <1>8 DEF DeleteEntry
  <2>3. s \in Slots /\ (run.s \in getRootEntryFile(rootFiles, run.n) => s = run.s)
    BY <2>1 DEF getRootEntryFile, Named, Slots
  <2>4. /\ FatInv' /\ rootFiles' = [rootFiles EXCEPT ![s] = NULL]
        /\ rootDisc' = [rootDisc EXCEPT ![s] = NULL]
        /\ UNCHANGED <<fatArray, fatDisc>> /\ Kept' = Kept
    BY <1>4, <2>1, <2>2, <2>3, setEntryWrites
  <2>5. OwnsFirsts(own, rootFiles') /\ OwnsFirsts(own, rootDisc')
    BY <1>3, <2>3, <2>4, FirstsStay
  <2>6. rootFiles'[run.s] = NULL /\ rootDisc'[run.s] = NULL
    BY <1>3, <1>4, <2>3, <2>4 DEF RootDirectories
  <2>7. CASE run' = NULL
    <3>1. rootFiles' \in RootDirectories /\ rootDisc' \in RootDirectories
      BY <1>3, <2>3, <2>4 DEF RootDirectories
    <3>2. UnmountedEmpty' /\ NoFirst(rootFiles', run.s) /\ NoFirst(rootDisc', run.s)
      BY <1>3, <2>2, <2>6 DEF UnmountedEmpty, NoFirst
    <3> QED
      BY <1>1, <2>2, <2>4, <2>5, <2>7, <3>1, <3>2, OwnersReturn
  <2>8. CASE run' = run
    <3>1. JobOwns(own)'
      BY <1>2, <2>2, <2>4, <2>6, <2>8 DEF JobOwns, AtOwn
    <3>2. StepsMarked(own)' /\ LinksMarked'
      BY <1>2, <1>3, <1>4, <2>4, <2>8 DEF StepsMarked, LinksMarked, Freeing, Idle
    <3> QED
      BY <1>3, <2>2, <2>4, <2>5, <3>1, <3>2, OwnersProceed
  <2> QED
    BY <2>1, <2>7, <2>8
<1> QED
  BY <1>6, <1>7, <1>8

\* No handler runs, and the step is one of a handler that neither allocates nor
\* frees.
LEMMA QuietOwned ==
    ASSUME OpenInv, StepsOwnInv, Idle, UNCHANGED run, fuseInit \/ Rests \/ Ends \/ Stores, FatInv'
    PROVE  StepsOwnInv'
<1>1. OwnInv /\ TypeOK /\ FatInv /\ UnmountedEmpty /\ LinksMarked
  BY RestingOwners DEF StepsOwnInv, OwnInv, OpenInv
<1>2. PICK own \in Owners : Owned(own)'
  BY <1>1, OwnersQuiet DEF OwnInv, Owners
<1>3. Idle'
  BY DEF Idle
<1>4. StepsOwned(own)'
  BY <1>2, <1>3, EndIsNoDataBlock
     DEF StepsOwned, Owned, StepsMarked, OwnsMarked, Freeing, Kept, Idle
<1>5. UnmountedEmpty'
  BY <1>1 DEF UnmountedEmpty, fuseInit, Rests, Ends, Stores, ProcessEnds
<1>6. \A b \in DataBlocks : fatDisc[b] # FAT_END =>
         b < DMAP_PER_BLOCK /\ dmapDisc[0][b] /\ (mounted => dmapArray[b])
  BY <1>1 DEF LinksMarked, Kept
<1>7. ASSUME fatDisc' = fatDisc, dmapDisc' = dmapDisc,
             \/ ~mounted' \/ UNCHANGED <<mounted, dmapArray>> \/ dmapArray' = DmapRead(dmapDisc)
      PROVE  LinksMarked'
  <2> SUFFICES ASSUME NEW b \in DataBlocks, fatDisc'[b] # FAT_END
               PROVE  b < DMAP_PER_BLOCK /\ dmapDisc'[0][b] /\ (mounted' => dmapArray'[b])
    BY DEF LinksMarked, Kept
  <2>1. b < DMAP_PER_BLOCK /\ dmapDisc[0][b] /\ (mounted => dmapArray[b]) /\ b \in Blocks
    BY <1>6, <1>7, EndIsNoDataBlock
  <2>2. DmapRead(dmapDisc)[b] = dmapDisc[0][b]
    BY <2>1, FirstRead
  <2>3. b < DMAP_PER_BLOCK /\ dmapDisc'[0][b]
    BY <1>7, <2>1
  <2>4. ASSUME mounted' PROVE dmapArray'[b]
    <3>1. CASE UNCHANGED <<mounted, dmapArray>>
      <4>1. mounted /\ dmapArray' = dmapArray
        BY <2>4, <3>1
      <4> QED
        BY <2>1, <4>1
    <3>2. CASE dmapArray' = DmapRead(dmapDisc)
      <4>1. dmapArray'[b] = DmapRead(dmapDisc)[b]
        BY <3>2
      <4> QED
        BY <2>1, <2>2, <4>1
    <3> QED
      BY <1>7, <2>4, <3>1, <3>2
  <2> QED
    BY <2>3, <2>4
<1>8. CASE fuseInit
  <2>1. CASE InitExisting
    <3>1. fatDisc' = fatDisc /\ dmapDisc' = dmapDisc /\ dmapArray' = DmapRead(dmapDisc)
      BY <2>1 DEF InitExisting, FatRestart, DmapRestart
    <3>2. LinksMarked'
      BY <1>7, <3>1
    <3> QED
      BY <1>4, <1>5, <3>2 DEF StepsOwnInv, Owners
  <2>2. CASE InitNew
    <3>1. \A b \in DataBlocks : fatDisc'[b] = FAT_END
      BY <1>1, <2>2, EndIsNoDataBlock DEF InitNew, FatInv, BlankFat
    <3>2. LinksMarked'
      BY <3>1 DEF LinksMarked
    <3> QED
      BY <1>4, <1>5, <3>2 DEF StepsOwnInv, Owners
  <2> QED
    BY <1>8, <2>1, <2>2 DEF fuseInit
<1>9. CASE Rests \/ Ends \/ Stores
  <2>1. /\ fatDisc' = fatDisc /\ dmapDisc' = dmapDisc
        /\ ~mounted' \/ UNCHANGED <<mounted, dmapArray>>
    BY <1>9 DEF Rests, Ends, Stores, ProcessEnds
  <2>2. LinksMarked'
    BY <1>7, <2>1
  <2> QED
    BY <1>4, <1>5, <2>2 DEF StepsOwnInv, Owners
<1> QED
  BY <1>8, <1>9

\* A handler that is refused, or goes astray, before its first block write.
LEMMA RefusedOwned ==
    ASSUME OpenInv, StepsOwnInv, Idle, UNCHANGED run, GoesAstray \/ \E r : Returns(r)
    PROVE  StepsOwnInv'
<1>1. CASE GoesAstray
  <2>1. Ends
    BY <1>1 DEF GoesAstray, Ends, Outcomes
  <2>2. FatInv'
    BY <1>1, FatEnds DEF GoesAstray, StepsOwnInv
  <2> QED
    BY <2>1, <2>2, QuietOwned
<1>2. CASE \E r : Returns(r)
  <2>1. Rests
    BY <1>2 DEF Returns, Completes, fsVars, Rests
  <2>2. FatInv'
    BY <2>1, FatSame DEF Rests, StepsOwnInv
  <2> QED
    BY <2>1, <2>2, QuietOwned
<1> QED
  BY <1>1, <1>2

\* A handler starts that leaves the table and the map as they are.
LEMMA StartsOwned ==
    ASSUME OpenInv, StepsOwnInv, Idle, mounted, UNCHANGED <<container, mounted>>,
           UNCHANGED <<fatArray, fatDisc, dmapArray, dmapDisc>>,
           NEW own \in Owners, StepsOwned(own),
           OwnsFirsts(own, rootFiles'), OwnsFirsts(own, rootDisc'), JobOwns(own)'
    PROVE  StepsOwnInv'
<1>1. Kept' = Kept
  BY DEF Kept
<1>2. FatInv'
  BY FatSame DEF StepsOwnInv
<1>3. StepsMarked(own)' /\ LinksMarked'
  BY <1>1 DEF StepsOwned, StepsMarked, StepsOwnInv, LinksMarked, Freeing
<1>4. OwnsLinks(own, fatDisc') /\ mounted'
  BY DEF StepsOwned
<1> QED
  BY <1>2, <1>3, <1>4, OwnersProceed

\* The entry of a path, before a handler works on it.
LEMMA FoundOwned ==
    ASSUME OpenInv, StepsOwnInv, NEW s \in Slots, rootFiles[s] # NULL,
           NEW own, StepsOwned(own)
    PROVE  /\ rootFiles[s] \in rootFile /\ rootFiles[s].firstBlock \in Blocks
           /\ rootFiles[s].firstBlock = FAT_END \/ own[rootFiles[s].firstBlock] = s
           /\ rootFiles \in RootDirectories /\ rootDisc \in RootDirectories
           /\ OwnsFirsts(own, rootFiles) /\ OwnsFirsts(own, rootDisc)
BY DEF OpenInv, TypeOK, RootTypeOK, RootDirectories, rootFile, StepsOwned, OwnsFirsts

LEMMA StartUnlinkOwned ==
    ASSUME OpenInv, StepsOwnInv, NEW n \in Names, StartUnlink(n)
    PROVE  StepsOwnInv'
<1>1. CASE Idle /\ NotFound(n, "ENOENT") /\ UNCHANGED run
  BY <1>1, RefusedOwned DEF NotFound
<1>2. ASSUME NEW s \in getRootEntryFile(rootFiles, n),
             Starts([NewJob("unlink", n, s) EXCEPT
                        !.at = "freeMap", !.cur = rootFiles[s].firstBlock])
      PROVE  StepsOwnInv'
  <2> DEFINE job == [NewJob("unlink", n, s) EXCEPT
                        !.at = "freeMap", !.cur = rootFiles[s].firstBlock]
  <2>1. PICK own \in Owners : StepsOwned(own)
    BY DEF StepsOwnInv
  <2>2. s \in Slots /\ rootFiles[s] # NULL
    BY <1>2 DEF getRootEntryFile, Named
  <2>3. /\ run' = job /\ Idle /\ UNCHANGED <<container, mounted>>
        /\ UNCHANGED <<fatArray, fatDisc, dmapArray, dmapDisc>>
        /\ UNCHANGED <<rootFiles, rootDisc>>
    BY <1>2 DEF Starts, GoesOn, fsVars
  <2>4. /\ job.op = "unlink" /\ job.at = "freeMap" /\ job.n = n /\ job.s = s
        /\ job.cur = rootFiles[s].firstBlock
    BY DEF NewJob
  <2> HIDE DEF job
  <2>5. JobOwns(own)'
    BY <1>2, <2>1, <2>2, <2>3, <2>4, FoundOwned DEF JobOwns, AtOwn
  <2>6. OwnsFirsts(own, rootFiles') /\ OwnsFirsts(own, rootDisc') /\ mounted
    BY <2>1, <2>2, <2>3, FoundOwned DEF StartUnlink
  <2> QED
    BY <2>1, <2>3, <2>5, <2>6, StartsOwned
<1> QED
  BY <1>1, <1>2 DEF StartUnlink

\* A job that has taken no block yet, or needs none.
LEMMA NothingTaken ==
    ASSUME OpenInv, StepsOwnInv, mounted, NEW job, Starts(job),
           job.op \in {"write", "truncate"}, job.new = <<>>, job.at \in {"take", "data"}
    PROVE  StepsOwnInv'
<1>1. PICK own \in Owners : StepsOwned(own)
  BY DEF StepsOwnInv
<1>2. /\ run' = job /\ Idle /\ UNCHANGED <<container, mounted>>
      /\ UNCHANGED <<fatArray, fatDisc, dmapArray, dmapDisc>>
      /\ UNCHANGED <<rootFiles, rootDisc>>
  BY DEF Starts, GoesOn, fsVars
<1>3. JobOwns(own)'
  BY <1>2 DEF JobOwns
<1>4. OwnsFirsts(own, rootFiles') /\ OwnsFirsts(own, rootDisc')
  BY <1>1, <1>2 DEF StepsOwned
<1> QED
  BY <1>1, <1>2, <1>3, <1>4, StartsOwned

LEMMA StartWriteOwned ==
    ASSUME OpenInv, StepsOwnInv, NEW h \in Handles, NEW off \in 0..(MaxSize - 1),
           NEW size \in 1..MaxSize, NEW v \in Bytes, StartWrite(h, off, size, v)
    PROVE  StepsOwnInv'
<1>1. CASE Idle /\ UNCHANGED run /\ (Returns("EBADF") \/ GoesAstray)
  BY <1>1, RefusedOwned
<1>2. CASE /\ openFiles[h] \in Slots
           /\ LET s == openFiles[h]
                  old == rootFiles[s].st_size
                  k == IF off + size > old THEN blocksAll(size, off, old) ELSE 0
                  job == [NewJob("write", NULL, s) EXCEPT !.off = off, !.size = size, !.v = v]
              IN  IF k > 0 THEN Starts([job EXCEPT !.k = k])
                           ELSE Starts(DataPhase(job, fatArray))
  <2> DEFINE s == openFiles[h]
             old == rootFiles[s].st_size
             k == IF off + size > old THEN blocksAll(size, off, old) ELSE 0
             job == [NewJob("write", NULL, s) EXCEPT !.off = off, !.size = size, !.v = v]
             taking == [job EXCEPT !.k = k]
             data == DataPhase(job, fatArray)
  <2>1. taking.op = "write" /\ taking.new = <<>> /\ taking.at = "take"
    BY DEF NewJob
  <2>2. data.op = "write" /\ data.new = <<>> /\ data.at = "data"
    BY DEF NewJob, DataPhase
  <2>3. Starts(taking) \/ Starts(data)
    BY <1>2
  <2>4. mounted
    BY DEF StartWrite
  <2> HIDE DEF taking, data
  <2> QED
    BY <2>1, <2>2, <2>3, <2>4, NothingTaken
<1> QED
  BY <1>1, <1>2 DEF StartWrite

LEMMA StartShrinkOwned ==
    ASSUME "shrink" \notin Workload, "device" \notin Faults, OpenInv, StepsOwnInv, mounted,
           NEW n \in Names, NEW s \in Slots, rootFiles[s] # NULL, NEW newSize \in 0..MaxSize,
           StartShrink([NewJob("truncate", n, s) EXCEPT !.size = newSize])
    PROVE  StepsOwnInv'
<1> DEFINE start == [NewJob("truncate", n, s) EXCEPT !.size = newSize]
           f == rootFiles[s]
           job == [start EXCEPT !.at = "spare", !.cur = f.firstBlock]
           c == Chain(fatArray, f.firstBlock)
           g == [f EXCEPT !.firstBlock = FAT_END]
<1>1. PICK own \in Owners : StepsOwned(own)
  BY DEF StepsOwnInv
<1>2. /\ f \in rootFile /\ f.firstBlock \in Blocks
      /\ f.firstBlock = FAT_END \/ own[f.firstBlock] = s
      /\ rootFiles \in RootDirectories /\ rootDisc \in RootDirectories
      /\ OwnsFirsts(own, rootFiles) /\ OwnsFirsts(own, rootDisc)
  BY <1>1, FoundOwned
<1>3. start.size = newSize /\ start.s = s
  BY DEF NewJob
<1>4. /\ job.op = "truncate" /\ job.at = "spare" /\ job.s = s /\ job.size = newSize
      /\ job.cur = f.firstBlock /\ job.i = 0
  BY DEF NewJob
<1>5. /\ run' = job /\ Idle /\ UNCHANGED <<container, mounted>>
      /\ newSize = 0 \/ Len(c) <= numBlocks(newSize)
      /\ IF newSize = 0 THEN setEntry(s, g) ELSE UNCHANGED fsVars
  BY <1>3 DEF StartShrink, GoesOn
<1>6. g.firstBlock = FAT_END
  BY <1>2 DEF rootFile
<1> HIDE DEF start, job, g, c
<1>7. CASE newSize = 0
  <2>1. /\ rootFiles' = [rootFiles EXCEPT ![s] = g] /\ rootDisc' = [rootDisc EXCEPT ![s] = g]
        /\ UNCHANGED <<fatArray, fatDisc, dmapArray, dmapDisc>>
    BY <1>5, <1>7 DEF setEntry, DeviceWrite
  <2>2. OwnsFirsts(own, rootFiles') /\ OwnsFirsts(own, rootDisc')
    BY <1>2, <1>6, <2>1, FirstsStay
  <2>3. NoFirst(rootFiles', s) /\ NoFirst(rootDisc', s)
    BY <1>2, <1>6, <2>1 DEF NoFirst, RootDirectories
  <2>4. JobOwns(own)'
    BY <1>2, <1>4, <1>5, <1>7, <2>3 DEF JobOwns, AtOwn
  <2> QED
    BY <1>1, <1>5, <2>1, <2>2, <2>4, StartsOwned
<1>8. CASE newSize # 0
  <2>1. UNCHANGED <<rootFiles, rootDisc>> /\ UNCHANGED <<fatArray, fatDisc, dmapArray, dmapDisc>>
    BY <1>5, <1>8 DEF fsVars
  <2>2. c \in Seq(DataBlocks) /\ f.firstBlock = IF c = <<>> THEN FAT_END ELSE c[1]
    <3>1. fatArray \in [Blocks -> Blocks]
      BY DEF OpenInv, TypeOK, FatTypeOK
    <3>2. \A S \in SUBSET DataBlocks : S # {} => \E b \in S : fatArray[b] \notin S
      BY DEF StepsOwnInv, FatInv, ChainsEnd, Terminates
    <3> QED
      BY <1>2, <3>1, <3>2, ChainEnds DEF IsChain, c
  <2>3. 0 <= Len(c) /\ f.firstBlock = IF 0 < Len(c) THEN c[1] ELSE FAT_END
    BY <2>2
  <2>4. Chain(fatArray', rootFiles'[run'.s].firstBlock) = c
    BY <1>4, <1>5, <2>1 DEF c
  <2>5. KeepsChain'
    <3>1. 0 + 1 = 1
      OBVIOUS
    <3> QED
      BY <1>4, <1>5, <1>8, <2>3, <2>4, <3>1 DEF KeepsChain
  <2>6. JobOwns(own)'
    BY <1>2, <1>4, <1>5, <1>8, <2>5 DEF JobOwns, AtOwn
  <2> QED
    BY <1>1, <1>2, <1>5, <2>1, <2>6, StartsOwned
<1> QED
  BY <1>7, <1>8

LEMMA StartTruncateOwned ==
    ASSUME "shrink" \notin Workload, "device" \notin Faults, OpenInv, StepsOwnInv,
           NEW n \in Names, NEW newSize \in 0..MaxSize, StartTruncate(n, newSize)
    PROVE  StepsOwnInv'
<1>1. CASE Idle /\ NotFound(n, "ENFILE") /\ UNCHANGED run
  BY <1>1, RefusedOwned DEF NotFound
<1>2. ASSUME NEW s \in getRootEntryFile(rootFiles, n),
             LET old == rootFiles[s].st_size
                 k == blocksAll(newSize, 0, old)
                 job == [NewJob("truncate", n, s) EXCEPT !.size = newSize]
             IN  \/ StartShrink(job)
                 \/ IF k > 0 THEN Starts([job EXCEPT !.k = k])
                             ELSE Idle /\ Returns("ok") /\ UNCHANGED run
      PROVE  StepsOwnInv'
  <2> DEFINE k == blocksAll(newSize, 0, rootFiles[s].st_size)
             job == [NewJob("truncate", n, s) EXCEPT !.size = newSize]
             taking == [job EXCEPT !.k = k]
  <2>1. s \in Slots /\ rootFiles[s] # NULL /\ mounted
    BY <1>2 DEF getRootEntryFile, Named, StartTruncate
  <2>2. taking.op = "truncate" /\ taking.new = <<>> /\ taking.at = "take"
    BY DEF NewJob
  <2>3. \/ StartShrink(job) \/ Starts(taking)
        \/ Idle /\ Returns("ok") /\ UNCHANGED run
    BY <1>2
  <2> HIDE DEF taking
  <2>4. CASE StartShrink(job)
    BY <2>1, <2>4, StartShrinkOwned
  <2>5. CASE Starts(taking)
    BY <2>1, <2>2, <2>5, NothingTaken
  <2>6. CASE Idle /\ Returns("ok") /\ UNCHANGED run
    BY <2>6, RefusedOwned
  <2> QED
    BY <2>3, <2>4, <2>5, <2>6
<1> QED
  BY <1>1, <1>2 DEF StartTruncate

\* No step breaks the invariant.
LEMMA StepsOwnInvInductive ==
    ASSUME "shrink" \notin Workload, Faults \subseteq {"write", "truncate"}
    PROVE  OpenInv /\ JobInv /\ StepsOwnInv /\ UsedInFirstMapBlock' /\ [StepsNext]_stepVars
              => StepsOwnInv'
<1> SUFFICES ASSUME OpenInv, JobInv, StepsOwnInv, UsedInFirstMapBlock', [StepsNext]_stepVars
             PROVE  StepsOwnInv'
  OBVIOUS
<1>1. "device" \notin Faults /\ "unlink" \notin Faults
  OBVIOUS
<1>2. CASE UNCHANGED stepVars
  <2>1. /\ UNCHANGED <<container, mounted, rootFiles, rootDisc, fatArray, fatDisc>>
        /\ UNCHANGED <<dmapArray, dmapDisc, run>>
    BY <1>2 DEF stepVars, vars, fsVars
  <2>2. FatInv'
    BY <2>1, FatSame DEF StepsOwnInv
  <2>3. PICK own \in Owners : StepsOwned(own)
    BY DEF StepsOwnInv
  <2>4. Kept' = Kept /\ Freeing' = Freeing /\ Idle' = Idle /\ KeepsChain' = KeepsChain
    BY <2>1 DEF Kept, Freeing, Idle, KeepsChain
  <2>5. JobOwns(own) => JobOwns(own)'
    BY <2>1, <2>4 DEF JobOwns, Loose, AtOwn
  <2>6. StepsOwned(own)'
    BY <2>1, <2>3, <2>4, <2>5 DEF StepsOwned, StepsMarked
  <2>7. LinksMarked' /\ UnmountedEmpty'
    BY <2>1, <2>4 DEF StepsOwnInv, LinksMarked, UnmountedEmpty
  <2> QED
    BY <2>2, <2>6, <2>7 DEF StepsOwnInv, Owners
<1>3. CASE Idle /\ ShortHandler /\ UNCHANGED run
  <2>1. FatInv'
    BY <1>3, ShortHandlersAreNext, FatInvInductive DEF StepsOwnInv
  <2>2. QuietCalls
    BY <1>3 DEF ShortHandler, QuietCalls
  <2> QED
    BY <1>3, <2>1, <2>2, QuietKinds, QuietOwned
<1>4. CASE \/ \E n \in Names : StartUnlink(n)
           \/ \E h \in Handles, off \in 0..(MaxSize - 1), size \in 1..MaxSize, v \in Bytes :
                 off + size <= MaxSize /\ StartWrite(h, off, size, v)
           \/ \E n \in Names, newSize \in 0..MaxSize : StartTruncate(n, newSize)
  BY <1>1, <1>4, StartUnlinkOwned, StartWriteOwned, StartTruncateOwned
<1>5. CASE HandlerStep
  BY <1>1, <1>5, TakeBlockOwned, AttachOwned, LinkOwned, WriteOwned, SpareOwned, FreeOwned
     DEF HandlerStep
<1>6. CASE KillWithin
  BY <1>1, <1>6, EndsOwned DEF KillWithin
<1> QED
  BY <1>2, <1>3, <1>4, <1>5, <1>6 DEF StepsNext

LEMMA StepsOwnInvariant ==
    ASSUME "shrink" \notin Workload, Faults \subseteq {"write", "truncate"}
    PROVE  StepsSpec /\ []UsedInFirstMapBlock => [](OpenInv /\ JobInv /\ StepsOwnInv)
<1>1. StepsInit => StepsOwnInv
  <2> SUFFICES ASSUME StepsInit
               PROVE  StepsOwnInv
    OBVIOUS
  <2>1. FatInv /\ OwnInv /\ Idle
    BY InitFatInv, InitOwnInv DEF StepsInit, Idle
  <2>2. UnmountedEmpty /\ LinksMarked
    BY EndIsNoDataBlock DEF StepsInit, Init, UnmountedEmpty, LinksMarked, BlankFat
  <2> QED
    BY <2>1, <2>2, RestingOwners DEF StepsOwnInv, OwnInv
<1> QED
  BY <1>1, StepsOwnInvInductive, StepsInvariant, PTL DEF StepsSpec

(***************************************************************************)
(* Without "shrink", as long as blocks are used whose marks are in the     *)
(* first device block of the map, no block write fails and no removal is   *)
(* interrupted: no block belongs to two files at any step of a handler,    *)
(* wherever writes and truncations are killed.                             *)
(***************************************************************************)
THEOREM StepsKeepBlocksApart ==
    ASSUME "shrink" \notin Workload, Faults \subseteq {"write", "truncate"}
    PROVE  StepsSpec /\ []UsedInFirstMapBlock => []BlocksNotShared
<1>1. OpenInv /\ StepsOwnInv => BlocksNotShared
  <2> SUFFICES ASSUME OpenInv, StepsOwnInv
               PROVE  BlocksNotShared
    OBVIOUS
  <2>1. PICK own \in Owners : StepsOwned(own)
    BY DEF StepsOwnInv
  <2> QED
    BY <2>1, OwnersApart DEF OpenInv, StepsOwnInv, FatInv, StepsOwned
<1> QED
  BY <1>1, StepsOwnInvariant, PTL

(***************************************************************************)
(* Under the same conditions, whenever no handler runs, each block of a    *)
(* file is marked as used: a kill within a write or a truncation leaves no *)
(* file with a block that can be given away.                               *)
(***************************************************************************)
THEOREM StepsLeaveMarks ==
    ASSUME "shrink" \notin Workload, Faults \subseteq {"write", "truncate"}
    PROVE  StepsSpec /\ []UsedInFirstMapBlock => []MarkedAtRest
<1>1. OpenInv /\ StepsOwnInv => MarkedAtRest
  <2> SUFFICES ASSUME OpenInv, StepsOwnInv, Idle, NEW s \in Files, NEW b \in BlocksOf(s)
               PROVE  dmapArray[b]
    BY DEF MarkedAtRest, BlocksOfFilesUsed
  <2>1. PICK own \in Owners : StepsOwned(own)
    BY DEF StepsOwnInv
  <2>2. mounted
    BY DEF StepsOwnInv, UnmountedEmpty, EmptyDirectory, Files
  <2>3. b \in DataBlocks /\ own[b] = s /\ s # NULL
    BY <2>1, <2>2, OwnChain, OnDiskAssumption
       DEF OpenInv, StepsOwnInv, FatInv, StepsOwned, Files
  <2> QED
    BY <2>1, <2>2, <2>3 DEF StepsOwned, StepsMarked, Freeing, Kept
<1> QED
  BY <1>1, StepsOwnInvariant, PTL

(***************************************************************************)
(* Under the same conditions, getFirstFreeBlock never hands out a block    *)
(* that some file has, at any step of a write or an extension.             *)
(***************************************************************************)
THEOREM StepsTakeFreeBlocks ==
    ASSUME "shrink" \notin Workload, Faults \subseteq {"write", "truncate"}
    PROVE  StepsSpec /\ []UsedInFirstMapBlock => TakesFreeBlocks
<1>1. OpenInv /\ JobInv /\ StepsOwnInv /\ [StepsNext]_stepVars
         => [~Idle /\ run.at = "take" /\ run' # NULL =>
               \A s \in Files : run'.new[Len(run'.new)] \notin BlocksOf(s)]_stepVars
  <2> SUFFICES ASSUME OpenInv, JobInv, StepsOwnInv, StepsNext, ~Idle, run.at = "take",
                      run' # NULL, NEW s \in Files
               PROVE  run'.new[Len(run'.new)] \notin BlocksOf(s)
    OBVIOUS
  <2>1. PICK own \in Owners : StepsOwned(own)
    BY DEF StepsOwnInv
  <2>2. run.op \in {"write", "truncate"} /\ run \in Job /\ mounted
    BY JobFields DEF JobInv
  <2>3. TakeBlock
    <3>1. ASSUME NEW n \in Names, StartUnlink(n) PROVE FALSE
      BY <3>1 DEF StartUnlink, Starts
    <3>2. ASSUME NEW h \in Handles, NEW off \in 0..(MaxSize - 1), NEW size \in 1..MaxSize,
                 NEW v \in Bytes, StartWrite(h, off, size, v)
          PROVE FALSE
      BY <3>2 DEF StartWrite, Starts
    <3>3. ASSUME NEW n \in Names, NEW newSize \in 0..MaxSize, StartTruncate(n, newSize)
          PROVE FALSE
      BY <3>3 DEF StartTruncate, StartShrink, Starts
    <3>4. ~KillWithin
      BY DEF KillWithin
    <3>5. HandlerStep
      BY <3>1, <3>2, <3>3, <3>4 DEF StepsNext
    <3>6. ~Attach /\ ~Link /\ ~WriteData /\ ~WriteEntry
      BY DEF Attach, Link, WriteData, WriteEntry
    <3>7. ~KeepBlock /\ ~CutBlock /\ ~FreeSpareBlock /\ ~StoreSize
      BY DEF KeepBlock, CutBlock, FreeSpareBlock, StoreSize
    <3>8. ~FreeInMap /\ ~FreeInTable /\ ~DeleteEntry
      BY DEF FreeInMap, FreeInTable, DeleteEntry
    <3> QED
      BY <3>5, <3>6, <3>7, <3>8 DEF HandlerStep
  <2>4. PICK b \in getFirstFreeBlock :
           run' = [run EXCEPT
                   !.new = Append(@, b),
                   !.at = IF Len(run.new) + 1 = run.k THEN "attach" ELSE "take",
                   !.cur = rootFiles[run.s].firstBlock]
    BY <2>3 DEF TakeBlock, GoesOn
  <2>5. run'.new = Append(run.new, b)
    BY <2>2, <2>4 DEF Job
  <2>6. run'.new[Len(run'.new)] = b /\ ~dmapArray[b]
    BY <2>2, <2>4, <2>5, JobFields DEF getFirstFreeBlock, FreeBlocks
  <2>7. \A c \in BlocksOf(s) : c \in DataBlocks /\ own[c] = s /\ s # NULL
    BY <2>1, <2>2, OwnChain, OnDiskAssumption
       DEF OpenInv, StepsOwnInv, FatInv, StepsOwned, Files
  <2>8. \A c \in BlocksOf(s) : dmapArray[c]
    BY <2>1, <2>2, <2>7 DEF StepsOwned, StepsMarked, Freeing, Kept
  <2> QED
    BY <2>6, <2>8
<1> QED
  BY <1>1, StepsOwnInvariant, PTL DEF StepsSpec, TakesFreeBlocks

=============================================================================
