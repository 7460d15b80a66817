-------------------------- MODULE FileBlocks_proofs --------------------------
(***************************************************************************)
(* Proofs about FileBlocks: a file has a block for each of its bytes, and  *)
(* not many more, for every block size, volume and width of int, as long   *)
(* as sizes fit an int.                                                    *)
(***************************************************************************)
EXTENDS FileBlocks, TLAPS

LEMMA DivMonotone ==
    ASSUME NEW d \in Nat \ {0}, NEW x \in Nat, NEW y \in Nat, x <= y
    PROVE  x \div d <= y \div d
OBVIOUS

\* A size has at least as many blocks as lie in front of its end.
LEMMA NumBlocksBounds ==
    ASSUME NEW x \in Nat
    PROVE  /\ x \div BLOCK_SIZE \in Nat
           /\ numBlocks(x) \in Nat
           /\ x \div BLOCK_SIZE <= numBlocks(x)
BY LayoutAssumption DEF numBlocks

\* A size below 2 GiB is not changed by the conversion to int.
LEMMA ToIntSmall ==
    ASSUME MaxSize < IntSpan, NEW x \in 0..MaxSize
    PROVE  ToInt(x) = x
<1>1. x + IntSpan \in Nat /\ x + IntSpan < 2 * IntSpan
  BY FileBlocksAssumption
<1>2. (x + IntSpan) % (2 * IntSpan) = x + IntSpan
  BY <1>1, FileBlocksAssumption
<1> QED
  BY <1>2, FileBlocksAssumption DEF ToInt

\* The count is an integer, whatever the conversions make of the sizes.
LEMMA BlocksAllType ==
    ASSUME NEW size \in Nat, NEW off \in Nat, NEW st \in Nat
    PROVE  blocksAll(size, off, st) \in Int
<1>1. \A x \in Int : numBlocks(x) \in Int
  BY LayoutAssumption DEF numBlocks
<1>2. \A x \in Nat : ToInt(x) \in Int
  BY FileBlocksAssumption DEF ToInt
<1> QED
  BY <1>1, <1>2, LayoutAssumption DEF blocksAll

-----------------------------------------------------------------------------
\* No block is counted twice: the blocks of the file and the free ones fit the
\* volume.
Conserved == TypeOK /\ chain + free <= Volume

LEMMA ConservedInit == Init => Conserved
BY LayoutAssumption, FileBlocksAssumption DEF Init, Conserved, TypeOK, Volume

LEMMA ConservedSet ==
    ASSUME Conserved, NEW k \in Int, NEW size \in 0..MaxSize, setFATBlocks(k, size)
    PROVE  Conserved'
BY LayoutAssumption, FileBlocksAssumption DEF Conserved, TypeOK, Volume, setFATBlocks

LEMMA ConservedNext == Conserved /\ [Next]_vars => Conserved'
<1> SUFFICES ASSUME Conserved, [Next]_vars PROVE Conserved'
  OBVIOUS
<1> USE FileBlocksAssumption
<1>1. ASSUME NEW off \in 0..(MaxSize - 1), NEW size \in 1..MaxSize,
             off + size <= MaxSize, fuseWrite(off, size)
      PROVE  Conserved'
  <2>1. blocksAll(size, off, st_size) \in Int
    BY BlocksAllType DEF Conserved, TypeOK
  <2> QED
    BY <1>1, <2>1, ConservedSet DEF fuseWrite
<1>2. ASSUME NEW newSize \in 0..MaxSize, Extend(newSize)
      PROVE  Conserved'
  <2>1. blocksAll(newSize, 0, st_size) \in Int
    BY BlocksAllType DEF Conserved, TypeOK
  <2> QED
    BY <1>2, <2>1, ConservedSet DEF Extend, Conserved, TypeOK
<1>3. CASE Clear
  BY <1>3, LayoutAssumption DEF Clear, Conserved, TypeOK, Volume
<1>4. CASE UNCHANGED vars
  BY <1>4 DEF vars, Conserved, TypeOK
<1> QED
  BY <1>1, <1>2, <1>3, <1>4 DEF Next

\* Sizes and counts stay in range, whatever numBlocks makes of sizes that do not
\* fit an int.
THEOREM CountsTyped == Spec => []TypeOK
<1>1. Conserved => TypeOK
  BY DEF Conserved
<1> QED
  BY <1>1, ConservedInit, ConservedNext, PTL DEF Spec

\* No block is freed that the file was not given, nor given twice: after any
\* writes and truncations the blocks of the file and the free ones fit the volume.
THEOREM CountsConserved == Spec => []Conserved
BY ConservedInit, ConservedNext, PTL DEF Spec

-----------------------------------------------------------------------------
\* What blocksAll is below 2 GiB.
LEMMA BlocksAllSmall ==
    ASSUME MaxSize < IntSpan,
           NEW off \in Nat, NEW size \in Nat, off + size <= MaxSize, NEW st \in 0..MaxSize
    PROVE  blocksAll(size, off, st) =
              numBlocks(size + off) - numBlocks(st) + off \div BLOCK_SIZE - st \div BLOCK_SIZE
<1>1. size + off \in 0..MaxSize
  BY FileBlocksAssumption
<1> QED
  BY <1>1, ToIntSmall DEF blocksAll

\* A write that does not straddle keeps the file covered.
LEMMA CoveredSet ==
    ASSUME TypeOK, SizeCovered, MaxSize < IntSpan,
           NEW off \in Nat, NEW size \in Nat, off + size <= MaxSize,
           ~Straddles(off, off + size), st_size <= off + size,
           setFATBlocks(blocksAll(size, off, st_size), off + size)
    PROVE  SizeCovered'
<1>1. /\ numBlocks(off + size) \in Nat
      /\ numBlocks(st_size) \in Nat
      /\ off \div BLOCK_SIZE \in Nat
      /\ st_size \div BLOCK_SIZE \in Nat
      /\ chain \in Nat
  BY NumBlocksBounds DEF TypeOK
<1> DEFINE k == blocksAll(size, off, st_size)
<1>2. k = numBlocks(off + size) - numBlocks(st_size)
             + off \div BLOCK_SIZE - st_size \div BLOCK_SIZE
  <2>1. size + off = off + size
    OBVIOUS
  <2> QED
    BY <2>1, BlocksAllSmall DEF TypeOK
<1>3. \/ off \div BLOCK_SIZE >= st_size \div BLOCK_SIZE
      \/ numBlocks(off + size) <= numBlocks(st_size)
  BY <1>1 DEF Straddles
<1>4. numBlocks(off + size) <= IF k > 0 THEN chain + k ELSE chain
  <2> HIDE DEF k
  <2>1. CASE off \div BLOCK_SIZE >= st_size \div BLOCK_SIZE
    BY <1>1, <1>2, <2>1 DEF SizeCovered
  <2>2. CASE numBlocks(off + size) <= numBlocks(st_size)
    BY <1>1, <1>2, <2>2 DEF SizeCovered
  <2> QED
    BY <1>3, <2>1, <2>2
<1>5. k \in Int
  BY <1>1, <1>2
<1> HIDE DEF k
<1>6. setFATBlocks(k, off + size)
  BY DEF k
<1>7. \/ st_size' = off + size /\ chain' = (IF k > 0 THEN chain + k ELSE chain)
      \/ st_size' = st_size /\ chain' = chain
  BY <1>5, <1>6 DEF setFATBlocks
<1> QED
  BY <1>4, <1>7 DEF SizeCovered, numBlocks

\* As long as sizes fit an int, a file of clients that do not straddle has a
\* block for each of its bytes: sparse writes and extensions included.
THEOREM SizesCovered ==
    ASSUME MaxSize < IntSpan, "straddle" \notin Workload
    PROVE  Spec => []SizeCovered
<1>1. Init => SizeCovered
  BY LayoutAssumption DEF Init, SizeCovered, numBlocks
<1>2. Conserved /\ SizeCovered /\ [Next]_vars => SizeCovered'
  <2> SUFFICES ASSUME Conserved, SizeCovered, [Next]_vars PROVE SizeCovered'
    OBVIOUS
  <2>0. TypeOK
    BY DEF Conserved
  <2>1. ASSUME NEW off \in 0..(MaxSize - 1), NEW size \in 1..MaxSize,
               off + size <= MaxSize, fuseWrite(off, size)
        PROVE  SizeCovered'
    <3>1. off \in Nat /\ size \in Nat /\ st_size \in Nat
      BY <2>0, FileBlocksAssumption DEF TypeOK
    <3>2. /\ ~Straddles(off, off + size)
          /\ setFATBlocks(blocksAll(size, off, st_size), off + size)
          /\ st_size <= off + size
      BY <2>1, <3>1 DEF fuseWrite
    <3> QED
      BY <2>0, <2>1, <3>1, <3>2, CoveredSet
  <2>2. ASSUME NEW newSize \in 0..MaxSize, Extend(newSize)
        PROVE  SizeCovered'
    <3>1. newSize \in Nat /\ st_size \in Nat /\ 0 + newSize = newSize
      BY <2>0, FileBlocksAssumption DEF TypeOK
    <3>2. setFATBlocks(blocksAll(newSize, 0, st_size), st_size) /\ st_size <= newSize
      BY <2>2, <3>1 DEF Extend
    <3>3. chain \in Nat /\ free \in Nat /\ blocksAll(newSize, 0, st_size) \in Int
      BY <2>0, <3>1, BlocksAllType, LayoutAssumption DEF TypeOK, Volume
    <3>4. st_size' = st_size /\ chain' >= chain
      BY <3>2, <3>3 DEF setFATBlocks
    <3>5. numBlocks(st_size) \in Nat
      BY <3>1, NumBlocksBounds
    <3>6. chain' \in Int
      BY <3>2, <3>3 DEF setFATBlocks
    <3> QED
      BY <3>3, <3>4, <3>5, <3>6 DEF SizeCovered, numBlocks
  <2>3. CASE Clear
    BY <2>3, LayoutAssumption DEF Clear, SizeCovered, numBlocks
  <2>4. CASE UNCHANGED vars
    BY <2>4 DEF vars, SizeCovered, numBlocks
  <2> QED
    BY <2>1, <2>2, <2>3, <2>4 DEF Next
<1> QED
  BY <1>1, <1>2, CountsConserved, PTL DEF Spec

-----------------------------------------------------------------------------
\* What a file may have: its blocks, and once more those in front of its end.
Excess == chain <= numBlocks(st_size) + st_size \div BLOCK_SIZE

\* A longer file needs no fewer blocks.
LEMMA NumBlocksMonotone ==
    ASSUME NEW x \in Nat, NEW y \in Nat, x <= y
    PROVE  numBlocks(x) <= numBlocks(y)
<1>1. x \div BLOCK_SIZE <= y \div BLOCK_SIZE
  BY DivMonotone, LayoutAssumption
<1>2. CASE x \div BLOCK_SIZE = y \div BLOCK_SIZE
  <2>1. /\ x = BLOCK_SIZE * (x \div BLOCK_SIZE) + (x % BLOCK_SIZE)
        /\ y = BLOCK_SIZE * (y \div BLOCK_SIZE) + (y % BLOCK_SIZE)
        /\ x % BLOCK_SIZE \in Nat /\ y % BLOCK_SIZE \in Nat
    BY LayoutAssumption
  <2>2. x % BLOCK_SIZE # 0 => y % BLOCK_SIZE # 0
    BY <1>2, <2>1, LayoutAssumption
  <2> QED
    BY <1>2, <2>2, LayoutAssumption DEF numBlocks
<1>3. CASE x \div BLOCK_SIZE < y \div BLOCK_SIZE
  BY <1>3, LayoutAssumption DEF numBlocks
<1> QED
  BY <1>1, <1>2, <1>3, LayoutAssumption

\* A write keeps within the bound, also if it straddles.
LEMMA ExcessSet ==
    ASSUME TypeOK, Excess, MaxSize < IntSpan,
           NEW off \in Nat, NEW size \in Nat, off + size <= MaxSize, st_size <= off + size,
           setFATBlocks(blocksAll(size, off, st_size), off + size)
    PROVE  Excess'
<1> DEFINE end == off + size
           k == blocksAll(size, off, st_size)
<1>1. /\ numBlocks(end) \in Nat
      /\ numBlocks(st_size) \in Nat
      /\ off \div BLOCK_SIZE \in Nat
      /\ st_size \div BLOCK_SIZE \in Nat
      /\ end \div BLOCK_SIZE \in Nat
      /\ chain \in Nat
  BY NumBlocksBounds DEF TypeOK
<1>2. k = numBlocks(end) - numBlocks(st_size)
             + off \div BLOCK_SIZE - st_size \div BLOCK_SIZE
  <2>1. size + off = off + size
    OBVIOUS
  <2> QED
    BY <2>1, BlocksAllSmall DEF TypeOK
<1>3. off \div BLOCK_SIZE <= end \div BLOCK_SIZE
  BY DivMonotone, LayoutAssumption
<1>4. /\ st_size \div BLOCK_SIZE <= end \div BLOCK_SIZE
      /\ numBlocks(st_size) <= numBlocks(end)
  BY DivMonotone, NumBlocksMonotone, LayoutAssumption DEF TypeOK
<1>5. setFATBlocks(k, end)
  OBVIOUS
<1> HIDE DEF k, end
<1>6. /\ chain <= numBlocks(end) + end \div BLOCK_SIZE
      /\ chain + k <= numBlocks(end) + end \div BLOCK_SIZE
  BY <1>1, <1>2, <1>3, <1>4 DEF Excess
<1>7. \/ st_size' = end /\ (chain' = chain \/ chain' = chain + k)
      \/ st_size' = st_size /\ chain' = chain
  BY <1>5 DEF setFATBlocks
<1> QED
  BY <1>6, <1>7 DEF Excess, numBlocks

\* As long as sizes fit an int and no file is extended by a truncation, a file
\* takes no more than twice the blocks it needs, wherever it is written to.
THEOREM SpaceIsBounded ==
    ASSUME MaxSize < IntSpan, "grow" \notin Workload
    PROVE  Spec => []SpaceBounded
<1>1. Init => Excess
  BY LayoutAssumption DEF Init, Excess, numBlocks
<1>2. Conserved /\ Excess /\ [Next]_vars => Excess'
  <2> SUFFICES ASSUME Conserved, Excess, [Next]_vars PROVE Excess'
    OBVIOUS
  <2>0. TypeOK
    BY DEF Conserved
  <2>1. ASSUME NEW off \in 0..(MaxSize - 1), NEW size \in 1..MaxSize,
               off + size <= MaxSize, fuseWrite(off, size)
        PROVE  Excess'
    <3>1. off \in Nat /\ size \in Nat /\ st_size \in Nat
      BY <2>0, FileBlocksAssumption DEF TypeOK
    <3>2. /\ setFATBlocks(blocksAll(size, off, st_size), off + size)
          /\ st_size <= off + size
      BY <2>1, <3>1 DEF fuseWrite
    <3> QED
      BY <2>0, <2>1, <3>1, <3>2, ExcessSet
  <2>2. ASSUME NEW newSize \in 0..MaxSize, Extend(newSize)
        PROVE  Excess'
    <3>1. newSize = st_size /\ 0 + st_size <= MaxSize
          /\ st_size \in Nat /\ chain \in Nat /\ free \in Nat
      BY <2>0, <2>2, FileBlocksAssumption, LayoutAssumption DEF Extend, TypeOK, Volume
    <3>2. blocksAll(st_size, 0, st_size) =
             numBlocks(st_size + 0) - numBlocks(st_size) + 0 \div BLOCK_SIZE - st_size \div BLOCK_SIZE
      BY <2>0, <3>1, BlocksAllSmall DEF TypeOK
    <3>3. 0 \div BLOCK_SIZE = 0 /\ st_size + 0 = st_size
      BY <3>1, LayoutAssumption
    <3>4. numBlocks(st_size) \in Nat /\ st_size \div BLOCK_SIZE \in Nat
      BY <3>1, NumBlocksBounds
    <3>5. blocksAll(st_size, 0, st_size) <= 0 /\ blocksAll(st_size, 0, st_size) \in Int
      BY <3>2, <3>3, <3>4
    <3>6. st_size' = st_size /\ chain' = chain
      BY <2>2, <3>1, <3>5 DEF Extend, setFATBlocks
    <3> QED
      BY <3>6 DEF Excess, numBlocks
  <2>3. CASE Clear
    BY <2>3, LayoutAssumption DEF Clear, Excess, numBlocks
  <2>4. CASE UNCHANGED vars
    BY <2>4 DEF vars, Excess, numBlocks
  <2> QED
    BY <2>1, <2>2, <2>3, <2>4 DEF Next
<1>3. Conserved /\ Excess => SpaceBounded
  <2> SUFFICES ASSUME Conserved, Excess PROVE SpaceBounded
    OBVIOUS
  <2>1. st_size \in Nat /\ chain \in Nat
    BY LayoutAssumption, FileBlocksAssumption DEF Conserved, TypeOK, Volume
  <2>2. /\ numBlocks(st_size) \in Nat /\ st_size \div BLOCK_SIZE \in Nat
        /\ st_size \div BLOCK_SIZE <= numBlocks(st_size)
    BY <2>1, NumBlocksBounds
  <2> QED
    BY <2>1, <2>2 DEF Excess, SpaceBounded
<1> QED
  BY <1>1, <1>2, <1>3, CountsConserved, PTL DEF Spec
=============================================================================
