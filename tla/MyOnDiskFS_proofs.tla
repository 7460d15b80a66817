-------------------------- MODULE MyOnDiskFS_proofs --------------------------
(***************************************************************************)
(* The on-disk file system stays well typed, accounts for its open files,  *)
(* and finds the path of each of them -- for every size of the volume, the *)
(* directory and the table of open files, every set of names, and every    *)
(* Workload.                                                               *)
(*                                                                         *)
(* The three depend on each other: openCount stays in its range because it *)
(* counts the handles, and fuseRelease gives a handle back only if the     *)
(* path it is called with still names an entry.                            *)
(*                                                                         *)
(* Before that, the table and the map, each on its own. The loops that     *)
(* free and link blocks keep the table well typed and free of cycles,      *)
(* chains mean what the loops that follow them do, and the writes behind   *)
(* the loops leave the container with the table in memory. An allocation   *)
(* returns different free blocks, and the first device block of the map    *)
(* survives every restart.                                                 *)
(***************************************************************************)
EXTENDS MyOnDiskFS, WellFoundedInduction, FiniteSetTheorems, TLAPS

-----------------------------------------------------------------------------
(* Block numbers and indices.                                              *)

\* FAT_END can be stored in the table and is no data block.
LEMMA EndIsNoDataBlock ==
    /\ FAT_END \in Blocks
    /\ FAT_END \notin DataBlocks
    /\ DataBlocks \subseteq Blocks
BY LayoutAssumption DEF FAT_END, Blocks, DataBlocks

\* A block number fits the two bytes of an entry of the table on disc.
LEMMA FitsTwoBytes == \A x \in Blocks : x % 65536 = x
<1>1. \A x \in Nat : x < 65536 => x % 65536 = x
  OBVIOUS
<1>2. \A x \in Blocks : x \in Nat /\ x < 65536
  BY LayoutAssumption DEF Blocks
<1> QED
  BY <1>1, <1>2

\* A nonempty set of numbers has a smallest element.
LEMMA SmallestNumber ==
    ASSUME NEW T \in SUBSET Nat, T # {}
    PROVE  \E x \in T : \A y \in T : x <= y
<1> DEFINE R == OpToRel(<, Nat)
<1>1. \E x \in T : \A y \in T : ~ (<<y, x>> \in R)
  <2>1. IsWellFoundedOn(R, Nat)
    BY NatLessThanWellFounded
  <2> HIDE DEF R
  <2> QED
    BY <2>1, WFMin
<1>2. \A x, y \in Nat : y < x => <<y, x>> \in R
  BY DEF OpToRel
<1> HIDE DEF R
<1>3. PICK x \in T : \A y \in T : ~ (<<y, x>> \in R)
  BY <1>1
<1>4. \A y \in T : ~ (y < x)
  BY <1>2, <1>3
<1> QED
  BY <1>4

\* A nonempty set of indices has a largest element.
LEMMA LargestIndex ==
    ASSUME NEW n \in Nat, NEW I \in SUBSET (1..n), I # {}
    PROVE  \E m \in I : \A i \in I : i <= m
<1> DEFINE T == {x \in Nat : \E i \in I : x = n - i}
<1>1. \A i \in I : n - i \in T
  OBVIOUS
<1>2. T # {} /\ T \in SUBSET Nat
  <2>1. PICK i \in I : TRUE
    OBVIOUS
  <2> QED
    BY <1>1, <2>1
<1>3. PICK x \in T : \A y \in T : x <= y
  <2> HIDE DEF T
  <2> QED
    BY <1>2, SmallestNumber
<1>4. PICK m \in I : x = n - m
  BY <1>3
<1>5. \A i \in I : n - m <= n - i
  BY <1>1, <1>3, <1>4
<1> QED
  BY <1>5

-----------------------------------------------------------------------------
(* The file allocation table.                                              *)

\* FAT::discWrite keeps the container well typed.
LEMMA FatDiscWriteType ==
    ASSUME NEW disc \in [Blocks -> Blocks], NEW fat \in [Blocks -> Blocks], NEW touched
    PROVE  FatDiscWrite(disc, fat, touched) \in [Blocks -> Blocks]
<1>1. \A b \in Blocks : fat[b] % 65536 = fat[b]
  BY FitsTwoBytes
<1> QED
  BY <1>1 DEF FatDiscWrite

\* If the container held the table before the change, and every changed entry
\* is written (FAT::discWrite), it holds the table after the change.
LEMMA FatDiscWriteComplete ==
    ASSUME NEW fat \in [Blocks -> Blocks], NEW new \in [Blocks -> Blocks], NEW touched,
           \A b \in Blocks : b \notin touched => new[b] = fat[b]
    PROVE  FatDiscWrite(fat, new, touched) = new
<1>1. \A b \in Blocks : new[b] % 65536 = new[b]
  BY FitsTwoBytes
<1>2. \A b \in Blocks :
        (~ \E t \in touched : t \div FAT_PER_BLOCK = b \div FAT_PER_BLOCK)
            => new[b] = fat[b]
  OBVIOUS
<1> QED
  BY <1>1, <1>2 DEF FatDiscWrite

\* FAT::freeBlock keeps the table well typed.
LEMMA UnlinkedType ==
    ASSUME NEW fat \in [Blocks -> Blocks], NEW freed
    PROVE  Unlinked(fat, freed) \in [Blocks -> Blocks]
BY EndIsNoDataBlock DEF Unlinked

\* No entry but the freed ones changes.
LEMMA UnlinkedChanges ==
    ASSUME NEW fat \in [Blocks -> Blocks], NEW freed
    PROVE  \A b \in Blocks : b \notin freed => Unlinked(fat, freed)[b] = fat[b]
BY DEF Unlinked

\* MyOnDiskFS::setFATBlocks keeps the table well typed.
LEMMA LinkedType ==
    ASSUME NEW fat \in [Blocks -> Blocks], NEW chain, NEW new \in Seq(DataBlocks)
    PROVE  Linked(fat, chain, new) \in [Blocks -> Blocks]
<1> SUFFICES ASSUME NEW b \in Blocks
             PROVE  Linked(fat, chain, new)[b] \in Blocks
  BY DEF Linked
<1>1. CASE \E i \in 1..Len(new) : new[i] = b
  <2> DEFINE i == CHOOSE i \in 1..Len(new) : new[i] = b
  <2>1. i \in 1..Len(new)
    BY <1>1
  <2>2. Linked(fat, chain, new)[b] = IF i < Len(new) THEN new[i + 1] ELSE FAT_END
    BY <1>1 DEF Linked
  <2>3. i < Len(new) => new[i + 1] \in DataBlocks
    BY <2>1
  <2> QED
    BY <2>2, <2>3, EndIsNoDataBlock
<1>2. CASE ~ \E i \in 1..Len(new) : new[i] = b
  <2>1. new # <<>> => new[1] \in DataBlocks
    OBVIOUS
  <2> QED
    BY <1>2, <2>1, EndIsNoDataBlock DEF Linked
<1> QED
  BY <1>1, <1>2

\* The links of the appended blocks: each to its successor, the last to FAT_END.
LEMMA LinkedNew ==
    ASSUME NEW fat \in [Blocks -> Blocks], NEW chain, NEW new \in Seq(DataBlocks),
           \A i, j \in 1..Len(new) : new[i] = new[j] => i = j,
           NEW m \in 1..Len(new)
    PROVE  Linked(fat, chain, new)[new[m]]
              = IF m < Len(new) THEN new[m + 1] ELSE FAT_END
<1>1. new[m] \in Blocks
  BY EndIsNoDataBlock
<1>2. (CHOOSE i \in 1..Len(new) : new[i] = new[m]) = m
  OBVIOUS
<1> QED
  BY <1>1, <1>2 DEF Linked

\* No entry changes but those of the appended blocks and of the block they are
\* appended to.
LEMMA LinkedOld ==
    ASSUME NEW fat \in [Blocks -> Blocks], NEW chain, NEW new \in Seq(DataBlocks),
           NEW b \in Blocks, \A i \in 1..Len(new) : new[i] # b
    PROVE  Linked(fat, chain, new)[b]
              = IF new # <<>> /\ chain # <<>> /\ b = chain[Len(chain)]
                THEN new[1] ELSE fat[b]
BY DEF Linked

-----------------------------------------------------------------------------
(* Walks along a chain.                                                    *)

\* The function that getNth defines by recursion.
IsWalk(fat, first, n, w) ==
    w = [i \in 0..n |-> IF i = 0 THEN first ELSE fat[w[i - 1]]]

\* There is one, however far the walk goes.
LEMMA WalkExists ==
    ASSUME NEW fat, NEW first, NEW n \in Nat
    PROVE  \E w : IsWalk(fat, first, n, w)
<1> DEFINE T == {m \in Nat : ~ \E w : IsWalk(fat, first, m, w)}
<1> SUFFICES ASSUME T # {} PROVE FALSE
  OBVIOUS
<1>1. PICK m \in T : \A k \in T : m <= k
  <2>1. T \in SUBSET Nat
    OBVIOUS
  <2> HIDE DEF T
  <2> QED
    BY <2>1, SmallestNumber
<1>2. CASE m = 0
  <2>1. IsWalk(fat, first, 0, [i \in 0..0 |-> first])
    BY DEF IsWalk
  <2> QED
    BY <1>2, <2>1
<1>3. CASE m # 0
  <2>1. m - 1 \in Nat /\ m - 1 \notin T
    BY <1>1, <1>3
  <2>2. PICK w : IsWalk(fat, first, m - 1, w)
    BY <2>1
  <2> DEFINE v == [i \in 0..m |-> IF i = m THEN fat[w[m - 1]] ELSE w[i]]
  <2>3. \A i \in 0..(m - 1) : w[i] = IF i = 0 THEN first ELSE fat[w[i - 1]]
    BY <2>2 DEF IsWalk
  <2>4. \A i \in 0..m : v[i] = IF i = 0 THEN first ELSE fat[v[i - 1]]
    BY <1>1, <1>3, <2>3
  <2>5. IsWalk(fat, first, m, v)
    BY <2>4 DEF IsWalk
  <2> QED
    BY <2>5
<1> QED
  BY <1>2, <1>3

\* Two walks from one block visit the same blocks.
LEMMA WalksAgree ==
    ASSUME NEW fat, NEW first, NEW n \in Nat, NEW m \in Nat, n <= m,
           NEW w, IsWalk(fat, first, n, w), NEW v, IsWalk(fat, first, m, v)
    PROVE  \A i \in 0..n : w[i] = v[i]
<1> DEFINE T == {i \in 0..n : w[i] # v[i]}
<1> SUFFICES ASSUME T # {} PROVE FALSE
  OBVIOUS
<1>1. PICK i \in T : \A j \in T : i <= j
  <2>1. T \in SUBSET Nat
    OBVIOUS
  <2> HIDE DEF T
  <2> QED
    BY <2>1, SmallestNumber
<1>2. w[i] = (IF i = 0 THEN first ELSE fat[w[i - 1]])
  BY DEF IsWalk
<1>3. v[i] = (IF i = 0 THEN first ELSE fat[v[i - 1]])
  BY DEF IsWalk
<1>4. i # 0 => w[i - 1] = v[i - 1]
  BY <1>1
<1> QED
  BY <1>2, <1>3, <1>4

\* getNth is what it says: n calls of getNext.
LEMMA getNthSteps ==
    ASSUME NEW fat, NEW first, NEW n \in Nat
    PROVE  /\ getNth(fat, first, 0) = first
           /\ getNth(fat, first, n + 1) = fat[getNth(fat, first, n)]
<1> DEFINE walk(m) == CHOOSE w : IsWalk(fat, first, m, w)
<1>1. \A m \in Nat : getNth(fat, first, m) = walk(m)[m]
  BY DEF getNth, IsWalk
<1>2. \A m \in Nat : IsWalk(fat, first, m, walk(m))
  BY WalkExists
<1> HIDE DEF walk
<1>3. \A m \in Nat : \A i \in 0..m :
         walk(m)[i] = IF i = 0 THEN first ELSE fat[walk(m)[i - 1]]
  BY <1>2 DEF IsWalk
<1>4. \A i \in 0..n : walk(n)[i] = walk(n + 1)[i]
  BY <1>2, WalksAgree
<1> QED
  BY <1>1, <1>3, <1>4

\* A walk never leaves a set of blocks that it starts in and that the table does
\* not lead out of.
LEMMA WalkStays ==
    ASSUME NEW fat, NEW first, NEW S, NEW n \in Nat, getNth(fat, first, 0) \in S,
           \A m \in 0..(n - 1) : getNth(fat, first, m) \in S => getNth(fat, first, m + 1) \in S
    PROVE  getNth(fat, first, n) \in S
<1> DEFINE T == {m \in 0..n : getNth(fat, first, m) \notin S}
<1> SUFFICES ASSUME T # {} PROVE FALSE
  OBVIOUS
<1>1. PICK m \in T : \A j \in T : m <= j
  <2>1. T \in SUBSET Nat
    OBVIOUS
  <2> HIDE DEF T
  <2> QED
    BY <2>1, SmallestNumber
<1>2. m # 0
  BY <1>1
<1>3. m - 1 \in 0..(n - 1) /\ m - 1 \notin T /\ (m - 1) + 1 = m
  BY <1>1, <1>2
<1>4. getNth(fat, first, m - 1) \in S
  BY <1>3
<1> QED
  BY <1>1, <1>3, <1>4

\* The blocks of a chain: those that the walk visits before it meets FAT_END.
LEMMA ChainBlocks ==
    ASSUME NEW fat \in [Blocks -> Blocks], NEW first \in Blocks
    PROVE  /\ Chain(fat, first) \in Seq(DataBlocks)
           /\ \A i \in 1..Len(Chain(fat, first)) :
                 Chain(fat, first)[i] = getNth(fat, first, i - 1)
<1> DEFINE ends == {n \in 0..NUMBER_DATA_BLOCKS : getNth(fat, first, n) = FAT_END}
           len  == IF ends = {} THEN NUMBER_DATA_BLOCKS
                   ELSE CHOOSE n \in ends : \A m \in ends : n <= m
<1>1. NUMBER_DATA_BLOCKS \in Nat
  BY LayoutAssumption
<1>2. len \in 0..NUMBER_DATA_BLOCKS /\ \A m \in ends : len <= m
  <2>1. CASE ends = {}
    BY <1>1, <2>1
  <2>2. CASE ends # {}
    <3>1. ends \in SUBSET Nat /\ \A m \in ends : m \in 0..NUMBER_DATA_BLOCKS
      OBVIOUS
    <3> HIDE DEF ends
    <3>2. \E n \in ends : \A m \in ends : n <= m
      BY <2>2, <3>1, SmallestNumber
    <3> QED
      BY <2>2, <3>1, <3>2
  <2> QED
    BY <2>1, <2>2
<1>3. Chain(fat, first) = [i \in 1..len |-> getNth(fat, first, i - 1)]
  BY DEF Chain
<1>4. ASSUME NEW n \in Nat
      PROVE  getNth(fat, first, n) \in Blocks
  <2>1. getNth(fat, first, 0) \in Blocks
    BY getNthSteps
  <2>2. \A m \in 0..(n - 1) :
          getNth(fat, first, m) \in Blocks => getNth(fat, first, m + 1) \in Blocks
    BY getNthSteps
  <2> QED
    BY <2>1, <2>2, WalkStays
<1>5. \A i \in 1..len : i - 1 \in 0..NUMBER_DATA_BLOCKS /\ i - 1 \notin ends
  <2> HIDE DEF ends, len
  <2> QED
    BY <1>1, <1>2
<1>6. \A i \in 1..len : getNth(fat, first, i - 1) \in Blocks \ {FAT_END}
  BY <1>1, <1>4, <1>5
<1>7. Blocks \ {FAT_END} \subseteq DataBlocks
  BY LayoutAssumption DEF Blocks, DataBlocks, FAT_END
<1> HIDE DEF len
<1> QED
  BY <1>2, <1>3, <1>6, <1>7

\* Whoever owns the first block of a chain, and with each block the next one, owns
\* all of it.
LEMMA ChainOwned ==
    ASSUME NEW fat \in [Blocks -> Blocks], NEW first \in Blocks, NEW S,
           first = FAT_END \/ first \in S,
           \A b \in DataBlocks \cap S : fat[b] = FAT_END \/ fat[b] \in S
    PROVE  Range(Chain(fat, first)) \subseteq DataBlocks \cap S
<1> DEFINE chain == Chain(fat, first)
<1>1. /\ chain \in Seq(DataBlocks)
      /\ \A i \in 1..Len(chain) : chain[i] = getNth(fat, first, i - 1)
  BY ChainBlocks
<1> HIDE DEF chain
<1>2. ASSUME NEW i \in 1..Len(chain)
      PROVE  chain[i] \in S
  <2>1. \A m \in 0..(i - 1) : getNth(fat, first, m) \in DataBlocks
    <3> SUFFICES ASSUME NEW m \in 0..(i - 1) PROVE getNth(fat, first, m) \in DataBlocks
      OBVIOUS
    <3>1. m + 1 \in 1..Len(chain) /\ (m + 1) - 1 = m
      BY <1>1
    <3> QED
      BY <1>1, <3>1
  <2>2. getNth(fat, first, 0) \in S
    <3>1. getNth(fat, first, 0) = first
      BY getNthSteps
    <3> QED
      BY <2>1, <3>1, EndIsNoDataBlock
  <2>3. \A m \in 0..((i - 1) - 1) :
          getNth(fat, first, m) \in S => getNth(fat, first, m + 1) \in S
    <3> SUFFICES ASSUME NEW m \in 0..((i - 1) - 1), getNth(fat, first, m) \in S
                 PROVE  getNth(fat, first, m + 1) \in S
      OBVIOUS
    <3>1. m \in 0..(i - 1) /\ m + 1 \in 0..(i - 1) /\ m \in Nat
      OBVIOUS
    <3>2. getNth(fat, first, m + 1) = fat[getNth(fat, first, m)]
      BY <3>1, getNthSteps
    <3> QED
      BY <2>1, <3>1, <3>2, EndIsNoDataBlock
  <2>4. i - 1 \in Nat
    OBVIOUS
  <2>5. getNth(fat, first, i - 1) \in S
    BY <2>2, <2>3, <2>4, WalkStays
  <2> QED
    BY <1>1, <2>5
<1> QED
  BY <1>1, <1>2 DEF Range, chain

-----------------------------------------------------------------------------
(* Chains that end.                                                        *)

\* The sequence c is the chain that starts at first: each block leads to the
\* next, the last to FAT_END.
IsChain(fat, first, c) ==
    /\ first = IF c = <<>> THEN FAT_END ELSE c[1]
    /\ \A i \in 1..Len(c) : fat[c[i]] = IF i < Len(c) THEN c[i + 1] ELSE FAT_END

\* No block is in the sequence c twice.
Distinct(c) == \A i, j \in 1..Len(c) : c[i] = c[j] => i = j

\* Distinct blocks are as many as their positions, and fewer than the volume has.
LEMMA DistinctBlocks ==
    ASSUME NEW c \in Seq(DataBlocks), Distinct(c)
    PROVE  /\ Len(c) < NUMBER_DATA_BLOCKS
           /\ Cardinality(Range(c)) = Len(c)
<1>1. Len(c) \in Nat /\ c \in [1..Len(c) -> DataBlocks] /\ NUMBER_DATA_BLOCKS \in Nat
  BY LayoutAssumption
<1>2. /\ IsFiniteSet(1..Len(c)) /\ Cardinality(1..Len(c)) = Len(c)
      /\ IsFiniteSet(DataBlocks) /\ Cardinality(DataBlocks) = NUMBER_DATA_BLOCKS - 1
  <2>1. \A n \in Nat : IsFiniteSet(1..n) /\ Cardinality(1..n) = n
    <3> SUFFICES ASSUME NEW n \in Nat PROVE IsFiniteSet(1..n) /\ Cardinality(1..n) = n
      OBVIOUS
    <3>1. Cardinality(1..n) = IF 1 > n THEN 0 ELSE n - 1 + 1
      BY FS_Interval
    <3>2. (IF 1 > n THEN 0 ELSE n - 1 + 1) = n
      OBVIOUS
    <3>3. IsFiniteSet(1..n)
      BY FS_Interval
    <3> QED
      BY <3>1, <3>2, <3>3
  <2>2. NUMBER_DATA_BLOCKS - 1 \in Nat
    BY LayoutAssumption
  <2> QED
    BY <1>1, <2>1, <2>2 DEF DataBlocks
<1>3. c \in Injection(1..Len(c), DataBlocks)
  BY <1>1 DEF Injection, IsInjective, Distinct
<1>4. Len(c) <= NUMBER_DATA_BLOCKS - 1
  BY <1>2, <1>3, FS_Injection
<1>5. c \in Surjection(1..Len(c), Range(c)) /\ c \in Injection(1..Len(c), Range(c))
  BY <1>1 DEF Injection, IsInjective, Surjection, Range, Distinct
<1>6. Cardinality(Range(c)) = Len(c)
  BY <1>2, <1>5, FS_Surjection
<1> QED
  BY <1>1, <1>4, <1>6

\* A sequence of blocks that leads to FAT_END is what the loop visits.
LEMMA ChainIs ==
    ASSUME NEW fat \in [Blocks -> Blocks], NEW first \in Blocks,
           NEW c \in Seq(DataBlocks), Len(c) <= NUMBER_DATA_BLOCKS, IsChain(fat, first, c)
    PROVE  Chain(fat, first) = c
<1> DEFINE ends == {n \in 0..NUMBER_DATA_BLOCKS : getNth(fat, first, n) = FAT_END}
           len  == IF ends = {} THEN NUMBER_DATA_BLOCKS
                   ELSE CHOOSE n \in ends : \A m \in ends : n <= m
           T    == {i \in 0..(Len(c) - 1) : getNth(fat, first, i) # c[i + 1]}
<1>1. NUMBER_DATA_BLOCKS \in Nat /\ Len(c) \in Nat
  BY LayoutAssumption
<1>2. \A i \in 0..(Len(c) - 1) : getNth(fat, first, i) = c[i + 1]
  <2> SUFFICES ASSUME T # {} PROVE FALSE
    OBVIOUS
  <2>1. PICK i \in T : \A j \in T : i <= j
    <3>1. T \in SUBSET Nat
      OBVIOUS
    <3> HIDE DEF T
    <3> QED
      BY <3>1, SmallestNumber
  <2>2. CASE i = 0
    <3>1. c # <<>>
      BY <1>1, <2>1, <2>2
    <3> QED
      BY <2>1, <2>2, <3>1, getNthSteps DEF IsChain
  <2>3. CASE i # 0
    <3>1. i - 1 \in 0..(Len(c) - 1) /\ i - 1 \notin T /\ (i - 1) + 1 = i /\ i - 1 \in Nat
      BY <1>1, <2>1, <2>3
    <3>2. getNth(fat, first, (i - 1) + 1) = fat[getNth(fat, first, i - 1)]
      <4> DEFINE n == i - 1
      <4>1. n \in Nat
        BY <3>1
      <4> HIDE DEF n, T
      <4>2. getNth(fat, first, n + 1) = fat[getNth(fat, first, n)]
        BY <4>1, getNthSteps
      <4> QED
        BY <4>2 DEF n
    <3>4. getNth(fat, first, i - 1) = c[(i - 1) + 1]
      BY <3>1
    <3>3. i \in 1..Len(c) /\ i < Len(c)
      BY <1>1, <2>1, <2>3
    <3> QED
      BY <2>1, <3>1, <3>2, <3>3, <3>4 DEF IsChain
  <2> QED
    BY <2>2, <2>3
<1>3. getNth(fat, first, Len(c)) = FAT_END
  <2>1. CASE c = <<>>
    BY <2>1, getNthSteps DEF IsChain
  <2>2. CASE c # <<>>
    <3>1. /\ Len(c) - 1 \in 0..(Len(c) - 1) /\ (Len(c) - 1) + 1 = Len(c) /\ Len(c) - 1 \in Nat
          /\ Len(c) \in 1..Len(c)
      BY <1>1, <2>2
    <3>2. getNth(fat, first, (Len(c) - 1) + 1) = fat[getNth(fat, first, Len(c) - 1)]
      BY <3>1, getNthSteps
    <3>3. getNth(fat, first, Len(c) - 1) = c[(Len(c) - 1) + 1]
      BY <1>2, <3>1
    <3> QED
      BY <3>1, <3>2, <3>3 DEF IsChain
  <2> QED
    BY <2>1, <2>2
<1>4. \A i \in 0..(Len(c) - 1) : getNth(fat, first, i) # FAT_END
  <2>1. \A i \in 0..(Len(c) - 1) : i + 1 \in 1..Len(c)
    BY <1>1
  <2> QED
    BY <1>2, <2>1, EndIsNoDataBlock
<1>5. Len(c) \in ends /\ \A m \in ends : Len(c) <= m
  BY <1>1, <1>3, <1>4
<1>6. \A m \in ends : m \in Nat
  OBVIOUS
<1>7. len = Len(c)
  <2> HIDE DEF ends
  <2> QED
    BY <1>1, <1>5, <1>6
<1>8. Chain(fat, first) = [i \in 1..len |-> getNth(fat, first, i - 1)]
  BY DEF Chain
<1> HIDE DEF len
<1>9. \A i \in 1..Len(c) : getNth(fat, first, i - 1) = c[i]
  <2>1. \A i \in 1..Len(c) : i - 1 \in 0..(Len(c) - 1) /\ (i - 1) + 1 = i
    BY <1>1
  <2> QED
    BY <1>2, <2>1
<1> QED
  BY <1>1, <1>7, <1>8, <1>9

\* In a table without cycles the chain ends, and no block is in it twice.
LEMMA ChainEnds ==
    ASSUME NEW fat \in [Blocks -> Blocks], NEW first \in Blocks,
           \A S \in SUBSET DataBlocks : S # {} => \E b \in S : fat[b] \notin S
    PROVE  /\ Chain(fat, first) \in Seq(DataBlocks)
           /\ Distinct(Chain(fat, first))
           /\ IsChain(fat, first, Chain(fat, first))
<1> DEFINE at(n) == getNth(fat, first, n)
           E == {n \in Nat : at(n) = FAT_END}
<1>1. at(0) = first /\ \A n \in Nat : at(n + 1) = fat[at(n)]
  BY getNthSteps
<1>2. \A n \in Nat : at(n) \in Blocks
  <2> SUFFICES ASSUME NEW n \in Nat PROVE at(n) \in Blocks
    OBVIOUS
  <2>1. \A m \in 0..(n - 1) : at(m) \in Blocks => at(m + 1) \in Blocks
    BY <1>1
  <2> HIDE DEF at
  <2> QED
    BY <1>1, <2>1, WalkStays DEF at
<1> HIDE DEF at
<1>3. \A b \in Blocks : b # FAT_END => b \in DataBlocks
  BY LayoutAssumption DEF Blocks, DataBlocks, FAT_END
<1>4. E # {}
  <2> SUFFICES ASSUME E = {} PROVE FALSE
    OBVIOUS
  <2> DEFINE S == {at(n) : n \in Nat}
  <2>1. S \in SUBSET DataBlocks
    BY <1>2, <1>3
  <2>2. at(0) \in S
    OBVIOUS
  <2>3. PICK b \in S : fat[b] \notin S
    <3> HIDE DEF S
    <3> QED
      BY <2>1, <2>2
  <2>4. PICK n \in Nat : b = at(n)
    OBVIOUS
  <2>5. fat[b] = at(n + 1) /\ n + 1 \in Nat
    BY <1>1, <2>4
  <2> QED
    BY <2>3, <2>5
<1>5. PICK l \in E : \A n \in E : l <= n
  <2>1. E \in SUBSET Nat
    OBVIOUS
  <2> HIDE DEF E
  <2> QED
    BY <1>4, <2>1, SmallestNumber
<1>6. l \in Nat /\ at(l) = FAT_END /\ \A n \in 0..(l - 1) : at(n) \in DataBlocks
  <2>1. \A n \in 0..(l - 1) : n \in Nat /\ n \notin E
    BY <1>5
  <2> QED
    BY <1>2, <1>3, <1>5, <2>1
<1> HIDE DEF E
<1> DEFINE c == [i \in 1..l |-> at(i - 1)]
<1>7. c \in Seq(DataBlocks) /\ Len(c) = l
  <2>1. \A i \in 1..l : i - 1 \in 0..(l - 1)
    BY <1>6
  <2> QED
    BY <1>6, <2>1
<1>8. ASSUME NEW i \in 0..(l - 1), NEW j \in 0..(l - 1), i < j
      PROVE  at(i) # at(j)
  <2> SUFFICES ASSUME at(i) = at(j) PROVE FALSE
    OBVIOUS
  <2> DEFINE S == {at(n) : n \in i..(j - 1)}
  <2>1. S \in SUBSET DataBlocks
    <3>1. \A n \in i..(j - 1) : n \in 0..(l - 1)
      BY <1>6, <1>8
    <3> QED
      BY <1>6, <3>1
  <2>2. at(i) \in S
    BY <1>8
  <2>3. PICK b \in S : fat[b] \notin S
    <3> HIDE DEF S
    <3> QED
      BY <2>1, <2>2
  <2>4. PICK n \in i..(j - 1) : b = at(n)
    OBVIOUS
  <2>5. fat[b] = at(n + 1) /\ n \in Nat
    BY <1>1, <2>4
  <2>6. CASE n + 1 \in i..(j - 1)
    BY <2>3, <2>5, <2>6
  <2>7. CASE n + 1 = j
    BY <2>2, <2>3, <2>5, <2>7
  <2> QED
    BY <1>8, <2>6, <2>7
<1>9. Distinct(c)
  <2> SUFFICES ASSUME NEW i \in 1..l, NEW j \in 1..l, at(i - 1) = at(j - 1), i # j
               PROVE  FALSE
    BY <1>7 DEF Distinct
  <2>1. i - 1 \in 0..(l - 1) /\ j - 1 \in 0..(l - 1) /\ (i - 1 < j - 1 \/ j - 1 < i - 1)
    BY <1>6
  <2> QED
    BY <1>8, <2>1
<1>10. IsChain(fat, first, c)
  <2>1. first = IF c = <<>> THEN FAT_END ELSE c[1]
    <3>1. CASE l = 0
      BY <1>1, <1>6, <1>7, <3>1
    <3>2. CASE l # 0
      <4>1. 1 \in 1..l /\ 1 - 1 = 0
        BY <1>6, <3>2
      <4>2. c[1] = at(1 - 1)
        BY <4>1
      <4>3. c # <<>>
        BY <1>7, <3>2
      <4> HIDE DEF c
      <4> QED
        BY <1>1, <4>1, <4>2, <4>3
    <3> QED
      BY <3>1, <3>2
  <2>2. ASSUME NEW i \in 1..l
        PROVE  fat[c[i]] = IF i < l THEN c[i + 1] ELSE FAT_END
    <3>1. i - 1 \in Nat /\ (i - 1) + 1 = i /\ c[i] = at(i - 1)
      BY <1>6
    <3>2. fat[c[i]] = at(i)
      BY <1>1, <3>1
    <3>3. i < l => i + 1 \in 1..l /\ c[i + 1] = at((i + 1) - 1) /\ (i + 1) - 1 = i
      BY <1>6
    <3>4. ~(i < l) => i = l
      BY <1>6
    <3> QED
      BY <1>6, <3>2, <3>3, <3>4
  <2> HIDE DEF c
  <2> QED
    BY <1>7, <2>1, <2>2 DEF IsChain
<1>11. Len(c) <= NUMBER_DATA_BLOCKS
  <2> HIDE DEF c
  <2>1. Len(c) < NUMBER_DATA_BLOCKS
    BY <1>7, <1>9, DistinctBlocks
  <2> QED
    BY <1>6, <1>7, <2>1, LayoutAssumption
<1> HIDE DEF c
<1>12. Chain(fat, first) = c
  BY <1>7, <1>10, <1>11, ChainIs
<1> QED
  BY <1>7, <1>9, <1>10, <1>12

\* Without a first block there is no chain, and with one there is.
LEMMA ChainEmpty ==
    ASSUME NEW fat \in [Blocks -> Blocks]
    PROVE  Chain(fat, FAT_END) = <<>>
<1>1. IsChain(fat, FAT_END, <<>>) /\ <<>> \in Seq(DataBlocks) /\ Len(<<>>) <= NUMBER_DATA_BLOCKS
  BY LayoutAssumption DEF IsChain
<1> QED
  BY <1>1, ChainIs, EndIsNoDataBlock

\* A chain does not change as long as the entries of its blocks do not.
LEMMA ChainSame ==
    ASSUME NEW fat \in [Blocks -> Blocks], NEW new \in [Blocks -> Blocks], NEW first \in Blocks,
           \A S \in SUBSET DataBlocks : S # {} => \E b \in S : fat[b] \notin S,
           \A b \in Range(Chain(fat, first)) : new[b] = fat[b]
    PROVE  Chain(new, first) = Chain(fat, first)
<1> DEFINE c == Chain(fat, first)
<1>1. c \in Seq(DataBlocks) /\ Distinct(c) /\ IsChain(fat, first, c)
  BY ChainEnds
<1>2. \A i \in 1..Len(c) : new[c[i]] = fat[c[i]]
  BY <1>1 DEF Range
<1> HIDE DEF c
<1>3. IsChain(new, first, c)
  BY <1>1, <1>2 DEF IsChain
<1>4. Len(c) <= NUMBER_DATA_BLOCKS
  <2>1. Len(c) < NUMBER_DATA_BLOCKS /\ Len(c) \in Nat
    BY <1>1, DistinctBlocks
  <2> QED
    BY <2>1, LayoutAssumption
<1>5. Chain(new, first) = c
  BY <1>1, <1>3, <1>4, ChainIs
<1> QED
  BY <1>5 DEF c

\* MyOnDiskFS::setFATBlocks appends the blocks new to the chain, if they are not
\* in it, and a file without blocks starts with the first of them.
LEMMA ChainAppended ==
    ASSUME NEW fat \in [Blocks -> Blocks], NEW first \in Blocks,
           \A S \in SUBSET DataBlocks : S # {} => \E b \in S : fat[b] \notin S,
           NEW new \in Seq(DataBlocks), Distinct(new),
           Range(new) \cap Range(Chain(fat, first)) = {}
    PROVE  Chain(Linked(fat, Chain(fat, first), new),
                 IF new # <<>> /\ first = FAT_END THEN new[1] ELSE first)
              = Chain(fat, first) \o new
<1> DEFINE old == Chain(fat, first)
           lnk == Linked(fat, old, new)
           start == IF new # <<>> /\ first = FAT_END THEN new[1] ELSE first
           c == old \o new
<1>1. old \in Seq(DataBlocks) /\ Distinct(old) /\ IsChain(fat, first, old)
  BY ChainEnds
<1>2. \A i \in 1..Len(old), j \in 1..Len(new) : old[i] # new[j]
  <2>1. Range(new) \cap Range(old) = {}
    OBVIOUS
  <2> HIDE DEF old
  <2>2. /\ \A i \in 1..Len(old) : old[i] \in Range(old)
        /\ \A j \in 1..Len(new) : new[j] \in Range(new)
    BY <1>1 DEF Range
  <2> QED
    BY <2>1, <2>2
<1> HIDE DEF old
<1>3. lnk \in [Blocks -> Blocks] /\ start \in Blocks
  BY LinkedType, EndIsNoDataBlock
<1>4. /\ c \in Seq(DataBlocks) /\ Len(c) = Len(old) + Len(new)
      /\ \A i \in 1..Len(old) : c[i] = old[i]
      /\ \A i \in 1..Len(new) : c[Len(old) + i] = new[i]
      /\ Len(old) \in Nat /\ Len(new) \in Nat
  BY <1>1
<1> HIDE DEF c
<1>5. \A i \in 1..Len(c) :
        /\ i \in 1..Len(old) \/ i - Len(old) \in 1..Len(new)
        /\ i - Len(old) \in 1..Len(new) => c[i] = new[i - Len(old)]
  <2>1. \A i \in 1..Len(c) : /\ i \in 1..Len(old) \/ i - Len(old) \in 1..Len(new)
                            /\ Len(old) + (i - Len(old)) = i
    BY <1>4
  <2>2. \A i \in 1..Len(c) :
           i - Len(old) \in 1..Len(new) => c[Len(old) + (i - Len(old))] = new[i - Len(old)]
    BY <1>4
  <2> QED
    BY <2>1, <2>2
<1>6. Distinct(c)
  <2> SUFFICES ASSUME NEW i \in 1..Len(c), NEW j \in 1..Len(c), c[i] = c[j]
               PROVE  i = j
    BY DEF Distinct
  <2>1. CASE i \in 1..Len(old) /\ j \in 1..Len(old)
    BY <1>1, <1>4, <2>1 DEF Distinct
  <2>2. CASE i \in 1..Len(old) /\ j - Len(old) \in 1..Len(new)
    BY <1>2, <1>4, <1>5, <2>2
  <2>3. CASE i - Len(old) \in 1..Len(new) /\ j \in 1..Len(old)
    BY <1>2, <1>4, <1>5, <2>3
  <2>4. CASE i - Len(old) \in 1..Len(new) /\ j - Len(old) \in 1..Len(new)
    <3>1. c[i] = new[i - Len(old)] /\ c[j] = new[j - Len(old)]
      BY <1>4, <1>5, <2>4
    <3>2. i - Len(old) = j - Len(old)
      BY <2>4, <3>1 DEF Distinct
    <3> QED
      BY <1>4, <3>2
  <2> QED
    BY <1>5, <2>1, <2>2, <2>3, <2>4
<1>7. Len(c) <= NUMBER_DATA_BLOCKS
  <2>1. Len(c) < NUMBER_DATA_BLOCKS /\ Len(c) \in Nat
    BY <1>4, <1>6, DistinctBlocks
  <2> QED
    BY <2>1, LayoutAssumption
<1>8. start = IF c = <<>> THEN FAT_END ELSE c[1]
  <2>1. CASE old # <<>>
    <3>1. 1 \in 1..Len(old) /\ c # <<>>
      BY <1>1, <1>4, <2>1
    <3>2. first = old[1] /\ first # FAT_END
      BY <1>1, <2>1, <3>1, EndIsNoDataBlock DEF IsChain
    <3> QED
      BY <1>4, <3>1, <3>2
  <2>2. CASE old = <<>> /\ new # <<>>
    <3>1. first = FAT_END /\ 1 \in 1..Len(new) /\ Len(old) = 0 /\ Len(old) + 1 = 1 /\ c # <<>>
      BY <1>1, <1>4, <2>2 DEF IsChain
    <3> QED
      BY <1>4, <2>2, <3>1
  <2>3. CASE old = <<>> /\ new = <<>>
    <3>1. first = FAT_END /\ c = <<>>
      BY <1>1, <1>4, <2>3 DEF IsChain
    <3> QED
      BY <2>3, <3>1
  <2> QED
    BY <2>1, <2>2, <2>3
<1>9. ASSUME NEW i \in 1..Len(c)
      PROVE  lnk[c[i]] = IF i < Len(c) THEN c[i + 1] ELSE FAT_END
  <2>1. CASE i - Len(old) \in 1..Len(new)
    <3> DEFINE m == i - Len(old)
    <3>1. m \in 1..Len(new) /\ c[i] = new[m]
      BY <1>4, <1>5, <2>1
    <3>2. lnk[c[i]] = IF m < Len(new) THEN new[m + 1] ELSE FAT_END
      <4>1. \A p, q \in 1..Len(new) : new[p] = new[q] => p = q
        BY DEF Distinct
      <4> HIDE DEF m
      <4> QED
        BY <3>1, <4>1, LinkedNew
    <3>3. m < Len(new) <=> i < Len(c)
      BY <1>4
    <3>4. m < Len(new) => m + 1 \in 1..Len(new) /\ Len(old) + (m + 1) = i + 1
      BY <1>4, <2>1
    <3> QED
      BY <1>4, <3>2, <3>3, <3>4
  <2>2. CASE i \in 1..Len(old)
    <3>1. c[i] = old[i] /\ old[i] \in Blocks /\ \A j \in 1..Len(new) : new[j] # old[i]
      BY <1>1, <1>2, <1>4, <2>2, EndIsNoDataBlock
    <3>2. lnk[c[i]] = IF new # <<>> /\ old # <<>> /\ old[i] = old[Len(old)]
                      THEN new[1] ELSE fat[old[i]]
      BY <3>1, LinkedOld
    <3>3. fat[old[i]] = IF i < Len(old) THEN old[i + 1] ELSE FAT_END
      BY <1>1, <2>2 DEF IsChain
    <3>4. old # <<>> /\ Len(old) \in 1..Len(old)
      BY <1>4, <2>2
    <3>5. CASE i < Len(old)
      <4>1. old[i] # old[Len(old)]
        BY <1>1, <1>4, <2>2, <3>4, <3>5 DEF Distinct
      <4>2. i + 1 \in 1..Len(old) /\ i < Len(c)
        BY <1>4, <2>2, <3>5
      <4> QED
        BY <1>4, <3>2, <3>3, <3>5, <4>1, <4>2
    <3>6. CASE i = Len(old) /\ new # <<>>
      <4>1. i < Len(c) /\ 1 \in 1..Len(new) /\ i + 1 = Len(old) + 1
        BY <1>4, <3>6
      <4> QED
        BY <1>4, <3>2, <3>4, <3>6, <4>1
    <3>7. CASE i = Len(old) /\ new = <<>>
      <4>1. ~(i < Len(c)) /\ ~(i < Len(old))
        BY <1>4, <3>7
      <4> QED
        BY <3>2, <3>3, <3>7, <4>1
    <3> QED
      BY <1>4, <2>2, <3>5, <3>6, <3>7
  <2> QED
    BY <1>5, <2>1, <2>2
<1>10. IsChain(lnk, start, c)
  BY <1>8, <1>9 DEF IsChain
<1> HIDE DEF lnk, start
<1>11. Chain(lnk, start) = c
  BY <1>3, <1>4, <1>7, <1>10, ChainIs
<1> QED
  BY <1>11 DEF lnk, start, c, old

-----------------------------------------------------------------------------
(* The free-block map.                                                     *)

\* The blocks that getCertainNumberOfFreeBlocks returns are distinct data blocks.
LEMMA AllocatedBlocks ==
    ASSUME NEW dmap, NEW k \in Int, NEW s \in getCertainNumberOfFreeBlocks(dmap, k)
    PROVE  /\ s \in Seq(DataBlocks)
           /\ Len(s) = IF k >= 0 THEN k ELSE 0
           /\ \A i, j \in 1..Len(s) : s[i] = s[j] => i = j
<1>1. s \in [1..k -> FreeBlocks(dmap)] /\ \A i, j \in 1..k : i < j => s[i] < s[j]
  BY DEF getCertainNumberOfFreeBlocks
<1>2. FreeBlocks(dmap) \subseteq DataBlocks
  BY DEF FreeBlocks
<1>3. s \in [1..k -> DataBlocks]
  BY <1>1, <1>2
<1>4. \A i \in 1..k : s[i] \in Int
  BY <1>3, LayoutAssumption DEF DataBlocks
<1>5. \A i, j \in 1..k : s[i] = s[j] => i = j
  BY <1>1, <1>4
<1>6. CASE k >= 0
  <2>1. s \in Seq(DataBlocks) /\ Len(s) = k
    BY <1>3, <1>6
  <2> QED
    BY <1>5, <1>6, <2>1
<1>7. CASE k < 0
  <2>1. s = <<>>
    BY <1>3, <1>7
  <2> QED
    BY <1>7, <2>1
<1> QED
  BY <1>6, <1>7

\* Device block k of the map is filled from entries that exist.
LEMMA WindowInside ==
    ASSUME NEW k \in DmapGroups, NEW j \in DmapOffsets
    PROVE  k + j \in Blocks
BY LayoutAssumption DEF DmapGroups, DmapOffsets, Blocks

\* DMAP::discWrite keeps the container well typed.
LEMMA DmapDiscWriteType ==
    ASSUME DmapTypeOK, NEW s, NEW used \in BOOLEAN
    PROVE  DmapDiscWrite(dmapDisc, dmapArray, s, used)
              \in [DmapGroups -> [DmapOffsets -> BOOLEAN]]
<1>1. \A k \in DmapGroups : \A j \in DmapOffsets : dmapArray[k + j] \in BOOLEAN
  BY WindowInside DEF DmapTypeOK
<1> QED
  BY <1>1 DEF DmapDiscWrite, DmapTypeOK

\* DMAP::setBlock keeps the map and the container well typed.
LEMMA SetAllType ==
    ASSUME DmapTypeOK, NEW s, NEW used \in BOOLEAN, SetAll(s, used)
    PROVE  DmapTypeOK'
<1>1. dmapArray' \in [Blocks -> BOOLEAN]
  BY DEF SetAll, Marked, DmapTypeOK
<1>2. dmapDisc' \in [DmapGroups -> [DmapOffsets -> BOOLEAN]]
  BY DmapDiscWriteType DEF SetAll
<1> QED
  BY <1>1, <1>2 DEF DmapTypeOK

\* The place of a block in the container exists.
LEMMA PlaceOfBlock ==
    ASSUME NEW b \in Blocks
    PROVE  /\ b \div DMAP_PER_BLOCK \in DmapGroups
           /\ b % DMAP_PER_BLOCK \in DmapOffsets
<1> DEFINE d == DMAP_PER_BLOCK
           n == NUMBER_DATA_BLOCKS - 1
<1>1. /\ d \in Nat /\ d > 0
      /\ n \in Nat /\ b \in Nat /\ b <= n
  BY LayoutAssumption DEF Blocks
<1>2. b % d \in 0..(d - 1) /\ b \div d \in Int /\ n \div d \in Int
  BY <1>1
<1>3. b \div d >= 0 /\ b \div d <= n \div d
  BY <1>1
<1> QED
  BY <1>2, <1>3 DEF DmapGroups, DmapOffsets

\* The entries of the first device block have their own places.
LEMMA PlaceInFirstBlock ==
    ASSUME NEW b \in Blocks
    PROVE  /\ b < DMAP_PER_BLOCK <=> b \div DMAP_PER_BLOCK = 0
           /\ b < DMAP_PER_BLOCK => b % DMAP_PER_BLOCK = b
<1> DEFINE d == DMAP_PER_BLOCK
<1>1. d \in Nat /\ d > 0 /\ b \in Nat
  BY LayoutAssumption DEF Blocks
<1> HIDE DEF d
<1>2. b < d => b \div d = 0 /\ b % d = b
  BY <1>1
<1>3. b \div d = 0 => b < d
  BY <1>1
<1> QED
  BY <1>2, <1>3 DEF d

\* DMAP::init keeps them well typed.
LEMMA DmapRestartType == DmapTypeOK /\ DmapRestart => DmapTypeOK'
<1> SUFFICES ASSUME DmapTypeOK, DmapRestart PROVE DmapTypeOK'
  OBVIOUS
<1>1. \A b \in Blocks : b \div DMAP_PER_BLOCK \in DmapGroups /\ b % DMAP_PER_BLOCK \in DmapOffsets
  BY PlaceOfBlock
<1> QED
  BY <1>1 DEF DmapTypeOK, DmapRestart, DmapRead

\* The number of free blocks is a number.
LEMMA CountOfFreeBlocks == Cardinality(FreeBlocks(dmapArray)) \in Nat
<1>1. IsFiniteSet(DataBlocks)
  BY FS_Interval, LayoutAssumption DEF DataBlocks
<1>2. FreeBlocks(dmapArray) \in SUBSET DataBlocks
  BY DEF FreeBlocks
<1> QED
  BY <1>1, <1>2, FS_Subset, FS_CardinalityType

-----------------------------------------------------------------------------
(* The first device block.                                                 *)

\* The inductive invariant: the container holds the entries of the first device
\* block in its place.
FirstInv ==
    /\ DmapTypeOK
    /\ \A b \in Blocks : b < DMAP_PER_BLOCK => dmapDisc[0][b] = dmapArray[b]

\* What DMAP::init reads for these entries is what the container holds there.
LEMMA FirstRead ==
    ASSUME NEW disc, NEW b \in Blocks, b < DMAP_PER_BLOCK
    PROVE  DmapRead(disc)[b] = disc[0][b]
BY PlaceInFirstBlock DEF DmapRead

\* A sequence of settings of data blocks keeps it: discWrite copies the window
\* that starts at entry 0 after the last setting within it.
LEMMA SetAllFirst ==
    ASSUME FirstInv, NEW s \in Seq(DataBlocks), NEW used \in BOOLEAN, SetAll(s, used)
    PROVE  FirstInv'
<1>1. DmapTypeOK'
  BY SetAllType DEF FirstInv
<1> DEFINE hits == {i \in 1..Len(s) : s[i] \div DMAP_PER_BLOCK = 0}
           last == CHOOSE i \in hits : \A h \in hits : h <= i
<1>2. \A i \in 1..Len(s) : s[i] \in Blocks
  BY EndIsNoDataBlock
<1>3. 0 \in DmapGroups /\ 0 \in Blocks
  BY PlaceOfBlock, PlaceInFirstBlock, LayoutAssumption DEF Blocks
<1>4. SUFFICES ASSUME NEW b \in Blocks, b < DMAP_PER_BLOCK
               PROVE  dmapDisc'[0][b] = dmapArray'[b]
  BY <1>1 DEF FirstInv
<1>5. b \in DmapOffsets /\ 0 + b = b
  BY <1>4, LayoutAssumption DEF Blocks, DmapOffsets
<1>6. dmapArray'[b] = IF \E i \in 1..Len(s) : s[i] = b THEN used ELSE dmapArray[b]
  BY DEF SetAll, Marked
<1>7. \A i \in 1..Len(s) : s[i] = b => i \in hits
  BY <1>4, PlaceInFirstBlock
<1>8. CASE hits = {}
  <2>1. dmapDisc'[0] = dmapDisc[0]
    BY <1>3, <1>8 DEF SetAll, DmapDiscWrite
  <2> QED
    BY <1>4, <1>6, <1>7, <1>8, <2>1 DEF FirstInv
<1>9. CASE hits # {}
  <2>1. last \in hits /\ \A h \in hits : h <= last
    <3>1. \E i \in hits : \A h \in hits : h <= i
      <4>1. hits \in SUBSET (1..Len(s)) /\ Len(s) \in Nat
        OBVIOUS
      <4> HIDE DEF hits
      <4> QED
        BY <1>9, <4>1, LargestIndex
    <3> QED
      BY <3>1
  <2>2. dmapDisc'[0][b] =
           IF \E i \in 1..Len(s) : i <= last /\ s[i] = 0 + b
           THEN used ELSE dmapArray[0 + b]
    BY <1>3, <1>5, <1>9 DEF SetAll, DmapDiscWrite
  <2> QED
    BY <1>5, <1>6, <1>7, <2>1, <2>2
<1> QED
  BY <1>8, <1>9

\* A mark in the first device block of the map stays, in memory and on disc, unless
\* its block is freed; a block that is taken gets one on disc.
LEMMA FirstMarks ==
    ASSUME DmapTypeOK, NEW s \in Seq(DataBlocks), NEW used \in BOOLEAN,
           NEW b \in Blocks, b < DMAP_PER_BLOCK
    PROVE  LET disc == DmapDiscWrite(dmapDisc, dmapArray, s, used)
           IN  /\ dmapArray[b] /\ dmapDisc[0][b] /\ (used \/ \A i \in 1..Len(s) : s[i] # b)
                     => disc[0][b]
               /\ used /\ (\E i \in 1..Len(s) : s[i] = b) => disc[0][b]
<1> DEFINE hits == {i \in 1..Len(s) : s[i] \div DMAP_PER_BLOCK = 0}
           last == CHOOSE i \in hits : \A h \in hits : h <= i
           disc == DmapDiscWrite(dmapDisc, dmapArray, s, used)
<1>1. \A i \in 1..Len(s) : s[i] = b => i \in hits
  BY PlaceInFirstBlock
<1>2. 0 \in DmapGroups
  BY EndIsNoDataBlock, PlaceOfBlock, PlaceInFirstBlock, LayoutAssumption DEF FAT_END
<1>3. b \in DmapOffsets /\ 0 + b = b
  BY LayoutAssumption DEF Blocks, DmapOffsets
<1>4. CASE hits = {}
  <2>1. disc[0] = dmapDisc[0]
    BY <1>2, <1>4 DEF DmapDiscWrite
  <2> QED
    BY <1>1, <1>4, <2>1
<1>5. CASE hits # {}
  <2>1. last \in hits /\ \A h \in hits : h <= last
    <3>1. \E i \in hits : \A h \in hits : h <= i
      <4>1. hits \in SUBSET (1..Len(s)) /\ Len(s) \in Nat
        OBVIOUS
      <4> HIDE DEF hits
      <4> QED
        BY <1>5, <4>1, LargestIndex
    <3> QED
      BY <3>1
  <2>2. disc[0][b] = IF \E i \in 1..Len(s) : i <= last /\ s[i] = 0 + b
                     THEN used ELSE dmapArray[0 + b]
    BY <1>2, <1>3, <1>5 DEF DmapDiscWrite
  <2> QED
    BY <1>1, <1>3, <2>1, <2>2
<1> QED
  BY <1>4, <1>5

\* Every call and every restart keeps it.
LEMMA FirstInvInductive == FirstInv /\ [DmapNext]_dmapVars => FirstInv'
<1> SUFFICES ASSUME FirstInv, [DmapNext]_dmapVars
             PROVE  FirstInv'
  OBVIOUS
<1>1. ASSUME NEW b \in DataBlocks, setBlock(b, FALSE)
      PROVE  FirstInv'
  <2>1. <<b>> \in Seq(DataBlocks)
    OBVIOUS
  <2> QED
    BY <1>1, <2>1, SetAllFirst DEF setBlock
<1>2. ASSUME NEW k \in 1..NUMBER_DATA_BLOCKS, Allocate(k)
      PROVE  FirstInv'
  <2>1. ASSUME NEW n \in Int,
               NEW s \in getCertainNumberOfFreeBlocks(dmapArray, n), SetAll(s, TRUE)
        PROVE  FirstInv'
    BY <2>1, AllocatedBlocks, SetAllFirst
  <2>2. k \in Int /\ Cardinality(FreeBlocks(dmapArray)) \in Int
    BY CountOfFreeBlocks, LayoutAssumption
  <2> QED
    BY <1>2, <2>1, <2>2 DEF Allocate
<1>3. CASE DmapRestart
  <2>1. DmapTypeOK'
    BY <1>3, DmapRestartType DEF FirstInv
  <2>2. \A b \in Blocks : b < DMAP_PER_BLOCK => dmapArray'[b] = dmapDisc'[0][b]
    BY <1>3, FirstRead DEF DmapRestart, DmapRead
  <2> QED
    BY <2>1, <2>2 DEF FirstInv
<1>4. CASE UNCHANGED dmapVars
  BY <1>4 DEF FirstInv, DmapTypeOK, dmapVars
<1> QED
  BY <1>1, <1>2, <1>3, <1>4 DEF DmapNext

(***************************************************************************)
(* Whatever is allocated and freed, and however often the process starts   *)
(* again, DMAP::init reads the first device block as the calls left it.    *)
(***************************************************************************)
THEOREM DmapFirstBlock == DmapSpec => []FirstDmapBlockPersisted
<1>1. DmapInit => FirstInv
  <2> SUFFICES ASSUME DmapInit PROVE FirstInv
    OBVIOUS
  <2>1. 0 \in DmapGroups /\ \A b \in Blocks : b < DMAP_PER_BLOCK => b \in DmapOffsets
    <3>1. 0 \in Blocks
      BY EndIsNoDataBlock DEF FAT_END
    <3> QED
      BY <3>1, PlaceOfBlock, PlaceInFirstBlock, LayoutAssumption
  <2> QED
    BY <2>1 DEF DmapInit, FirstInv, DmapTypeOK, BlankDmap, BlankDmapDisc
<1>2. FirstInv => FirstDmapBlockPersisted
  BY FirstRead DEF FirstInv, FirstDmapBlockPersisted
<1> QED
  BY <1>1, <1>2, FirstInvInductive, PTL DEF DmapSpec
-----------------------------------------------------------------------------
(* The root directory: what a lookup finds, and that entries are stored    *)
(* and deleted without harm to the others.                                 *)

RootDirectories == [Slots -> rootFile \cup {NULL}]

\* Root::getRootEntryFile finds an entry with the name it is given.
LEMMA EntryFound ==
    ASSUME NEW dir \in RootDirectories, NEW n, NEW s \in getRootEntryFile(dir, n)
    PROVE  /\ s \in Slots /\ s \in Named(dir, n)
           /\ dir[s] \in rootFile /\ dir[s] # NULL /\ dir[s].name = n
BY DEF getRootEntryFile, Named, RootDirectories

\* It finds one if there is one.
LEMMA EntryExists ==
    ASSUME NEW dir, NEW n, Named(dir, n) # {}
    PROVE  getRootEntryFile(dir, n) # {}
<1>1. Named(dir, n) \in SUBSET Nat
  BY LayoutAssumption DEF Named, Slots
<1>2. PICK s \in Named(dir, n) : \A t \in Named(dir, n) : s <= t
  BY <1>1, SmallestNumber
<1> QED
  BY <1>2 DEF getRootEntryFile

\* A new entry, and an entry with a changed attribute, are entries.
LEMMA NewFileType ==
    ASSUME FuseAssumption, NEW n \in Names
    PROVE  NewFile(n) \in rootFile
BY LayoutAssumption, FuseAssumption, EndIsNoDataBlock DEF NewFile, rootFile

\* Storing an entry keeps the directory well typed.
LEMMA StoreEntryType ==
    ASSUME RootTypeOK, NEW s \in Slots, NEW f \in rootFile, StoreEntry(s, f)
    PROVE  RootTypeOK'
BY DEF RootTypeOK, StoreEntry

\* So does deleting the entries with a name.
LEMMA deleteFileType ==
    ASSUME RootTypeOK, NEW n, deleteFile(n)
    PROVE  RootTypeOK'
BY DEF RootTypeOK, deleteFile

\* An entry that keeps its name, or takes an empty slot, hides no name.
LEMMA StoreKeepsNames ==
    ASSUME NEW dir \in RootDirectories, NEW s \in Slots, NEW f \in rootFile,
           dir[s] = NULL \/ dir[s].name = f.name, NEW n, Named(dir, n) # {}
    PROVE  Named([dir EXCEPT ![s] = f], n) # {}
<1>1. f # NULL
  BY NullAssumption
<1> QED
  BY <1>1 DEF RootDirectories, Named

-----------------------------------------------------------------------------

\* Only a process has files open.
UnmountedClosed == ~mounted => \A h \in Handles : handles[h] = NULL

\* A handle that points to a slot points to an entry.
HandlesRefer ==
    \A h \in Handles : openFiles[h] \in Slots => rootFiles[openFiles[h]] # NULL

\* The inductive invariant.
OpenInv ==
    /\ TypeOK
    /\ DescriptorsAccounted
    /\ OpenPathsExist
    /\ HandlesRefer
    /\ UnmountedClosed

OpenHandles == {h \in Handles : handles[h] # NULL}

-----------------------------------------------------------------------------
(* What steps of several handlers have in common.                          *)

\* The count of the open handles is in range.
LEMMA OpenHandlesFinite ==
    /\ IsFiniteSet(OpenHandles)
    /\ Cardinality(OpenHandles) \in 0..NUM_OPEN_FILES
<1>1. IsFiniteSet(Handles) /\ Cardinality(Handles) = NUM_OPEN_FILES
  BY FS_Interval, LayoutAssumption DEF Handles
<1>2. OpenHandles \in SUBSET Handles
  BY DEF OpenHandles
<1> QED
  BY <1>1, <1>2, FS_Subset, FS_CardinalityType, LayoutAssumption

\* A handler that changes no handle and hides no name keeps both accounts.
LEMMA KeepsHandles ==
    ASSUME OpenInv, UNCHANGED openVars, UNCHANGED mounted,
           \A n \in Names : Named(rootFiles, n) # {} => Named(rootFiles', n) # {},
           \A s \in Slots : rootFiles[s] # NULL => rootFiles'[s] # NULL
    PROVE  DescriptorsAccounted' /\ OpenPathsExist' /\ HandlesRefer' /\ UnmountedClosed'
<1>1. handles \in [Handles -> Names \cup {NULL}]
  BY DEF OpenInv, TypeOK, FuseTypeOK
<1>2. handles' = handles /\ openFiles' = openFiles /\ openCount' = openCount
  BY DEF openVars
<1>3. DescriptorsAccounted'
  BY <1>2 DEF OpenInv, DescriptorsAccounted
<1>4. OpenPathsExist'
  BY <1>1, <1>2 DEF OpenInv, OpenPathsExist
<1>5. UnmountedClosed'
  BY <1>2 DEF OpenInv, UnmountedClosed
<1>6. HandlesRefer'
  BY <1>2 DEF OpenInv, HandlesRefer
<1> QED
  BY <1>3, <1>4, <1>5, <1>6

\* The end of the process, whatever the reason, closes every handle.
LEMMA EndKeepsInv ==
    ASSUME OpenInv, NEW r \in Outcomes, ProcessEnds(r), UNCHANGED container,
           UNCHANGED <<rootDisc, fatDisc, blockData>>,
           dmapDisc' \in [DmapGroups -> [DmapOffsets -> BOOLEAN]]
    PROVE  OpenInv'
<1>1. /\ rootDisc \in RootDirectories /\ fatDisc \in [Blocks -> Blocks]
      /\ container \in BOOLEAN
      /\ blockData \in [Blocks -> [0..(BLOCK_SIZE - 1) -> Bytes]]
  BY DEF OpenInv, TypeOK, RootTypeOK, FatTypeOK, RootDirectories
<1>2. \A h \in Handles : openFiles'[h] = NULL /\ handles'[h] = NULL
  BY DEF ProcessEnds, NothingOpen
<1>3. openCount' = 0 /\ 0 \in 0..NUM_OPEN_FILES
  BY LayoutAssumption DEF ProcessEnds, NothingOpen
<1>4. TypeOK'
  <2>1. RootTypeOK'
    BY <1>1 DEF ProcessEnds, EmptyDirectory, RootTypeOK, RootDirectories
  <2>2. FatTypeOK'
    BY <1>1, EndIsNoDataBlock DEF ProcessEnds, BlankFat, FatTypeOK
  <2>3. DmapTypeOK'
    BY DEF ProcessEnds, BlankDmap, DmapTypeOK
  <2>4. FuseTypeOK'
    BY DEF ProcessEnds, NothingOpen, Replies, FuseTypeOK
  <2>5. mounted' \in BOOLEAN /\ openFiles' \in [Handles -> Slots \cup {NULL, DANGLING}]
    BY DEF ProcessEnds, NothingOpen
  <2> QED
    BY <1>1, <1>3, <2>1, <2>2, <2>3, <2>4, <2>5 DEF TypeOK
<1>5. DescriptorsAccounted'
  <2>1. {h \in Handles : handles'[h] # NULL} = {}
    BY <1>2
  <2> QED
    BY <1>2, <1>3, <2>1, FS_EmptySet DEF DescriptorsAccounted
<1>6. OpenPathsExist'
  BY <1>2 DEF OpenPathsExist
<1>7. UnmountedClosed'
  BY <1>2 DEF UnmountedClosed
<1>8. HandlesRefer'
  BY <1>2, OnDiskAssumption DEF HandlesRefer
<1> QED
  BY <1>4, <1>5, <1>6, <1>7, <1>8 DEF OpenInv

\* A handler that changes neither tables nor handles keeps everything.
LEMMA ReturnsKeepsInv ==
    ASSUME OpenInv, ret' \in Outcomes, UNCHANGED <<container, mounted, fsVars, openVars>>
    PROVE  OpenInv'
<1>1. UNCHANGED <<rootFiles, rootDisc, fatArray, fatDisc, dmapArray, dmapDisc, blockData>>
      /\ UNCHANGED <<container, mounted, openFiles, openCount, handles>>
  BY DEF fsVars, openVars
<1>2. TypeOK'
  BY <1>1 DEF OpenInv, TypeOK, RootTypeOK, FatTypeOK, DmapTypeOK, FuseTypeOK
<1>3. DescriptorsAccounted' /\ OpenPathsExist' /\ HandlesRefer' /\ UnmountedClosed'
  BY <1>1, KeepsHandles DEF openVars
<1> QED
  BY <1>2, <1>3 DEF OpenInv

\* Undefined behaviour ends the process.
LEMMA AstrayKeepsInv == OpenInv /\ GoesAstray => OpenInv'
<1> SUFFICES ASSUME OpenInv, GoesAstray PROVE OpenInv'
  OBVIOUS
<1>1. "undefined" \in Outcomes
  BY DEF Outcomes
<1>2. dmapDisc' \in [DmapGroups -> [DmapOffsets -> BOOLEAN]]
  BY DEF OpenInv, TypeOK, DmapTypeOK, GoesAstray
<1> QED
  BY <1>1, <1>2, EndKeepsInv DEF GoesAstray

\* A handler that stores one entry, and keeps its name, keeps everything.
LEMMA StoreKeepsInv ==
    ASSUME OpenInv, NEW s \in Slots, NEW f \in rootFile,
           rootFiles[s] = NULL \/ rootFiles[s].name = f.name,
           UpdateEntry(s, f)
    PROVE  OpenInv'
<1>1. RootTypeOK'
  BY StoreEntryType DEF OpenInv, TypeOK, UpdateEntry
<1>2. rootFiles' = [rootFiles EXCEPT ![s] = f]
  BY DEF UpdateEntry, StoreEntry
<1>3. rootFiles \in RootDirectories
  BY DEF OpenInv, TypeOK, RootTypeOK, RootDirectories
<1>4. DescriptorsAccounted' /\ OpenPathsExist' /\ HandlesRefer' /\ UnmountedClosed'
  <2>1. \A t \in Slots : rootFiles[t] # NULL => rootFiles'[t] # NULL
    BY <1>2, <1>3, NullAssumption DEF RootDirectories
  <2> QED
    BY <1>2, <1>3, <2>1, StoreKeepsNames, KeepsHandles DEF UpdateEntry, Completes
<1>5. TypeOK'
  <2>1. "ok" \in Outcomes
    BY DEF Outcomes
  <2> QED
    BY <1>1, <2>1 DEF OpenInv, TypeOK, FatTypeOK, DmapTypeOK, FuseTypeOK,
       UpdateEntry, Completes, Replies, openVars
<1> QED
  BY <1>4, <1>5 DEF OpenInv

\* The outcomes of the handlers.
LEMMA OutcomesOf ==
    {"ok", "EEXIST", "EINVAL", "ENOENT", "EMFILE", "EBADF", "ENFILE", "wrapped",
     "SIGSEGV", "killed", "undefined"} \subseteq Outcomes
BY DEF Outcomes, Errors

\* A handler that does nothing.
LEMMA DoesNothing ==
    ASSUME OpenInv, NEW r \in Outcomes, Returns(r)
    PROVE  OpenInv'
BY ReturnsKeepsInv DEF Returns, Completes, Replies

-----------------------------------------------------------------------------
(* One lemma for each handler that does more.                              *)

\* The first mount finds no file and nothing open.
LEMMA InitOpenInv == Init => OpenInv
<1> SUFFICES ASSUME Init PROVE OpenInv
  OBVIOUS
<1>1. TypeOK
  <2>1. RootTypeOK
    BY DEF Init, RootTypeOK, EmptyDirectory
  <2>2. FatTypeOK
    BY EndIsNoDataBlock DEF Init, FatTypeOK, BlankFat
  <2>3. DmapTypeOK
    BY DEF Init, DmapInit, DmapTypeOK, BlankDmap, BlankDmapDisc
  <2>4. FuseTypeOK
    BY OutcomesOf DEF Init, FuseInit, FuseTypeOK
  <2>5. blockData \in [Blocks -> [0..(BLOCK_SIZE - 1) -> Bytes]]
    BY FuseAssumption DEF Init
  <2>6. 0 \in 0..NUM_OPEN_FILES
    BY LayoutAssumption
  <2> QED
    BY <2>1, <2>2, <2>3, <2>4, <2>5, <2>6 DEF Init, TypeOK
<1>2. DescriptorsAccounted
  <2>1. {h \in Handles : handles[h] # NULL} = {}
    BY DEF Init, FuseInit
  <2> QED
    BY <2>1, FS_EmptySet DEF DescriptorsAccounted, Init, FuseInit
<1>3. OpenPathsExist /\ HandlesRefer /\ UnmountedClosed
  BY OnDiskAssumption DEF Init, FuseInit, OpenPathsExist, HandlesRefer, UnmountedClosed
<1> QED
  BY <1>1, <1>2, <1>3 DEF OpenInv

\* A mount reads well-typed tables, or starts with whatever map it has.
LEMMA fuseInitKeepsInv == OpenInv /\ fuseInit => OpenInv'
<1> SUFFICES ASSUME OpenInv, fuseInit PROVE OpenInv'
  OBVIOUS
<1>1. TypeOK'
  <2>1. RootTypeOK'
    BY DEF OpenInv, TypeOK, RootTypeOK, fuseInit, InitExisting, InitNew,
       initRootDir, rootInit, EmptyDirectory
  <2>2. FatTypeOK'
    BY DEF OpenInv, TypeOK, FatTypeOK, fuseInit, InitExisting, InitNew, FatRestart
  <2>3. DmapTypeOK'
    <3>1. CASE InitExisting
      BY <3>1, DmapRestartType DEF OpenInv, TypeOK, InitExisting
    <3>2. CASE InitNew
      BY <3>2 DEF OpenInv, TypeOK, DmapTypeOK, InitNew
    <3> QED
      BY <3>1, <3>2 DEF fuseInit
  <2> QED
    BY <2>1, <2>2, <2>3, OutcomesOf DEF OpenInv, TypeOK, FuseTypeOK, fuseInit, InitExisting,
       InitNew, Replies, openVars
<1>2. \A h \in Handles : handles[h] = NULL
  BY DEF OpenInv, UnmountedClosed, fuseInit
<1>3. DescriptorsAccounted' /\ OpenPathsExist' /\ HandlesRefer' /\ UnmountedClosed'
  <2>1. \A h \in Handles : openFiles[h] = NULL
    BY <1>2 DEF OpenInv, DescriptorsAccounted
  <2> QED
    BY <1>2, <2>1, OnDiskAssumption DEF OpenInv, DescriptorsAccounted, OpenPathsExist, HandlesRefer,
       UnmountedClosed, fuseInit, openVars
<1> QED
  BY <1>1, <1>3 DEF OpenInv

\* An unmount and a kill.
LEMMA EndingKeepsInv == OpenInv /\ (fuseDestroy \/ Kill) => OpenInv'
<1> SUFFICES ASSUME OpenInv, fuseDestroy \/ Kill PROVE OpenInv'
  OBVIOUS
<1>1. dmapDisc' \in [DmapGroups -> [DmapOffsets -> BOOLEAN]]
  BY DEF OpenInv, TypeOK, DmapTypeOK, fuseDestroy, Kill
<1>2. UNCHANGED container /\ UNCHANGED <<rootDisc, fatDisc, blockData>>
  BY DEF fuseDestroy, Kill
<1> QED
  BY <1>1, <1>2, EndKeepsInv, OutcomesOf DEF fuseDestroy, Kill

\* A new entry takes an empty slot.
LEMMA fuseMknodKeepsInv ==
    ASSUME OpenInv, NEW n \in Names \cup LongNames, NEW mode \in Modes, fuseMknod(n, mode)
    PROVE  OpenInv'
<1>1. CASE Returns("EEXIST") \/ Returns("EINVAL")
  BY <1>1, DoesNothing, OutcomesOf
<1>2. CASE GoesAstray
  BY <1>2, AstrayKeepsInv
<1>3. ASSUME ~NameTooLong(n), NEW s \in FreeSlot(rootFiles), UpdateEntry(s, NewFile(n))
      PROVE  OpenInv'
  <2>1. s \in Slots /\ rootFiles[s] = NULL
    BY DEF FreeSlot
  <2>2. NewFile(n) \in rootFile
    BY <1>3, NewFileType, FuseAssumption DEF NameTooLong
  <2> QED
    BY <1>3, <2>1, <2>2, StoreKeepsInv
<1> QED
  BY <1>1, <1>2, <1>3 DEF fuseMknod

\* The entries that go are those of a name that is not open.
LEMMA fuseUnlinkKeepsInv ==
    ASSUME OpenInv, NEW n \in Names, fuseUnlink(n)
    PROVE  OpenInv'
<1>1. CASE NotFound(n, "ENOENT")
  BY <1>1, DoesNothing, OutcomesOf DEF NotFound
<1>2. ASSUME NEW chain,
             fatArray' = Unlinked(fatArray, Range(chain)),
             fatDisc' = FatDiscWrite(fatDisc, fatArray', Range(chain)),
             SetAll(chain, FALSE),
             deleteFile(n),
             openFiles' = [h \in Handles |->
                IF openFiles[h] \in Named(rootFiles, n) THEN DANGLING ELSE openFiles[h]],
             Completes("ok"),
             UNCHANGED <<blockData, openCount, handles>>
      PROVE  OpenInv'
  <2>1. TypeOK'
    <3>1. RootTypeOK' /\ DmapTypeOK'
      BY <1>2, deleteFileType, SetAllType DEF OpenInv, TypeOK
    <3>2. FatTypeOK'
      BY <1>2, UnlinkedType, FatDiscWriteType DEF OpenInv, TypeOK, FatTypeOK
    <3>3. openFiles' \in [Handles -> Slots \cup {NULL, DANGLING}]
      BY <1>2 DEF OpenInv, TypeOK
    <3> QED
      BY <1>2, <3>1, <3>2, <3>3, OutcomesOf DEF OpenInv, TypeOK, FuseTypeOK, Completes, Replies
  <2>2. \A h \in Handles : openFiles'[h] # NULL <=> openFiles[h] # NULL
    BY <1>2, OnDiskAssumption DEF Named
  <2>3. DescriptorsAccounted'
    BY <1>2, <2>2 DEF OpenInv, DescriptorsAccounted
  <2>4. \A m \in Names : m # n => Named(rootFiles', m) = Named(rootFiles, m)
    BY <1>2 DEF deleteFile, Named, OpenInv, TypeOK, RootTypeOK
  <2>5. \A h \in Handles : handles[h] # NULL => handles[h] \in Names /\ handles[h] # n
    BY DEF fuseUnlink, IsOpen, OpenInv, TypeOK, FuseTypeOK
  <2>6. OpenPathsExist'
    BY <1>2, <2>4, <2>5 DEF OpenInv, OpenPathsExist
  <2>7. UnmountedClosed'
    BY <1>2 DEF OpenInv, UnmountedClosed, Completes
  <2>8. HandlesRefer'
    <3> SUFFICES ASSUME NEW h \in Handles, openFiles'[h] \in Slots
                 PROVE  rootFiles'[openFiles'[h]] # NULL
      BY DEF HandlesRefer
    <3>1. openFiles'[h] = openFiles[h] /\ openFiles[h] \notin Named(rootFiles, n)
      BY <1>2, OnDiskAssumption
    <3>2. rootFiles[openFiles[h]] # NULL
      BY <3>1 DEF OpenInv, HandlesRefer
    <3> QED
      BY <1>2, <3>1, <3>2 DEF deleteFile
  <2> QED
    BY <2>1, <2>3, <2>6, <2>7, <2>8 DEF OpenInv
<1> QED
  BY <1>1, <1>2 DEF fuseUnlink

\* The handles of the old path follow the entry to its new name.
LEMMA fuseRenameKeepsInv ==
    ASSUME OpenInv, NEW p \in Names, NEW q \in Names \cup LongNames, fuseRename(p, q)
    PROVE  OpenInv'
<1>1. CASE Returns("EINVAL") \/ NotFound(p, "ENOENT")
  BY <1>1, DoesNothing, OutcomesOf DEF NotFound
<1>2. ASSUME ~NameTooLong(q), NEW s \in getRootEntryFile(rootFiles, p),
             StoreEntry(s, [rootFiles[s] EXCEPT !.name = q]),
             handles' = Renamed(p, q),
             Completes("ok"),
             UNCHANGED <<fatArray, fatDisc, dmapArray, dmapDisc, blockData, openFiles, openCount>>
      PROVE  OpenInv'
  <2> DEFINE f == [rootFiles[s] EXCEPT !.name = q]
  <2>1. q \in Names /\ q # NULL
    BY <1>2, FuseAssumption DEF NameTooLong
  <2>2. rootFiles \in RootDirectories
    BY DEF OpenInv, TypeOK, RootTypeOK, RootDirectories
  <2>3. s \in Slots /\ rootFiles[s] \in rootFile /\ rootFiles[s] # NULL /\ rootFiles[s].name = p
    BY <1>2, <2>2, EntryFound
  <2>4. f \in rootFile /\ f.name = q /\ f # NULL
    BY <2>1, <2>3, NullAssumption DEF rootFile
  <2>5. RootTypeOK'
    BY <1>2, <2>3, <2>4, StoreEntryType DEF OpenInv, TypeOK
  <2>6. handles' \in [Handles -> Names \cup {NULL}]
    BY <1>2, <2>1 DEF Renamed, OpenInv, TypeOK, FuseTypeOK
  <2>7. TypeOK'
    BY <1>2, <2>5, <2>6, OutcomesOf DEF OpenInv, TypeOK, FatTypeOK, DmapTypeOK, FuseTypeOK,
       Completes, Replies
  <2>8. \A h \in Handles : handles'[h] # NULL <=> handles[h] # NULL
    BY <1>2, <2>1, FuseAssumption DEF Renamed
  <2>9. DescriptorsAccounted'
    BY <1>2, <2>8 DEF OpenInv, DescriptorsAccounted
  <2>10. s \in Named(rootFiles', q)
    BY <1>2, <2>2, <2>3, <2>4 DEF StoreEntry, Named, RootDirectories
  <2>11. \A m : m # p /\ Named(rootFiles, m) # {} => Named(rootFiles', m) # {}
    <3> SUFFICES ASSUME NEW m, m # p, NEW t \in Named(rootFiles, m)
                 PROVE  t \in Named(rootFiles', m)
      OBVIOUS
    <3>1. t \in Slots /\ t # s
      BY <2>3 DEF Named
    <3> QED
      BY <1>2, <2>2, <3>1 DEF StoreEntry, Named, RootDirectories
  <2>12. OpenPathsExist'
    <3> SUFFICES ASSUME NEW h \in Handles, handles'[h] # NULL
                 PROVE  Named(rootFiles', handles'[h]) # {}
      BY DEF OpenPathsExist
    <3>1. CASE handles[h] = p
      BY <1>2, <2>10, <3>1 DEF Renamed
    <3>2. CASE handles[h] # p
      BY <1>2, <2>8, <2>11, <3>2 DEF Renamed, OpenInv, OpenPathsExist
    <3> QED
      BY <3>1, <3>2
  <2>13. UnmountedClosed'
    BY <1>2 DEF UnmountedClosed, fuseRename, Completes
  <2>14. HandlesRefer'
    BY <1>2, <2>2, <2>3, <2>4 DEF StoreEntry, RootDirectories, OpenInv, HandlesRefer
  <2> QED
    BY <2>7, <2>9, <2>12, <2>13, <2>14 DEF OpenInv
<1> QED
  BY <1>1, <1>2 DEF fuseRename

\* Permissions and owner are not the name.
LEMMA AttributesKeepInv ==
    ASSUME OpenInv, NEW n \in Names, NEW mode \in Modes, NEW uid \in Uids,
           fuseGetattr(n) \/ fuseChmod(n, mode) \/ fuseChown(n, uid)
    PROVE  OpenInv'
<1>1. CASE NotFound(n, "ENOENT")
  BY <1>1, DoesNothing, OutcomesOf DEF NotFound
<1>2. ASSUME NEW s \in getRootEntryFile(rootFiles, n),
             \/ UpdateEntry(s, [rootFiles[s] EXCEPT !.st_mode = mode])
             \/ UpdateEntry(s, [rootFiles[s] EXCEPT !.st_uid = uid])
      PROVE  OpenInv'
  <2>1. s \in Slots /\ rootFiles[s] \in rootFile
    BY EntryFound DEF OpenInv, TypeOK, RootTypeOK, RootDirectories
  <2>2. /\ [rootFiles[s] EXCEPT !.st_mode = mode] \in rootFile
        /\ [rootFiles[s] EXCEPT !.st_mode = mode].name = rootFiles[s].name
        /\ [rootFiles[s] EXCEPT !.st_uid = uid] \in rootFile
        /\ [rootFiles[s] EXCEPT !.st_uid = uid].name = rootFiles[s].name
    BY <2>1 DEF rootFile
  <2> QED
    BY <1>2, <2>1, <2>2, StoreKeepsInv
<1>3. CASE fuseGetattr(n)
  BY <1>1, <1>3, ReturnsKeepsInv, OutcomesOf DEF fuseGetattr, Reports
<1> QED
  BY <1>1, <1>2, <1>3 DEF fuseChmod, fuseChown

\* Listing the directory changes nothing.
LEMMA fuseReaddirKeepsInv == OpenInv /\ fuseReaddir => OpenInv'
BY ReturnsKeepsInv, OutcomesOf DEF fuseReaddir, Reports

\* A file that is opened takes a free handle.
LEMMA fuseOpenKeepsInv ==
    ASSUME OpenInv, NEW n \in Names, fuseOpen(n)
    PROVE  OpenInv'
<1>1. CASE NotFound(n, "ENOENT") \/ Returns("EMFILE")
  BY <1>1, DoesNothing, OutcomesOf DEF NotFound
<1>2. ASSUME openCount # NUM_OPEN_FILES,
             NEW s \in getRootEntryFile(rootFiles, n), NEW h \in getIndexOpen,
             openFiles' = [openFiles EXCEPT ![h] = s],
             handles' = [handles EXCEPT ![h] = n],
             openCount' = openCount + 1,
             Completes("ok"),
             UNCHANGED fsVars
      PROVE  OpenInv'
  <2>1. s \in Slots /\ s \in Named(rootFiles, n)
    BY <1>2, EntryFound DEF OpenInv, TypeOK, RootTypeOK, RootDirectories
  <2>2. h \in Handles /\ openFiles[h] = NULL
    BY <1>2 DEF getIndexOpen
  <2>3. n # NULL /\ s # NULL
    BY <2>1, FuseAssumption, OnDiskAssumption
  <2>4. /\ openFiles \in [Handles -> Slots \cup {NULL, DANGLING}]
        /\ handles \in [Handles -> Names \cup {NULL}]
        /\ openCount \in 0..NUM_OPEN_FILES
    BY DEF OpenInv, TypeOK, FuseTypeOK
  <2>5. openCount' \in 0..NUM_OPEN_FILES
    BY <1>2, <2>4, LayoutAssumption
  <2>6. UNCHANGED <<rootFiles, rootDisc, fatArray, fatDisc, dmapArray, dmapDisc, blockData>>
    BY <1>2 DEF fsVars
  <2>7. TypeOK'
    BY <1>2, <2>1, <2>4, <2>5, <2>6, OutcomesOf DEF OpenInv, TypeOK, RootTypeOK, FatTypeOK,
       DmapTypeOK, FuseTypeOK, Completes, Replies
  <2>8. DescriptorsAccounted'
    <3>1. h \notin OpenHandles
      BY <2>2 DEF OpenInv, DescriptorsAccounted, OpenHandles
    <3>2. {g \in Handles : handles'[g] # NULL} = OpenHandles \cup {h}
      BY <1>2, <2>2, <2>3, <2>4 DEF OpenHandles
    <3>3. Cardinality(OpenHandles \cup {h}) = Cardinality(OpenHandles) + 1
      BY <3>1, OpenHandlesFinite, FS_AddElement
    <3>4. \A g \in Handles : openFiles'[g] # NULL <=> handles'[g] # NULL
      BY <1>2, <2>2, <2>3, <2>4 DEF OpenInv, DescriptorsAccounted
    <3> QED
      BY <1>2, <3>2, <3>3, <3>4 DEF OpenInv, DescriptorsAccounted, OpenHandles
  <2>9. OpenPathsExist'
    BY <1>2, <2>1, <2>2, <2>4, <2>6 DEF OpenInv, OpenPathsExist, Named
  <2>10. UnmountedClosed'
    BY <1>2 DEF UnmountedClosed, fuseOpen, Completes
  <2>11. HandlesRefer'
    BY <1>2, <2>1, <2>2, <2>4, <2>6 DEF OpenInv, HandlesRefer, Named
  <2> QED
    BY <2>7, <2>8, <2>9, <2>10, <2>11 DEF OpenInv
<1> QED
  BY <1>1, <1>2 DEF fuseOpen

\* A release gives the handle back: the path of an open file names an entry,
\* and the handle is in use.
LEMMA fuseReleaseKeepsInv ==
    ASSUME OpenInv, NEW h \in Handles, fuseRelease(h)
    PROVE  OpenInv'
<1>1. /\ openFiles \in [Handles -> Slots \cup {NULL, DANGLING}]
      /\ handles \in [Handles -> Names \cup {NULL}]
      /\ openCount \in 0..NUM_OPEN_FILES
  BY DEF OpenInv, TypeOK, FuseTypeOK
<1>2. handles[h] # NULL /\ handles' = [handles EXCEPT ![h] = NULL]
  BY DEF fuseRelease
<1>3. openFiles[h] # NULL
  BY <1>2 DEF OpenInv, DescriptorsAccounted
<1>4. getRootEntryFile(rootFiles, handles[h]) # {}
  BY <1>2, EntryExists DEF OpenInv, OpenPathsExist
<1>5. CloseHandle(h) /\ Completes("ok")
  BY <1>3, <1>4 DEF fuseRelease
<1>6. UNCHANGED <<rootFiles, rootDisc, fatArray, fatDisc, dmapArray, dmapDisc, blockData>>
  BY DEF fuseRelease, fsVars
<1>7. Cardinality(OpenHandles \ {h}) = Cardinality(OpenHandles) - 1
      /\ Cardinality(OpenHandles \ {h}) \in Nat
  <2>1. h \in OpenHandles
    BY <1>2 DEF OpenHandles
  <2> QED
    BY <2>1, OpenHandlesFinite, FS_RemoveElement, FS_CardinalityType
<1>8. openCount' = Cardinality(OpenHandles \ {h}) /\ openCount' \in 0..NUM_OPEN_FILES
  BY <1>1, <1>5, <1>7, LayoutAssumption DEF CloseHandle, OpenInv, DescriptorsAccounted, OpenHandles
<1>9. TypeOK'
  BY <1>1, <1>2, <1>5, <1>6, <1>8, OutcomesOf DEF OpenInv, TypeOK, RootTypeOK, FatTypeOK,
     DmapTypeOK, FuseTypeOK, CloseHandle, Completes, Replies
<1>10. DescriptorsAccounted'
  <2>1. {g \in Handles : handles'[g] # NULL} = OpenHandles \ {h}
    BY <1>1, <1>2 DEF OpenHandles
  <2>2. \A g \in Handles : openFiles'[g] # NULL <=> handles'[g] # NULL
    BY <1>1, <1>2, <1>5 DEF CloseHandle, OpenInv, DescriptorsAccounted
  <2> QED
    BY <1>8, <2>1, <2>2 DEF DescriptorsAccounted
<1>11. OpenPathsExist'
  BY <1>1, <1>2, <1>6 DEF OpenInv, OpenPathsExist, Named
<1>12. UnmountedClosed'
  BY <1>5 DEF UnmountedClosed, fuseRelease, Completes
<1>13. HandlesRefer'
  BY <1>1, <1>5, <1>6, OnDiskAssumption DEF OpenInv, HandlesRefer, CloseHandle
<1> QED
  BY <1>9, <1>10, <1>11, <1>12, <1>13 DEF OpenInv

\* Reading changes nothing.
LEMMA fuseReadKeepsInv ==
    ASSUME OpenInv, NEW h \in Handles, NEW off, NEW size, fuseRead(h, off, size)
    PROVE  OpenInv'
<1>1. CASE \/ NotFound(handles[h], "EEXIST")
           \/ Returns("EBADF") \/ Returns("wrapped") \/ GoesAstray
  BY <1>1, DoesNothing, AstrayKeepsInv, OutcomesOf DEF NotFound
<1>2. CASE ret' = "ok" /\ UNCHANGED <<container, mounted, fsVars, openVars>>
  BY <1>2, ReturnsKeepsInv, OutcomesOf
<1> QED
  BY <1>1, <1>2 DEF fuseRead, Reports

-----------------------------------------------------------------------------
(* Writing and truncating.                                                 *)

\* The new blocks keep the table and the map well typed.
LEMMA setFATBlocksType ==
    ASSUME OpenInv, NEW f, NEW k \in Int,
           NEW new \in getCertainNumberOfFreeBlocks(dmapArray, k), setFATBlocks(f, new)
    PROVE  FatTypeOK' /\ DmapTypeOK'
<1>1. new \in Seq(DataBlocks)
  BY AllocatedBlocks
<1>2. FatTypeOK /\ DmapTypeOK
  BY DEF OpenInv, TypeOK
<1>3. fatArray' \in [Blocks -> Blocks]
  BY <1>1, <1>2, LinkedType DEF setFATBlocks, FatTypeOK
<1>4. fatDisc' \in [Blocks -> Blocks]
  BY <1>2, <1>3, FatDiscWriteType DEF setFATBlocks, FatTypeOK
<1>5. DmapTypeOK'
  BY <1>2, SetAllType DEF setFATBlocks
<1> QED
  BY <1>3, <1>4, <1>5 DEF FatTypeOK

\* The first block is a data block, or there is none.
LEMMA FirstBlockType ==
    ASSUME NEW f \in rootFile, NEW k \in Int,
           NEW new \in getCertainNumberOfFreeBlocks(dmapArray, k)
    PROVE  FirstBlock(f, new) \in Blocks
<1>1. f.firstBlock \in Blocks
  BY DEF rootFile
<1>2. new \in Seq(DataBlocks)
  BY AllocatedBlocks
<1>3. new # <<>> => new[1] \in DataBlocks
  BY <1>2
<1> QED
  BY <1>1, <1>3, EndIsNoDataBlock DEF FirstBlock

\* A process that dies for want of blocks has marked all of them on disc.
LEMMA OutOfBlocksKeepsInv ==
    ASSUME OpenInv, NEW k, OutOfBlocks(k)
    PROVE  OpenInv'
<1>1. PICK all : dmapDisc' = DmapDiscWrite(dmapDisc, dmapArray, all, TRUE)
  BY DEF OutOfBlocks
<1>2. dmapDisc' \in [DmapGroups -> [DmapOffsets -> BOOLEAN]]
  BY <1>1, DmapDiscWriteType DEF OpenInv, TypeOK
<1> QED
  BY <1>2, EndKeepsInv, OutcomesOf DEF OutOfBlocks

\* The number of blocks that a call asks for is a number.
LEMMA blocksAllType ==
    ASSUME NEW size \in Nat, NEW off \in Nat, NEW st \in Nat
    PROVE  blocksAll(size, off, st) \in Int
<1>1. BLOCK_SIZE \in Nat /\ BLOCK_SIZE # 0
  BY LayoutAssumption
<1>2. \A n \in Nat : n \div BLOCK_SIZE \in Int
  BY <1>1
<1>3. \A n \in Nat : numBlocks(n) \in Int
  BY <1>2 DEF numBlocks
<1>4. size + off \in Nat
  OBVIOUS
<1> QED
  BY <1>2, <1>3, <1>4 DEF blocksAll

\* The end of a file only grows by a write, up to MaxSize.
LEMMA WriteFileKeepsInv ==
    ASSUME OpenInv, NEW s \in Slots, rootFiles[s] # NULL, mounted,
           NEW off \in Nat, NEW size \in Nat, off + size <= MaxSize, NEW v \in Bytes,
           WriteFile(s, off, size, v)
    PROVE  OpenInv'
<1> DEFINE f == rootFiles[s]
           end == off + size
           k == IF end > f.st_size THEN blocksAll(size, off, f.st_size) ELSE 0
<1>1. f \in rootFile /\ f.st_size \in Nat /\ end \in 0..MaxSize
  BY FuseAssumption DEF OpenInv, TypeOK, RootTypeOK, rootFile
<1>2. k \in Int
  BY <1>1, blocksAllType
<1>3. CASE OutOfBlocks(k)
  BY <1>3, OutOfBlocksKeepsInv
<1>4. ASSUME NEW new \in getCertainNumberOfFreeBlocks(dmapArray, k),
             setFATBlocks(f, new),
             blockData' = Written(fatArray', FirstBlock(f, new), off, size, v),
             StoreEntry(s, [f EXCEPT !.firstBlock = FirstBlock(f, new),
                                     !.st_size = IF end > @ THEN end ELSE @]),
             Completes("ok"),
             UNCHANGED openVars
      PROVE  OpenInv'
  <2> DEFINE g == [f EXCEPT !.firstBlock = FirstBlock(f, new),
                            !.st_size = IF end > @ THEN end ELSE @]
  <2>1. FirstBlock(f, new) \in Blocks
    BY <1>1, <1>2, <1>4, FirstBlockType
  <2>2. g \in rootFile /\ g.name = f.name
    BY <1>1, <2>1 DEF rootFile
  <2>3. RootTypeOK'
    BY <1>4, <2>2, StoreEntryType DEF OpenInv, TypeOK
  <2>4. FatTypeOK' /\ DmapTypeOK'
    BY <1>2, <1>4, setFATBlocksType
  <2>5. blockData' \in [Blocks -> [0..(BLOCK_SIZE - 1) -> Bytes]]
    BY <1>4 DEF Written, OpenInv, TypeOK
  <2>6. TypeOK'
    BY <1>4, <2>3, <2>4, <2>5, OutcomesOf DEF OpenInv, TypeOK, FuseTypeOK,
       Completes, Replies, openVars
  <2>7. DescriptorsAccounted' /\ OpenPathsExist' /\ HandlesRefer' /\ UnmountedClosed'
    <3>1. rootFiles \in RootDirectories /\ rootFiles' = [rootFiles EXCEPT ![s] = g]
      BY <1>4 DEF OpenInv, TypeOK, RootTypeOK, RootDirectories, StoreEntry
    <3>2. \A t \in Slots : rootFiles[t] # NULL => rootFiles'[t] # NULL
      BY <2>2, <3>1, NullAssumption DEF RootDirectories
    <3> QED
      BY <1>4, <2>2, <3>1, <3>2, StoreKeepsNames, KeepsHandles DEF Completes
  <2> QED
    BY <2>6, <2>7 DEF OpenInv
<1> QED
  BY <1>3, <1>4 DEF WriteFile

\* The handle of a write may point to an entry that is gone.
LEMMA fuseWriteKeepsInv ==
    ASSUME OpenInv, NEW h \in Handles, NEW off \in 0..(MaxSize - 1),
           NEW size \in 1..MaxSize, NEW v \in Bytes, off + size <= MaxSize,
           fuseWrite(h, off, size, v)
    PROVE  OpenInv'
<1>1. CASE Returns("EBADF") \/ GoesAstray
  BY <1>1, DoesNothing, AstrayKeepsInv, OutcomesOf
<1>2. CASE openFiles[h] \in Slots /\ WriteFile(openFiles[h], off, size, v)
  <2>1. rootFiles[openFiles[h]] # NULL
    BY <1>2 DEF OpenInv, HandlesRefer
  <2>2. off \in Nat /\ size \in Nat /\ mounted
    BY FuseAssumption DEF fuseWrite
  <2> QED
    BY <1>2, <2>1, <2>2, WriteFileKeepsInv
<1> QED
  BY <1>1, <1>2 DEF fuseWrite

\* Only the first block of the entry changes, and only in memory.
LEMMA ExtendKeepsInv ==
    ASSUME OpenInv, mounted, NEW s \in Slots, rootFiles[s] # NULL,
           NEW newSize \in Nat, Extend(s, newSize)
    PROVE  OpenInv'
<1> DEFINE f == rootFiles[s]
           k == blocksAll(newSize, 0, f.st_size)
<1>1. f \in rootFile /\ f.st_size \in Nat
  BY FuseAssumption DEF OpenInv, TypeOK, RootTypeOK, rootFile
<1>2. k \in Int
  BY <1>1, blocksAllType
<1>3. CASE OutOfBlocks(k)
  BY <1>3, OutOfBlocksKeepsInv
<1>4. ASSUME NEW new \in getCertainNumberOfFreeBlocks(dmapArray, k),
             setFATBlocks(f, new),
             rootFiles' = [rootFiles EXCEPT ![s].firstBlock = FirstBlock(f, new)],
             Completes("ok"),
             UNCHANGED <<rootDisc, blockData, openVars>>
      PROVE  OpenInv'
  <2> DEFINE g == [f EXCEPT !.firstBlock = FirstBlock(f, new)]
  <2>1. FirstBlock(f, new) \in Blocks
    BY <1>1, <1>2, <1>4, FirstBlockType
  <2>2. g \in rootFile /\ g.name = f.name
    BY <1>1, <2>1 DEF rootFile
  <2>3. rootFiles \in RootDirectories /\ rootFiles' = [rootFiles EXCEPT ![s] = g]
    BY <1>4 DEF OpenInv, TypeOK, RootTypeOK, RootDirectories
  <2>4. RootTypeOK'
    BY <1>4, <2>2, <2>3 DEF OpenInv, TypeOK, RootTypeOK, RootDirectories
  <2>5. FatTypeOK' /\ DmapTypeOK'
    BY <1>2, <1>4, setFATBlocksType
  <2>6. TypeOK'
    BY <1>4, <2>4, <2>5, OutcomesOf DEF OpenInv, TypeOK, FuseTypeOK, Completes, Replies, openVars
  <2>7. \A t \in Slots : rootFiles[t] # NULL => rootFiles'[t] # NULL
    BY <2>2, <2>3, NullAssumption DEF RootDirectories
  <2>8. DescriptorsAccounted' /\ OpenPathsExist' /\ HandlesRefer' /\ UnmountedClosed'
    <3>1. \A n \in Names : Named(rootFiles, n) # {} => Named(rootFiles', n) # {}
      BY <2>2, <2>3, StoreKeepsNames
    <3>2. UNCHANGED openVars /\ UNCHANGED mounted
      BY <1>4 DEF Completes
    <3> QED
      BY <2>7, <3>1, <3>2, KeepsHandles
  <2> QED
    BY <2>6, <2>8 DEF OpenInv
<1> QED
  BY <1>3, <1>4 DEF Extend

\* The size only becomes smaller.
LEMMA ShrinkKeepsInv ==
    ASSUME OpenInv, NEW s \in Slots, rootFiles[s] # NULL,
           NEW newSize \in 0..MaxSize, Shrink(s, newSize)
    PROVE  OpenInv'
<1> DEFINE f == rootFiles[s]
           g == [f EXCEPT !.firstBlock = IF newSize = 0 THEN FAT_END ELSE @,
                          !.st_size = newSize]
<1>1. f \in rootFile
  BY DEF OpenInv, TypeOK, RootTypeOK
<1>2. g \in rootFile /\ g.name = f.name
  BY <1>1, EndIsNoDataBlock DEF rootFile
<1>3. PICK spare : /\ fatArray' = Unlinked(fatArray, Range(spare))
                   /\ fatDisc' = FatDiscWrite(fatDisc, fatArray', Range(spare))
                   /\ SetAll(spare, FALSE)
  BY DEF Shrink
<1>4. StoreEntry(s, g) /\ Completes("ok") /\ UNCHANGED <<blockData, openVars>>
  BY DEF Shrink
<1>5. RootTypeOK' /\ DmapTypeOK'
  BY <1>2, <1>3, <1>4, StoreEntryType, SetAllType DEF OpenInv, TypeOK
<1>6. FatTypeOK'
  BY <1>3, UnlinkedType, FatDiscWriteType DEF OpenInv, TypeOK, FatTypeOK
<1>7. TypeOK'
  BY <1>4, <1>5, <1>6, OutcomesOf DEF OpenInv, TypeOK, FuseTypeOK, Completes, Replies, openVars
<1>8. rootFiles \in RootDirectories /\ rootFiles' = [rootFiles EXCEPT ![s] = g]
  BY <1>4 DEF OpenInv, TypeOK, RootTypeOK, RootDirectories, StoreEntry
<1>9. \A t \in Slots : rootFiles[t] # NULL => rootFiles'[t] # NULL
  BY <1>2, <1>8, NullAssumption DEF RootDirectories
<1>10. DescriptorsAccounted' /\ OpenPathsExist' /\ HandlesRefer' /\ UnmountedClosed'
  BY <1>2, <1>4, <1>8, <1>9, StoreKeepsNames, KeepsHandles DEF Completes
<1> QED
  BY <1>7, <1>10 DEF OpenInv

\* fuseTruncate finds the entry by its path.
LEMMA fuseTruncateKeepsInv ==
    ASSUME OpenInv, NEW n \in Names, NEW newSize \in 0..MaxSize, fuseTruncate(n, newSize)
    PROVE  OpenInv'
<1>1. CASE NotFound(n, "ENFILE")
  BY <1>1, DoesNothing, OutcomesOf DEF NotFound
<1>2. ASSUME NEW s \in getRootEntryFile(rootFiles, n),
             Extend(s, newSize) \/ Shrink(s, newSize)
      PROVE  OpenInv'
  <2>1. s \in Slots /\ rootFiles[s] # NULL
    BY EntryFound DEF OpenInv, TypeOK, RootTypeOK, RootDirectories
  <2>2. mounted /\ newSize \in Nat
    BY FuseAssumption DEF fuseTruncate
  <2> QED
    BY <1>2, <2>1, <2>2, ExtendKeepsInv, ShrinkKeepsInv
<1> QED
  BY <1>1, <1>2 DEF fuseTruncate

-----------------------------------------------------------------------------
(* The theorems.                                                           *)

\* No step breaks the inductive invariant.
LEMMA OpenInvInductive == OpenInv /\ [Next]_vars => OpenInv'
<1> SUFFICES ASSUME OpenInv, [Next]_vars PROVE OpenInv'
  OBVIOUS
<1>1. CASE fuseInit
  BY <1>1, fuseInitKeepsInv
<1>2. CASE fuseDestroy \/ Kill
  BY <1>2, EndingKeepsInv
<1>3. CASE UNCHANGED vars
  BY <1>3, ReturnsKeepsInv DEF vars, OpenInv, TypeOK, FuseTypeOK
<1>4. ASSUME NEW n \in Names \cup LongNames, NEW mode \in Modes, fuseMknod(n, mode)
      PROVE  OpenInv'
  BY <1>4, fuseMknodKeepsInv
<1>5. ASSUME NEW n \in Names, fuseUnlink(n) \/ fuseOpen(n)
      PROVE  OpenInv'
  BY <1>5, fuseUnlinkKeepsInv, fuseOpenKeepsInv
<1>6. ASSUME NEW p \in Names, NEW q \in Names \cup LongNames, fuseRename(p, q)
      PROVE  OpenInv'
  BY <1>6, fuseRenameKeepsInv
<1>7. ASSUME NEW n \in Names, NEW mode \in Modes, NEW uid \in Uids,
             fuseGetattr(n) \/ fuseChmod(n, mode) \/ fuseChown(n, uid)
      PROVE  OpenInv'
  BY <1>7, AttributesKeepInv
<1>8. CASE fuseReaddir
  BY <1>8, fuseReaddirKeepsInv
<1>9. ASSUME NEW h \in Handles, fuseRelease(h)
      PROVE  OpenInv'
  BY <1>9, fuseReleaseKeepsInv
<1>10. ASSUME NEW h \in Handles, NEW off \in 0..MaxSize, NEW size \in ReadSizes,
              fuseRead(h, off, size)
       PROVE  OpenInv'
  BY <1>10, fuseReadKeepsInv
<1>11. ASSUME NEW h \in Handles, NEW off \in 0..(MaxSize - 1), NEW size \in 1..MaxSize,
              NEW v \in Bytes, off + size <= MaxSize, fuseWrite(h, off, size, v)
       PROVE  OpenInv'
  BY <1>11, fuseWriteKeepsInv
<1>12. ASSUME NEW n \in Names, NEW newSize \in 0..MaxSize, fuseTruncate(n, newSize)
       PROVE  OpenInv'
  BY <1>12, fuseTruncateKeepsInv
<1>13. DefaultMode \in Modes /\ MountUser \in Uids
  BY FuseAssumption
<1> QED
  BY <1>1, <1>2, <1>3, <1>4, <1>5, <1>6, <1>7, <1>8, <1>9, <1>10, <1>11, <1>12, <1>13
     DEF Next, Undefined

\* The inductive invariant holds in every state of every behaviour.
THEOREM OpenInvariant == Spec => []OpenInv
<1> QED
  BY InitOpenInv, OpenInvInductive, PTL DEF Spec

\* The tables, the data and the handles keep their types; in particular
\* openCount never passes NUM_OPEN_FILES and never falls below 0.
THEOREM TypeCorrect == Spec => []TypeOK
<1>1. OpenInv => TypeOK
  BY DEF OpenInv
<1> QED
  BY <1>1, OpenInvariant, PTL

(***************************************************************************)
(* The table of open files is the one the clients see, and openCount is    *)
(* its size: fuseOpen never runs out of places early, and getIndexOpen     *)
(* never fails, however files are opened, renamed, removed and released.   *)
(***************************************************************************)
THEOREM DescriptorsNeverLeak == Spec => []DescriptorsAccounted
<1>1. OpenInv => DescriptorsAccounted
  BY DEF OpenInv
<1> QED
  BY <1>1, OpenInvariant, PTL

\* fuseRead, fuseRelease and fuseGetattr always find the path of an open file.
THEOREM OpenPathsResolve == Spec => []OpenPathsExist
<1>1. OpenInv => OpenPathsExist
  BY DEF OpenInv
<1> QED
  BY <1>1, OpenInvariant, PTL
=============================================================================
