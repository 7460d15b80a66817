-------------------------------- MODULE Root --------------------------------
(***************************************************************************)
(* The root directory (src/Root.cpp): rootFiles[s] is the entry in slot s, *)
(* NULL when the slot is empty; rootDisc[s] is the entry that initRootDir  *)
(* would read back from the container, NULL when it is not valid.          *)
(*                                                                         *)
(* Of an entry the model keeps the name, the first block, the size, the    *)
(* permissions and the owner; the times, the group and the block size play *)
(* no part in any decision of the code.                                    *)
(***************************************************************************)
EXTENDS MyFSStructs, FuseTypes, FiniteSets, Sequences

VARIABLES rootFiles, rootDisc

rootFile == [name : Names, firstBlock : Blocks, st_size : 0..MaxSize,
             st_mode : Modes, st_uid : Uids]

ASSUME NullAssumption == NULL \notin rootFile

EmptyDirectory == [s \in Slots |-> NULL]

RootTypeOK ==
    /\ rootFiles \in [Slots -> rootFile \cup {NULL}]
    /\ rootDisc \in [Slots -> rootFile \cup {NULL}]

\* Root::init: every slot of a new container gets an entry that is not valid.
rootInit == rootDisc' = EmptyDirectory /\ UNCHANGED rootFiles

\* The valid entries of an existing container are read.
initRootDir == rootFiles' = rootDisc /\ UNCHANGED rootDisc

\* The slots that hold a file with the name n.
Named(entries, n) == {s \in Slots : entries[s] # NULL /\ entries[s].name = n}

\* Mutant: the search ends at the first empty slot.
getRootEntryFileToGap(entries, n) ==
    {s \in Named(entries, n) : \A t \in Slots : t < s =>
        entries[t] # NULL /\ t \notin Named(entries, n)}

\* The entry a path resolves to: the first slot with that name, if there is one.
getRootEntryFile(entries, n) ==
    {s \in Named(entries, n) : \A t \in Named(entries, n) : s <= t}

\* Mutant: the number of files is taken for the index of a free slot.
FreeSlotByCount(entries) ==
    {s \in Slots : s = Cardinality({t \in Slots : entries[t] # NULL})}

\* The slot createNewFile takes; no element when the directory is full.
FreeSlot(entries) ==
    {s \in Slots : entries[s] = NULL /\ \A t \in Slots : t < s => entries[t] # NULL}

\* What filler is given: the names in the valid slots, slot by slot.
ListedNames(entries) ==
    LET used == {s \in Slots : entries[s] # NULL}
        place(s) == Cardinality({t \in used : t <= s})
    IN  [i \in 1..Cardinality(used) |-> entries[CHOOSE s \in used : place(s) = i].name]

NewFile(n) == [name |-> n, firstBlock |-> FAT_END, st_size |-> 0,
               st_mode |-> DefaultMode, st_uid |-> MountUser]

\* Mutant: discWrite comes before the change of the entry.
StoreEntryLate(s, f) ==
    /\ rootFiles' = [rootFiles EXCEPT ![s] = f]
    /\ rootDisc' = [rootDisc EXCEPT ![s] = rootFiles[s]]

\* The file f takes (or keeps) the slot s, and discWrite writes its entry.
StoreEntry(s, f) ==
    /\ rootFiles' = [rootFiles EXCEPT ![s] = f]
    /\ rootDisc' = [rootDisc EXCEPT ![s] = f]

\* Mutant: the names are not compared.
deleteFileAny(n) ==
    /\ rootFiles' = EmptyDirectory
    /\ rootDisc' = EmptyDirectory

\* Every entry with the name n is deleted, in memory and on disc.
deleteFile(n) ==
    LET gone == Named(rootFiles, n)
    IN  /\ rootFiles' = [s \in Slots |-> IF s \in gone THEN NULL ELSE rootFiles[s]]
        /\ rootDisc' = [s \in Slots |-> IF s \in gone THEN NULL ELSE rootDisc[s]]
=============================================================================
