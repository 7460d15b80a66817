------------------------- MODULE MyInMemoryFS_proofs -------------------------
(***************************************************************************)
(* The in-memory file system stays well typed, finds the path of each open *)
(* file, marks no file as used that is not open, and keeps to its limit of *)
(* open files -- for every limit, every set of names and every Workload.   *)
(* Without "replace" it also marks and counts exactly the open files, and  *)
(* for clients that make none of the RiskyCalls it implements FileStore -- *)
(* also when other behaviors have clients that do make them.               *)
(*                                                                         *)
(* These depend on each other: a rename moves the flag of a file together  *)
(* with its handles because the path of every handle leads to a file, and  *)
(* the limit is kept because a release counts down no more than the handle *)
(* it closes.                                                              *)
(***************************************************************************)
EXTENDS MyInMemoryFSClients, FiniteSetTheorems, TLAPS

\* Only a process has files open.
UnmountedClosed == ~mounted => \A h \in Handles : handles[h] = NULL

\* The inductive invariant.
MemInv ==
    /\ TypeOK
    /\ OpenPathsExist
    /\ LimitUpheld
    /\ UsedFilesOpen
    /\ UnmountedClosed

\* No file is renamed onto an existing name.
NoReplace == call'[1] = "rename" => ~Exists(call'[3])

\* What a step does to the invariant, and to the account of the open files.
KeepsInv ==
    /\ MemInv'
    /\ NoReplace /\ DescriptorsAccounted => DescriptorsAccounted'

-----------------------------------------------------------------------------
(* What steps of several handlers have in common.                          *)

\* There are finitely many open handles.
LEMMA OpenHandlesFinite ==
    IsFiniteSet(OpenHandles) /\ Cardinality(OpenHandles) \in Nat
<1>1. IsFiniteSet(Handles)
  BY FS_Interval, LayoutAssumption DEF Handles
<1>2. OpenHandles \in SUBSET Handles
  BY DEF OpenHandles
<1> QED
  BY <1>1, <1>2, FS_Subset, FS_CardinalityType

\* The path of an open handle is the name of a file.
LEMMA OpenNames ==
    ASSUME MemInv, NEW h \in OpenHandles
    PROVE  h \in Handles /\ handles[h] \in DOMAIN files
BY DEF MemInv, OpenHandles, OpenPathsExist, Exists

\* The outcomes of the handlers.
LEMMA OutcomesOf ==
    {"ok", "EEXIST", "EINVAL", "ENOENT", "ENONET", "EMFILE", "EBADF", "EIO",
     "SIGSEGV", "killed"} \subseteq Outcomes
BY DEF Outcomes, Errors

\* No files are files of any kind.
LEMMA NoFilesType == DOMAIN NoFiles = {} /\ NoFiles \in [DOMAIN NoFiles -> FileInfo]
<1>1. DOMAIN NoFiles = {}
  BY DEF NoFiles
<1>2. NoFiles \in [{} -> FileInfo]
  BY DEF NoFiles
<1> QED
  BY <1>1, <1>2

\* A handler that opens and closes nothing keeps the invariant, if it keeps
\* the open files and their flags, and marks no other file as used.
LEMMA FilesKeepInv ==
    ASSUME MemInv, ret' \in Outcomes, UNCHANGED <<mounted, openCount, handles>>,
           DOMAIN files' \subseteq Names,
           files' \in [DOMAIN files' -> FileInfo],
           \A h \in OpenHandles : /\ handles[h] \in DOMAIN files'
                                  /\ files'[handles[h]].used = files[handles[h]].used,
           \A n \in DOMAIN files' : files'[n].used => n \in DOMAIN files /\ files[n].used
    PROVE  KeepsInv
<1>1. OpenHandles' = OpenHandles
  BY DEF OpenHandles
<1>2. TypeOK'
  BY DEF MemInv, TypeOK, FuseTypeOK
<1>3. OpenPathsExist'
  BY <1>1 DEF OpenPathsExist, Exists
<1>4. LimitUpheld' /\ UnmountedClosed'
  BY <1>1 DEF MemInv, LimitUpheld, UnmountedClosed
<1>5. UsedFilesOpen'
  BY DEF MemInv, UsedFilesOpen, IsOpen
<1>6. DescriptorsAccounted => DescriptorsAccounted'
  BY <1>1 DEF DescriptorsAccounted
<1> QED
  BY <1>2, <1>3, <1>4, <1>5, <1>6 DEF MemInv, KeepsInv

\* A handler that changes nothing keeps the invariant.
LEMMA ReturnsKeepsInv ==
    ASSUME MemInv, ret' \in Outcomes, UNCHANGED <<mounted, files, openCount, handles>>
    PROVE  KeepsInv
BY OpenNames, FilesKeepInv DEF MemInv, TypeOK

\* A handler that does nothing.
LEMMA DoesNothing ==
    ASSUME MemInv, NEW r \in Outcomes, Returns(r)
    PROVE  KeepsInv
BY ReturnsKeepsInv DEF Returns, Replies

\* A state with nothing open and nothing counted satisfies what is said of
\* handles.
LEMMA EndKeepsInv ==
    ASSUME MemInv, NEW r \in Outcomes, ProcessEnds(r)
    PROVE  KeepsInv
<1>1. \A h \in Handles : handles'[h] = NULL
  BY DEF ProcessEnds
<1>2. OpenHandles' = {}
  BY <1>1 DEF OpenHandles
<1>3. DOMAIN files' = {} /\ files' \in [DOMAIN files' -> FileInfo]
  BY NoFilesType DEF ProcessEnds
<1>4. TypeOK'
  <2>1. FuseTypeOK'
    BY DEF ProcessEnds, Replies, FuseTypeOK
  <2>2. DOMAIN files' \subseteq Names
    BY <1>3
  <2>3. mounted' \in BOOLEAN
    BY DEF ProcessEnds
  <2>4. openCount' \in Int
    BY DEF ProcessEnds
  <2> QED
    BY <1>3, <2>1, <2>2, <2>3, <2>4 DEF TypeOK
<1>5. openCount' = 0 /\ Cardinality({}) = 0
  BY FS_EmptySet DEF ProcessEnds
<1>6. LimitUpheld'
  BY <1>2, <1>5, LayoutAssumption DEF LimitUpheld
<1>7. OpenPathsExist' /\ UsedFilesOpen' /\ UnmountedClosed' /\ DescriptorsAccounted'
  BY <1>1, <1>2, <1>3, <1>5
     DEF OpenPathsExist, UsedFilesOpen, UnmountedClosed, DescriptorsAccounted
<1> QED
  BY <1>4, <1>6, <1>7 DEF MemInv, KeepsInv

\* A change of a file that keeps its flag keeps the invariant.
LEMMA UpdateKeepsInv ==
    ASSUME MemInv, NEW n \in DOMAIN files, NEW f \in FileInfo, f.used = files[n].used,
           UpdateFile(n, f)
    PROVE  KeepsInv
<1>1. files' = [files EXCEPT ![n] = f]
  BY DEF UpdateFile
<1>2. DOMAIN files' = DOMAIN files /\ files' \in [DOMAIN files' -> FileInfo]
      /\ DOMAIN files' \subseteq Names
  BY <1>1 DEF MemInv, TypeOK
<1>3. \A m \in DOMAIN files : files'[m].used = files[m].used
  BY <1>1 DEF MemInv, TypeOK
<1>4. UNCHANGED <<mounted, openCount, handles>> /\ ret' \in Outcomes
  BY OutcomesOf DEF UpdateFile, Completes, Replies
<1> QED
  BY <1>2, <1>3, <1>4, OpenNames, FilesKeepInv

-----------------------------------------------------------------------------
(* One lemma for each handler that does more.                              *)

\* Before the first mount there is nothing.
LEMMA InitMemInv == Init => MemInv /\ DescriptorsAccounted
<1> SUFFICES ASSUME Init PROVE MemInv /\ DescriptorsAccounted
  OBVIOUS
<1>1. OpenHandles = {}
  BY DEF Init, FuseInit, OpenHandles
<1>2. DOMAIN files = {} /\ files \in [DOMAIN files -> FileInfo]
  BY NoFilesType DEF Init
<1>3. TypeOK
  <2>1. FuseTypeOK
    BY OutcomesOf DEF Init, FuseInit, FuseTypeOK
  <2>2. DOMAIN files \subseteq Names
    BY <1>2
  <2>3. mounted \in BOOLEAN
    BY DEF Init
  <2>4. openCount \in Int
    BY DEF Init
  <2> QED
    BY <1>2, <2>1, <2>2, <2>3, <2>4 DEF TypeOK
<1>4. openCount = 0 /\ Cardinality({}) = 0
  BY FS_EmptySet DEF Init
<1>5. LimitUpheld
  BY <1>1, <1>4, LayoutAssumption DEF LimitUpheld
<1>6. OpenPathsExist /\ UsedFilesOpen /\ UnmountedClosed /\ DescriptorsAccounted
  BY <1>1, <1>2, <1>4 DEF Init, FuseInit, OpenPathsExist, UsedFilesOpen, UnmountedClosed,
     DescriptorsAccounted
<1> QED
  BY <1>3, <1>5, <1>6 DEF MemInv

\* A mount finds nothing open, and counts nothing.
LEMMA fuseInitKeepsInv == MemInv /\ fuseInit => KeepsInv
<1> SUFFICES ASSUME MemInv, fuseInit PROVE KeepsInv
  OBVIOUS
<1>1. \A h \in Handles : handles[h] = NULL
  BY DEF MemInv, UnmountedClosed, fuseInit
<1>2. OpenHandles = {} /\ OpenHandles' = {}
  BY <1>1 DEF OpenHandles, fuseInit
<1>3. openCount' = 0 /\ Cardinality({}) = 0
  BY FS_EmptySet DEF fuseInit
<1>4. UNCHANGED <<files, handles>> /\ mounted' = TRUE /\ ret' = "ok"
  BY DEF fuseInit, Replies
<1>5. TypeOK'
  BY <1>3, <1>4, OutcomesOf DEF MemInv, TypeOK, FuseTypeOK
<1>6. LimitUpheld'
  BY <1>2, <1>3, LayoutAssumption DEF LimitUpheld
<1>7. OpenPathsExist' /\ UsedFilesOpen' /\ UnmountedClosed' /\ DescriptorsAccounted'
  BY <1>1, <1>2, <1>3, <1>4 DEF MemInv, OpenPathsExist, UsedFilesOpen, IsOpen, UnmountedClosed,
     DescriptorsAccounted
<1> QED
  BY <1>5, <1>6, <1>7 DEF MemInv, KeepsInv

\* A new file is not in use.
LEMMA fuseMknodKeepsInv ==
    ASSUME MemInv, NEW n \in Names \cup LongNames, NEW mode \in Modes, fuseMknod(n, mode)
    PROVE  KeepsInv
<1>1. CASE Returns("EEXIST") \/ Returns("EINVAL")
  BY <1>1, DoesNothing, OutcomesOf
<1>2. ASSUME n \notin DOMAIN files, ~NameTooLong(n),
             files' = [m \in DOMAIN files \cup {n} |->
                          IF m = n THEN NewFile(mode) ELSE files[m]],
             Completes,
             UNCHANGED <<openCount, handles>>
      PROVE  KeepsInv
  <2>1. n \in Names
    BY <1>2 DEF NameTooLong
  <2>2. NewFile(mode) \in FileInfo /\ ~NewFile(mode).used
    <3>1. <<>> \in [1..0 -> Bytes] /\ 0 \in 0..MaxSize
      BY FuseAssumption
    <3>2. <<>> \in UNION {[1..k -> Bytes] : k \in 0..MaxSize}
      BY <3>1
    <3> QED
      BY <3>2, FuseAssumption DEF NewFile, FileInfo
  <2>3. DOMAIN files' = DOMAIN files \cup {n}
    BY <1>2
  <2>4. DOMAIN files' \subseteq Names /\ files' \in [DOMAIN files' -> FileInfo]
    BY <1>2, <2>1, <2>2, <2>3 DEF MemInv, TypeOK
  <2>5. \A m \in DOMAIN files : files'[m] = files[m]
    BY <1>2
  <2>6. UNCHANGED <<mounted, openCount, handles>> /\ ret' \in Outcomes
    BY <1>2, OutcomesOf DEF Completes, Replies
  <2>7. \A m \in DOMAIN files' : files'[m].used => m \in DOMAIN files /\ files[m].used
    BY <1>2, <2>2, <2>3
  <2> QED
    BY <2>3, <2>4, <2>5, <2>6, <2>7, OpenNames, FilesKeepInv
<1> QED
  BY <1>1, <1>2 DEF fuseMknod, Exists

\* The file that is removed is not open.
LEMMA fuseUnlinkKeepsInv ==
    ASSUME MemInv, NEW n \in Names, fuseUnlink(n)
    PROVE  KeepsInv
<1>1. CASE Returns("ENOENT")
  BY <1>1, DoesNothing, OutcomesOf
<1>2. ASSUME files' = [m \in DOMAIN files \ {n} |-> files[m]],
             Completes,
             UNCHANGED <<openCount, handles>>
      PROVE  KeepsInv
  <2>1. DOMAIN files' = DOMAIN files \ {n}
    BY <1>2
  <2>2. DOMAIN files' \subseteq Names /\ files' \in [DOMAIN files' -> FileInfo]
    BY <1>2, <2>1 DEF MemInv, TypeOK
  <2>3. \A h \in OpenHandles : handles[h] \in DOMAIN files'
    BY <2>1, OpenNames DEF fuseUnlink, IsOpen
  <2>4. UNCHANGED <<mounted, openCount, handles>> /\ ret' \in Outcomes
    BY <1>2, OutcomesOf DEF Completes, Replies
  <2> QED
    BY <1>2, <2>1, <2>2, <2>3, <2>4, FilesKeepInv
<1> QED
  BY <1>1, <1>2 DEF fuseUnlink

\* The flag of the file and its handles go to the new name together; the
\* file that had the name, if any, is not open.
LEMMA fuseRenameKeepsInv ==
    ASSUME MemInv, NEW p \in Names, NEW q \in Names \cup LongNames, fuseRename(p, q)
    PROVE  KeepsInv
<1>1. CASE Returns("EINVAL") \/ Returns("ENOENT")
  BY <1>1, DoesNothing, OutcomesOf
<1>2. ASSUME ~NameTooLong(q), p \in DOMAIN files,
             files' = Moved(p, q),
             handles' = Renamed(p, q),
             Completes,
             UNCHANGED openCount
      PROVE  KeepsInv
  <2>1. q \in Names /\ q # NULL /\ p # NULL /\ p # q
    BY <1>2, FuseAssumption DEF NameTooLong, fuseRename
  <2>2. /\ DOMAIN files' = (DOMAIN files \ {p}) \cup {q}
        /\ \A m \in DOMAIN files' :
              files'[m] = IF m \in DOMAIN files THEN files[m] ELSE files[p]
    BY <1>2 DEF Moved, Exists
  <2>3. DOMAIN files \subseteq Names /\ files \in [DOMAIN files -> FileInfo]
        /\ handles \in [Handles -> Names \cup {NULL}]
    BY DEF MemInv, TypeOK, FuseTypeOK
  <2>4. DOMAIN files' \subseteq Names
    BY <2>1, <2>2, <2>3
  <2>5. files' \in [DOMAIN files' -> FileInfo]
    BY <1>2, <2>2, <2>3 DEF Moved, Exists
  <2>6. \A h \in Handles : handles'[h] = IF handles[h] = p THEN q ELSE handles[h]
    BY <1>2 DEF Renamed
  <2>7. handles' \in [Handles -> Names \cup {NULL}]
    BY <1>2, <2>1, <2>3 DEF Renamed
  <2>8. TypeOK'
    BY <1>2, <2>4, <2>5, <2>7, OutcomesOf
       DEF MemInv, TypeOK, FuseTypeOK, Completes, Replies
  <2>9. OpenHandles' = OpenHandles
    BY <2>1, <2>6 DEF OpenHandles
  <2>10. \A h \in Handles : handles[h] # q
    BY DEF fuseRename, IsOpen
  <2>11. OpenPathsExist'
    BY <2>2, <2>6, <2>9, OpenNames DEF OpenPathsExist, Exists
  <2>12. UsedFilesOpen'
    <3> SUFFICES ASSUME NEW m \in DOMAIN files', files'[m].used
                 PROVE  \E h \in Handles : handles'[h] = m
      BY DEF UsedFilesOpen, IsOpen
    <3>1. CASE m \in DOMAIN files
      <4>1. m # p
        BY <2>1, <2>2
      <4>2. PICK h \in Handles : handles[h] = m
        BY <2>2, <3>1 DEF MemInv, UsedFilesOpen, IsOpen
      <4> QED
        BY <2>6, <4>1, <4>2
    <3>2. CASE m \notin DOMAIN files
      <4>1. m = q /\ files[p].used
        BY <2>2, <3>2
      <4>2. PICK h \in Handles : handles[h] = p
        BY <1>2, <4>1 DEF MemInv, UsedFilesOpen, IsOpen
      <4> QED
        BY <2>6, <4>1, <4>2
    <3> QED
      BY <3>1, <3>2
  <2>13. LimitUpheld' /\ UnmountedClosed'
    BY <1>2, <2>9 DEF MemInv, LimitUpheld, UnmountedClosed, fuseRename, Completes
  <2>14. ASSUME NoReplace, DescriptorsAccounted PROVE DescriptorsAccounted'
    <3>1. q \notin DOMAIN files /\ DescriptorsAccounted
      BY <2>14 DEF fuseRename, Exists, NoReplace
    <3>2. \A h \in OpenHandles : files'[handles'[h]].used
      <4> SUFFICES ASSUME NEW h \in OpenHandles PROVE files'[handles'[h]].used
        OBVIOUS
      <4>1. h \in Handles /\ handles[h] \in DOMAIN files /\ files[handles[h]].used
        BY <3>1, OpenNames DEF DescriptorsAccounted
      <4>2. CASE handles[h] = p
        BY <2>2, <2>6, <3>1, <4>1, <4>2
      <4>3. CASE handles[h] # p
        BY <2>2, <2>6, <4>1, <4>3
      <4> QED
        BY <4>2, <4>3
    <3>3. \A g, h \in OpenHandles : handles'[g] = handles'[h] => g = h
      BY <2>6, <2>10, <3>1 DEF DescriptorsAccounted, OpenHandles
    <3> QED
      BY <1>2, <2>9, <3>1, <3>2, <3>3 DEF DescriptorsAccounted
  <2> QED
    BY <2>8, <2>11, <2>12, <2>13, <2>14 DEF MemInv, KeepsInv
<1> QED
  BY <1>1, <1>2 DEF fuseRename, Exists

\* Permissions and owner are not the flag.
LEMMA AttributesKeepInv ==
    ASSUME MemInv, NEW n \in Names, NEW mode \in Modes, NEW uid \in Uids,
           fuseGetattr(n) \/ fuseChmod(n, mode) \/ fuseChown(n, uid)
    PROVE  KeepsInv
<1>1. CASE Returns("ENOENT") \/ Returns("ENONET")
  BY <1>1, DoesNothing, OutcomesOf
<1>2. CASE fuseGetattr(n)
  BY <1>1, <1>2, ReturnsKeepsInv, OutcomesOf DEF fuseGetattr, Reports
<1>3. ASSUME n \in DOMAIN files,
             \/ UpdateFile(n, [files[n] EXCEPT !.mode = mode])
             \/ UpdateFile(n, [files[n] EXCEPT !.uid = uid])
      PROVE  KeepsInv
  <2>1. files[n] \in FileInfo
    BY <1>3 DEF MemInv, TypeOK
  <2>2. /\ [files[n] EXCEPT !.mode = mode] \in FileInfo
        /\ [files[n] EXCEPT !.mode = mode].used = files[n].used
        /\ [files[n] EXCEPT !.uid = uid] \in FileInfo
        /\ [files[n] EXCEPT !.uid = uid].used = files[n].used
    BY <2>1 DEF FileInfo
  <2> QED
    BY <1>3, <2>2, UpdateKeepsInv
<1> QED
  BY <1>1, <1>2, <1>3 DEF fuseChmod, fuseChown, Exists

\* Listing the directory changes nothing.
LEMMA fuseReaddirKeepsInv == MemInv /\ fuseReaddir => KeepsInv
BY ReturnsKeepsInv, OutcomesOf DEF fuseReaddir, Reports

-----------------------------------------------------------------------------
(* Open files.                                                             *)

\* The file that is opened was not open, if its flag tells; there is room
\* for it in the count.
LEMMA fuseOpenKeepsInv ==
    ASSUME MemInv, NEW n \in Names, fuseOpen(n)
    PROVE  KeepsInv
<1>1. CASE Returns("ENOENT") \/ Returns("EBADF") \/ Returns("EMFILE")
  BY <1>1, DoesNothing, OutcomesOf
<1>2. ASSUME n \in DOMAIN files, ~files[n].used, ~LimitReached,
             files' = [files EXCEPT ![n].used = TRUE],
             openCount' = openCount + 1,
             NEW h \in Handles, handles[h] = NULL,
             handles' = [handles EXCEPT ![h] = n],
             Completes
      PROVE  KeepsInv
  <2>1. /\ DOMAIN files \subseteq Names /\ files \in [DOMAIN files -> FileInfo]
        /\ handles \in [Handles -> Names \cup {NULL}]
        /\ openCount \in Int /\ n # NULL
    BY FuseAssumption DEF MemInv, TypeOK, FuseTypeOK
  <2>2. DOMAIN files' = DOMAIN files /\ files' \in [DOMAIN files -> FileInfo]
        /\ \A m \in DOMAIN files : files'[m].used = IF m = n THEN TRUE ELSE files[m].used
    BY <1>2, <2>1 DEF FileInfo
  <2>3. \A g \in Handles : handles'[g] = IF g = h THEN n ELSE handles[g]
    BY <1>2, <2>1
  <2>4. TypeOK'
    BY <1>2, <2>1, <2>2, OutcomesOf DEF MemInv, TypeOK, FuseTypeOK, Completes, Replies
  <2>5. OpenHandles' = OpenHandles \cup {h}
    BY <2>1, <2>3 DEF OpenHandles
  <2>6. Cardinality(OpenHandles') = Cardinality(OpenHandles) + 1
    <3>1. h \notin OpenHandles
      BY <1>2 DEF OpenHandles
    <3> QED
      BY <2>5, <3>1, OpenHandlesFinite, FS_AddElement
  <2>7. LimitUpheld'
    BY <1>2, <2>1, <2>6, OpenHandlesFinite, LayoutAssumption
       DEF MemInv, LimitUpheld, LimitReached
  <2>8. OpenPathsExist'
    BY <1>2, <2>2, <2>3, <2>5, OpenNames DEF OpenPathsExist, Exists
  <2>9. UsedFilesOpen'
    <3> SUFFICES ASSUME NEW m \in DOMAIN files', files'[m].used
                 PROVE  \E g \in Handles : handles'[g] = m
      BY DEF UsedFilesOpen, IsOpen
    <3>1. CASE m = n
      BY <2>3, <3>1
    <3>2. CASE m # n
      <4>1. PICK g \in Handles : handles[g] = m
        BY <2>2, <3>2 DEF MemInv, UsedFilesOpen, IsOpen
      <4>2. g # h
        BY <1>2, <2>1, <2>2, <4>1, FuseAssumption
      <4> QED
        BY <2>3, <4>1, <4>2
    <3> QED
      BY <3>1, <3>2
  <2>10. UnmountedClosed'
    BY <1>2 DEF UnmountedClosed, fuseOpen, Completes
  <2>11. ASSUME DescriptorsAccounted PROVE DescriptorsAccounted'
    <3>1. DescriptorsAccounted
      BY <2>11
    <3>2. \A g \in OpenHandles : g \in Handles /\ handles[g] \in DOMAIN files
                                 /\ files[handles[g]].used /\ handles[g] # n
      BY <1>2, <3>1, OpenNames DEF DescriptorsAccounted
    <3>3. \A g \in OpenHandles' : files'[handles'[g]].used
      BY <1>2, <2>2, <2>3, <2>5, <3>2
    <3>4. \A f, g \in OpenHandles' : handles'[f] = handles'[g] => f = g
      BY <2>3, <2>5, <3>1, <3>2 DEF DescriptorsAccounted
    <3> QED
      BY <1>2, <2>6, <3>1, <3>3, <3>4 DEF DescriptorsAccounted
  <2> QED
    BY <2>4, <2>7, <2>8, <2>9, <2>10, <2>11 DEF MemInv, KeepsInv
<1> QED
  BY <1>1, <1>2 DEF fuseOpen, Exists

\* A release counts down by no more than the one handle it closes, and takes
\* the flag from no file but the one it finds.
LEMMA fuseReleaseKeepsInv ==
    ASSUME MemInv, NEW h \in Handles, fuseRelease(h)
    PROVE  KeepsInv
<1> DEFINE n == handles[h]
<1>1. /\ DOMAIN files \subseteq Names /\ files \in [DOMAIN files -> FileInfo]
      /\ handles \in [Handles -> Names \cup {NULL}]
      /\ openCount \in Int
  BY DEF MemInv, TypeOK, FuseTypeOK
<1>2. handles[h] # NULL /\ handles' = [handles EXCEPT ![h] = NULL] /\ mounted /\ UNCHANGED mounted
  BY DEF fuseRelease
<1>3. n \in DOMAIN files
  BY <1>2, OpenNames DEF OpenHandles
<1>4. \/ ~files[n].used /\ Replies("EBADF") /\ UNCHANGED <<files, openCount>>
      \/ files[n].used /\ CloseFile(n) /\ Replies("ok")
  BY <1>3 DEF fuseRelease, Exists
<1>5. DOMAIN files' = DOMAIN files /\ files' \in [DOMAIN files -> FileInfo]
      /\ \A m \in DOMAIN files : files'[m].used = IF m = n THEN FALSE ELSE files[m].used
  <2>1. CASE ~files[n].used /\ Replies("EBADF") /\ UNCHANGED <<files, openCount>>
    BY <1>1, <1>3, <2>1 DEF FileInfo
  <2>2. CASE files[n].used /\ CloseFile(n) /\ Replies("ok")
    BY <1>1, <1>3, <2>2 DEF FileInfo, CloseFile
  <2> QED
    BY <1>4, <2>1, <2>2
<1>6. openCount' = (IF files[n].used THEN openCount - 1 ELSE openCount) /\ ret' \in Outcomes
  BY <1>4, OutcomesOf DEF CloseFile, Replies
<1>7. \A g \in Handles : handles'[g] = IF g = h THEN NULL ELSE handles[g]
  BY <1>1, <1>2
<1>8. TypeOK'
  BY <1>1, <1>2, <1>5, <1>6 DEF MemInv, TypeOK, FuseTypeOK
<1>9. OpenHandles' = OpenHandles \ {h}
  BY <1>7 DEF OpenHandles
<1>10. Cardinality(OpenHandles') = Cardinality(OpenHandles) - 1
  <2>1. h \in OpenHandles
    BY <1>2 DEF OpenHandles
  <2> QED
    BY <1>9, <2>1, OpenHandlesFinite, FS_RemoveElement
<1>11. LimitUpheld'
  BY <1>1, <1>6, <1>10, OpenHandlesFinite, LayoutAssumption DEF MemInv, LimitUpheld
<1>12. OpenPathsExist'
  BY <1>5, <1>7, <1>9, OpenNames DEF OpenPathsExist, Exists
<1>13. UsedFilesOpen'
  <2> SUFFICES ASSUME NEW m \in DOMAIN files', files'[m].used
               PROVE  \E g \in Handles : handles'[g] = m
    BY DEF UsedFilesOpen, IsOpen
  <2>1. m # n /\ files[m].used
    BY <1>5
  <2>2. PICK g \in Handles : handles[g] = m
    BY <1>5, <2>1 DEF MemInv, UsedFilesOpen, IsOpen
  <2> QED
    BY <1>7, <2>1, <2>2
<1>14. UnmountedClosed'
  BY <1>2 DEF UnmountedClosed
<1>15. ASSUME DescriptorsAccounted PROVE DescriptorsAccounted'
  <2>1. DescriptorsAccounted
    BY <1>15
  <2>2. \A g \in OpenHandles' : g \in OpenHandles /\ handles'[g] = handles[g] /\ handles[g] # n
    BY <1>2, <1>7, <1>9, <2>1 DEF DescriptorsAccounted, OpenHandles
  <2>3. files[n].used
    BY <1>2, <2>1 DEF DescriptorsAccounted, OpenHandles
  <2>4. \A g \in OpenHandles' : files'[handles'[g]].used
    BY <1>5, <2>1, <2>2, OpenNames DEF DescriptorsAccounted
  <2> QED
    BY <1>6, <1>10, <2>1, <2>2, <2>3, <2>4 DEF DescriptorsAccounted
<1> QED
  BY <1>8, <1>11, <1>12, <1>13, <1>14, <1>15 DEF MemInv, KeepsInv

\* A read changes nothing, unless it ends the process.
LEMMA fuseReadKeepsInv ==
    ASSUME MemInv, NEW h \in Handles, NEW off, NEW size, fuseRead(h, off, size)
    PROVE  KeepsInv
<1>1. CASE Returns("EEXIST") \/ Returns("EIO") \/ ProcessEnds("SIGSEGV")
  BY <1>1, DoesNothing, EndKeepsInv, OutcomesOf
<1>2. CASE ret' = "ok" /\ UNCHANGED <<mounted, files, openCount, handles>>
  BY <1>2, ReturnsKeepsInv, OutcomesOf
<1> QED
  BY <1>1, <1>2 DEF fuseRead, Reports

-----------------------------------------------------------------------------
(* Writing and truncating.                                                 *)

\* What is written has the length it is given.
LEMMA OverwrittenType ==
    ASSUME NEW k \in 0..MaxSize, NEW d \in [1..k -> Bytes], NEW off, NEW size, NEW v \in Bytes
    PROVE  Overwritten(d, off, size, v) \in [1..k -> Bytes]
<1>1. k \in Nat
  BY FuseAssumption
<1>2. d \in Seq(Bytes) /\ Len(d) = k
  BY <1>1
<1> QED
  BY <1>2 DEF Overwritten

\* New contents that are not too long keep the type of a file, and its flag.
LEMMA ContentsType ==
    ASSUME NEW f \in FileInfo, NEW k \in 0..MaxSize, NEW d \in [1..k -> Bytes]
    PROVE  [f EXCEPT !.data = d] \in FileInfo /\ [f EXCEPT !.data = d].used = f.used
<1>1. d \in UNION {[1..j -> Bytes] : j \in 0..MaxSize}
  OBVIOUS
<1> QED
  BY <1>1 DEF FileInfo

\* The length of the contents of a file.
LEMMA LengthType ==
    ASSUME NEW f \in FileInfo
    PROVE  Len(f.data) \in 0..MaxSize
<1>1. PICK k \in 0..MaxSize : f.data \in [1..k -> Bytes]
  BY DEF FileInfo
<1>2. k \in Nat
  BY FuseAssumption
<1>3. Len(f.data) = k
  BY <1>1, <1>2
<1> QED
  BY <1>3

\* A write grows the file to the end of what is written.
LEMMA fuseWriteKeepsInv ==
    ASSUME MemInv, NEW h \in Handles, NEW off \in 0..(MaxSize - 1), NEW size \in 1..MaxSize,
           NEW v \in Bytes, off + size <= MaxSize, fuseWrite(h, off, size, v)
    PROVE  KeepsInv
<1> DEFINE n == handles[h]
<1>1. CASE Returns("ENOENT") \/ Returns("EBADF")
  BY <1>1, DoesNothing, OutcomesOf
<1>2. ASSUME n \in DOMAIN files,
             NEW d \in Resized(files[n].data, SizeNeeded(Len(files[n].data), off, size)),
             UpdateFile(n, [files[n] EXCEPT !.data = Overwritten(d, off, size, v)])
      PROVE  KeepsInv
  <2> DEFINE k == SizeNeeded(Len(files[n].data), off, size)
  <2>1. files[n] \in FileInfo
    BY <1>2 DEF MemInv, TypeOK
  <2>2. k \in 0..MaxSize
    BY <2>1, LengthType, FuseAssumption DEF SizeNeeded
  <2>3. d \in [1..k -> Bytes]
    BY <1>2 DEF Resized
  <2>4. Overwritten(d, off, size, v) \in [1..k -> Bytes]
    BY <2>2, <2>3, OverwrittenType
  <2> HIDE DEF k
  <2> QED
    BY <1>2, <2>1, <2>2, <2>4, ContentsType, UpdateKeepsInv
<1> QED
  BY <1>1, <1>2 DEF fuseWrite, Exists

\* A truncation gives the file the new size.
LEMMA fuseTruncateKeepsInv ==
    ASSUME MemInv, NEW n \in Names, NEW newSize \in 0..MaxSize, fuseTruncate(n, newSize)
    PROVE  KeepsInv
<1>1. CASE Returns("ENOENT")
  BY <1>1, DoesNothing, OutcomesOf
<1>2. ASSUME n \in DOMAIN files, NEW d \in Resized(files[n].data, newSize),
             UpdateFile(n, [files[n] EXCEPT !.data = d])
      PROVE  KeepsInv
  <2>1. files[n] \in FileInfo /\ d \in [1..newSize -> Bytes]
    BY <1>2 DEF MemInv, TypeOK, Resized
  <2> QED
    BY <1>2, <2>1, ContentsType, UpdateKeepsInv
<1> QED
  BY <1>1, <1>2 DEF fuseTruncate, Exists

-----------------------------------------------------------------------------
(* The theorems.                                                           *)

\* What every handler does to the invariant and to the account.
LEMMA NextKeepsInv == MemInv /\ Next => KeepsInv
<1> SUFFICES ASSUME MemInv, Next PROVE KeepsInv
  OBVIOUS
<1>1. CASE fuseInit
  BY <1>1, fuseInitKeepsInv
<1>2. CASE fuseDestroy \/ Kill
  BY <1>2, EndKeepsInv, OutcomesOf DEF fuseDestroy, Kill
<1>3. ASSUME NEW n \in Names \cup LongNames, NEW mode \in Modes, fuseMknod(n, mode)
      PROVE  KeepsInv
  BY <1>3, fuseMknodKeepsInv
<1>4. ASSUME NEW n \in Names, fuseUnlink(n) \/ fuseOpen(n)
      PROVE  KeepsInv
  BY <1>4, fuseUnlinkKeepsInv, fuseOpenKeepsInv
<1>5. ASSUME NEW p \in Names, NEW q \in Names \cup LongNames, fuseRename(p, q)
      PROVE  KeepsInv
  BY <1>5, fuseRenameKeepsInv
<1>6. ASSUME NEW n \in Names, NEW mode \in Modes, NEW uid \in Uids,
             fuseGetattr(n) \/ fuseChmod(n, mode) \/ fuseChown(n, uid)
      PROVE  KeepsInv
  BY <1>6, AttributesKeepInv
<1>7. CASE fuseReaddir
  BY <1>7, fuseReaddirKeepsInv
<1>8. ASSUME NEW h \in Handles, fuseRelease(h)
      PROVE  KeepsInv
  BY <1>8, fuseReleaseKeepsInv
<1>9. ASSUME NEW h \in Handles, NEW off \in 0..MaxSize, NEW size \in ReadSizes,
              fuseRead(h, off, size)
       PROVE  KeepsInv
  BY <1>9, fuseReadKeepsInv
<1>10. ASSUME NEW h \in Handles, NEW off \in 0..(MaxSize - 1), NEW size \in 1..MaxSize,
              NEW v \in Bytes, off + size <= MaxSize, fuseWrite(h, off, size, v)
       PROVE  KeepsInv
  BY <1>10, fuseWriteKeepsInv
<1>11. ASSUME NEW n \in Names, NEW newSize \in 0..MaxSize, fuseTruncate(n, newSize)
       PROVE  KeepsInv
  BY <1>11, fuseTruncateKeepsInv
<1>12. DefaultMode \in Modes /\ MountUser \in Uids
  BY FuseAssumption
<1> QED
  BY <1>1, <1>2, <1>3, <1>4, <1>5, <1>6, <1>7, <1>8, <1>9, <1>10, <1>11, <1>12
     DEF Next

\* A step that changes nothing keeps what holds.
LEMMA StutterKeepsInv ==
    ASSUME UNCHANGED vars
    PROVE  /\ MemInv => MemInv'
           /\ DescriptorsAccounted => DescriptorsAccounted'
<1>1. OpenHandles' = OpenHandles
  BY DEF vars, OpenHandles
<1>2. MemInv => MemInv'
  BY <1>1 DEF vars, MemInv, TypeOK, FuseTypeOK, OpenPathsExist, Exists, LimitUpheld,
     UsedFilesOpen, IsOpen, UnmountedClosed
<1> QED
  BY <1>1, <1>2 DEF vars, DescriptorsAccounted

\* No step breaks the inductive invariant.
LEMMA MemInvInductive == MemInv /\ [Next]_vars => MemInv'
BY NextKeepsInv, StutterKeepsInv DEF KeepsInv

\* The calls that only clients with "replace" or "reopen" make, and the reads
\* behind the end of a file they lead to, do not occur.
NoRisk ==
    /\ NoReplace
    /\ call'[1] = "open" => ret' # "EBADF"
    /\ call'[1] = "read" => ret' # "EIO"

\* Which handlers a call names.
LEMMA CallNames ==
    /\ fuseInit \/ fuseDestroy \/ Kill \/ fuseReaddir
       => call'[1] \notin {"rename", "open", "read"}
    /\ \A n, x : fuseMknod(n, x) \/ fuseUnlink(n) \/ fuseGetattr(n) \/ fuseChmod(n, x)
               \/ fuseChown(n, x) \/ fuseRelease(n) \/ fuseTruncate(n, x)
               => call'[1] \notin {"rename", "open", "read"}
    /\ \A h, off, size, v : fuseWrite(h, off, size, v)
               => call'[1] \notin {"rename", "open", "read"}
    /\ \A p, q : fuseRename(p, q) => call' = <<"rename", p, q>>
    /\ \A n : fuseOpen(n) => call' = <<"open", n>>
    /\ \A h, off, size : fuseRead(h, off, size) => call' = <<"read", h, off, size>>
<1>1. fuseInit \/ fuseDestroy \/ Kill \/ fuseReaddir
      => call'[1] \notin {"rename", "open", "read"}
  BY DEF fuseInit, fuseDestroy, Kill, fuseReaddir
<1>2. \A n, x : fuseMknod(n, x) \/ fuseUnlink(n) \/ fuseGetattr(n) \/ fuseChmod(n, x)
               => call'[1] \notin {"rename", "open", "read"}
  BY DEF fuseMknod, fuseUnlink, fuseGetattr, fuseChmod
<1>3. \A n, x : fuseChown(n, x) \/ fuseRelease(n) \/ fuseTruncate(n, x)
               => call'[1] \notin {"rename", "open", "read"}
  BY DEF fuseChown, fuseRelease, fuseTruncate
<1>4. \A h, off, size, v : fuseWrite(h, off, size, v)
               => call'[1] \notin {"rename", "open", "read"}
  BY DEF fuseWrite
<1> QED
  BY <1>1, <1>2, <1>3, <1>4 DEF fuseRename, fuseOpen, fuseRead

\* The handlers of clients that avoid "replace".
LEMMA NoReplaceStep ==
    ASSUME "replace" \notin Workload, Next
    PROVE  NoReplace
<1>1. ASSUME NEW p \in Names, NEW q \in Names \cup LongNames, fuseRename(p, q)
      PROVE  NoReplace
  BY <1>1 DEF fuseRename, NoReplace
<1>2. CASE call'[1] # "rename"
  BY <1>2 DEF NoReplace
<1> QED
  BY <1>1, <1>2, CallNames DEF Next

\* The inductive invariant holds in every state of every behaviour.
THEOREM MemInvariant == Spec => []MemInv
<1> QED
  BY InitMemInv, MemInvInductive, PTL DEF Spec

\* Files keep their type: in particular none grows beyond what was written.
THEOREM FilesTyped == Spec => []TypeOK
<1>1. MemInv => TypeOK
  BY DEF MemInv
<1> QED
  BY <1>1, MemInvariant, PTL

\* The path of an open file leads to a file, also after renames that lose one.
THEOREM OpenPathsLeadToFiles == Spec => []OpenPathsExist
<1>1. MemInv => OpenPathsExist
  BY DEF MemInv
<1> QED
  BY <1>1, MemInvariant, PTL

\* No more files are open than the limit allows, and openCount never falls
\* below the number of open handles, whatever releases fail.
THEOREM LimitIsUpheld == Spec => []LimitUpheld
<1>1. MemInv => LimitUpheld
  BY DEF MemInv
<1> QED
  BY <1>1, MemInvariant, PTL

\* No file stays marked as used when no client has it open.
THEOREM NoFileStuckInUse == Spec => []UsedFilesOpen
<1>1. MemInv => UsedFilesOpen
  BY DEF MemInv
<1> QED
  BY <1>1, MemInvariant, PTL

\* For clients that never rename onto an existing name, openCount and the
\* flags account for exactly the open handles.
THEOREM MemoryDescriptorsAccounted ==
    ASSUME "replace" \notin Workload
    PROVE  Spec => []DescriptorsAccounted
<1>1. MemInv /\ DescriptorsAccounted /\ [Next]_vars => DescriptorsAccounted'
  BY NextKeepsInv, NoReplaceStep, StutterKeepsInv DEF KeepsInv
<1> QED
  BY <1>1, InitMemInv, MemInvariant, PTL DEF Spec

-----------------------------------------------------------------------------
(* The refinement of FileStore: the initial states map to initial states,  *)
(* and every step to a step or a stutter.                                  *)

\* A file as its clients see it.
Seen(f) == [bytes |-> f.data, mode |-> f.mode, uid |-> f.uid]

\* There are finitely many files, so that Cardinality counts them.
FinitelyMany == IsFiniteSet(DOMAIN files)

\* At first there are none.
LEMMA FinitelyManyInit == Init => FinitelyMany
BY NoFilesType, FS_EmptySet DEF Init, FinitelyMany

\* Only mknod and rename add a name, and only one.
LEMMA FinitelyManyInductive == FinitelyMany /\ [Next]_vars => FinitelyMany'
<1> SUFFICES ASSUME FinitelyMany, [Next]_vars PROVE FinitelyMany'
  OBVIOUS
<1> USE DEF FinitelyMany
<1>1. \A n : IsFiniteSet(DOMAIN files \cup {n})
  BY FS_AddElement
<1>2. IsFiniteSet(DOMAIN NoFiles)
  BY NoFilesType, FS_EmptySet
<1>3. CASE \E n : DOMAIN files' \subseteq DOMAIN files \cup {n}
  BY <1>1, <1>3, FS_Subset
<1>4. \A n, f : UpdateFile(n, f) => DOMAIN files' \subseteq DOMAIN files \cup {n}
  BY DEF UpdateFile
<1>5. \A r : Returns(r) => DOMAIN files' = DOMAIN files
  BY DEF Returns
<1>6. CASE fuseInit \/ fuseReaddir \/ UNCHANGED vars
  BY <1>6 DEF fuseInit, fuseReaddir, Reports, vars
<1>7. \A r : ProcessEnds(r) => FinitelyMany'
  BY <1>2 DEF ProcessEnds
<1>8. CASE fuseDestroy \/ Kill
  BY <1>7, <1>8 DEF fuseDestroy, Kill
<1>9. ASSUME NEW n, NEW mode, fuseMknod(n, mode) \/ fuseUnlink(n)
      PROVE  FinitelyMany'
  <2>1. DOMAIN files' \subseteq DOMAIN files \cup {n}
    BY <1>5, <1>9 DEF fuseMknod, fuseUnlink
  <2> QED
    BY <1>3, <2>1
<1>10. ASSUME NEW p, NEW q, fuseRename(p, q)
       PROVE  FinitelyMany'
  <2>1. DOMAIN files' \subseteq DOMAIN files \cup {q}
    BY <1>5, <1>10 DEF fuseRename, Moved
  <2> QED
    BY <1>3, <2>1
<1>11. ASSUME NEW n, NEW x, \/ fuseGetattr(n) \/ fuseChmod(n, x) \/ fuseChown(n, x)
                            \/ fuseOpen(n) \/ fuseTruncate(n, x)
       PROVE  FinitelyMany'
  <2>1. DOMAIN files' \subseteq DOMAIN files \cup {n}
    BY <1>4, <1>5, <1>11 DEF fuseGetattr, fuseChmod, fuseChown, fuseOpen, fuseTruncate, Reports
  <2> QED
    BY <1>3, <2>1
<1>12. ASSUME NEW h, NEW off, NEW size, NEW v,
              \/ fuseRelease(h) \/ fuseRead(h, off, size) \/ fuseWrite(h, off, size, v)
       PROVE  FinitelyMany'
  <2>1. \/ DOMAIN files' \subseteq DOMAIN files \cup {handles[h]}
        \/ ProcessEnds("SIGSEGV")
    BY <1>4, <1>5, <1>12 DEF fuseRelease, CloseFile, fuseRead, Reports, fuseWrite
  <2> QED
    BY <1>3, <1>7, <2>1
<1> QED
  BY <1>6, <1>8, <1>9, <1>10, <1>11, <1>12 DEF Next

\* The files of FileStore are those of the map, by the same names.
LEMMA SeenFiles ==
    /\ DOMAIN StoredFiles = DOMAIN files
    /\ \A n \in DOMAIN files : StoredFiles[n] = Seen(files[n])
    /\ DOMAIN StoredFiles' = DOMAIN files'
    /\ \A n \in DOMAIN files' : StoredFiles'[n] = Seen(files'[n])
BY DEF StoredFiles, Seen

\* Files that have not changed are seen as they were.
LEMMA FilesKept ==
    ASSUME UNCHANGED files
    PROVE  UNCHANGED StoredFiles
BY DEF StoredFiles

\* A call other than a read, or one that fails, passes on what it returns.
LEMMA RepliesSeen ==
    ASSUME NEW r \in Outcomes, Replies(r), r # "ok" \/ call'[1] # "read"
    PROVE  /\ PassedOn' = <<>>
           /\ r = "ok" => Reply' = "ok"
           /\ r = "EEXIST" => Reply' = "EEXIST"
           /\ r \in {"EINVAL", "EMFILE"} => Reply' = "limit"
           /\ r \in {"ENOENT", "ENONET"} => Reply' = "ENOENT"
           /\ r \in {"SIGSEGV", "killed"} => Reply' = "dead"
BY DEF Replies, Reply, PassedOn

\* A call that fails changes nothing.
LEMMA FailsSeen ==
    ASSUME NEW c, call' = c, NEW r, Returns(r)
    PROVE  /\ r = "EEXIST" => Store!Fails(c, "EEXIST")
           /\ r \in {"EINVAL", "EMFILE"} => Store!Fails(c, "limit")
           /\ r \in {"ENOENT", "ENONET"} => Store!Fails(c, "ENOENT")
<1>1. Replies(r) /\ UNCHANGED <<StoredFiles, handles>>
  BY FilesKept DEF Returns
<1> QED
  BY <1>1, RepliesSeen, OutcomesOf DEF Store!Fails

\* A call that succeeds and returns no bytes.
LEMMA SucceedsSeen ==
    ASSUME NEW c, call' = c, c[1] # "read", Replies("ok")
    PROVE  Store!Succeeds(c)
BY RepliesSeen, OutcomesOf DEF Store!Succeeds

\* One file changes.
LEMMA UpdateSeen ==
    ASSUME NEW n \in DOMAIN files, NEW f, UpdateFile(n, f), MemInv
    PROVE  /\ StoredFiles' = [StoredFiles EXCEPT ![n] = Seen(f)]
           /\ UNCHANGED handles /\ Replies("ok")
<1>1. files' = [files EXCEPT ![n] = f] /\ UNCHANGED handles /\ Replies("ok")
  BY DEF UpdateFile, Completes
<1>2. files \in [DOMAIN files -> FileInfo]
  BY DEF MemInv, TypeOK
<1> QED
  BY <1>1, <1>2 DEF StoredFiles, Seen

\* With the process the files end.
LEMMA EndSeen ==
    ASSUME NEW r \in {"ok", "SIGSEGV", "killed"}, ProcessEnds(r)
    PROVE  Store!FilesLeft
<1>1. DOMAIN StoredFiles' = {}
  BY NoFilesType, SeenFiles DEF ProcessEnds
<1>2. StoredFiles' = Store!NoFiles
  BY <1>1 DEF StoredFiles, Store!NoFiles
<1> QED
  BY <1>2 DEF Store!FilesLeft

\* A kill, or a read behind the end of the heap.
LEMMA CrashSeen ==
    ASSUME NEW r \in {"SIGSEGV", "killed"}, ProcessEnds(r)
    PROVE  Store!Crash
<1>1. handles' = [h \in Handles |-> NULL] /\ Replies(r)
  BY DEF ProcessEnds
<1> QED
  BY <1>1, EndSeen, RepliesSeen, OutcomesOf DEF Store!Crash, Store!Dies

\* The initial states are those of FileStore.
LEMMA InitStore == Init => Store!Init
<1> SUFFICES ASSUME Init PROVE Store!Init
  OBVIOUS
<1>1. DOMAIN StoredFiles = {}
  BY NoFilesType DEF Init, StoredFiles
<1>2. StoredFiles = Store!NoFiles
  BY NoFilesType DEF Init, StoredFiles, Store!NoFiles
<1>3. Reply = "ok" /\ PassedOn = <<>>
  BY DEF Init, FuseInit, Reply, PassedOn
<1> QED
  BY <1>2, <1>3 DEF Store!Init, Init, FuseInit

\* A mount, an unmount and a kill.
LEMMA MountSteps ==
    /\ fuseInit => Store!Mount
    /\ MemInv /\ fuseDestroy => Store!Unmount
    /\ Kill => Store!Crash
<1>1. fuseInit => Store!Mount
  BY SucceedsSeen, FilesKept DEF fuseInit, Store!Mount
<1>2. ASSUME MemInv, fuseDestroy PROVE Store!Unmount
  <2>1. handles' = handles
    BY <1>2 DEF fuseDestroy, ProcessEnds, MemInv, TypeOK, FuseTypeOK
  <2>2. Store!Succeeds(<<"destroy">>)
    BY <1>2, SucceedsSeen DEF fuseDestroy, ProcessEnds
  <2> QED
    BY <1>2, <2>1, <2>2, EndSeen DEF fuseDestroy, Store!Unmount
<1>3. Kill => Store!Crash
  BY CrashSeen DEF Kill
<1> QED
  BY <1>1, <1>2, <1>3

\* A new file is empty and has the permissions it is given.
LEMMA MknodStep ==
    ASSUME NEW n \in Names \cup LongNames, NEW mode \in Modes, fuseMknod(n, mode)
    PROVE  Store!Create(n, mode)
<1> DEFINE c == <<"mknod", n, mode>>
<1>1. call' = c /\ (Store!Exists(n) <=> Exists(n))
  BY SeenFiles DEF fuseMknod, Exists, Store!Exists
<1>2. CASE (Exists(n) /\ Returns("EEXIST")) \/ (~Exists(n) /\ Returns("EINVAL"))
  BY <1>1, <1>2, FailsSeen DEF Store!Create
<1>3. ASSUME ~Exists(n), ~NameTooLong(n), UNCHANGED <<openCount, handles>>, Completes,
             files' = [m \in DOMAIN files \cup {n} |->
                          IF m = n THEN NewFile(mode) ELSE files[m]]
      PROVE  Store!Create(n, mode)
  <2>1. Store!Succeeds(c) /\ n \in Names
    BY <1>1, <1>3, SucceedsSeen DEF Completes, NameTooLong
  <2>2. Seen(NewFile(mode)) = [bytes |-> <<>>, mode |-> mode, uid |-> MountUser]
    BY DEF Seen, NewFile
  <2>3. StoredFiles' = [m \in DOMAIN StoredFiles \cup {n} |->
                          IF m = n THEN [bytes |-> <<>>, mode |-> mode, uid |-> MountUser]
                                   ELSE StoredFiles[m]]
    BY <1>3, <2>2, SeenFiles DEF StoredFiles, Seen, NewFile
  <2> QED
    BY <1>1, <1>3, <2>1, <2>3 DEF Store!Create
<1> QED
  BY <1>2, <1>3 DEF fuseMknod

\* A file that is removed is gone, and is not open.
LEMMA UnlinkStep ==
    ASSUME NEW n \in Names, fuseUnlink(n)
    PROVE  Store!Remove(n)
<1> DEFINE c == <<"unlink", n>>
<1>1. call' = c /\ (Store!Exists(n) <=> Exists(n)) /\ \A h \in Handles : handles[h] # n
  BY SeenFiles DEF fuseUnlink, IsOpen, Exists, Store!Exists
<1>2. CASE ~Exists(n) /\ Returns("ENOENT")
  BY <1>1, <1>2, FailsSeen DEF Store!Remove
<1>3. ASSUME Exists(n), UNCHANGED handles, Completes,
             files' = [m \in DOMAIN files \ {n} |-> files[m]]
      PROVE  Store!Remove(n)
  <2>1. Store!Succeeds(c)
    BY <1>1, <1>3, SucceedsSeen DEF Completes
  <2>2. StoredFiles' = [m \in DOMAIN StoredFiles \ {n} |-> StoredFiles[m]]
    BY <1>3 DEF StoredFiles
  <2> QED
    BY <1>1, <1>3, <2>1, <2>2 DEF Store!Remove
<1> QED
  BY <1>2, <1>3 DEF fuseUnlink

\* Without "replace", a renamed file keeps its bytes and its handles.
LEMMA RenameStep ==
    ASSUME NoReplace, NEW p \in Names, NEW q \in Names \cup LongNames, fuseRename(p, q)
    PROVE  Store!Rename(p, q)
<1> DEFINE c == <<"rename", p, q>>
<1>1. call' = c /\ (Store!Exists(p) <=> Exists(p)) /\ p # q /\ ~Exists(q)
  BY SeenFiles DEF fuseRename, Exists, Store!Exists, NoReplace
<1>2. CASE (NameTooLong(q) /\ Returns("EINVAL")) \/ (~Exists(p) /\ Returns("ENOENT"))
  BY <1>1, <1>2, FailsSeen DEF Store!Rename, NameTooLong
<1>3. ASSUME ~NameTooLong(q), Exists(p), files' = Moved(p, q), handles' = Renamed(p, q),
             Completes, UNCHANGED openCount
      PROVE  Store!Rename(p, q)
  <2>1. Store!Succeeds(c) /\ q \in Names
    BY <1>1, <1>3, SucceedsSeen DEF Completes, NameTooLong
  <2>2. files' = [m \in (DOMAIN files \ {p}) \cup {q} |-> IF m = q THEN files[p] ELSE files[m]]
    BY <1>1, <1>3 DEF Moved, Exists
  <2>3. StoredFiles' = [m \in (DOMAIN StoredFiles \ {p}) \cup {q} |->
                          IF m = q THEN StoredFiles[p] ELSE StoredFiles[m]]
    BY <1>3, <2>2 DEF StoredFiles, Exists
  <2> QED
    BY <1>1, <1>3, <2>1, <2>3 DEF Store!Rename, Renamed
<1> QED
  BY <1>2, <1>3 DEF fuseRename

\* The owner that is reported is 0, and so is the owner.
LEMMA AttributeSteps ==
    ASSUME MemInv, Uids = {0}, NEW n \in Names, NEW mode \in Modes, NEW uid \in Uids
    PROVE  /\ fuseGetattr(n) => Store!Getattr(n)
           /\ fuseChmod(n, mode) => Store!Chmod(n, mode)
           /\ fuseChown(n, uid) => Store!Chown(n, uid)
<1>1. Store!Exists(n) <=> Exists(n)
  BY SeenFiles DEF Exists, Store!Exists
<1>2. ASSUME Exists(n) 
      PROVE  /\ n \in DOMAIN files /\ files[n] \in FileInfo
             /\ StoredFiles[n] = Seen(files[n])
  BY <1>2, SeenFiles DEF Exists, MemInv, TypeOK
<1>3. ASSUME fuseGetattr(n) PROVE Store!Getattr(n)
  <2>1. call' = <<"getattr", n>>
    BY <1>3 DEF fuseGetattr
  <2>2. CASE ~Exists(n) /\ Returns("ENOENT")
    BY <1>1, <2>1, <2>2, FailsSeen DEF Store!Getattr
  <2>3. CASE Exists(n) /\ Reports(<<Len(files[n].data), files[n].mode, 0>>)
    <3>1. files[n].uid = 0
      BY <1>2, <2>3 DEF FileInfo
    <3>2. PassedOn' = buf' /\ Reply' = "ok" /\ UNCHANGED <<StoredFiles, handles>>
      BY <2>1, <2>3, FilesKept DEF PassedOn, Reply, Reports
    <3>3. buf' = <<Len(StoredFiles[n].bytes), StoredFiles[n].mode, StoredFiles[n].uid>>
      BY <1>2, <2>3, <3>1 DEF Reports, Seen
    <3> QED
      BY <1>1, <2>1, <2>3, <3>2, <3>3 DEF Store!Getattr
  <2> QED
    BY <1>3, <2>2, <2>3 DEF fuseGetattr
<1>4. ASSUME fuseChmod(n, mode) PROVE Store!Chmod(n, mode)
  <2>1. call' = <<"chmod", n, mode>>
    BY <1>4 DEF fuseChmod
  <2>2. CASE ~Exists(n) /\ Returns("ENONET")
    BY <1>1, <2>1, <2>2, FailsSeen DEF Store!Chmod
  <2>3. CASE Exists(n) /\ UpdateFile(n, [files[n] EXCEPT !.mode = mode])
    <3>1. Seen([files[n] EXCEPT !.mode = mode]) = [Seen(files[n]) EXCEPT !.mode = mode]
      BY <1>2, <2>3 DEF Seen, FileInfo
    <3>2. StoredFiles' = [StoredFiles EXCEPT ![n].mode = mode]
      BY <1>2, <2>3, <3>1, UpdateSeen
    <3> QED
      BY <1>1, <1>2, <2>1, <2>3, <3>2, UpdateSeen, SucceedsSeen DEF Store!Chmod
  <2> QED
    BY <1>4, <2>2, <2>3 DEF fuseChmod
<1>5. ASSUME fuseChown(n, uid) PROVE Store!Chown(n, uid)
  <2>1. call' = <<"chown", n, uid>>
    BY <1>5 DEF fuseChown
  <2>2. CASE ~Exists(n) /\ Returns("ENONET")
    BY <1>1, <2>1, <2>2, FailsSeen DEF Store!Chown
  <2>3. CASE Exists(n) /\ UpdateFile(n, [files[n] EXCEPT !.uid = uid])
    <3>1. Seen([files[n] EXCEPT !.uid = uid]) = [Seen(files[n]) EXCEPT !.uid = uid]
      BY <1>2, <2>3 DEF Seen, FileInfo
    <3>2. StoredFiles' = [StoredFiles EXCEPT ![n].uid = uid]
      BY <1>2, <2>3, <3>1, UpdateSeen
    <3> QED
      BY <1>1, <1>2, <2>1, <2>3, <3>2, UpdateSeen, SucceedsSeen DEF Store!Chown
  <2> QED
    BY <1>5, <2>2, <2>3 DEF fuseChown
<1> QED
  BY <1>3, <1>4, <1>5

\* As many different names as there are files are the names of all files.
LEMMA ReaddirStep == FinitelyMany /\ fuseReaddir => Store!Readdir
<1> SUFFICES ASSUME FinitelyMany, fuseReaddir PROVE Store!Readdir
  OBVIOUS
<1> DEFINE D == DOMAIN files
           k == Cardinality(D)
<1>1. PICK names \in [1..k -> D] :
          /\ \A i, j \in DOMAIN names : names[i] = names[j] => i = j
          /\ Reports(names)
  BY DEF fuseReaddir
<1>2. k \in Nat
  BY FS_CardinalityType DEF FinitelyMany
<1> HIDE DEF k
<1>3. IsFiniteSet(1..k) /\ Cardinality(1..k) = k
  BY <1>2, FS_Interval
<1>4. names \in Injection(1..k, D)
  BY <1>1 DEF Injection, IsInjective
<1>5. names \in Surjection(1..k, D)
  BY <1>3, <1>4, FS_Injection DEF FinitelyMany, k
<1>6. \A n \in D : \E i \in 1..k : names[i] = n
  BY <1>5 DEF Surjection
<1>7. call' = <<"readdir">> /\ PassedOn' = names /\ Reply' = "ok"
      /\ UNCHANGED <<StoredFiles, handles>>
  BY <1>1, FilesKept DEF fuseReaddir, Reports, PassedOn, Reply
<1>8. Len(names) = k
  BY <1>1, <1>2
<1>9. {names[i] : i \in 1..k} = D
  <2>1. \A i \in 1..k : names[i] \in D
    BY <1>1
  <2> HIDE DEF D
  <2> QED
    BY <1>6, <2>1
<1> QED
  BY <1>1, <1>7, <1>8, <1>9, SeenFiles DEF Store!Readdir

\* The limit is reached only if all handles are taken, as openCount counts them.
LEMMA OpenStep ==
    ASSUME MemInv, DescriptorsAccounted, NoRisk, NEW n \in Names, fuseOpen(n)
    PROVE  Store!Open(n)
<1> DEFINE c == <<"open", n>>
<1>1. call' = c /\ (Store!Exists(n) <=> Exists(n))
  BY SeenFiles DEF fuseOpen, Exists, Store!Exists
<1>2. CASE ~Exists(n) /\ Returns("ENOENT")
  BY <1>1, <1>2, FailsSeen DEF Store!Open
<1>3. CASE LimitReached /\ Returns("EMFILE")
  <2>1. Cardinality(OpenHandles) >= NUM_OPEN_FILES
    BY <1>3 DEF DescriptorsAccounted, LimitReached
  <2>2. IsFiniteSet(Handles) /\ Cardinality(Handles) = NUM_OPEN_FILES
    BY FS_Interval, LayoutAssumption DEF Handles
  <2>3. OpenHandles \subseteq Handles
    BY DEF OpenHandles
  <2>4. OpenHandles = Handles
    <3>1. Cardinality(OpenHandles) <= NUM_OPEN_FILES
      BY <2>2, <2>3, FS_Subset
    <3>2. Cardinality(OpenHandles) = Cardinality(Handles)
      BY <2>1, <2>2, <3>1, OpenHandlesFinite, LayoutAssumption
    <3> QED
      BY <2>2, <2>3, <3>2, FS_Subset
  <2>5. \A h \in Handles : handles[h] # NULL
    BY <2>4 DEF OpenHandles
  <2> QED
    BY <1>1, <1>3, <2>5, FailsSeen DEF Store!Open
<1>4. ASSUME Exists(n), files' = [files EXCEPT ![n].used = TRUE], Completes,
             NEW h \in Handles, handles[h] = NULL, handles' = [handles EXCEPT ![h] = n]
      PROVE  Store!Open(n)
  <2>1. StoredFiles' = StoredFiles
    <3>1. files \in [DOMAIN files -> FileInfo]
      BY DEF MemInv, TypeOK
    <3> QED
      BY <1>4, <3>1 DEF StoredFiles, FileInfo, Exists
  <2>2. Store!Succeeds(c)
    BY <1>1, <1>4, SucceedsSeen DEF Completes
  <2> QED
    BY <1>1, <1>4, <2>1, <2>2 DEF Store!Open
<1>5. ~Returns("EBADF")
  BY <1>1 DEF NoRisk, Returns, Replies
<1> QED
  BY <1>2, <1>3, <1>4, <1>5 DEF fuseOpen

\* The path leads to a file that is marked, as the file is open.
LEMMA OpenFile ==
    ASSUME MemInv, DescriptorsAccounted, NEW h \in Handles, handles[h] # NULL
    PROVE  /\ handles[h] \in DOMAIN files /\ files[handles[h]].used
           /\ files[handles[h]] \in FileInfo
           /\ StoredFiles[handles[h]] = Seen(files[handles[h]])
           /\ handles[h] \in Names
<1>1. h \in OpenHandles
  BY DEF OpenHandles
<1> QED
  BY <1>1, OpenNames, SeenFiles DEF MemInv, TypeOK, DescriptorsAccounted

\* A release takes the flag from the file and changes nothing its clients see.
LEMMA ReleaseStep ==
    ASSUME MemInv, DescriptorsAccounted, NEW h \in Handles, fuseRelease(h)
    PROVE  Store!Release(h)
<1>1. handles[h] # NULL /\ call' = <<"release", h>> /\ handles' = [handles EXCEPT ![h] = NULL]
  BY DEF fuseRelease
<1>2. CloseFile(handles[h]) /\ Replies("ok") /\ handles[h] \in DOMAIN files
  BY <1>1, OpenFile DEF fuseRelease, Exists
<1>3. StoredFiles' = StoredFiles
  <2>1. files \in [DOMAIN files -> FileInfo]
    BY DEF MemInv, TypeOK
  <2> QED
    BY <1>2, <2>1 DEF StoredFiles, FileInfo, CloseFile
<1> QED
  BY <1>1, <1>2, <1>3, SucceedsSeen DEF Store!Release

\* Of the bytes fuseRead reports, those the kernel passes on are the bytes of
\* the file; the copying of bytes behind its end may end the process.
LEMMA ReadStep ==
    ASSUME MemInv, DescriptorsAccounted, NoRisk, NEW h \in Handles,
           NEW off \in 0..MaxSize, NEW size \in ReadSizes, fuseRead(h, off, size)
    PROVE  Store!Read(h, off, size) \/ Store!Crash
<1> DEFINE data == files[handles[h]].data
<1>1. handles[h] # NULL /\ call' = <<"read", h, off, size>>
  BY DEF fuseRead
<1>2. /\ handles[h] \in DOMAIN files /\ files[handles[h]].used
      /\ files[handles[h]] \in FileInfo
      /\ StoredFiles[handles[h]].bytes = data
  <2>1. Seen(files[handles[h]]).bytes = data
    BY DEF Seen
  <2> QED
    BY <1>1, <2>1, OpenFile
<1>3. CASE ProcessEnds("SIGSEGV")
  BY <1>3, CrashSeen
<1>4. ASSUME off <= Len(data),
             NEW bytes \in [1..size -> Bytes],
             \A i \in 1..size : off + i <= Len(data) => bytes[i] = data[off + i],
             Reports(bytes)
      PROVE  Store!Read(h, off, size)
  <2>1. Len(data) \in Nat /\ off \in Nat /\ size \in Nat \ {0}
    BY <1>2, LengthType, FuseAssumption
  <2>2. data \in [1..Len(data) -> Bytes]
    BY <1>2 DEF FileInfo
  <2> DEFINE left == Len(data) - off
             m == IF size > left THEN left ELSE size
             end == IF off + size > Len(data) THEN Len(data) ELSE off + size
  <2>3. left \in Nat /\ m \in Nat /\ m <= size /\ off + m <= Len(data) /\ end = off + m
    BY <1>4, <2>1
  <2>4. Len(bytes) = size
    BY <1>4, <2>1
  <2>5. PassedOn' = SubSeq(bytes, 1, m)
    BY <1>1, <1>4, <2>4 DEF PassedOn, Reports
  <2>6. Reply' = "ok" /\ UNCHANGED <<StoredFiles, handles>>
    BY <1>4, FilesKept DEF Reports, Reply
  <2> HIDE DEF data, left, m, end
  <2>7. SubSeq(bytes, 1, m) = SubSeq(data, off + 1, end)
    <3>1. SubSeq(bytes, 1, m) = [i \in 1..m |-> bytes[i]]
      BY <2>1, <2>3
    <3>2. SubSeq(data, off + 1, end) = [i \in 1..m |-> data[off + i]]
      BY <2>1, <2>3
    <3>3. \A i \in 1..m : bytes[i] = data[off + i]
      BY <1>4, <2>1, <2>3
    <3> QED
      BY <3>1, <3>2, <3>3
  <2> QED
    BY <1>1, <1>2, <2>5, <2>6, <2>7 DEF Store!Read, end
<1>5. ~Returns("EIO")
  BY <1>1 DEF NoRisk, Returns, Replies
<1> QED
  BY <1>1, <1>2, <1>3, <1>4, <1>5 DEF fuseRead, Exists

\* What UpdateFile with new contents is to the abstract file.
LEMMA ContentsSeen ==
    ASSUME MemInv, NEW n \in DOMAIN files, NEW k \in Nat, NEW d \in [1..k -> Bytes],
           UpdateFile(n, [files[n] EXCEPT !.data = d]),
           NEW changed,
           \A i \in 1..k : i <= Len(files[n].data) /\ i \notin changed => d[i] = files[n].data[i]
    PROVE  /\ Store!Update(n, k, changed)
           /\ StoredFiles'[n].bytes = d
<1>1. files[n] \in FileInfo
  BY DEF MemInv, TypeOK
<1>2. Seen([files[n] EXCEPT !.data = d]) = [Seen(files[n]) EXCEPT !.bytes = d]
  BY <1>1 DEF Seen, FileInfo
<1>3. StoredFiles' = [StoredFiles EXCEPT ![n] = [Seen(files[n]) EXCEPT !.bytes = d]]
  BY <1>2, UpdateSeen
<1>4. n \in DOMAIN StoredFiles /\ StoredFiles[n] = Seen(files[n])
  BY SeenFiles
<1>5. /\ DOMAIN StoredFiles' = DOMAIN StoredFiles
      /\ \A m \in DOMAIN StoredFiles \ {n} : StoredFiles'[m] = StoredFiles[m]
      /\ StoredFiles'[n] = [Seen(files[n]) EXCEPT !.bytes = d]
  BY <1>3, <1>4
<1>6. /\ StoredFiles'[n].bytes = d
      /\ StoredFiles'[n].mode = StoredFiles[n].mode
      /\ StoredFiles'[n].uid = StoredFiles[n].uid
      /\ StoredFiles[n].bytes = files[n].data
  BY <1>4, <1>5 DEF Seen
<1>7. Len(d) = k
  OBVIOUS
<1> QED
  BY <1>5, <1>6, <1>7 DEF Store!Update

\* What is written is in the file, and what was around it still is.
LEMMA WriteStep ==
    ASSUME MemInv, DescriptorsAccounted, NEW h \in Handles,
           NEW off \in 0..(MaxSize - 1), NEW size \in 1..MaxSize, NEW v \in Bytes,
           fuseWrite(h, off, size, v)
    PROVE  Store!Write(h, off, size, v)
<1> DEFINE n == handles[h]
           old == files[n].data
<1>1. handles[h] # NULL /\ call' = <<"write", h, off, size, v>>
  BY DEF fuseWrite
<1>2. n \in DOMAIN files /\ files[n].used /\ files[n] \in FileInfo /\ StoredFiles[n].bytes = old
  <2>1. Seen(files[n]).bytes = old
    BY DEF Seen
  <2> QED
    BY <1>1, <2>1, OpenFile
<1>3. PICK d \in Resized(old, SizeNeeded(Len(old), off, size)) :
          UpdateFile(n, [files[n] EXCEPT !.data = Overwritten(d, off, size, v)])
  BY <1>1, <1>2 DEF fuseWrite, Exists
<1>4. Len(old) \in Nat /\ off \in Nat /\ size \in Nat \ {0}
  BY <1>2, LengthType, FuseAssumption
<1> DEFINE end == off + size
           k == IF end > Len(old) THEN end ELSE Len(old)
           new == Overwritten(d, off, size, v)
<1>5. k \in Nat /\ end <= k /\ SizeNeeded(Len(old), off, size) = k
  BY <1>4 DEF SizeNeeded
<1>6. d \in [1..k -> Bytes] /\ \A i \in 1..k : i <= Len(old) => d[i] = old[i]
  BY <1>3, <1>5 DEF Resized
<1> HIDE DEF old, n, k
<1>7. Len(d) = k
  BY <1>5, <1>6
<1>8. new = [i \in 1..k |-> IF off < i /\ i <= off + size THEN v ELSE d[i]]
  BY <1>7 DEF Overwritten
<1>9. new \in [1..k -> Bytes]
  BY <1>6, <1>8
<1>10. \A i \in 1..k : i <= Len(old) /\ i \notin off + 1..end => new[i] = old[i]
  BY <1>4, <1>5, <1>6, <1>8
<1>11. \A i \in off + 1..end : new[i] = v
  BY <1>4, <1>5, <1>8
<1> HIDE DEF new, end
<1>12. Store!Update(n, k, off + 1..end) /\ StoredFiles'[n].bytes = new
  BY <1>2, <1>3, <1>5, <1>9, <1>10, ContentsSeen DEF old, new
<1>13. UNCHANGED handles /\ Store!Succeeds(<<"write", h, off, size, v>>)
  BY <1>1, <1>2, <1>3, UpdateSeen, SucceedsSeen
<1> QED
  BY <1>1, <1>2, <1>11, <1>12, <1>13 DEF Store!Write, k, n, end

\* The bytes in front of the new size are kept.
LEMMA TruncateStep ==
    ASSUME MemInv, NEW n \in Names, NEW newSize \in 0..MaxSize, fuseTruncate(n, newSize)
    PROVE  Store!Truncate(n, newSize)
<1>1. call' = <<"truncate", n, newSize>> /\ (Store!Exists(n) <=> Exists(n))
  BY SeenFiles DEF fuseTruncate, Exists, Store!Exists
<1>2. CASE ~Exists(n) /\ Returns("ENOENT")
  BY <1>1, <1>2, FailsSeen DEF Store!Truncate
<1>3. ASSUME Exists(n), NEW d \in Resized(files[n].data, newSize),
             UpdateFile(n, [files[n] EXCEPT !.data = d])
      PROVE  Store!Truncate(n, newSize)
  <2>1. /\ n \in DOMAIN files /\ newSize \in Nat /\ d \in [1..newSize -> Bytes]
        /\ \A i \in 1..newSize : i <= Len(files[n].data) => d[i] = files[n].data[i]
    BY <1>3, FuseAssumption DEF Exists, Resized
  <2>2. Store!Update(n, newSize, {})
    BY <1>3, <2>1, ContentsSeen
  <2> QED
    BY <1>1, <1>3, <2>1, <2>2, UpdateSeen, SucceedsSeen DEF Store!Truncate
<1> QED
  BY <1>2, <1>3 DEF fuseTruncate

\* The handlers of clients that make none of the RiskyCalls.
LEMMA NoRiskStep ==
    ASSUME "replace" \notin Workload, "reopen" \notin Workload, Next
    PROVE  NoRisk
<1>1. ASSUME NEW n, fuseOpen(n)
      PROVE  ret' # "EBADF"
  BY <1>1 DEF fuseOpen, Returns, Replies, Completes
<1>2. ASSUME NEW h, NEW off, NEW size, fuseRead(h, off, size)
      PROVE  ret' # "EIO"
  BY <1>2 DEF fuseRead, Returns, Reports, ProcessEnds, Replies
<1>3. CASE call'[1] \notin {"open", "read"}
  BY <1>3, NoReplaceStep DEF NoRisk
<1>4. ASSUME NEW n, fuseOpen(n)
      PROVE  NoRisk
  BY <1>1, <1>4, CallNames, NoReplaceStep DEF NoRisk
<1>5. ASSUME NEW h, NEW off, NEW size, fuseRead(h, off, size)
      PROVE  NoRisk
  BY <1>2, <1>5, CallNames, NoReplaceStep DEF NoRisk
<1>6. ASSUME NEW p, NEW q, fuseRename(p, q)
      PROVE  call'[1] \notin {"open", "read"}
  BY <1>6, CallNames
<1> QED
  BY <1>3, <1>4, <1>5, <1>6, CallNames DEF Next

\* Every step of careful clients is a step, or a stutter, of FileStore.
LEMMA StoreStep ==
    ASSUME Uids = {0}, MemInv, DescriptorsAccounted, FinitelyMany, Next, NoRisk
    PROVE  Store!Next
<1>1. NoReplace
  BY DEF NoRisk
<1>2. CASE fuseInit \/ fuseDestroy \/ Kill \/ fuseReaddir
  BY <1>2, MountSteps, ReaddirStep DEF Store!Next
<1>3. ASSUME NEW n \in Names \cup LongNames, NEW mode \in Modes, fuseMknod(n, mode)
      PROVE  Store!Next
  BY <1>3, MknodStep DEF Store!Next
<1>4. ASSUME NEW n \in Names, fuseUnlink(n) \/ fuseOpen(n) \/ fuseGetattr(n)
      PROVE  Store!Next
  <2>1. DefaultMode \in Modes /\ MountUser \in Uids
    BY FuseAssumption
  <2> QED
    BY <1>4, <2>1, UnlinkStep, OpenStep, AttributeSteps DEF Store!Next
<1>5. ASSUME NEW p \in Names, NEW q \in Names \cup LongNames, fuseRename(p, q)
      PROVE  Store!Next
  BY <1>1, <1>5, RenameStep DEF Store!Next
<1>6. ASSUME NEW n \in Names, NEW mode \in Modes, fuseChmod(n, mode)
      PROVE  Store!Next
  <2>1. MountUser \in Uids
    BY FuseAssumption
  <2> QED
    BY <1>6, <2>1, AttributeSteps DEF Store!Next
<1>7. ASSUME NEW n \in Names, NEW uid \in Uids, fuseChown(n, uid)
      PROVE  Store!Next
  <2>1. DefaultMode \in Modes
    BY FuseAssumption
  <2> QED
    BY <1>7, <2>1, AttributeSteps DEF Store!Next
<1>8. ASSUME NEW h \in Handles, fuseRelease(h)
      PROVE  Store!Next
  BY <1>8, ReleaseStep DEF Store!Next
<1>9. ASSUME NEW h \in Handles, NEW off \in 0..MaxSize, NEW size \in ReadSizes,
             fuseRead(h, off, size)
      PROVE  Store!Next
  BY <1>9, ReadStep DEF Store!Next
<1>10. ASSUME NEW h \in Handles, NEW off \in 0..(MaxSize - 1), NEW size \in 1..MaxSize,
              NEW v \in Bytes, off + size <= MaxSize, fuseWrite(h, off, size, v)
       PROVE  Store!Next
  BY <1>10, WriteStep DEF Store!Next
<1>11. ASSUME NEW n \in Names, NEW newSize \in 0..MaxSize, fuseTruncate(n, newSize)
       PROVE  Store!Next
  BY <1>11, TruncateStep DEF Store!Next
<1> QED
  BY <1>2, <1>3, <1>4, <1>5, <1>6, <1>7, <1>8, <1>9, <1>10, <1>11 DEF Next

(***************************************************************************)
(* For every set of names, permissions and bytes, and every limit of open  *)
(* files: for clients that make none of the RiskyCalls and run as user 0,  *)
(* the handlers implement FileStore.                                       *)
(***************************************************************************)
THEOREM InMemoryImplementsFileStore ==
    ASSUME Workload = {}, Uids = {0}
    PROVE  Spec => ImplementsFileStore
<1>1. "replace" \notin Workload /\ "reopen" \notin Workload
  OBVIOUS
<1>2. MemInv /\ DescriptorsAccounted /\ FinitelyMany /\ [Next]_vars => [Store!Next]_Store!vars
  <2>1. UNCHANGED vars => UNCHANGED Store!vars
    BY DEF vars, Store!vars, StoredFiles, Reply, PassedOn
  <2> QED
    BY <1>1, <2>1, NoRiskStep, StoreStep
<1>3. Spec => []DescriptorsAccounted
  BY <1>1, MemoryDescriptorsAccounted
<1> QED
  BY <1>2, <1>3, InitStore, FinitelyManyInit, MemInvariant, FinitelyManyInductive, PTL
     DEF Spec, ImplementsFileStore, Store!Spec

-----------------------------------------------------------------------------
(* Clients that are careful from the start to the end of a behavior, among *)
(* others that are not.                                                    *)

\* What careful clients and others have in common.
LEMMA CarefulValues ==
    /\ Careful!Handles = Handles /\ Careful!NoFiles = NoFiles
    /\ \A S : Careful!Cardinality(S) = Cardinality(S)
    /\ \A n : (Careful!Exists(n) <=> Exists(n)) /\ (Careful!IsOpen(n) <=> IsOpen(n))
              /\ (Careful!NameTooLong(n) <=> NameTooLong(n))
    /\ \A x : Careful!NewFile(x) = NewFile(x)
    /\ \A x, y : Careful!Moved(x, y) = Moved(x, y) /\ Careful!Renamed(x, y) = Renamed(x, y)
                 /\ Careful!Resized(x, y) = Resized(x, y)
    /\ \A d, x, y, v : Careful!Overwritten(d, x, y, v) = Overwritten(d, x, y, v)
    /\ \A d, x, y : Careful!SizeNeeded(d, x, y) = SizeNeeded(d, x, y)
    /\ Careful!LimitReached <=> LimitReached
<1>1. Careful!Handles = Handles /\ Careful!NoFiles = NoFiles
  BY DEF Careful!Handles, Handles, Careful!NoFiles, NoFiles
<1>2. \A n : (Careful!Exists(n) <=> Exists(n)) /\ (Careful!IsOpen(n) <=> IsOpen(n))
              /\ (Careful!NameTooLong(n) <=> NameTooLong(n))
  BY <1>1 DEF Careful!Exists, Exists, Careful!IsOpen, IsOpen, Careful!NameTooLong, NameTooLong
<1>3. \A x, y : Careful!Moved(x, y) = Moved(x, y)
  BY <1>2 DEF Careful!Moved, Moved
<1>4. \A x, y : Careful!Renamed(x, y) = Renamed(x, y)
  BY <1>1 DEF Careful!Renamed, Renamed
<1>5. \A x, y : Careful!Resized(x, y) = Resized(x, y)
  BY DEF Careful!Resized, Resized
<1>6. \A S : Careful!Cardinality(S) = Cardinality(S)
  BY DEF Careful!Cardinality, Cardinality, Careful!IsFiniteSet, IsFiniteSet
<1> QED
  BY <1>1, <1>2, <1>3, <1>4, <1>5, <1>6 DEF Careful!NewFile, NewFile, Careful!Overwritten,
     Overwritten, Careful!SizeNeeded, SizeNeeded, Careful!LimitReached, LimitReached

\* How their handlers return.
LEMMA CarefulReturns ==
    /\ \A r : Careful!Replies(r) <=> Replies(r)
    /\ \A r : Careful!Returns(r) <=> Returns(r)
    /\ \A b : Careful!Reports(b) <=> Reports(b)
    /\ Careful!Completes <=> Completes
    /\ \A n, f : Careful!UpdateFile(n, f) <=> UpdateFile(n, f)
    /\ \A r : Careful!ProcessEnds(r) <=> ProcessEnds(r)
    /\ \A n : Careful!CloseFile(n) <=> CloseFile(n)
<1>1. \A r : Careful!Replies(r) <=> Replies(r)
  BY DEF Careful!Replies, Replies
<1>2. Careful!Completes <=> Completes
  BY <1>1 DEF Careful!Completes, Completes
<1>3. \A r : Careful!ProcessEnds(r) <=> ProcessEnds(r)
  BY <1>1, CarefulValues DEF Careful!ProcessEnds, ProcessEnds
<1> QED
  BY <1>1, <1>2, <1>3 DEF Careful!Returns, Returns, Careful!Reports, Reports,
     Careful!UpdateFile, UpdateFile, Careful!CloseFile, CloseFile

\* The handlers that no risk depends on.
LEMMA CarefulHandlers ==
    /\ (Careful!fuseInit => fuseInit) /\ (Careful!fuseDestroy => fuseDestroy)
    /\ (Careful!Kill => Kill) /\ (Careful!fuseReaddir => fuseReaddir)
    /\ \A n, x : /\ Careful!fuseMknod(n, x) => fuseMknod(n, x)
                 /\ Careful!fuseUnlink(n) => fuseUnlink(n)
                 /\ Careful!fuseGetattr(n) => fuseGetattr(n)
                 /\ Careful!fuseChmod(n, x) => fuseChmod(n, x)
                 /\ Careful!fuseChown(n, x) => fuseChown(n, x)
                 /\ Careful!fuseTruncate(n, x) => fuseTruncate(n, x)
                 /\ Careful!fuseRelease(n) => fuseRelease(n)
    /\ \A h, off, size, v : Careful!fuseWrite(h, off, size, v) => fuseWrite(h, off, size, v)
<1>1. (Careful!fuseInit => fuseInit) /\ (Careful!fuseDestroy => fuseDestroy)
      /\ (Careful!Kill => Kill) /\ (Careful!fuseReaddir => fuseReaddir)
  <2>1. Careful!fuseInit => fuseInit
    BY CarefulReturns, CarefulValues DEF fuseInit, Careful!fuseInit
  <2>2. (Careful!fuseDestroy => fuseDestroy) /\ (Careful!Kill => Kill)
    BY CarefulReturns, CarefulValues DEF fuseDestroy, Careful!fuseDestroy, Kill, Careful!Kill
  <2>3. ASSUME Careful!fuseReaddir PROVE fuseReaddir
    <3>1. call' = <<"readdir">> /\ mounted
      BY <2>3 DEF Careful!fuseReaddir
    <3>2. PICK names \in [1..Cardinality(DOMAIN files) -> DOMAIN files] :
              /\ \A i, j \in DOMAIN names : names[i] = names[j] => i = j
              /\ Careful!Reports(names)
      BY <2>3, CarefulValues DEF Careful!fuseReaddir
    <3>3. Reports(names)
      BY <3>2, CarefulReturns
    <3> QED
      BY <3>1, <3>2, <3>3 DEF fuseReaddir
  <2> QED
    BY <2>1, <2>2, <2>3
<1>2. \A n, x : Careful!fuseMknod(n, x) => fuseMknod(n, x)
  BY CarefulReturns, CarefulValues DEF fuseMknod, Careful!fuseMknod
<1>3. \A n : (Careful!fuseUnlink(n) => fuseUnlink(n)) /\ (Careful!fuseGetattr(n) => fuseGetattr(n))
  BY CarefulReturns, CarefulValues DEF fuseUnlink, Careful!fuseUnlink, fuseGetattr,
     Careful!fuseGetattr
<1>4. \A n, x : (Careful!fuseChmod(n, x) => fuseChmod(n, x))
                /\ (Careful!fuseChown(n, x) => fuseChown(n, x))
  BY CarefulReturns, CarefulValues DEF fuseChmod, Careful!fuseChmod, fuseChown, Careful!fuseChown
<1>5. \A n, x : Careful!fuseTruncate(n, x) => fuseTruncate(n, x)
  BY CarefulReturns, CarefulValues DEF fuseTruncate, Careful!fuseTruncate
<1>6. \A n : Careful!fuseRelease(n) => fuseRelease(n)
  BY CarefulReturns, CarefulValues DEF fuseRelease, Careful!fuseRelease
<1>7. \A h, off, size, v : Careful!fuseWrite(h, off, size, v) => fuseWrite(h, off, size, v)
  BY CarefulReturns, CarefulValues DEF fuseWrite, Careful!fuseWrite
<1> QED
  BY <1>1, <1>2, <1>3, <1>4, <1>5, <1>6, <1>7

\* The three handlers that a risk depends on.
LEMMA CarefulRisks ==
    /\ \A p, q : Careful!fuseRename(p, q) => fuseRename(p, q) /\ NoRisk
    /\ \A n : Careful!fuseOpen(n) => fuseOpen(n) /\ NoRisk
    /\ \A h, off, size : Careful!fuseRead(h, off, size) => fuseRead(h, off, size) /\ NoRisk
<1>1. ASSUME NEW p, NEW q, Careful!fuseRename(p, q)
      PROVE  fuseRename(p, q) /\ NoRisk
  BY <1>1, CarefulReturns, CarefulValues DEF fuseRename, Careful!fuseRename, NoRisk, NoReplace
<1>2. ASSUME NEW n, Careful!fuseOpen(n)
      PROVE  fuseOpen(n) /\ NoRisk
  <2>1. fuseOpen(n)
    BY <1>2, CarefulReturns, CarefulValues DEF fuseOpen, Careful!fuseOpen
  <2>2. ret' # "EBADF"
    BY <1>2, CarefulReturns DEF Careful!fuseOpen, Returns, Replies, Completes
  <2> QED
    BY <2>1, <2>2, CallNames DEF NoRisk, NoReplace
<1>3. ASSUME NEW h, NEW off, NEW size, Careful!fuseRead(h, off, size)
      PROVE  fuseRead(h, off, size) /\ NoRisk
  <2>1. fuseRead(h, off, size)
    BY <1>3, CarefulReturns, CarefulValues DEF fuseRead, Careful!fuseRead
  <2>2. Careful!Returns("EEXIST") \/ (\E b : Careful!Reports(b)) \/ Careful!ProcessEnds("SIGSEGV")
    BY <1>3 DEF Careful!fuseRead
  <2>3. ret' # "EIO"
    BY <2>2, CarefulReturns DEF Returns, Reports, ProcessEnds, Replies
  <2> QED
    BY <2>1, <2>3, CallNames DEF NoRisk, NoReplace
<1> QED
  BY <1>1, <1>2, <1>3

\* Careful clients take steps of Next, and none that is a risk.
LEMMA CarefulNext == Careful!Next => Next /\ NoRisk
<1>1. CASE \/ Careful!fuseInit \/ Careful!fuseDestroy \/ Careful!Kill \/ Careful!fuseReaddir
           \/ \E n \in Names \cup LongNames, mode \in Modes : Careful!fuseMknod(n, mode)
           \/ \E n \in Names : Careful!fuseUnlink(n) \/ Careful!fuseGetattr(n)
           \/ \E n \in Names, mode \in Modes : Careful!fuseChmod(n, mode)
           \/ \E n \in Names, uid \in Uids : Careful!fuseChown(n, uid)
           \/ \E h \in Handles : Careful!fuseRelease(h)
           \/ \E h \in Handles, off \in 0..(MaxSize - 1), size \in 1..MaxSize, v \in Bytes :
                 off + size <= MaxSize /\ Careful!fuseWrite(h, off, size, v)
           \/ \E n \in Names, newSize \in 0..MaxSize : Careful!fuseTruncate(n, newSize)
  <2>1. Next
    BY <1>1, CarefulHandlers DEF Next
  <2>2. call'[1] \notin {"rename", "open", "read"}
    BY <1>1, CarefulHandlers, CallNames
  <2> QED
    BY <2>1, <2>2 DEF NoRisk, NoReplace
<1>2. CASE \/ \E p \in Names, q \in Names \cup LongNames : Careful!fuseRename(p, q)
           \/ \E n \in Names : Careful!fuseOpen(n)
           \/ \E h \in Handles, off \in 0..MaxSize, size \in ReadSizes :
                 Careful!fuseRead(h, off, size)
  BY <1>2, CarefulRisks DEF Next
<1> QED
  BY <1>1, <1>2, CarefulValues DEF Careful!Next

\* What the steps of the two kinds of clients do.
LEMMA ClientsStep ==
    /\ [ClientsNext]_<<vars, careful>> => [Next]_vars /\ UNCHANGED careful
    /\ [ClientsNext]_<<vars, careful>> /\ careful => (Next /\ NoRisk) \/ UNCHANGED vars
BY CarefulNext DEF ClientsNext

\* What holds for all clients holds for those of either kind.
LEMMA ClientsInvariant == ClientsSpec => [](MemInv /\ FinitelyMany /\ CarefulAccounted)
<1>1. ClientsInit => MemInv /\ FinitelyMany /\ CarefulAccounted
  BY InitMemInv, FinitelyManyInit DEF ClientsInit, CarefulAccounted
<1>2. ASSUME MemInv, FinitelyMany, CarefulAccounted, [ClientsNext]_<<vars, careful>>
      PROVE  MemInv' /\ FinitelyMany' /\ CarefulAccounted'
  <2>1. MemInv' /\ FinitelyMany'
    BY <1>2, ClientsStep, MemInvInductive, FinitelyManyInductive
  <2>2. CASE careful
    <3>1. (Next /\ NoRisk) \/ UNCHANGED vars
      BY <1>2, <2>2, ClientsStep
    <3>2. DescriptorsAccounted'
      BY <1>2, <2>2, <3>1, NextKeepsInv, StutterKeepsInv DEF CarefulAccounted, NoRisk, KeepsInv
    <3> QED
      BY <2>1, <3>2 DEF CarefulAccounted
  <2>3. CASE ~careful
    BY <1>2, <2>1, <2>3, ClientsStep DEF CarefulAccounted
  <2> QED
    BY <2>2, <2>3
<1> QED
  BY <1>1, <1>2, PTL DEF ClientsSpec

(***************************************************************************)
(* Flags and count are those of the files the clients hold open, for       *)
(* clients that make none of the RiskyCalls; for any, ClientsInvariant     *)
(* says what is left of it.                                                *)
(***************************************************************************)
THEOREM CarefulClientsAccounted == ClientsSpec => []CarefulAccounted
<1> QED
  BY ClientsInvariant, PTL

(***************************************************************************)
(* Among clients of both kinds, the steps of the careful ones are steps of *)
(* FileStore, if they run as user 0.                                       *)
(***************************************************************************)
THEOREM CarefulClientsStore ==
    ASSUME Uids = {0}
    PROVE  ClientsSpec => CarefulStore
<1>1. ClientsInit => Store!Init
  BY InitStore DEF ClientsInit
<1>2. ASSUME MemInv, FinitelyMany, CarefulAccounted, [ClientsNext]_<<vars, careful>>
      PROVE  [careful => Store!Next]_<<vars, careful>>
  <2>1. CASE ~careful
    BY <2>1
  <2>2. CASE careful
    <3>1. (Next /\ NoRisk) \/ UNCHANGED <<vars, careful>>
      BY <1>2, <2>2, ClientsStep
    <3> QED
      BY <1>2, <2>2, <3>1, StoreStep DEF CarefulAccounted
  <2> QED
    BY <2>1, <2>2
<1> QED
  BY <1>1, <1>2, ClientsInvariant, PTL DEF ClientsSpec, CarefulStore
=============================================================================
