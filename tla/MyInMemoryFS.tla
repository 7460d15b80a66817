---------------------------- MODULE MyInMemoryFS ----------------------------
(***************************************************************************)
(* The in-memory file system (src/myinmemoryfs.cpp): the FUSE handlers     *)
(* over a map from names to files.  All handlers find a file by its path;  *)
(* whether it is open is a flag of the file, and openCount counts.         *)
(*                                                                         *)
(* Handlers run one at a time ("-s"): a handler is one action.             *)
(***************************************************************************)
EXTENDS Fuse, FiniteSets

CONSTANT Workload   \* which of the RiskyCalls the clients make

\* "replace": rename onto an existing name; "reopen": open a file twice.
RiskyCalls == {"replace", "reopen"}

ASSUME InMemoryAssumption == Workload \subseteq RiskyCalls

VARIABLES
    mounted,     \* the process runs and fuseInit has been called
    files,       \* a function from the names of the files to the files
    openCount

vars == <<mounted, files, openCount, handles, call, ret, buf>>

\* The field size of the code is the length of data.
FileInfo == [data : UNION {[1..k -> Bytes] : k \in 0..MaxSize},
             used : BOOLEAN, mode : Modes, uid : Uids]

TypeOK ==
    /\ mounted \in BOOLEAN
    /\ DOMAIN files \subseteq Names
    /\ files \in [DOMAIN files -> FileInfo]
    /\ openCount \in Int
    /\ FuseTypeOK

NoFiles == [n \in {} |-> <<>>]

Init ==
    /\ mounted = FALSE
    /\ files = NoFiles
    /\ openCount = 0
    /\ FuseInit

Exists(n) == n \in DOMAIN files

\* A handler changes nothing and returns r.
Returns(r) == Replies(r) /\ UNCHANGED <<mounted, files, openCount, handles>>

\* A handler changes nothing and returns the bytes, names or attributes b.
Reports(b) ==
    /\ buf' = b
    /\ ret' = "ok"
    /\ UNCHANGED <<mounted, files, openCount, handles>>

\* A handler changes files, and nothing else but what its caller says.
Completes == Replies("ok") /\ UNCHANGED mounted

\* A handler changes the file n, which exists.
UpdateFile(n, f) ==
    /\ files' = [files EXCEPT ![n] = f]
    /\ Completes
    /\ UNCHANGED <<openCount, handles>>

\* With the process all files are gone.
ProcessEnds(r) ==
    /\ mounted' = FALSE
    /\ files' = NoFiles
    /\ openCount' = 0
    /\ handles' = [h \in Handles |-> NULL]
    /\ Replies(r)

-----------------------------------------------------------------------------
fuseInit ==
    /\ call' = <<"init">>
    /\ ~mounted
    /\ mounted' = TRUE
    /\ openCount' = 0
    /\ Replies("ok")
    /\ UNCHANGED <<files, handles>>

\* A file system is unmounted when no file is open.
fuseDestroy ==
    /\ call' = <<"destroy">>
    /\ mounted
    /\ \A h \in Handles : handles[h] = NULL
    /\ ProcessEnds("ok")

\* The process is killed between two handlers.
Kill ==
    /\ call' = <<"kill">>
    /\ mounted
    /\ ProcessEnds("killed")

-----------------------------------------------------------------------------
(* The directory.                                                          *)

NewFile(mode) == [data |-> <<>>, used |-> FALSE, mode |-> mode, uid |-> MountUser]

\* Mutant: the check of the length of a name is missing.
AcceptsLongName(n) == FALSE

\* The length of the name exceeds NAME_LENGTH.
NameTooLong(n) == n \in LongNames

fuseMknod(n, mode) ==
    /\ call' = <<"mknod", n, mode>>
    /\ mounted
    /\ \/ Exists(n) /\ Returns("EEXIST")
       \/ ~Exists(n) /\ NameTooLong(n) /\ Returns("EINVAL")
       \/ /\ ~Exists(n) /\ ~NameTooLong(n)
          /\ files' = [m \in DOMAIN files \cup {n} |->
                          IF m = n THEN NewFile(mode) ELSE files[m]]
          /\ Completes
          /\ UNCHANGED <<openCount, handles>>

fuseUnlink(n) ==
    /\ call' = <<"unlink", n>>
    /\ mounted
    /\ ~IsOpen(n)
    /\ \/ ~Exists(n) /\ Returns("ENOENT")
       \/ /\ Exists(n)
          /\ files' = [m \in DOMAIN files \ {n} |-> files[m]]
          /\ Completes
          /\ UNCHANGED <<openCount, handles>>

\* Mutant: the entry is erased and not inserted again.
Erased(p, q) == [m \in DOMAIN files \ {p} |-> files[m]]

\* The entry of p is erased; then map::insert adds it under q, which it only
\* does if there is no entry with that name.
Moved(p, q) ==
    [m \in (DOMAIN files \ {p}) \cup {q} |-> IF Exists(m) THEN files[m] ELSE files[p]]

fuseRename(p, q) ==
    /\ call' = <<"rename", p, q>>
    /\ mounted
    /\ p # q /\ ~IsOpen(q)
    /\ "replace" \in Workload \/ ~Exists(q)
    /\ \/ NameTooLong(q) /\ Returns("EINVAL")
       \/ ~NameTooLong(q) /\ ~Exists(p) /\ Returns("ENOENT")
       \/ /\ ~NameTooLong(q) /\ Exists(p)
          /\ files' = Moved(p, q)
          /\ handles' = Renamed(p, q)
          /\ Completes
          /\ UNCHANGED openCount

\* st_uid is left as libfuse passes it: zero.
fuseGetattr(n) ==
    /\ call' = <<"getattr", n>>
    /\ mounted
    /\ \/ ~Exists(n) /\ Returns("ENOENT")
       \/ Exists(n) /\ Reports(<<Len(files[n].data), files[n].mode, 0>>)

fuseChmod(n, mode) ==
    /\ call' = <<"chmod", n, mode>>
    /\ mounted
    /\ \/ ~Exists(n) /\ Returns("ENONET")
       \/ Exists(n) /\ UpdateFile(n, [files[n] EXCEPT !.mode = mode])

fuseChown(n, uid) ==
    /\ call' = <<"chown", n, uid>>
    /\ mounted
    /\ \/ ~Exists(n) /\ Returns("ENONET")
       \/ Exists(n) /\ UpdateFile(n, [files[n] EXCEPT !.uid = uid])

\* The names in the order of the map.
fuseReaddir ==
    /\ call' = <<"readdir">>
    /\ mounted
    /\ \E names \in [1..Cardinality(DOMAIN files) -> DOMAIN files] :
          /\ \A i, j \in DOMAIN names : names[i] = names[j] => i = j
          /\ Reports(names)

-----------------------------------------------------------------------------
(* Open files.                                                             *)

\* Mutant: one file too many can be opened.
LimitPassed == openCount > NUM_OPEN_FILES

LimitReached == openCount >= NUM_OPEN_FILES

\* libfuse takes any handle that is free.
fuseOpen(n) ==
    /\ call' = <<"open", n>>
    /\ mounted
    /\ \/ ~Exists(n) /\ Returns("ENOENT")
       \/ /\ Exists(n) /\ files[n].used
          /\ "reopen" \in Workload
          /\ Returns("EBADF")
       \/ Exists(n) /\ ~files[n].used /\ LimitReached /\ Returns("EMFILE")
       \/ /\ Exists(n) /\ ~files[n].used /\ ~LimitReached
          /\ files' = [files EXCEPT ![n].used = TRUE]
          /\ openCount' = openCount + 1
          /\ \E h \in Handles :
                /\ handles[h] = NULL /\ \A g \in Handles : g < h => handles[g] # NULL
                /\ handles' = [handles EXCEPT ![h] = n]
          /\ Completes

\* Mutant: the file stays marked as used.
CloseMarked(n) ==
    /\ openCount' = openCount - 1
    /\ UNCHANGED files

\* Mutant: the file is still counted.
CloseUncounted(n) ==
    /\ files' = [files EXCEPT ![n].used = FALSE]
    /\ UNCHANGED openCount

CloseFile(n) ==
    /\ files' = [files EXCEPT ![n].used = FALSE]
    /\ openCount' = openCount - 1

\* libfuse ignores the result: the handle is closed in any case.
fuseRelease(h) ==
    /\ call' = <<"release", h>>
    /\ mounted
    /\ handles[h] # NULL
    /\ handles' = [handles EXCEPT ![h] = NULL]
    /\ UNCHANGED mounted
    /\ LET n == handles[h] IN
       \/ ~Exists(n) /\ Replies("ENOENT") /\ UNCHANGED <<files, openCount>>
       \/ Exists(n) /\ ~files[n].used /\ Replies("EBADF") /\ UNCHANGED <<files, openCount>>
       \/ Exists(n) /\ files[n].used /\ CloseFile(n) /\ Replies("ok")

(***************************************************************************)
(* Only the start of a read is compared with the size: size bytes are      *)
(* copied in any case, those behind the end of the file from whatever      *)
(* follows it on the heap, if that can be read.  The kernel does not ask   *)
(* for bytes behind the end of the file it means, which is not the one the *)
(* path leads to after a rename onto an existing name ("replace").         *)
(***************************************************************************)
fuseRead(h, off, size) ==
    /\ call' = <<"read", h, off, size>>
    /\ mounted
    /\ handles[h] # NULL
    /\ LET n == handles[h] IN
       \/ ~Exists(n) /\ Returns("EEXIST")
       \/ Exists(n) /\ ~files[n].used /\ Reports(<<>>)
       \/ /\ Exists(n) /\ files[n].used
          /\ LET data == files[n].data IN
             \/ /\ off <= Len(data)
                /\ \E bytes \in [1..size -> Bytes] :
                      /\ \A i \in 1..size : off + i <= Len(data) => bytes[i] = data[off + i]
                      /\ Reports(bytes)
             \/ off <= Len(data) /\ off + size > Len(data) /\ ProcessEnds("SIGSEGV")
             \/ off > Len(data) /\ "replace" \in Workload /\ Returns("EIO")

-----------------------------------------------------------------------------
(* Writing and truncating.                                                 *)

\* realloc: what fits is kept, new bytes are arbitrary.
Resized(data, size) ==
    {d \in [1..size -> Bytes] : \A i \in 1..size : i <= Len(data) => d[i] = data[i]}

\* memcpy of size bytes v behind the first off bytes.
Overwritten(data, off, size, v) ==
    [i \in 1..Len(data) |-> IF off < i /\ i <= off + size THEN v ELSE data[i]]

\* Mutant: the file gets the size of the write, without its offset.
SizeWithoutOffset(old, off, size) == IF size + off > old THEN size ELSE old

\* The size fuseWrite gives the file: through fuseTruncate if it grows.
SizeNeeded(old, off, size) == IF size + off > old THEN size + off ELSE old

fuseWrite(h, off, size, v) ==
    /\ call' = <<"write", h, off, size, v>>
    /\ mounted
    /\ handles[h] # NULL
    /\ LET n == handles[h] IN
       \/ ~Exists(n) /\ Returns("ENOENT")
       \/ Exists(n) /\ ~files[n].used /\ Returns("EBADF")
       \/ /\ Exists(n) /\ files[n].used
          /\ \E d \in Resized(files[n].data, SizeNeeded(Len(files[n].data), off, size)) :
                UpdateFile(n, [files[n] EXCEPT !.data = Overwritten(d, off, size, v)])

\* Both fuseTruncate handlers find the file by its path.
fuseTruncate(n, newSize) ==
    /\ call' = <<"truncate", n, newSize>>
    /\ mounted
    /\ \/ ~Exists(n) /\ Returns("ENOENT")
       \/ /\ Exists(n)
          /\ \E d \in Resized(files[n].data, newSize) :
                UpdateFile(n, [files[n] EXCEPT !.data = d])

-----------------------------------------------------------------------------
Next ==
    \/ fuseInit
    \/ fuseDestroy
    \/ Kill
    \/ \E n \in Names \cup LongNames, mode \in Modes : fuseMknod(n, mode)
    \/ \E n \in Names : fuseUnlink(n)
    \/ \E p \in Names, q \in Names \cup LongNames : fuseRename(p, q)
    \/ \E n \in Names : fuseGetattr(n)
    \/ \E n \in Names, mode \in Modes : fuseChmod(n, mode)
    \/ \E n \in Names, uid \in Uids : fuseChown(n, uid)
    \/ fuseReaddir
    \/ \E n \in Names : fuseOpen(n)
    \/ \E h \in Handles : fuseRelease(h)
    \/ \E h \in Handles, off \in 0..MaxSize, size \in ReadSizes : fuseRead(h, off, size)
    \/ \E h \in Handles, off \in 0..(MaxSize - 1), size \in 1..MaxSize, v \in Bytes :
          off + size <= MaxSize /\ fuseWrite(h, off, size, v)
    \/ \E n \in Names, newSize \in 0..MaxSize : fuseTruncate(n, newSize)

Spec == Init /\ [][Next]_vars
-----------------------------------------------------------------------------
(* Properties that hold whatever the clients do.                           *)

OpenHandles == {h \in Handles : handles[h] # NULL}

\* The path libfuse keeps for an open file always leads to some file.
OpenPathsExist == \A h \in OpenHandles : Exists(handles[h])

(***************************************************************************)
(* No more files are open than fuseOpen allows, although releases that     *)
(* fail, after a rename onto an existing name has lost the flag of an open *)
(* file, count nothing down: openCount errs on one side only.              *)
(***************************************************************************)
LimitUpheld ==
    /\ Cardinality(OpenHandles) <= openCount
    /\ openCount <= NUM_OPEN_FILES

(***************************************************************************)
(* A file that no client has open is not marked as used, so fuseOpen does  *)
(* not refuse it for ever: the flag moves with a renamed file, and goes    *)
(* with the last handle.                                                   *)
(***************************************************************************)
UsedFilesOpen == \A n \in DOMAIN files : files[n].used => IsOpen(n)

-----------------------------------------------------------------------------
(* Properties of clients that avoid "replace".                             *)

\* Exactly the files that are open are marked, none is open twice, and
\* openCount counts them: none leaks over renames, removals and failed calls.
DescriptorsAccounted ==
    /\ \A h \in OpenHandles : files[handles[h]].used
    /\ \A g, h \in OpenHandles : handles[g] = handles[h] => g = h
    /\ openCount = Cardinality(OpenHandles)

-----------------------------------------------------------------------------
(* What comments in the code say of one call, and the code does not do.    *)

(***************************************************************************)
(* fuseRename: a file with the new name "is replaced (i.e., removed before *)
(* renaming the file": the new name leads to the file that was renamed.    *)
(***************************************************************************)
RenameReplaces ==
    [][call'[1] = "rename" /\ ret' = "ok" => files'[call'[3]] = files[call'[2]]]_vars

(***************************************************************************)
(* fuseRead: the result "may be less than size if the file does not        *)
(* contain sufficient bytes"; it is not more than the file contains.       *)
(***************************************************************************)
ReadWithinFile ==
    call[1] = "read" /\ ret = "ok" =>
        Len(buf) <= Len(files[handles[call[2]]].data) - call[3]

\* fuseGetattr: "Get the metadata of a file (user & group id, ...)".
ReportsOwner ==
    call[1] = "getattr" /\ ret = "ok" => buf[3] = files[call[2]].uid
=============================================================================
