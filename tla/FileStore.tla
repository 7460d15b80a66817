----------------------------- MODULE FileStore -----------------------------
(***************************************************************************)
(* What the file system promises its clients: a flat directory of named    *)
(* byte sequences and a table of open files.  The promises are those of    *)
(* the comments above the handlers in src/myfs.cpp, myinmemoryfs.cpp and   *)
(* myondiskfs.cpp; how names, blocks and tables are kept is left out.      *)
(*                                                                         *)
(* A call succeeds with the effect below, or fails for a reason and        *)
(* changes no file.                                                        *)
(***************************************************************************)
EXTENDS Integers, Sequences

CONSTANTS
    Names, LongNames, Modes, Uids, MountUser, Handles, Bytes, ReadSizes, MaxSize, NULL,
    Durable,  \* files outlive the process
    Torn      \* the process may end inside a write

VARIABLES
    files,    \* the files: a function from their names to their bytes and attributes
    handles,  \* the name of the file that is open under a handle, or NULL
    call,     \* the last call, with its arguments
    ret,      \* how it ended
    buf       \* the bytes, names or attributes it returned

vars == <<files, handles, call, ret, buf>>

NoFiles == [n \in {} |-> <<>>]

Init ==
    /\ files = NoFiles
    /\ handles = [h \in Handles |-> NULL]
    /\ call = <<"none">>
    /\ ret = "ok"
    /\ buf = <<>>

Succeeds(c) == call' = c /\ ret' = "ok" /\ buf' = <<>>
Fails(c, r) == call' = c /\ ret' = r /\ buf' = <<>> /\ UNCHANGED <<files, handles>>

Exists(n) == n \in DOMAIN files

-----------------------------------------------------------------------------
\* "Create a new file with given name and permissions."
Create(n, mode) ==
    \/ /\ Succeeds(<<"mknod", n, mode>>)
       /\ n \in Names /\ ~Exists(n)
       /\ files' = [m \in DOMAIN files \cup {n} |->
                       IF m = n THEN [bytes |-> <<>>, mode |-> mode, uid |-> MountUser]
                                ELSE files[m]]
       /\ UNCHANGED handles
    \/ Fails(<<"mknod", n, mode>>, "EEXIST") /\ Exists(n)
    \/ Fails(<<"mknod", n, mode>>, "limit") /\ ~Exists(n)

Remove(n) ==
    \/ /\ Succeeds(<<"unlink", n>>)
       /\ Exists(n) /\ \A h \in Handles : handles[h] # n
       /\ files' = [m \in DOMAIN files \ {n} |-> files[m]]
       /\ UNCHANGED handles
    \/ Fails(<<"unlink", n>>, "ENOENT") /\ ~Exists(n)

\* An existing file with the new name is replaced; files stay open.
Rename(p, q) ==
    \/ /\ Succeeds(<<"rename", p, q>>)
       /\ Exists(p) /\ q \in Names
       /\ files' = [m \in (DOMAIN files \ {p}) \cup {q} |->
                       IF m = q THEN files[p] ELSE files[m]]
       /\ handles' = [h \in Handles |-> IF handles[h] = p THEN q ELSE handles[h]]
    \/ Fails(<<"rename", p, q>>, "ENOENT") /\ ~Exists(p)
    \/ Fails(<<"rename", p, q>>, "limit") /\ q \in LongNames

Open(n) ==
    \/ /\ Succeeds(<<"open", n>>)
       /\ Exists(n)
       /\ \E h \in Handles : handles[h] = NULL /\ handles' = [handles EXCEPT ![h] = n]
       /\ UNCHANGED files
    \/ Fails(<<"open", n>>, "ENOENT") /\ ~Exists(n)
    \/ Fails(<<"open", n>>, "limit") /\ \A h \in Handles : handles[h] # NULL

Release(h) ==
    /\ Succeeds(<<"release", h>>)
    /\ handles[h] # NULL
    /\ handles' = [handles EXCEPT ![h] = NULL]
    /\ UNCHANGED files

\* The bytes from position off on, at most size of them.
Read(h, off, size) ==
    /\ call' = <<"read", h, off, size>> /\ ret' = "ok"
    /\ handles[h] # NULL
    /\ LET bytes == files[handles[h]].bytes
           end == IF off + size > Len(bytes) THEN Len(bytes) ELSE off + size
       IN  buf' = SubSeq(bytes, off + 1, end)
    /\ UNCHANGED <<files, handles>>

\* The file n gets the length size, the positions in changed may get new bytes,
\* and nothing else changes.
Update(n, size, changed) ==
    /\ DOMAIN files' = DOMAIN files
    /\ \A m \in DOMAIN files \ {n} : files'[m] = files[m]
    /\ files'[n].mode = files[n].mode /\ files'[n].uid = files[n].uid
    /\ Len(files'[n].bytes) = size
    /\ \A i \in 1..size :
          i <= Len(files[n].bytes) /\ i \notin changed =>
              files'[n].bytes[i] = files[n].bytes[i]

\* The bytes between the old end of the file and off may be anything.
Write(h, off, size, v) ==
    /\ Succeeds(<<"write", h, off, size, v>>)
    /\ handles[h] # NULL
    /\ LET n == handles[h]
           end == off + size
           len == Len(files[n].bytes)
       IN  /\ Update(n, IF end > len THEN end ELSE len, off + 1..end)
           /\ \A i \in off + 1..end : files'[n].bytes[i] = v
    /\ UNCHANGED handles

\* "If the new size is larger than the old size, the new bytes may be random."
Truncate(n, size) ==
    \/ /\ Succeeds(<<"truncate", n, size>>)
       /\ Exists(n)
       /\ Update(n, size, {})
       /\ UNCHANGED handles
    \/ Fails(<<"truncate", n, size>>, "ENOENT") /\ ~Exists(n)

\* The size, the permissions and the owner.
Getattr(n) ==
    \/ /\ Exists(n)
       /\ call' = <<"getattr", n>> /\ ret' = "ok"
       /\ buf' = <<Len(files[n].bytes), files[n].mode, files[n].uid>>
       /\ UNCHANGED <<files, handles>>
    \/ Fails(<<"getattr", n>>, "ENOENT") /\ ~Exists(n)

Chmod(n, mode) ==
    \/ /\ Succeeds(<<"chmod", n, mode>>)
       /\ Exists(n) /\ files' = [files EXCEPT ![n].mode = mode]
       /\ UNCHANGED handles
    \/ Fails(<<"chmod", n, mode>>, "ENOENT") /\ ~Exists(n)

Chown(n, uid) ==
    \/ /\ Succeeds(<<"chown", n, uid>>)
       /\ Exists(n) /\ files' = [files EXCEPT ![n].uid = uid]
       /\ UNCHANGED handles
    \/ Fails(<<"chown", n, uid>>, "ENOENT") /\ ~Exists(n)

\* Every name once, in any order.
Readdir ==
    /\ call' = <<"readdir">> /\ ret' = "ok"
    /\ {buf'[i] : i \in 1..Len(buf')} = DOMAIN files
    /\ \A i, j \in 1..Len(buf') : buf'[i] = buf'[j] => i = j
    /\ UNCHANGED <<files, handles>>

-----------------------------------------------------------------------------
\* What is left of the files when the process has ended.
FilesLeft == files' = IF Durable THEN files ELSE NoFiles

\* Mounting, and unmounting when no file is open.
Mount == Succeeds(<<"init">>) /\ UNCHANGED <<files, handles>>

Unmount == Succeeds(<<"destroy">>) /\ FilesLeft /\ UNCHANGED handles

Dies ==
    /\ ret' = "dead" /\ buf' = <<>>
    /\ handles' = [h \in Handles |-> NULL]

\* The process ends at any time, in a call or between two; no file is lost.
Crash == Dies /\ FilesLeft

\* The process ends inside a write: some of the bytes may have been written, but
\* the size is still what it was.
TornWrite(h, off, size, v) ==
    /\ Torn
    /\ Dies
    /\ handles[h] # NULL
    /\ LET n == handles[h]
           old == files[n].bytes
       IN  /\ Update(n, Len(old), off + 1..off + size)
           /\ \A i \in DOMAIN old : files'[n].bytes[i] \in {old[i], v}

Next ==
    \/ Mount \/ Unmount \/ Crash \/ Readdir
    \/ \E n \in Names \cup LongNames, mode \in Modes : Create(n, mode)
    \/ \E n \in Names : Remove(n) \/ Open(n) \/ Getattr(n)
    \/ \E n \in Names, mode \in Modes : Chmod(n, mode)
    \/ \E n \in Names, uid \in Uids : Chown(n, uid)
    \/ \E p \in Names, q \in Names \cup LongNames : Rename(p, q)
    \/ \E h \in Handles : Release(h)
    \/ \E h \in Handles, off \in 0..MaxSize, size \in ReadSizes : Read(h, off, size)
    \/ \E n \in Names, size \in 0..MaxSize : Truncate(n, size)
    \/ \E h \in Handles, off \in 0..(MaxSize - 1), size \in 1..MaxSize, v \in Bytes :
          off + size <= MaxSize /\ (Write(h, off, size, v) \/ TornWrite(h, off, size, v))

Spec == Init /\ [][Next]_vars
=============================================================================
