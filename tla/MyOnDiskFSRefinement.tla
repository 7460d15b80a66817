------------------------ MODULE MyOnDiskFSRefinement ------------------------
(***************************************************************************)
(* MyOnDiskFS implements FileStore, for clients that keep to a Workload    *)
(* without "replace", "grow", "straddle" and "shrink".                     *)
(***************************************************************************)
EXTENDS MyOnDiskFS

\* The directory and the table that count: those in memory while the file
\* system is mounted, those a mount would read while it is not.
entries == IF mounted THEN rootFiles ELSE rootDisc
table   == IF mounted THEN fatArray ELSE fatDisc

\* The bytes of an entry, read along its chain, and its attributes.
Content(f) ==
    [bytes |-> [i \in 1..f.st_size |-> ByteAt(table, f.firstBlock, i - 1)],
     mode  |-> f.st_mode,
     uid   |-> f.st_uid]

\* The files, by name; of two entries with one name, the one paths resolve to.
StoredFiles ==
    [n \in {m \in Names : Named(entries, m) # {}} |->
        Content(entries[CHOOSE s \in getRootEntryFile(entries, n) : TRUE])]

\* The outcomes a client of FileStore tells apart.
Reply ==
    CASE ret \in {"ENOENT", "ENFILE"}               -> "ENOENT"
      [] ret \in {"EINVAL", "EMFILE"}               -> "limit"
      [] ret \in {"SIGSEGV", "killed", "undefined"} -> "dead"
      [] OTHER                                      -> ret

Store == INSTANCE FileStore WITH files <- StoredFiles, ret <- Reply,
                                Durable <- TRUE, Torn <- FALSE

(***************************************************************************)
(* Each handler has the effect its comment promises on the files, seen     *)
(* through names, chains and blocks, and no effect on any other file; a    *)
(* call that fails changes none; an unmount, a kill, and a crash for want  *)
(* of blocks lose none.                                                    *)
(***************************************************************************)
ImplementsFileStore == Store!Spec

(***************************************************************************)
(* fuseWrite: "Write a given number of bytes to a file starting at a given *)
(* position."  No other file changes, so several files can be written in   *)
(* turns, as test T-1.09 does.                                             *)
(***************************************************************************)
WritesOwnFile ==
    [][call'[1] = "write" /\ ret' = "ok" =>
          \A n \in DOMAIN StoredFiles : n # handles[call'[2]] => StoredFiles'[n] = StoredFiles[n]]_vars

(***************************************************************************)
(* fuseMknod: "Create a new file with given name and permissions."         *)
(***************************************************************************)
CreatesWithPermissions ==
    [][call'[1] = "mknod" /\ ret' = "ok" => StoredFiles'[call'[2]].mode = call'[3]]_vars
=============================================================================
