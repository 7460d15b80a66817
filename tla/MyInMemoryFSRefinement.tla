----------------------- MODULE MyInMemoryFSRefinement -----------------------
(***************************************************************************)
(* MyInMemoryFS implements FileStore, for clients that make none of the    *)
(* RiskyCalls and that run as user 0, the owner fuseGetattr reports.       *)
(***************************************************************************)
EXTENDS MyInMemoryFS

StoredFiles ==
    [n \in DOMAIN files |->
        [bytes |-> files[n].data, mode |-> files[n].mode, uid |-> files[n].uid]]

\* The kernel passes on no more bytes of a read than the file has.
PassedOn ==
    IF call[1] = "read" /\ ret = "ok"
    THEN LET left == Len(files[handles[call[2]]].data) - call[3]
         IN  SubSeq(buf, 1, IF Len(buf) > left THEN left ELSE Len(buf))
    ELSE buf

\* The outcomes a client of FileStore tells apart.
Reply ==
    CASE ret \in {"ENOENT", "ENONET"}    -> "ENOENT"
      [] ret \in {"EINVAL", "EMFILE"}    -> "limit"
      [] ret \in {"SIGSEGV", "killed"}   -> "dead"
      [] OTHER                           -> ret

Store == INSTANCE FileStore WITH files <- StoredFiles, ret <- Reply, buf <- PassedOn,
                                Durable <- FALSE, Torn <- FALSE

(***************************************************************************)
(* Each handler has the effect its comment promises on the files and on no *)
(* other file, reads and attributes say what was written, a call that      *)
(* fails changes nothing, and the files last until the process ends.       *)
(***************************************************************************)
ImplementsFileStore == Store!Spec
=============================================================================
