-------------------------------- MODULE Fuse --------------------------------
(***************************************************************************)
(* What libfuse, which calls the handlers, keeps and sees: the path of     *)
(* each open file and the last call with its result.  External: libfuse is *)
(* not part of the repository.  mount.myfs passes it "-s", so there is one *)
(* call at a time, and does not pass it "hard_remove".                     *)
(***************************************************************************)
EXTENDS MyFSStructs, FuseTypes, Sequences

VARIABLES
    handles,     \* the path libfuse passes with file handle h; NULL: not open
    call,        \* the last call, with its arguments
    ret,         \* how it ended
    buf          \* the bytes or names it returned

Errors == {"EEXIST", "EINVAL", "ENOENT", "EMFILE", "EBADF", "ENFILE", "ENONET", "EIO", "wrapped"}
Outcomes == {"ok"} \cup Errors \cup {"SIGSEGV", "killed", "undefined"}

FuseTypeOK ==
    /\ handles \in [Handles -> Names \cup {NULL}]
    /\ ret \in Outcomes

FuseInit ==
    /\ handles = [h \in Handles |-> NULL]
    /\ call = <<"none">>
    /\ ret = "ok"
    /\ buf = <<>>

(***************************************************************************)
(* libfuse does not pass on the removal of a file that is open, nor lets a *)
(* rename replace it: it renames the open file to a free name first.       *)
(***************************************************************************)
IsOpen(n) == \E h \in Handles : handles[h] = n

\* After a rename the handles of the old path are used with the new one.
Renamed(p, q) == [h \in Handles |-> IF handles[h] = p THEN q ELSE handles[h]]

\* A call returns r and no bytes.
Replies(r) == ret' = r /\ buf' = <<>>
=============================================================================
