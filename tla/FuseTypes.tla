----------------------------- MODULE FuseTypes -----------------------------
(***************************************************************************)
(* The values that calls of the file system carry.                         *)
(***************************************************************************)
EXTENDS Integers

CONSTANTS
    Names,        \* file names the file system accepts
    LongNames,    \* names that exceed NAME_LENGTH
    Modes,        \* permissions; DefaultMode is S_IFREG | 0644
    DefaultMode,
    Uids,         \* user ids; MountUser is the user that mounted the volume
    MountUser,
    Bytes,        \* contents of a byte; 0 is what an unwritten byte reads as
    MaxSize,      \* bound on the size of a file
    ReadSizes,    \* how many bytes the kernel asks for in a read
    NULL          \* a null pointer; no file name

ASSUME FuseAssumption ==
    /\ Names \cap LongNames = {}
    /\ NULL \notin Names
    /\ DefaultMode \in Modes
    /\ MountUser \in Uids
    /\ 0 \in Bytes
    /\ MaxSize \in Nat
    /\ ReadSizes \subseteq Nat \ {0}
=============================================================================
