---------------------------- MODULE MCMyOnDiskFS ----------------------------
(***************************************************************************)
(* Instances of MyOnDiskFS for TLC, and the view under which it explores   *)
(* them.                                                                   *)
(***************************************************************************)
EXTENDS MyOnDiskFSRefinement

CONSTANTS a, b, c,   \* file names
          long       \* a name that is too long

\* The slots that have a name, in memory and on disc, and whether it is a name
\* that the file system accepts.  No two names that are in use have the same.
Marks(n) == <<Named(rootFiles, n), Named(rootDisc, n), n \in Names>>

Unnamed(dir) ==
    [s \in Slots |-> IF dir[s] = NULL THEN NULL
                     ELSE [dir[s] EXCEPT !.name = Marks(@)]]

(***************************************************************************)
(* States are one under this view if they differ by a permutation of the   *)
(* names, or in the last call and its result.  Neither changes what can    *)
(* follow, but for the end after undefined behaviour, and no property of   *)
(* the runs that use the view tells such states apart: those that look at  *)
(* a call are properties of steps, and TLC checks every step.              *)
(***************************************************************************)
View == <<container, mounted, ret = "undefined",
          Unnamed(rootFiles), Unnamed(rootDisc),
          fatArray, fatDisc, dmapArray, dmapDisc, blockData,
          openFiles, openCount,
          [h \in Handles |-> IF handles[h] = NULL THEN NULL ELSE Marks(handles[h])]>>
=============================================================================
