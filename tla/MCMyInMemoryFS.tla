--------------------------- MODULE MCMyInMemoryFS ---------------------------
(***************************************************************************)
(* Instances of MyInMemoryFS for TLC, and the view under which it explores *)
(* them.                                                                   *)
(***************************************************************************)
EXTENDS MyInMemoryFSClients, TLC

CONSTANTS a, b, c,   \* file names
          long       \* a name that is too long

\* Names are interchangeable.
Symmetry == Permutations(Names)

\* The last call and its result change nothing of what can follow; the
\* properties of the run look at them on steps only.
View == <<mounted, files, openCount, handles, careful>>
=============================================================================
