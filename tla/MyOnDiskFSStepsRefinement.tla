--------------------- MODULE MyOnDiskFSStepsRefinement ---------------------
(***************************************************************************)
(* What the handlers do step by step, seen from outside: the steps of a    *)
(* handler stutter, but for the last one, which has the effect of the      *)
(* whole handler.  The history variable before keeps the state in which    *)
(* the handler that runs has been called.                                  *)
(***************************************************************************)
EXTENDS MyOnDiskFSSteps

VARIABLE before

StateNow ==
    [container |-> container, mounted |-> mounted, rootFiles |-> rootFiles,
     rootDisc |-> rootDisc, fatArray |-> fatArray, fatDisc |-> fatDisc,
     dmapArray |-> dmapArray, dmapDisc |-> dmapDisc, blockData |-> blockData,
     openFiles |-> openFiles, openCount |-> openCount, handles |-> handles,
     call |-> call, ret |-> ret, buf |-> buf]

History ==
    before' = IF run' = NULL THEN NULL ELSE IF run = NULL THEN StateNow ELSE before

HistoryInit == StepsInit /\ before = NULL

HistoryNext == StepsNext /\ History

HistorySpec ==
    /\ HistoryInit
    /\ [][HistoryNext]_<<stepVars, before>>
    /\ WF_stepVars(HandlerStep)

Seen == IF run = NULL THEN StateNow ELSE before

\* MyOnDiskFS and its files, as seen from outside.
R == INSTANCE MyOnDiskFSRefinement WITH
    container <- Seen.container, mounted <- Seen.mounted,
    rootFiles <- Seen.rootFiles, rootDisc <- Seen.rootDisc,
    fatArray <- Seen.fatArray, fatDisc <- Seen.fatDisc,
    dmapArray <- Seen.dmapArray, dmapDisc <- Seen.dmapDisc,
    blockData <- Seen.blockData, openFiles <- Seen.openFiles,
    openCount <- Seen.openCount, handles <- Seen.handles,
    call <- Seen.call, ret <- Seen.ret, buf <- Seen.buf

(***************************************************************************)
(* As long as no kill hits a handler and the device does not fail, the     *)
(* loops of the code amount to the actions of MyOnDiskFS: allocation,      *)
(* linking, freeing, the window that is copied to the map, and the         *)
(* arithmetic of the copied bytes.                                         *)
(***************************************************************************)
ImplementsAtomicHandlers == R!Spec

Store == INSTANCE FileStore WITH
    files <- R!StoredFiles, handles <- Seen.handles,
    call <- Seen.call, ret <- R!Reply, buf <- Seen.buf,
    Durable <- TRUE, Torn <- TRUE

(***************************************************************************)
(* A kill at any point within fuseWrite costs no more than the write: the  *)
(* entry is stored last, so the file keeps its size and its other bytes,   *)
(* and no other file changes, then or after the next mount.  For clients   *)
(* that make none of the RiskyCalls but "fill".                            *)
(***************************************************************************)
ImplementsTornStore == Store!Spec
=============================================================================
