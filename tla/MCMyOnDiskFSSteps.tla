------------------------- MODULE MCMyOnDiskFSSteps -------------------------
(***************************************************************************)
(* Instances of MyOnDiskFSSteps for TLC, with the history variable, and    *)
(* the view under which it explores them.                                  *)
(***************************************************************************)
EXTENDS MyOnDiskFSStepsRefinement

(***************************************************************************)
(* The last call and its result change nothing of what can follow, but for *)
(* the end after undefined behaviour; the properties of the runs that use  *)
(* the view look at them on steps only.                                    *)
(***************************************************************************)
View == <<fsVars, openVars, container, mounted, ret = "undefined", run,
          IF before = NULL THEN NULL
          ELSE [before EXCEPT !.call = NULL, !.ret = NULL, !.buf = NULL]>>
=============================================================================
