------------------------- MODULE MyInMemoryFSClients -------------------------
(***************************************************************************)
(* The clients of MyInMemoryFS in one behavior: from its start to its end  *)
(* they are careful and make none of the RiskyCalls, or they are not.      *)
(***************************************************************************)
EXTENDS MyInMemoryFSRefinement

VARIABLE careful

Careful == INSTANCE MyInMemoryFS WITH Workload <- {}

ClientsInit == Init /\ careful \in BOOLEAN

ClientsNext == (IF careful THEN Careful!Next ELSE Next) /\ UNCHANGED careful

ClientsSpec == ClientsInit /\ [][ClientsNext]_<<vars, careful>>

(***************************************************************************)
(* Flags and count are those of the files the clients hold open, for       *)
(* clients that make none of the RiskyCalls (fuseOpen and fuseRelease).    *)
(***************************************************************************)
CarefulAccounted == careful => DescriptorsAccounted

(***************************************************************************)
(* For the same clients, each handler has the effect its comment promises  *)
(* on the files and on no other file, as ImplementsFileStore says.         *)
(***************************************************************************)
CarefulStore ==
    /\ careful => Store!Init
    /\ [][careful => Store!Next]_<<vars, careful>>
=============================================================================
