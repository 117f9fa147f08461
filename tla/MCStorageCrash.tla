------------------------------ MODULE MCStorageCrash ------------------------------
(***************************************************************************)
(* StorageCrash.tla for TLC.                                               *)
(***************************************************************************)
EXTENDS CrashInvariants, TLC

Symmetry ==
    Permutations(Values) \cup Permutations(Columns) \cup Permutations(IndexNames) \cup Permutations(Tables)
=================================================================================
