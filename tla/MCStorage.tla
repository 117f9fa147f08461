-------------------------------- MODULE MCStorage --------------------------------
(***************************************************************************)
(* Storage.tla for TLC.                                                    *)
(***************************************************************************)
EXTENDS StorageRefinement, TLC

\* Names and values only differ by identity in storage.rs.
Symmetry ==
    Permutations(Values) \cup Permutations(Columns) \cup Permutations(IndexNames) \cup Permutations(Tables)
=================================================================================
