-------------------------------- MODULE MCEngine --------------------------------
(***************************************************************************)
(* Engine.tla for TLC: the declarations that the statements use.           *)
(***************************************************************************)
EXTENDS Engine, TLC

CONSTANTS t1, a

PrimaryKey == [Unconstrained EXCEPT !.primary_key = TRUE]
NotNull == [Unconstrained EXCEPT !.not_null = TRUE]
Unique == [Unconstrained EXCEPT !.unique = TRUE]

\* REFERENCES t1(a), of t2 a reference to another table, of t1 to itself
References == [Unconstrained EXCEPT !.references = {[table |-> t1, column |-> a]}]

AllDeclarations == {PrimaryKey, NotNull, Unique, References}
KeysAndReferences == {PrimaryKey, References}
None == {}
OnlyUnconstrained == {Unconstrained}

Symmetry == Permutations(Values)
=================================================================================
