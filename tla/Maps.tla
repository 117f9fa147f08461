---------------------------------- MODULE Maps ----------------------------------
(***************************************************************************)
(* Finite maps and row selection: the BTreeMap and Vec operations that     *)
(* FluxDB's storage layer is written with.                                 *)
(***************************************************************************)
EXTENDS Integers, Sequences, Functions

\* The maps with keys in S and values in T (BTreeMap<S, T>), and the test
\* that f is one, which TLC can also make when T is infinite.
Maps(S, T) == UNION {[D -> T] : D \in SUBSET S}

IsMap(f, S, T) == DOMAIN f \subseteq S /\ f \in [DOMAIN f -> T]

EmptyMap == [x \in {} |-> x]

\* f with every binding of g written over it.
Override(f, g) ==
    [x \in DOMAIN f \cup DOMAIN g |-> IF x \in DOMAIN g THEN g[x] ELSE f[x]]

\* BTreeMap::insert
Put(f, k, v) == Override(f, [x \in {k} |-> v])

\* BTreeMap::remove, for each key of D
Without(f, D) == Restrict(f, DOMAIN f \ D)

\* The increasing enumeration of a set S of positions 1..n, as the only
\* member of a set (no recursion, so that it can be reasoned about).
Enumerations(S, n) ==
    {f \in UNION {[1..m -> S] : m \in 0..n} :
        /\ Range(f) = S
        /\ \A i, j \in DOMAIN f : i < j => f[i] < f[j]}

\* What remains of sequence s when only the positions in S are kept, in order.
Kept(s, S) ==
    {[i \in DOMAIN f |-> s[f[i]]] : f \in Enumerations(S, Len(s))}
=================================================================================
