------------------------------- MODULE QueryProofs -------------------------------
(***************************************************************************)
(* Proofs about the evaluation of queries, Query.tla and                   *)
(* QueryProperties.tla.                                                    *)
(***************************************************************************)
EXTENDS QueryProperties, FiniteSetTheorems, WellFoundedInduction, TLAPS

---------------------------------------------------------------------------------
(* Induction over the natural numbers, for sets of them *)

NatLess == {p \in Nat \X Nat : p[1] < p[2]}

LEMMA NatLessWellFounded == IsWellFoundedOn(NatLess, Nat)
  BY NatLessThanWellFounded, SMT DEF OpToRel, NatLess

LEMMA Smallest ==
    ASSUME NEW S \in SUBSET Nat, S # {}
    PROVE  \E m \in S : \A k \in S : m <= k
<1>1. PICK m \in S : \A k \in S : <<k, m>> \notin NatLess
  BY NatLessWellFounded, WFMin
<1>2. ASSUME NEW k \in S
      PROVE  m <= k
  <2>1. <<k, m>> \in Nat \X Nat /\ ~(<<k, m>>[1] < <<k, m>>[2])
    BY <1>1 DEF NatLess
  <2> QED
    BY <2>1
<1> QED
  BY <1>2

LEMMA Induction ==
    ASSUME NEW S, 0 \in S, \A n \in Nat : n \in S => n + 1 \in S
    PROVE  Nat \subseteq S
<1> DEFINE T == Nat \ S
<1> SUFFICES ASSUME T # {} PROVE FALSE
  OBVIOUS
<1>1. PICK m \in T : \A k \in T : m <= k
  <2>1. T \in SUBSET Nat
    OBVIOUS
  <2> HIDE DEF T
  <2> QED
    BY <2>1, Smallest
<1>2. m \in Nat /\ m # 0 /\ m - 1 \in Nat /\ m - 1 \in S
  BY <1>1
<1> QED
  BY <1>1, <1>2

---------------------------------------------------------------------------------
(* Ranks in a strict total order, and the elements of a sequence at some of *)
(* its positions                                                            *)

\* The elements of a set before another in a relation
Below(R, S, x) == {y \in S : <<y, x>> \in R}

\* A relation that orders a set
Orders(R, S) ==
    /\ \A x \in S : <<x, x>> \notin R
    /\ \A x, y, z \in S : <<x, y>> \in R /\ <<y, z>> \in R => <<x, z>> \in R
    /\ \A x, y \in S : x # y => <<x, y>> \in R \/ <<y, x>> \in R

LEMMA RankGrows ==
    ASSUME NEW S, IsFiniteSet(S), NEW R, Orders(R, S), NEW x \in S, NEW y \in S, <<x, y>> \in R
    PROVE  Cardinality(Below(R, S, x)) < Cardinality(Below(R, S, y))
<1>1. Below(R, S, x) \in SUBSET Below(R, S, y) /\ x \in Below(R, S, y) /\ x \notin Below(R, S, x)
  BY DEF Below, Orders
<1>2. IsFiniteSet(Below(R, S, y))
  BY FS_Subset DEF Below
<1>3. /\ IsFiniteSet(Below(R, S, x))
      /\ Cardinality(Below(R, S, x)) <= Cardinality(Below(R, S, y))
      /\ Cardinality(Below(R, S, y)) = Cardinality(Below(R, S, x)) => Below(R, S, y) = Below(R, S, x)
  BY <1>1, <1>2, FS_Subset
<1> QED
  BY <1>1, <1>2, <1>3, FS_CardinalityType

LEMMA RankInRange ==
    ASSUME NEW S, IsFiniteSet(S), NEW R, Orders(R, S), NEW x \in S
    PROVE  Cardinality(Below(R, S, x)) \in 0 .. Cardinality(S) - 1
<1>1. Below(R, S, x) \in SUBSET S /\ x \notin Below(R, S, x)
  BY DEF Below, Orders
<1>2. /\ IsFiniteSet(Below(R, S, x))
      /\ Cardinality(Below(R, S, x)) <= Cardinality(S)
      /\ Cardinality(S) = Cardinality(Below(R, S, x)) => S = Below(R, S, x)
  BY <1>1, FS_Subset
<1> QED
  BY <1>1, <1>2, FS_CardinalityType

LEMMA EveryRank ==
    ASSUME NEW S, IsFiniteSet(S), NEW R, Orders(R, S)
    PROVE  \A n \in 0 .. Cardinality(S) - 1 : \E x \in S : Cardinality(Below(R, S, x)) = n
<1> DEFINE rank == [x \in S |-> Cardinality(Below(R, S, x))]
           T == 0 .. Cardinality(S) - 1
<1>1. Cardinality(S) \in Nat
  BY FS_CardinalityType
<1>2. IsFiniteSet(T) /\ Cardinality(T) = Cardinality(S)
  BY <1>1, FS_Interval
<1>3. \A x \in S : Cardinality(Below(R, S, x)) \in T
  BY RankInRange
<1>4. rank \in [S -> T]
  BY <1>3
<1>5. ASSUME NEW x \in S, NEW y \in S, Cardinality(Below(R, S, x)) = Cardinality(Below(R, S, y))
      PROVE  x = y
  <2>1. Cardinality(Below(R, S, x)) \in Nat /\ Cardinality(Below(R, S, y)) \in Nat
    BY <1>1, <1>3
  <2>2. ~(<<x, y>> \in R) /\ ~(<<y, x>> \in R)
    <3>1. ASSUME <<x, y>> \in R PROVE FALSE
      BY <3>1, <2>1, <1>5, RankGrows
    <3>2. ASSUME <<y, x>> \in R PROVE FALSE
      BY <3>2, <2>1, <1>5, RankGrows
    <3> QED
      BY <3>1, <3>2
  <2> QED
    BY <2>2 DEF Orders
<1>6. rank \in Injection(S, T)
  BY <1>4, <1>5 DEF Injection, IsInjective
<1>7. rank \in Surjection(S, T)
  <2> HIDE DEF rank, T
  <2> QED
    BY <1>2, <1>6, FS_Injection
<1> QED
  BY <1>7 DEF Surjection

\* The order of numbers
LEMMA NumbersOrdered ==
    ASSUME NEW S \in SUBSET Int
    PROVE  /\ Orders({p \in S \X S : p[1] < p[2]}, S)
           /\ \A x \in S : Below({p \in S \X S : p[1] < p[2]}, S, x) = {m \in S : m < x}
  BY DEF Orders, Below

LEMMA AscendingElements ==
    ASSUME NEW S \in SUBSET Int, IsFiniteSet(S)
    PROVE  /\ Cardinality(S) \in Nat
           /\ DOMAIN Ascending(S) = 1..Cardinality(S)
           /\ \A k \in 1..Cardinality(S) :
                Ascending(S)[k] \in S /\ Cardinality({m \in S : m < Ascending(S)[k]}) = k - 1
           /\ \A n \in S : \E k \in 1..Cardinality(S) : Ascending(S)[k] = n
<1>1. PICK R : Orders(R, S) /\ \A x \in S : Below(R, S, x) = {m \in S : m < x}
  BY NumbersOrdered, Zenon
<1>2. Cardinality(S) \in Nat
  BY FS_CardinalityType
<1>3. ASSUME NEW k \in 1..Cardinality(S)
      PROVE  Ascending(S)[k] \in S /\ Cardinality({m \in S : m < Ascending(S)[k]}) = k - 1
  <2>1. k - 1 \in 0 .. Cardinality(S) - 1
    BY <1>2
  <2>5. Orders(R, S)
    BY <1>1
  <2>6. \A T : IsFiniteSet(T) /\ Orders(R, T)
                => \A n \in 0 .. Cardinality(T) - 1 : \E x \in T : Cardinality(Below(R, T, x)) = n
    BY EveryRank
  <2>2. PICK found \in S : Cardinality(Below(R, S, found)) = k - 1
    BY <2>1, <2>5, <2>6, Zenon
  <2>4. \E m \in S : Cardinality({i \in S : i < m}) = k - 1
    BY <2>2, <1>1, Zenon
  <2>3. Ascending(S)[k] = CHOOSE n \in S : Cardinality({m \in S : m < n}) = k - 1
    BY Zenon DEF Ascending
  <2> QED
    BY <2>4, <2>3, Zenon
<1>4. ASSUME NEW n \in S
      PROVE  \E k \in 1..Cardinality(S) : Ascending(S)[k] = n
  <2> DEFINE r == Cardinality({m \in S : m < n})
  <2>1. r \in 0 .. Cardinality(S) - 1
    BY <1>1, RankInRange
  <2>2. r + 1 \in 1..Cardinality(S) /\ (r + 1) - 1 = r
    BY <2>1, <1>2
  <2>3. Ascending(S)[r + 1] \in S /\ Cardinality({m \in S : m < Ascending(S)[r + 1]}) = r
    BY <2>2, <1>3, Zenon
  <2> DEFINE other == Ascending(S)[r + 1]
  <2>4. other \in S /\ Cardinality(Below(R, S, other)) = Cardinality(Below(R, S, n))
    BY <2>3, <1>1, Zenon
  <2>5. Cardinality(Below(R, S, n)) \in Nat
    BY <1>2, <1>1, RankInRange
  <2> HIDE DEF other
  <2>6. ~(<<other, n>> \in R) /\ ~(<<n, other>> \in R)
    <3>1. ASSUME <<other, n>> \in R PROVE FALSE
      BY <3>1, <2>4, <2>5, <1>1, RankGrows
    <3>2. ASSUME <<n, other>> \in R PROVE FALSE
      BY <3>2, <2>4, <2>5, <1>1, RankGrows
    <3> QED
      BY <3>1, <3>2
  <2>7. other = n
    BY <2>4, <2>6, <1>1 DEF Orders
  <2> QED
    BY <2>2, <2>7 DEF other
<1> QED
  BY <1>2, <1>3, <1>4, Zenon DEF Ascending

LEMMA AscendingIsFunction ==
    ASSUME NEW S
    PROVE  \E d : Ascending(S) = [k \in d |-> Ascending(S)[k]]
<1> DEFINE e(k) == CHOOSE n \in S : Cardinality({m \in S : m < n}) = k - 1
           D == 1..Cardinality(S)
<1>1. Ascending(S) = [k \in D |-> e(k)]
  BY Zenon DEF Ascending
<1> HIDE DEF e, D
<1>2. [k \in D |-> e(k)] = [k \in D |-> [i \in D |-> e(i)][k]]
  OBVIOUS
<1> QED
  BY <1>1, <1>2, Zenon

\* The sequence of the elements at some positions
LEMMA AtElements ==
    ASSUME NEW s, NEW P \in SUBSET Int, IsFiniteSet(P)
    PROVE  /\ Cardinality(P) \in Nat
           /\ DOMAIN At(s, P) = 1..Cardinality(P)
           /\ \A k \in 1..Cardinality(P) : \E i \in P : At(s, P)[k] = s[i]
           /\ \A i \in P : \E k \in 1..Cardinality(P) : At(s, P)[k] = s[i]
<1>1. /\ Cardinality(P) \in Nat /\ DOMAIN Ascending(P) = 1..Cardinality(P)
      /\ \A k \in 1..Cardinality(P) : Ascending(P)[k] \in P
      /\ \A n \in P : \E k \in 1..Cardinality(P) : Ascending(P)[k] = n
  BY AscendingElements, Zenon
<1>2. /\ DOMAIN At(s, P) = 1..Cardinality(P)
      /\ \A k \in 1..Cardinality(P) : At(s, P)[k] = s[Ascending(P)[k]]
  BY <1>1, Zenon DEF At
<1>3. ASSUME NEW i \in P
      PROVE  \E k \in 1..Cardinality(P) : At(s, P)[k] = s[i]
  <2>1. PICK k \in 1..Cardinality(P) : Ascending(P)[k] = i
    BY <1>1, Zenon
  <2> QED
    BY <2>1, <1>2, Zenon
<1> QED
  BY <1>1, <1>2, <1>3, Zenon

LEMMA AtIsSequence ==
    ASSUME NEW s, NEW T, NEW P \in SUBSET Int, IsFiniteSet(P), \A i \in P : s[i] \in T
    PROVE  At(s, P) \in Seq(T)
<1>1. /\ Cardinality(P) \in Nat
      /\ DOMAIN At(s, P) = 1..Cardinality(P)
      /\ \A k \in 1..Cardinality(P) : At(s, P)[k] \in T
  BY AtElements, Zenon
<1>2. At(s, P) = [k \in 1..Cardinality(P) |-> At(s, P)[k]]
  <2>1. \E d : At(s, P) = [k \in d |-> At(s, P)[k]]
    BY Zenon DEF At
  <2> QED
    BY <2>1, <1>1
<1> QED
  BY <1>1, <1>2

---------------------------------------------------------------------------------
(* Sequences *)

IsList(l) == l \in Seq(Range(l))

LEMMA Lists ==
    ASSUME NEW n \in Nat, NEW l, DOMAIN l = 1..n, l = [k \in 1..n |-> l[k]]
    PROVE  IsList(l) /\ Len(l) = n
<1>1. \A k \in 1..n : l[k] \in Range(l)
  BY DEF Range
<1> DEFINE T == Range(l)
<1>2. l \in [1..n -> T]
  BY <1>1
<1> HIDE DEF T
<1>3. l \in Seq(T)
  BY <1>2
<1> QED BY <1>3, <1>2 DEF IsList, T
LEMMA SubSeqIsList ==
    ASSUME NEW s, NEW i \in Int, NEW j \in Int
    PROVE  IsList(SubSeq(s, i, j))
<1> DEFINE l == SubSeq(s, i, j)
<1>1. l = [k \in 1..(j - i + 1) |-> s[k + i - 1]]
  OBVIOUS
<1>2. PICK n \in Nat : 1..(j - i + 1) = 1..n
  <2>1. CASE j - i + 1 >= 0
    <3>1. j - i + 1 \in Nat
      BY <2>1
    <3> QED
      BY <3>1, Zenon
  <2>2. CASE j - i + 1 < 0
    <3>1. 1..(j - i + 1) = 1..0
      BY <2>2
    <3> QED
      BY <3>1
  <2> QED
    BY <2>1, <2>2
<1>3. l = [k \in 1..n |-> s[k + i - 1]]
  BY <1>1, <1>2
<1> HIDE DEF l
<1>4. DOMAIN l = 1..n /\ l = [k \in 1..n |-> l[k]]
  BY <1>3
<1> QED
  BY <1>4, Lists DEF l

LEMMA ListOfAt ==
    ASSUME NEW s, NEW P \in SUBSET Int, IsFiniteSet(P)
    PROVE  IsList(At(s, P))
<1>1. Cardinality(P) \in Nat /\ DOMAIN At(s, P) = 1..Cardinality(P)
  BY AtElements, Zenon
<1>2. At(s, P) = [k \in 1..Cardinality(P) |-> At(s, P)[k]]
  <2>1. \E d : At(s, P) = [k \in d |-> At(s, P)[k]]
    BY Zenon DEF At
  <2> QED
    BY <2>1, <1>1
<1> QED
  BY <1>1, <1>2, Lists

\* The positions of a sequence are finitely many numbers.
LEMMA Positions ==
    ASSUME NEW l, IsList(l), NEW P \in SUBSET DOMAIN l
    PROVE  P \in SUBSET Int /\ IsFiniteSet(P) /\ DOMAIN l = 1..Len(l) /\ Len(l) \in Nat
<1>1. DOMAIN l = 1..Len(l) /\ Len(l) \in Nat
  BY DEF IsList
<1>2. IsFiniteSet(DOMAIN l)
  BY <1>1, FS_Interval
<1> QED
  BY <1>1, <1>2, FS_Subset

LEMMA MinIn ==
    ASSUME NEW S \in SUBSET Nat, S # {}
    PROVE  Min(S) \in S /\ \A x \in S : Min(S) <= x
<1>1. \E m \in S : \A x \in S : m <= x
  BY Smallest
<1> QED
  BY <1>1, Zenon DEF Min

LEMMA MaxIn ==
    ASSUME NEW n \in Nat, NEW S \in SUBSET (1..n), S # {}
    PROVE  Max(S) \in S /\ \A x \in S : Max(S) >= x
<1> DEFINE T == {m \in 0..n : n - m \in S}
<1>1. T \in SUBSET Nat /\ T # {}
  <2>1. PICK x \in S : TRUE
    OBVIOUS
  <2>2. n - x \in 0..n /\ n - (n - x) = x
    OBVIOUS
  <2>3. n - (n - x) \in S
    BY <2>2, Zenon
  <2>4. n - x \in T
    BY <2>2, <2>3, Zenon
  <2>5. T \in SUBSET Nat
    OBVIOUS
  <2> QED
    BY <2>4, <2>5, Zenon
<1>2. PICK m \in T : \A k \in T : m <= k
  <2> HIDE DEF T
  <2> QED
    BY <1>1, Smallest
<1>3. \A x \in S : n - m >= x
  <2> TAKE x \in S
  <2>1. n - x \in 0..n /\ n - (n - x) = x
    OBVIOUS
  <2>2. n - (n - x) \in S
    BY <2>1, Zenon
  <2>3. n - x \in T
    BY <2>1, <2>2, Zenon
  <2>4. m <= n - x
    BY <2>3, <1>2, Zenon
  <2>5. m \in Nat /\ x \in Nat
    OBVIOUS
  <2> HIDE DEF T
  <2> QED
    BY <2>4, <2>5
<1>4. \E y \in S : \A x \in S : y >= x
  BY <1>3
<1> QED
  BY <1>4, Zenon DEF Max

---------------------------------------------------------------------------------
(* The lists the parser makes *)

LEMMA Picked ==
    ASSUME NEW results, NEW x \in Collect(results)
    PROVE  DOMAIN x = DOMAIN results /\ \A k \in DOMAIN results : x[k] \in results[k]
<1>1. {} \notin Range(results) /\ x = [k \in DOMAIN results |-> CHOOSE y \in results[k] : TRUE]
  BY Zenon DEF Collect
<1>2. ASSUME NEW k \in DOMAIN results
      PROVE  x[k] \in results[k]
  <2>1. results[k] # {}
    BY <1>1, Zenon DEF Range
  <2>2. x[k] = CHOOSE y \in results[k] : TRUE
    BY <1>1, Zenon
  <2> QED
    BY <2>1, <2>2, Zenon
<1> QED
  BY <1>1, <1>2, Zenon

LEMMA ListPicked ==
    ASSUME NEW results, NEW x \in Collect(results), NEW n \in Nat, DOMAIN results = 1..n
    PROVE  IsList(x) /\ Len(x) = n
<1>1. DOMAIN x = 1..n
  BY Picked, Zenon
<1>2. x = [k \in 1..n |-> x[k]]
  <2>1. \E d : x = [k \in d |-> x[k]]
    BY Zenon DEF Collect
  <2> QED
    BY <2>1, <1>1
<1> QED
  BY <1>1, <1>2, Lists

LEMMA PiecesAreListed ==
    ASSUME NEW ts, IsList(ts), NEW cuts \in SUBSET DOMAIN ts
    PROVE  IsList(Pieces(ts, cuts))
<1> DEFINE all == cuts \cup {0, Len(ts) + 1}
           n == Len(Ascending(all))
<1>1. all \in SUBSET Int /\ IsFiniteSet(all)
  <2>1. cuts \in SUBSET Int /\ IsFiniteSet(cuts) /\ Len(ts) \in Nat
    BY Positions, Zenon
  <2>4. \A S, x : IsFiniteSet(S) => IsFiniteSet(S \cup {x})
    BY FS_AddElement
  <2>2. IsFiniteSet((cuts \cup {0}) \cup {Len(ts) + 1})
    BY <2>1, <2>4, Zenon
  <2>3. (cuts \cup {0}) \cup {Len(ts) + 1} = all
    OBVIOUS
  <2>5. IsFiniteSet(all)
    BY <2>2, <2>3
  <2>6. all \in SUBSET Int
    BY <2>1
  <2> QED
    BY <2>5, <2>6, Zenon
<1> HIDE DEF all
<1>3. PICK c \in Nat : c = Cardinality(all)
  <2>1. Cardinality(all) \in Nat
    BY <1>1, FS_CardinalityType
  <2> QED
    BY <2>1, Zenon
<1>4. Ascending(all) = [k \in 1..c |-> Ascending(all)[k]] /\ DOMAIN Ascending(all) = 1..c
  <2>1. \E d : Ascending(all) = [k \in d |-> Ascending(all)[k]]
    BY AscendingIsFunction
  <2>2. DOMAIN Ascending(all) = 1..Cardinality(all)
    BY Zenon DEF Ascending
  <2> QED
    BY <2>1, <2>2, <1>3
<1>5. n = c /\ n \in Nat
  BY <1>3, <1>4, Lists, Zenon
<1>6. Pieces(ts, cuts) = [k \in 1..(n - 1) |-> Between(ts, Ascending(all)[k], Ascending(all)[k + 1])]
  BY Zenon DEF Pieces, all
<1> HIDE DEF n
<1>7. PICK d \in Nat : 1..(n - 1) = 1..d
  <2>1. CASE n = 0
    <3>1. 1..(n - 1) = 1..0
      BY <2>1
    <3> QED
      BY <3>1
  <2>2. CASE n # 0
    <3>1. n - 1 \in Nat
      BY <2>2, <1>5
    <3> QED
      BY <3>1, Zenon
  <2> QED
    BY <2>1, <2>2
<1>8. Pieces(ts, cuts) = [k \in 1..d |-> Pieces(ts, cuts)[k]] /\ DOMAIN Pieces(ts, cuts) = 1..d
  BY <1>6, <1>7, Zenon
<1> QED
  BY <1>8, Lists, Zenon

LEMMA CommasSplit ==
    ASSUME NEW ts, IsList(ts)
    PROVE  IsList(SplitCommas(ts))
<1> DEFINE cuts == {i \in TopLevel(ts) : ts[i] = Comma}
           pieces == Pieces(ts, cuts)
<1>1. cuts \in SUBSET DOMAIN ts
  BY Zenon DEF TopLevel
<1>2. IsList(pieces)
  <2> HIDE DEF cuts
  <2> QED
    BY <1>1, PiecesAreListed
<1>3. SplitCommas(ts) = At(pieces, {k \in DOMAIN pieces : pieces[k] # <<>>})
  BY Zenon DEF SplitCommas
<1> HIDE DEF pieces
<1>4. \A k \in {k \in DOMAIN pieces : pieces[k] # <<>>} : k \in DOMAIN pieces
  BY Zenon
<1>5. {k \in DOMAIN pieces : pieces[k] # <<>>} \in SUBSET Int /\ IsFiniteSet({k \in DOMAIN pieces : pieces[k] # <<>>})
  BY <1>2, <1>4, Positions
<1> QED
  BY <1>3, <1>5, ListOfAt

LEMMA FoundAt ==
    ASSUME NEW ts, IsList(ts), NEW phrase
    PROVE  Find(ts, phrase) \in Int
<1> DEFINE found == {i \in TopLevel(ts) : Starts(From(ts, i), phrase)}
<1>1. found \in SUBSET DOMAIN ts
  BY Zenon DEF TopLevel
<1>2. Find(ts, phrase) = IF found = {} THEN 0 ELSE CHOOSE i \in found : \A j \in found : i <= j
  BY Zenon DEF Find
<1> HIDE DEF found
<1>3. found \in SUBSET Nat
  BY <1>1 DEF IsList
<1>4. CASE found = {}
  BY <1>2, <1>4
<1>5. CASE found # {}
  <2>1. \E i \in found : \A j \in found : i <= j
    BY <1>3, <1>5, Smallest
  <2>2. Find(ts, phrase) \in found
    BY <2>1, <1>2, <1>5, Zenon
  <2>3. \A i \in found : i \in Int
    BY <1>3
  <2> QED
    BY <2>2, <2>3, Zenon
<1> QED
  BY <1>4, <1>5

LEMMA SymbolAt ==
    ASSUME NEW ts, IsList(ts), NEW s
    PROVE  FindSymbol(ts, s) \in Int
<1> DEFINE found == {i \in 1..Len(ts) : ts[i] = s}
<1>1. FindSymbol(ts, s) = IF found # {} THEN Min(found) ELSE 0
  BY Zenon DEF FindSymbol, Position, SelectInSeq
<1>2. found \in SUBSET Nat
  BY DEF IsList
<1> HIDE DEF found
<1>3. found # {} => Min(found) \in found
  BY <1>2, MinIn
<1>4. 0 \in Int /\ \A i \in found : i \in Int
  BY <1>2
<1> QED
  BY <1>1, <1>3, <1>4, Zenon

\* The last position of an element
LEMMA LastAt ==
    ASSUME NEW l, IsList(l), NEW x
    PROVE  /\ LastPosition(l, x) \in Int
           /\ x \in Range(l) => /\ LastPosition(l, x) \in DOMAIN l
                                /\ l[LastPosition(l, x)] = x
<1> DEFINE found == {i \in 1..Len(l) : l[i] = x}
<1>1. LastPosition(l, x) = IF found # {} THEN Max(found) ELSE 0
  BY Zenon DEF LastPosition, SelectLastInSeq
<1>2. /\ found \in SUBSET (1..Len(l)) /\ found \in SUBSET Int /\ Len(l) \in Nat /\ DOMAIN l = 1..Len(l)
      /\ \A i \in found : l[i] = x
  BY DEF IsList
<1>3. x \in Range(l) => found # {}
  BY <1>2 DEF Range
<1> HIDE DEF found
<1>4. found # {} => Max(found) \in found
  BY <1>2, MaxIn
<1>5. found # {} => /\ Max(found) \in Int /\ Max(found) \in DOMAIN l /\ l[Max(found)] = x
  BY <1>2, <1>4
<1>6. CASE found = {}
  BY <1>1, <1>3, <1>6
<1>7. CASE found # {}
  BY <1>1, <1>5, <1>7, Zenon
<1> QED
  BY <1>6, <1>7

LEMMA NamesListed ==
    ASSUME NEW ts, IsList(ts), NEW names \in Identifiers(ts)
    PROVE  IsList(names)
<1> DEFINE pieces == SplitCommas(ts)
           results == [k \in DOMAIN pieces |-> Identifier(pieces[k])]
<1>1. IsList(pieces)
  BY CommasSplit
<1>2. names \in Collect(results)
  BY Zenon DEF Identifiers
<1> HIDE DEF pieces
<1>3. Len(pieces) \in Nat /\ DOMAIN pieces = 1..Len(pieces)
  BY <1>1 DEF IsList
<1>4. DOMAIN results = 1..Len(pieces)
  BY <1>3
<1> HIDE DEF results
<1> QED
  BY <1>2, <1>3, <1>4, ListPicked

\* The columns of INSERT and the assignments of UPDATE are lists.
ListsIn(s) ==
    /\ s.kind = "Insert" => s.columns = None \/ IsList(s.columns[1])
    /\ s.kind = "Update" => IsList(s.assignments)

LEMMA ParsedInsert ==
    ASSUME NEW ts, IsList(ts), NEW s \in ParseInsert(ts)
    PROVE  ListsIn(s)
<1> DEFINE values == Find(ts, <<"VALUES">>)
           target == Between(ts, 2, values)
           open == FindSymbol(target, Open)
           close == LastPosition(target, Close)
           list == From(ts, values + 1)
           columnLists == IF open = 0 THEN {None}
                          ELSE {Some(names) : names \in NonEmpty(Identifiers(Between(target, open, close)))}
<1>1. IsList(target)
  <2>1. values \in Int
    BY FoundAt
  <2> HIDE DEF values
  <2>2. 2 + 1 \in Int /\ values - 1 \in Int
    BY <2>1
  <2> QED
    BY <2>2, SubSeqIsList DEF Between
<1>2. PICK t, columns, literals : columns \in columnLists /\ s = Insert(t, columns, literals)
  <2>1. ParseInsert(ts) =
            IF values = 0 \/ ~Enclosed(list) THEN {}
            ELSE {Insert(t, columns, literals) :
                    t \in Identifier(UptoFound(target, open)), columns \in columnLists,
                    literals \in Literals(Inside(list))}
    BY DEF ParseInsert
  <2> HIDE DEF columnLists, target, open, close, list
  <2> QED
    BY <2>1
<1>3. IsList(Between(target, open, close))
  <2> HIDE DEF target
  <2>3. open \in Int
    BY <1>1, SymbolAt
  <2>4. close \in Int
    BY <1>1, LastAt, Zenon
  <2>1. open \in Int /\ close \in Int
    BY <2>3, <2>4
  <2> HIDE DEF open, close
  <2>2. open + 1 \in Int /\ close - 1 \in Int
    BY <2>1
  <2> QED
    BY <2>2, SubSeqIsList DEF Between
<1>4. s.kind = "Insert" /\ s.columns = columns
  BY <1>2 DEF Insert
<1> HIDE DEF open, close, target
<1>5. columns = None \/ IsList(columns[1])
  <2>1. CASE columns = None
    BY <2>1
  <2>2. ASSUME NEW names \in NonEmpty(Identifiers(Between(target, open, close))), columns = Some(names)
        PROVE  IsList(columns[1])
    <3>1. IsList(names)
      BY <1>3, NamesListed DEF NonEmpty
    <3>2. columns[1] = names
      BY <2>2 DEF Some
    <3> QED
      BY <3>1, <3>2
  <2> QED
    BY <1>2, <2>1, <2>2, Zenon DEF columnLists
<1> QED
  BY <1>4, <1>5 DEF ListsIn

LEMMA ParsedUpdate ==
    ASSUME NEW ts, IsList(ts), NEW s \in ParseUpdate(ts)
    PROVE  ListsIn(s)
<1> DEFINE set == Find(ts, <<"SET">>)
           after == From(ts, set + 1)
           where == Find(after, <<"WHERE">>)
           pieces == SplitCommas(UptoFound(after, where))
           results == [k \in DOMAIN pieces |-> ParseAssignment(pieces[k])]
<1>1. IsList(after)
  <2>1. set + 1 \in Int
    <3> HIDE DEF set
    <3>1. set \in Int
      BY FoundAt DEF set
    <3> QED
      BY <3>1
  <2>2. Len(ts) \in Int
    BY DEF IsList
  <2> HIDE DEF set
  <2> QED
    BY <2>1, <2>2, SubSeqIsList DEF From
<1>2. IsList(UptoFound(after, where))
  <2> HIDE DEF after
  <2>1. where \in Int
    BY <1>1, FoundAt
  <2> HIDE DEF where
  <2>2. 1 \in Int /\ where - 1 \in Int
    BY <2>1
  <2> QED
    BY <1>1, <2>2, SubSeqIsList DEF UptoFound, Upto
<1>3. PICK t, assignments, f : s = Update(t, assignments, f) /\ assignments \in NonEmpty(Collect(results))
  <2>1. ParseUpdate(ts) =
            IF set = 0 THEN {}
            ELSE {Update(t, assignments, f) :
                    t \in Identifier(Between(ts, 1, set)), assignments \in NonEmpty(Collect(results)),
                    f \in ParseWhere(after, where)}
    BY DEF ParseUpdate
  <2> HIDE DEF set, after, where, results
  <2> QED
    BY <2>1
<1>4. s.kind = "Update" /\ s.assignments = assignments
  BY <1>3 DEF Update
<1>5. IsList(assignments)
  <2>1. assignments \in Collect(results)
    BY <1>3, Zenon DEF NonEmpty
  <2>2. IsList(pieces)
    <3> HIDE DEF after, where
    <3> QED
      BY <1>2, CommasSplit
  <2> HIDE DEF pieces
  <2>3. Len(pieces) \in Nat /\ DOMAIN pieces = 1..Len(pieces)
    BY <2>2 DEF IsList
  <2>4. DOMAIN results = 1..Len(pieces)
    BY <2>3
  <2> HIDE DEF results
  <2> QED
    BY <2>1, <2>3, <2>4, ListPicked
<1> QED
  BY <1>4, <1>5 DEF ListsIn

\* Parsers of other statements
LEMMA ParsedOthers ==
    ASSUME NEW ts, NEW s,
           \/ s \in {Plain(k) : k \in {"ShowTables", "ShowMigrations", "Begin", "Commit", "Rollback"}}
           \/ s \in {Describe(t) : t \in Identifier(Tail(ts))}
           \/ s \in ParseCreateTable(ts) \/ s \in ParseCreateIndex(ts)
           \/ s \in ParseDropTable(ts) \/ s \in ParseDropIndex(ts)
           \/ s \in ParseAlterTable(ts) \/ s \in ParseSelect(ts) \/ s \in ParseDelete(ts)
    PROVE  s.kind \notin {"Insert", "Update"}
<1>1. CASE s \in {Plain(k) : k \in {"ShowTables", "ShowMigrations", "Begin", "Commit", "Rollback"}}
  BY <1>1 DEF Plain
<1>2. CASE s \in {Describe(t) : t \in Identifier(Tail(ts))}
  BY <1>2 DEF Describe
<1>3. CASE s \in ParseCreateTable(ts)
  <2>1. \A t, columns : CreateTable(t, columns).kind = "CreateTable"
    BY DEF CreateTable
  <2> DEFINE open == FindSymbol(ts, Open)
             pieces == SplitCommas(Between(ts, open, Len(ts)))
             lists == NonEmpty(Collect([k \in DOMAIN pieces |-> ParseColumnDef(pieces[k], TRUE)]))
  <2>2. ParseCreateTable(ts) =
            IF open = 0 \/ ts[Len(ts)] # Close THEN {}
            ELSE {CreateTable(t, columns) : t \in Identifier(Between(ts, 2, open)), columns \in lists}
    BY DEF ParseCreateTable
  <2> HIDE DEF open, pieces, lists
  <2> QED
    BY <1>3, <2>1, <2>2
<1>4. CASE s \in ParseCreateIndex(ts)
  BY <1>4 DEF ParseCreateIndex, CreateIndex
<1>5. CASE s \in ParseDropTable(ts) \/ s \in ParseDropIndex(ts)
  BY <1>5 DEF ParseDropTable, ParseDropIndex, DropTable, DropIndex
<1>6. CASE s \in ParseAlterTable(ts)
  <2>1. \A rest, i : s \in ParseAddColumn(rest, i) => s.kind = "AddColumn"
    <3>1. \A t, c, v : AddColumn(t, c, v).kind = "AddColumn"
      BY DEF AddColumn
    <3> SUFFICES ASSUME NEW rest, NEW i, s \in ParseAddColumn(rest, i)
                 PROVE  s.kind = "AddColumn"
      OBVIOUS
    <3> DEFINE definition == From(rest, i + 2)
               default == Find(definition, <<"DEFAULT">>)
               columns == ParseColumnDef(UptoFound(definition, default), FALSE)
               defaults == IF default = 0 THEN {None}
                           ELSE {Some(v) : v \in ParseLiteral(From(definition, default + 1))}
    <3>2. ParseAddColumn(rest, i) =
            {AddColumn(t, column, value) :
                t \in Identifier(Upto(rest, i)), column \in columns, value \in defaults}
      BY DEF ParseAddColumn
    <3> HIDE DEF definition, default, columns, defaults
    <3> QED
      BY <3>1, <3>2
  <2>2. \A rest, i : s \in ParseRenameColumn(rest, i) => s.kind = "RenameColumn"
    BY DEF ParseRenameColumn, RenameColumn
  <2>3. \A t, c : DropColumn(t, c).kind = "DropColumn"
    BY DEF DropColumn
  <2> QED
    BY <1>6, <2>1, <2>2, <2>3 DEF ParseAlterTable
<1>7. CASE s \in ParseSelect(ts)
  <2>1. \A list, source, clauses, selects : s \in ParseSelectParts(list, source, clauses, selects) => s.kind = "Select"
    <3> SUFFICES ASSUME NEW list, NEW source, NEW clauses, NEW selects,
                        s \in ParseSelectParts(list, source, clauses, selects)
                 PROVE  s.kind = "Select"
      OBVIOUS
    <3> DEFINE F == OptionalFilter(clauses[1], FALSE, selects)
               G == IF clauses[2] = None THEN {<<>>} ELSE NonEmpty(Identifiers(clauses[2][1]))
               H == IF clauses[2] = None /\ clauses[3] # None THEN {} ELSE OptionalFilter(clauses[3], TRUE, selects)
               O == IF clauses[4] = None THEN {<<>>} ELSE ParseOrderBy(clauses[4][1])
               L == OptionalCount(clauses[5])
               N == OptionalCount(clauses[6])
    <3>1. ParseSelectParts(list, source, clauses, selects) =
                {[kind |-> "Select", table |-> from.table, columns |-> columns, joins |-> from.joins,
                  filter |-> f, group_by |-> g, having |-> h, order_by |-> o, limit |-> l, offset |-> n] :
                    from \in ParseSource(source), columns \in ParseSelectColumns(list),
                    f \in F, g \in G, h \in H, o \in O, l \in L, n \in N}
      BY DEF ParseSelectParts
    <3> HIDE DEF F, G, H, O, L, N
    <3> QED
      BY <3>1
  <2> QED
    BY <1>7, <2>1, Zenon DEF ParseSelect, ParseSelectWith
<1>8. CASE s \in ParseDelete(ts)
  BY <1>8 DEF ParseDelete, Delete
<1> QED
  BY <1>1, <1>2, <1>3, <1>4, <1>5, <1>6, <1>7, <1>8

LEMMA ParsedLists ==
    ASSUME NEW ts, IsList(ts), NEW s \in ParseStatement(ts)
    PROVE  ListsIn(s)
<1>1. \/ s \in ParseInsert(ts) \/ s \in ParseUpdate(ts)
      \/ s \in {Plain(k) : k \in {"ShowTables", "ShowMigrations", "Begin", "Commit", "Rollback"}}
      \/ s \in {Describe(t) : t \in Identifier(Tail(ts))}
      \/ s \in ParseCreateTable(ts) \/ s \in ParseCreateIndex(ts)
      \/ s \in ParseDropTable(ts) \/ s \in ParseDropIndex(ts)
      \/ s \in ParseAlterTable(ts) \/ s \in ParseSelect(ts) \/ s \in ParseDelete(ts)
  BY Zenon DEF ParseStatement
<1>2. CASE s \in ParseInsert(ts)
  BY <1>2, ParsedInsert
<1>3. CASE s \in ParseUpdate(ts)
  BY <1>3, ParsedUpdate
<1>4. CASE s \notin ParseInsert(ts) /\ s \notin ParseUpdate(ts)
  <2>1. s.kind \notin {"Insert", "Update"}
    BY <1>1, <1>4, ParsedOthers, Zenon
  <2> QED
    BY <2>1 DEF ListsIn
<1> QED
  BY <1>2, <1>3, <1>4

LEMMA ListAppended ==
    ASSUME NEW l, IsList(l), NEW x
    PROVE  /\ IsList(Append(l, x)) /\ DOMAIN Append(l, x) = 1..(Len(l) + 1)
           /\ Len(l) \in Nat /\ DOMAIN l = 1..Len(l)
           /\ \A k \in 1..Len(l) : Append(l, x)[k] = l[k]
           /\ Append(l, x)[Len(l) + 1] = x
<1> DEFINE T == Range(l)
           U == T \cup {x}
           n == Append(l, x)
<1>1. l \in Seq(T)
  BY DEF IsList
<1> HIDE DEF T
<1>2. l \in Seq(U) /\ x \in U
  BY <1>1
<1> HIDE DEF U
<1>3. n \in Seq(U) /\ Len(n) = Len(l) + 1 /\ Len(l) \in Nat /\ DOMAIN l = 1..Len(l)
  BY <1>2
<1>4. \A k \in 1..Len(l) : n[k] = l[k]
  BY <1>2
<1>5. n[Len(l) + 1] = x
  BY <1>2
<1> HIDE DEF n
<1>6. DOMAIN n = 1..Len(n) /\ n = [k \in 1..Len(n) |-> n[k]] /\ Len(n) \in Nat
  BY <1>3
<1>7. IsList(n)
  BY <1>6, Lists
<1> QED
  BY <1>3, <1>4, <1>5, <1>6, <1>7 DEF n

---------------------------------------------------------------------------------
(* Types of cells *)

OfType(type, v) == v = Null \/ v[1] = type

TypedRow(t, row) ==
    /\ DOMAIN row = ColumnNames(Schemas[t])
    /\ \A c \in ColumnNames(Schemas[t]) : OfType(TypeOf(Schemas[t], c), row[c])

TypedTable(t, rows) == IsList(rows) /\ \A k \in DOMAIN rows : TypedRow(t, rows[k])

TypedTables == DOMAIN tables = Tables /\ \A t \in Tables : TypedTable(t, tables[t])

\* coerce_value gives a value of the type or NULL.
LEMMA CoercedTyped ==
    ASSUME NEW type, NEW v, NEW w \in Coerced(type, v)
    PROVE  OfType(type, w)
<1>1. CASE v = Null \/ v[1] = type
  <2>1. w = v
    BY <1>1 DEF Coerced, Null
  <2> QED
    BY <1>1, <2>1 DEF OfType
<1>2. CASE ~(v = Null \/ v[1] = type)
  <2>1. w[1] = type
    BY <1>2 DEF Coerced, IntValue, BoolValue, TextValue
  <2> QED
    BY <2>1 DEF OfType
<1> QED
  BY <1>1, <1>2

\* Values of the types of some columns, put into a row of those types
LEMMA AssignedTyped ==
    ASSUME NEW t \in Tables, NEW row, TypedRow(t, row), NEW columns, IsList(columns),
           NEW values, \A k \in DOMAIN columns : OfType(TypeOf(Schemas[t], columns[k]), values[k])
    PROVE  TypedRow(t, Assigned(row, columns, values))
<1>1. DOMAIN Assigned(row, columns, values) = DOMAIN row
  BY DEF Assigned
<1>2. ASSUME NEW c \in DOMAIN row
      PROVE  OfType(TypeOf(Schemas[t], c), Assigned(row, columns, values)[c])
  <2>1. Assigned(row, columns, values)[c] =
            IF c \in Range(columns) THEN values[LastPosition(columns, c)] ELSE row[c]
    BY Zenon DEF Assigned
  <2>2. CASE c \in Range(columns)
    <3>1. LastPosition(columns, c) \in DOMAIN columns /\ columns[LastPosition(columns, c)] = c
      BY <2>2, LastAt
    <3> QED
      BY <2>1, <2>2, <3>1
  <2>3. CASE c \notin Range(columns)
    BY <2>1, <2>3 DEF TypedRow
  <2> QED
    BY <2>2, <2>3
<1> QED
  BY <1>1, <1>2 DEF TypedRow

LEMMA InsertedTyped ==
    ASSUME NEW s, ListsIn(s), s.kind = "Insert", s.table \in Tables,
           TypedTable(s.table, tables[s.table]), NEW rows \in InsertedRows(s)
    PROVE  TypedTable(s.table, rows)
<1> DEFINE t == s.table
           columns == IF s.columns = None THEN [k \in DOMAIN Schemas[t] |-> Schemas[t][k].name] ELSE s.columns[1]
           nulls == [c \in ColumnNames(Schemas[t]) |-> Null]
           results == [k \in DOMAIN columns |-> Coerced(TypeOf(Schemas[t], columns[k]), s.values[k])]
<1>1. PICK values \in Collect(results) : rows = Append(tables[t], Assigned(nulls, columns, values))
  <2>1. InsertedRows(s) =
            IF Len(columns) # Len(s.values) \/ ~(Range(columns) \subseteq ColumnNames(Schemas[t])) THEN {}
            ELSE {Append(tables[t], Assigned(nulls, columns, values)) : values \in Collect(results)}
    BY DEF InsertedRows
  <2> HIDE DEF columns, nulls, results
  <2> QED
    BY <2>1
<1>2. IsList(columns)
  <2>1. CASE s.columns = None
    <3>1. Schemas[t] \in Seq([name : Seq(STRING), type : Types])
      BY SchemasAssumption
    <3> DEFINE S == Schemas[t]
               l == [k \in DOMAIN S |-> S[k].name]
    <3> HIDE DEF S
    <3>2. Len(S) \in Nat /\ DOMAIN S = 1..Len(S)
      BY <3>1 DEF S
    <3>3. DOMAIN l = 1..Len(S) /\ l = [k \in 1..Len(S) |-> l[k]]
      BY <3>2
    <3> HIDE DEF l
    <3>4. IsList(l)
      BY <3>2, <3>3, Lists
    <3>5. columns = l
      BY <2>1, Zenon DEF l, S
    <3> QED
      BY <3>4, <3>5
  <2>2. CASE s.columns # None
    BY <2>2 DEF ListsIn
  <2> QED
    BY <2>1, <2>2
<1> HIDE DEF columns
<1>3. \A k \in DOMAIN columns : OfType(TypeOf(Schemas[t], columns[k]), values[k])
  <2>1. \A k \in DOMAIN columns : values[k] \in Coerced(TypeOf(Schemas[t], columns[k]), s.values[k])
    BY <1>1, Picked, Zenon
  <2> QED
    BY <2>1, CoercedTyped
<1>4. TypedRow(t, nulls)
  BY DEF TypedRow, OfType
<1> HIDE DEF nulls
<1>5. TypedRow(t, Assigned(nulls, columns, values))
  BY <1>2, <1>3, <1>4, AssignedTyped
<1> DEFINE row == Assigned(nulls, columns, values)
           old == tables[t]
<1>6. TypedTable(t, old) /\ rows = Append(old, row) /\ TypedRow(t, row)
  BY <1>1, <1>5
<1> HIDE DEF row, old
<1>7. /\ IsList(rows) /\ DOMAIN rows = 1..(Len(old) + 1)
      /\ Len(old) \in Nat /\ DOMAIN old = 1..Len(old)
      /\ \A k \in 1..Len(old) : rows[k] = old[k]
      /\ rows[Len(old) + 1] = row
  BY <1>6, ListAppended DEF TypedTable
<1>9. ASSUME NEW k \in DOMAIN rows
      PROVE  TypedRow(t, rows[k])
  <2>1. CASE k \in 1..Len(old)
    BY <2>1, <1>6, <1>7 DEF TypedTable
  <2>2. CASE k = Len(old) + 1
    BY <2>2, <1>6, <1>7
  <2> QED
    BY <2>1, <2>2, <1>7
<1> QED
  BY <1>7, <1>9 DEF TypedTable

LEMMA UpdatedTyped ==
    ASSUME NEW s, ListsIn(s), s.kind = "Update", s.table \in Tables,
           TypedTable(s.table, tables[s.table]), NEW rows \in UpdatedRows(s)
    PROVE  TypedTable(s.table, rows)
<1> DEFINE t == s.table
           old == tables[t]
           columns == [k \in DOMAIN s.assignments |-> s.assignments[k][1]]
           results == [k \in DOMAIN columns |-> Coerced(TypeOf(Schemas[t], columns[k]), s.assignments[k][2])]
<1>1. PICK f, values : /\ values \in PreparedAssignments(s, columns)
                       /\ rows = [k \in DOMAIN old |-> IF Matches(old[k], f) THEN Assigned(old[k], columns, values)
                                                       ELSE old[k]]
  <2>1. UpdatedRows(s) =
            {[k \in DOMAIN old |-> IF Matches(old[k], f) THEN Assigned(old[k], columns, values) ELSE old[k]] :
                f \in Filters(s), values \in PreparedAssignments(s, columns)}
    BY DEF UpdatedRows
  <2> HIDE DEF columns, old
  <2> QED
    BY <2>1
<1>2. IsList(columns)
  <2> DEFINE S == s.assignments
             l == [k \in DOMAIN S |-> S[k][1]]
  <2>1. IsList(S)
    BY DEF ListsIn
  <2> HIDE DEF S
  <2>2. Len(S) \in Nat /\ DOMAIN S = 1..Len(S)
    BY <2>1 DEF IsList
  <2>3. DOMAIN l = 1..Len(S) /\ l = [k \in 1..Len(S) |-> l[k]]
    BY <2>2
  <2> HIDE DEF l
  <2>4. IsList(l)
    BY <2>2, <2>3, Lists
  <2>5. columns = l
    BY Zenon DEF l, S
  <2> QED
    BY <2>4, <2>5
<1>3. values \in Collect(results)
  BY <1>1, Zenon DEF PreparedAssignments
<1> HIDE DEF columns, old
<1>4. \A k \in DOMAIN columns : OfType(TypeOf(Schemas[t], columns[k]), values[k])
  <2>1. \A k \in DOMAIN columns : values[k] \in Coerced(TypeOf(Schemas[t], columns[k]), s.assignments[k][2])
    BY <1>3, Picked, Zenon
  <2> QED
    BY <2>1, CoercedTyped
<1>5. IsList(old) /\ \A k \in DOMAIN old : TypedRow(t, old[k])
  BY DEF TypedTable, old
<1>6. \A k \in DOMAIN old : TypedRow(t, Assigned(old[k], columns, values))
  BY <1>2, <1>4, <1>5, AssignedTyped
<1>7. DOMAIN rows = DOMAIN old /\ \A k \in DOMAIN old : TypedRow(t, rows[k])
  <2>1. \A k \in DOMAIN old : rows[k] = Assigned(old[k], columns, values) \/ rows[k] = old[k]
    BY <1>1
  <2>2. DOMAIN rows = DOMAIN old
    BY <1>1
  <2> QED
    BY <2>1, <2>2, <1>5, <1>6
<1>8. Len(old) \in Nat /\ DOMAIN rows = 1..Len(old)
  BY <1>5, <1>7 DEF IsList
<1>9. rows = [k \in 1..Len(old) |-> rows[k]]
  <2>1. \E d : rows = [k \in d |-> rows[k]]
    BY <1>1
  <2> QED
    BY <2>1, <1>8
<1>10. IsList(rows)
  BY <1>8, <1>9, Lists
<1> QED
  BY <1>7, <1>10 DEF TypedTable

LEMMA KeptTyped ==
    ASSUME NEW s, s.table \in Tables,
           TypedTable(s.table, tables[s.table]), NEW rows \in KeptRows(s)
    PROVE  TypedTable(s.table, rows)
<1> DEFINE old == tables[s.table]
<1>1. PICK f \in Filters(s) : rows = At(old, {k \in DOMAIN old : ~Matches(old[k], f)})
  BY Zenon DEF KeptRows
<1> DEFINE P == {k \in DOMAIN old : ~Matches(old[k], f)}
<1>2. IsList(old) /\ \A k \in DOMAIN old : TypedRow(s.table, old[k])
  BY DEF TypedTable
<1> HIDE DEF old
<1>3. P \in SUBSET DOMAIN old
  BY Zenon
<1>4. rows = At(old, P)
  BY <1>1
<1> HIDE DEF P
<1>5. P \in SUBSET Int /\ IsFiniteSet(P)
  BY <1>2, <1>3, Positions
<1>6. IsList(rows)
  BY <1>4, <1>5, ListOfAt
<1>7. \A k \in DOMAIN rows : \E i \in P : rows[k] = old[i]
  <2>1. /\ DOMAIN At(old, P) = 1..Cardinality(P)
        /\ \A k \in 1..Cardinality(P) : \E i \in P : At(old, P)[k] = old[i]
    BY <1>5, AtElements
  <2> QED
    BY <1>4, <2>1, Zenon
<1>8. \A k \in DOMAIN rows : TypedRow(s.table, rows[k])
  BY <1>2, <1>3, <1>7
<1> QED
  BY <1>6, <1>8 DEF TypedTable

LEMMA WrittenTyped ==
    ASSUME NEW s, ListsIn(s), TypedTables, NEW rows \in NewRows(s), s.kind \in {"Insert", "Update", "Delete"}
    PROVE  s.table \in Tables /\ TypedTable(s.table, rows)
<1>1. s.table \in Tables
  BY DEF NewRows
<1>2. TypedTable(s.table, tables[s.table])
  BY <1>1 DEF TypedTables
<1>3. CASE s.kind = "Insert"
  <2>1. rows \in InsertedRows(s)
    BY <1>1, <1>3 DEF NewRows
  <2> QED
    BY <1>1, <1>2, <1>3, <2>1, InsertedTyped
<1>4. CASE s.kind = "Update"
  <2>1. rows \in UpdatedRows(s)
    BY <1>1, <1>4 DEF NewRows
  <2> QED
    BY <1>1, <1>2, <1>4, <2>1, UpdatedTyped
<1>5. CASE s.kind = "Delete"
  <2>1. rows \in KeptRows(s)
    BY <1>1, <1>5 DEF NewRows
  <2> QED
    BY <1>1, <1>2, <2>1, KeptTyped
<1> QED
  BY <1>3, <1>4, <1>5

\* What a step does to the tables: nothing, or a statement that was read
\* rewrites one of them.
LEMMA StepOfTables ==
    ASSUME [QueryNext]_query_vars
    PROVE  \/ UNCHANGED tables
           \/ \E q \in Texts : \E s \in Understood[q] : WriteRows(s)
<1>1. CASE UNCHANGED query_vars
  BY <1>1 DEF query_vars
<1>2. CASE Prompt
  BY <1>2 DEF Prompt
<1>3. ASSUME NEW q \in Texts, Ask(q)
      PROVE  UNCHANGED tables \/ \E s \in Understood[q] : WriteRows(s)
  <2>1. CASE Reject
    BY <2>1 DEF Reject
  <2>2. ASSUME NEW s \in Understood[q], Execute(s)
        PROVE  UNCHANGED tables \/ WriteRows(s)
    <3>1. UNCHANGED tables \/ WriteRows(s)
      BY <2>2 DEF Execute, SelectRows, ChangeIndexes, Refuse, OnlyRead
    <3> QED
      BY <3>1
  <2> QED
    BY <1>3, <2>1, <2>2 DEF Ask
<1> QED
  BY <1>1, <1>2, <1>3 DEF QueryNext

LEMMA ReadLists ==
    ASSUME NEW q \in Texts, NEW s \in Understood[q]
    PROVE  ListsIn(s)
<1>1. s \in ParseStatement(q.text)
  BY Zenon DEF Understood
<1>2. IsList(q.text)
  BY TextsAssumption DEF IsList
<1> QED
  BY <1>1, <1>2, ParsedLists

\* Every cell has the type of its column or is NULL, whatever statements are
\* read and whatever literals they hold.
THEOREM TypedCellsInvariant == QuerySpec => []TypedCells
<1>1. QueryInit => TypedTables
  <2>1. IsList(<<>>) /\ DOMAIN <<>> = {}
    BY DEF IsList
  <2> QED
    BY <2>1 DEF QueryInit, TypedTables, TypedTable
<1>2. TypedTables /\ [QueryNext]_query_vars => TypedTables'
  <2> SUFFICES ASSUME TypedTables, [QueryNext]_query_vars PROVE TypedTables'
    OBVIOUS
  <2>1. CASE UNCHANGED tables
    BY <2>1 DEF TypedTables
  <2>2. ASSUME NEW q \in Texts, NEW s \in Understood[q], WriteRows(s)
        PROVE  TypedTables'
    <3>1. PICK rows \in NewRows(s) : tables' = [tables EXCEPT ![s.table] = rows]
      BY <2>2 DEF WriteRows
    <3>2. s.table \in Tables /\ TypedTable(s.table, rows)
      BY <2>2, <3>1, ReadLists, WrittenTyped DEF WriteRows
    <3> QED
      BY <3>1, <3>2 DEF TypedTables
  <2> QED
    BY <2>1, <2>2, StepOfTables
<1>3. TypedTables => TypedCells
  BY DEF TypedTables, TypedTable, TypedRow, OfType, TypedCells
<1> QED
  BY <1>1, <1>2, <1>3, PTL DEF QuerySpec

---------------------------------------------------------------------------------
(* LIKE *)

\* Whether the first i characters of a pattern can be laid over the first j of
\* a text, the last cut being at j
Cuts(text, pattern, cut, i) ==
    /\ cut[0] = 0
    /\ \A k \in 1..i :
        IF pattern[k] = 37 THEN cut[k - 1] <= cut[k]
        ELSE cut[k] = cut[k - 1] + 1 /\ pattern[k] \in {95, text[cut[k]]}

FitsUpto(text, pattern, i, j) ==
    \E cut \in [0..i -> 0..Len(text)] : cut[i] = j /\ Cuts(text, pattern, cut, i)

\* One more character
LEMMA CutLonger ==
    ASSUME NEW text, IsList(text), NEW pattern, NEW i \in Nat, i > 0, NEW j \in 0..Len(text),
           NEW k \in 0..Len(text), FitsUpto(text, pattern, i - 1, k),
           IF pattern[i] = 37 THEN k <= j ELSE j = k + 1 /\ pattern[i] \in {95, text[j]}
    PROVE  FitsUpto(text, pattern, i, j)
<1> DEFINE n == Len(text)
<1>1. PICK cut \in [0..(i - 1) -> 0..n] : cut[i - 1] = k /\ Cuts(text, pattern, cut, i - 1)
  BY DEF FitsUpto
<1> DEFINE more == [p \in 0..i |-> IF p = i THEN j ELSE cut[p]]
<1>2. n \in Nat
  BY DEF IsList
<1>3. more \in [0..i -> 0..n] /\ more[i] = j /\ more[i - 1] = k /\ more[0] = cut[0]
      /\ \A p \in 0..(i - 1) : more[p] = cut[p]
  BY <1>1, <1>2
<1>4. ASSUME NEW p \in 1..i
      PROVE  IF pattern[p] = 37 THEN more[p - 1] <= more[p]
             ELSE more[p] = more[p - 1] + 1 /\ pattern[p] \in {95, text[more[p]]}
  <2> HIDE DEF more
  <2>1. CASE p = i
    BY <2>1, <1>3
  <2>2. CASE p # i
    <3>1. p \in 1..(i - 1) /\ p \in 0..(i - 1) /\ p - 1 \in 0..(i - 1)
      BY <2>2
    <3>2. more[p] = cut[p] /\ more[p - 1] = cut[p - 1]
      BY <1>3, <3>1
    <3> QED
      BY <3>1, <3>2, <1>1, Zenon DEF Cuts
  <2> QED
    BY <2>1, <2>2
<1>5. Cuts(text, pattern, more, i)
  <2> HIDE DEF more
  <2> QED
    BY <1>1, <1>3, <1>4, Zenon DEF Cuts
<1> HIDE DEF more
<1> QED
  BY <1>3, <1>5 DEF FitsUpto

\* One character less
LEMMA CutShorter ==
    ASSUME NEW text, IsList(text), NEW pattern, NEW i \in Nat, i > 0, NEW j \in 0..Len(text),
           FitsUpto(text, pattern, i, j)
    PROVE  \E k \in 0..Len(text) :
                /\ FitsUpto(text, pattern, i - 1, k)
                /\ IF pattern[i] = 37 THEN k <= j ELSE j = k + 1 /\ pattern[i] \in {95, text[j]}
<1> DEFINE n == Len(text)
<1>1. PICK cut \in [0..i -> 0..n] : cut[i] = j /\ Cuts(text, pattern, cut, i)
  BY DEF FitsUpto
<1> DEFINE less == [p \in 0..(i - 1) |-> cut[p]]
<1>2. less \in [0..(i - 1) -> 0..n] /\ less[i - 1] = cut[i - 1] /\ less[0] = cut[0]
      /\ \A p \in 0..(i - 1) : less[p] = cut[p]
  <2>1. 0..(i - 1) \subseteq 0..i /\ i - 1 \in 0..(i - 1) /\ 0 \in 0..(i - 1)
    OBVIOUS
  <2> QED
    BY <2>1, <1>1
<1>3. cut[i - 1] \in 0..n
  BY <1>1
<1> HIDE DEF less
<1>4. Cuts(text, pattern, less, i - 1)
  <2>1. ASSUME NEW p \in 1..(i - 1)
        PROVE  IF pattern[p] = 37 THEN less[p - 1] <= less[p]
               ELSE less[p] = less[p - 1] + 1 /\ pattern[p] \in {95, text[less[p]]}
    <3>1. p \in 1..i /\ p \in 0..(i - 1) /\ p - 1 \in 0..(i - 1)
      OBVIOUS
    <3>2. less[p] = cut[p] /\ less[p - 1] = cut[p - 1]
      BY <1>2, <3>1
    <3> QED
      BY <3>1, <3>2, <1>1, Zenon DEF Cuts
  <2> QED
    BY <2>1, <1>1, <1>2, Zenon DEF Cuts
<1>5. FitsUpto(text, pattern, i - 1, cut[i - 1])
  BY <1>2, <1>4 DEF FitsUpto
<1>6. IF pattern[i] = 37 THEN cut[i - 1] <= j ELSE j = cut[i - 1] + 1 /\ pattern[i] \in {95, text[j]}
  <2>1. i \in 1..i
    OBVIOUS
  <2> QED
    BY <2>1, <1>1, Zenon DEF Cuts
<1> QED
  BY <1>3, <1>5, <1>6

LEMMA CutNothing ==
    ASSUME NEW text, IsList(text), NEW pattern, NEW j \in 0..Len(text)
    PROVE  FitsUpto(text, pattern, 0, j) <=> j = 0
<1>1. ASSUME FitsUpto(text, pattern, 0, j) PROVE j = 0
  BY <1>1 DEF FitsUpto, Cuts
<1>2. ASSUME j = 0 PROVE FitsUpto(text, pattern, 0, j)
  <2> DEFINE cut == [p \in 0..0 |-> 0]
  <2>1. cut \in [0..0 -> 0..Len(text)] /\ cut[0] = 0
    BY DEF IsList
  <2> HIDE DEF cut
  <2>2. Cuts(text, pattern, cut, 0)
    BY <2>1 DEF Cuts
  <2> QED
    BY <2>1, <2>2, <1>2 DEF FitsUpto
<1> QED
  BY <1>1, <1>2

\* One entry of the table, where the entries it looks at are right
LEMMA LikeStepFits ==
    ASSUME NEW text, IsList(text), NEW pattern, IsList(pattern), NEW dp,
           NEW i \in 0..Len(pattern), NEW j \in 0..Len(text),
           \A a \in 0..Len(pattern) : \A b \in 0..Len(text) :
                a + b < i + j => (dp[<<a, b>>] <=> FitsUpto(text, pattern, a, b))
    PROVE  LikeStep(text, pattern, dp, i, j) = IF FitsUpto(text, pattern, i, j) THEN TRUE ELSE FALSE
<1> DEFINE fits(a, b) == FitsUpto(text, pattern, a, b)
<1>1. Len(text) \in Nat /\ Len(pattern) \in Nat
  BY DEF IsList
<1>2. CASE i = 0
  <2>1. LikeStep(text, pattern, dp, i, j) = (j = 0)
    BY <1>2 DEF LikeStep
  <2>2. FitsUpto(text, pattern, 0, j) <=> j = 0
    BY CutNothing
  <2> QED
    BY <1>2, <2>1, <2>2, Zenon
<1>3. CASE i > 0 /\ j = 0
  <2>1. i - 1 \in 0..Len(pattern) /\ 0 \in 0..Len(text) /\ i \in Nat /\ (i - 1) + 0 < i + j
    BY <1>1, <1>3
  <2>2. dp[<<i - 1, 0>>] <=> fits(i - 1, 0)
    BY <2>1
  <2>3. fits(i, 0) <=> pattern[i] = 37 /\ fits(i - 1, 0)
    <3>1. ASSUME fits(i, 0)
          PROVE  pattern[i] = 37 /\ fits(i - 1, 0)
      <4>1. PICK k \in 0..Len(text) :
                /\ fits(i - 1, k)
                /\ IF pattern[i] = 37 THEN k <= 0 ELSE 0 = k + 1 /\ pattern[i] \in {95, text[0]}
        BY <2>1, <3>1, <1>3, CutShorter
      <4>2. k = 0 /\ pattern[i] = 37
        BY <4>1
      <4> QED
        BY <4>1, <4>2
    <3>2. ASSUME pattern[i] = 37, fits(i - 1, 0)
          PROVE  fits(i, 0)
      BY <3>2, <2>1, <1>3, CutLonger
    <3> QED
      BY <3>1, <3>2
  <2> HIDE DEF fits
  <2>4. LikeStep(text, pattern, dp, i, j) = (pattern[i] = 37 /\ dp[<<i - 1, 0>>])
    BY <1>3 DEF LikeStep
  <2> QED
    BY <2>2, <2>3, <2>4, <1>3 DEF fits
<1>4. CASE i > 0 /\ j > 0
  <2>1. /\ i \in Nat /\ j \in Nat /\ i - 1 \in 0..Len(pattern) /\ j - 1 \in 0..Len(text)
        /\ (i - 1) + j < i + j /\ i + (j - 1) < i + j /\ (i - 1) + (j - 1) < i + j
    BY <1>1, <1>4
  <2>2. /\ dp[<<i - 1, j>>] <=> fits(i - 1, j)
        /\ dp[<<i, j - 1>>] <=> fits(i, j - 1)
        /\ dp[<<i - 1, j - 1>>] <=> fits(i - 1, j - 1)
    BY <2>1
  <2>3. CASE pattern[i] = 37
    <3>1. ASSUME fits(i, j)
          PROVE  fits(i - 1, j) \/ fits(i, j - 1)
      <4>1. PICK k \in 0..Len(text) : fits(i - 1, k) /\ k <= j
        BY <2>1, <2>3, <3>1, <1>4, CutShorter
      <4>2. CASE k = j
        BY <4>1, <4>2
      <4>3. CASE k # j
        <5>1. k <= j - 1
          BY <4>1, <4>3
        <5>2. fits(i, j - 1)
          BY <5>1, <4>1, <2>1, <2>3, <1>4, CutLonger
        <5> QED
          BY <5>2
      <4> QED
        BY <4>2, <4>3
    <3>2. ASSUME fits(i - 1, j)
          PROVE  fits(i, j)
      <4>1. FitsUpto(text, pattern, i - 1, j)
        BY <3>2
      <4>2. IF pattern[i] = 37 THEN j <= j ELSE j = j + 1 /\ pattern[i] \in {95, text[j]}
        BY <2>1, <2>3
      <4> QED
        BY <4>1, <4>2, <2>1, <1>4, CutLonger
    <3>3. ASSUME fits(i, j - 1)
          PROVE  fits(i, j)
      <4>1. PICK k \in 0..Len(text) : fits(i - 1, k) /\ k <= j - 1
        BY <2>1, <2>3, <3>3, <1>4, CutShorter
      <4>2. k <= j
        BY <4>1, <2>1
      <4> QED
        BY <4>1, <4>2, <2>1, <2>3, <1>4, CutLonger
    <3> HIDE DEF fits
    <3>4. LikeStep(text, pattern, dp, i, j) = (dp[<<i - 1, j>>] \/ dp[<<i, j - 1>>])
      BY <1>4, <2>3, <2>1 DEF LikeStep
    <3> QED
      BY <2>2, <3>1, <3>2, <3>3, <3>4 DEF fits
  <2>4. CASE pattern[i] # 37
    <3>1. ASSUME fits(i, j)
          PROVE  fits(i - 1, j - 1) /\ pattern[i] \in {95, text[j]}
      <4>1. PICK k \in 0..Len(text) : fits(i - 1, k) /\ j = k + 1 /\ pattern[i] \in {95, text[j]}
        BY <2>1, <2>4, <3>1, <1>4, CutShorter
      <4>2. k = j - 1
        BY <4>1, <2>1
      <4> QED
        BY <4>1, <4>2
    <3>2. ASSUME fits(i - 1, j - 1), pattern[i] \in {95, text[j]}
          PROVE  fits(i, j)
      <4>1. j = (j - 1) + 1
        BY <2>1
      <4> QED
        BY <3>2, <4>1, <2>1, <2>4, <1>4, CutLonger
    <3> HIDE DEF fits
    <3>4. LikeStep(text, pattern, dp, i, j) = (dp[<<i - 1, j - 1>>] /\ pattern[i] \in {95, text[j]})
      BY <1>4, <2>4, <2>1 DEF LikeStep
    <3> QED
      BY <2>2, <3>1, <3>2, <3>4 DEF fits
  <2> QED
    BY <2>3, <2>4
<1>5. i = 0 \/ (i > 0 /\ j = 0) \/ (i > 0 /\ j > 0)
  BY <1>1
<1> QED
  BY <1>2, <1>3, <1>4, <1>5, Zenon

\* The table exists, and each of its entries is right.
LEMMA LikeTable ==
    ASSUME NEW text, IsList(text), NEW pattern, IsList(pattern), NEW dp,
           dp = [at \in PrefixPairs(text, pattern) |-> LikeStep(text, pattern, dp, at[1], at[2])]
    PROVE  \A i \in 0..Len(pattern) : \A j \in 0..Len(text) : dp[<<i, j>>] <=> FitsUpto(text, pattern, i, j)
<1> DEFINE wrong == {s \in Nat : \E i \in 0..Len(pattern) : \E j \in 0..Len(text) :
                            s = i + j /\ ~(dp[<<i, j>>] <=> FitsUpto(text, pattern, i, j))}
<1>1. Len(text) \in Nat /\ Len(pattern) \in Nat
  BY DEF IsList
<1>2. ASSUME NEW m \in wrong, \A s \in wrong : m <= s
      PROVE  FALSE
  <2>1. PICK i \in 0..Len(pattern), j \in 0..Len(text) :
            m = i + j /\ ~(dp[<<i, j>>] <=> FitsUpto(text, pattern, i, j))
    BY Zenon
  <2>2. ASSUME NEW a \in 0..Len(pattern), NEW b \in 0..Len(text), a + b < i + j
        PROVE  dp[<<a, b>>] <=> FitsUpto(text, pattern, a, b)
    <3>1. a + b \in Nat /\ ~(m <= a + b)
      BY <1>1, <2>1, <2>2
    <3>2. ~(a + b \in wrong)
      BY <3>1, <1>2, Zenon
    <3> QED
      BY <3>1, <3>2, Zenon
  <2>3. LikeStep(text, pattern, dp, i, j) = IF FitsUpto(text, pattern, i, j) THEN TRUE ELSE FALSE
    <3> HIDE DEF wrong
    <3> QED
      BY <2>2, LikeStepFits
  <2>4. dp[<<i, j>>] = LikeStep(text, pattern, dp, i, j)
    <3>1. <<i, j>> \in PrefixPairs(text, pattern) /\ <<i, j>>[1] = i /\ <<i, j>>[2] = j
      BY DEF PrefixPairs
    <3>2. \A at \in PrefixPairs(text, pattern) : dp[at] = LikeStep(text, pattern, dp, at[1], at[2])
      BY Zenon
    <3>3. dp[<<i, j>>] = LikeStep(text, pattern, dp, <<i, j>>[1], <<i, j>>[2])
      BY <3>1, <3>2, Zenon
    <3> QED
      BY <3>1, <3>3, Zenon
  <2> HIDE DEF wrong
  <2> QED
    BY <2>1, <2>3, <2>4
<1>3. wrong = {}
  <2>1. wrong \in SUBSET Nat
    OBVIOUS
  <2> HIDE DEF wrong
  <2> QED
    BY <2>1, <1>2, Smallest
<1>4. ASSUME NEW i \in 0..Len(pattern), NEW j \in 0..Len(text)
      PROVE  dp[<<i, j>>] <=> FitsUpto(text, pattern, i, j)
  <2>1. i + j \in Nat
    BY <1>1
  <2> QED
    BY <2>1, <1>3, Zenon
<1> QED
  BY <1>4

LEMMA LikeTableExists ==
    ASSUME NEW text, IsList(text), NEW pattern, IsList(pattern)
    PROVE  \E dp : dp = [at \in PrefixPairs(text, pattern) |-> LikeStep(text, pattern, dp, at[1], at[2])]
<1> DEFINE D == PrefixPairs(text, pattern)
           dp == [at \in D |-> IF FitsUpto(text, pattern, at[1], at[2]) THEN TRUE ELSE FALSE]
<1>1. Len(text) \in Nat /\ Len(pattern) \in Nat
  BY DEF IsList
<1>2. ASSUME NEW i \in 0..Len(pattern), NEW j \in 0..Len(text)
      PROVE  dp[<<i, j>>] <=> FitsUpto(text, pattern, i, j)
  <2>1. <<i, j>> \in D /\ <<i, j>>[1] = i /\ <<i, j>>[2] = j
    BY DEF PrefixPairs
  <2> HIDE DEF D
  <2>2. dp[<<i, j>>] = IF FitsUpto(text, pattern, <<i, j>>[1], <<i, j>>[2]) THEN TRUE ELSE FALSE
    BY <2>1, Zenon
  <2> HIDE DEF dp
  <2> QED
    BY <2>1, <2>2
<1>3. ASSUME NEW at \in D
      PROVE  dp[at] = LikeStep(text, pattern, dp, at[1], at[2])
  <2>1. at[1] \in 0..Len(pattern) /\ at[2] \in 0..Len(text)
    BY DEF PrefixPairs
  <2> DEFINE i == at[1]
             j == at[2]
  <2>2. dp[at] = IF FitsUpto(text, pattern, i, j) THEN TRUE ELSE FALSE
    BY Zenon
  <2>3. \A a \in 0..Len(pattern) : \A b \in 0..Len(text) :
            a + b < i + j => (dp[<<a, b>>] <=> FitsUpto(text, pattern, a, b))
    BY <1>2, Zenon
  <2>4. i \in 0..Len(pattern) /\ j \in 0..Len(text)
    BY <2>1
  <2> HIDE DEF dp, D, i, j
  <2>5. LikeStep(text, pattern, dp, i, j) = IF FitsUpto(text, pattern, i, j) THEN TRUE ELSE FALSE
    BY <2>3, <2>4, LikeStepFits
  <2> QED
    BY <2>2, <2>5 DEF i, j
<1>4. dp = [at \in D |-> LikeStep(text, pattern, dp, at[1], at[2])]
  <2>1. dp = [at \in D |-> dp[at]]
    OBVIOUS
  <2> HIDE DEF dp, D
  <2> QED
    BY <2>1, <1>3, Zenon
<1> HIDE DEF dp
<1> QED
  BY <1>4, Zenon

\* The table of prefixes says of every text and every pattern what the
\* wildcards mean.
THEOREM LikeMatchesWildcards ==
    ASSUME NEW text, IsList(text), NEW pattern, IsList(pattern)
    PROVE  LikeMatches(text, pattern) <=> Fits(text, pattern)
<1> DEFINE table == CHOOSE dp : dp = [at \in PrefixPairs(text, pattern) |->
                                        LikeStep(text, pattern, dp, at[1], at[2])]
<1>1. LikeMatches(text, pattern) = table[<<Len(pattern), Len(text)>>]
  BY Zenon DEF LikeMatches
<1>2. table = [at \in PrefixPairs(text, pattern) |-> LikeStep(text, pattern, table, at[1], at[2])]
  BY LikeTableExists, Zenon
<1> HIDE DEF table
<1>3. Len(pattern) \in 0..Len(pattern) /\ Len(text) \in 0..Len(text)
  BY DEF IsList
<1>4. \A i \in 0..Len(pattern) : \A j \in 0..Len(text) : table[<<i, j>>] <=> FitsUpto(text, pattern, i, j)
  BY <1>2, LikeTable
<1>5. table[<<Len(pattern), Len(text)>>] <=> FitsUpto(text, pattern, Len(pattern), Len(text))
  BY <1>3, <1>4, Zenon
<1>6. FitsUpto(text, pattern, Len(pattern), Len(text)) <=> Fits(text, pattern)
  BY Zenon DEF FitsUpto, Cuts, Fits
<1> QED
  BY <1>1, <1>5, <1>6, Zenon

---------------------------------------------------------------------------------
(* Numbers and their digits *)

\* A number and its last digit
LEMMA LastDigit ==
    ASSUME NEW n \in Nat
    PROVE  /\ n \div 10 \in Nat /\ n % 10 \in 0..9 /\ n = 10 * (n \div 10) + (n % 10)
           /\ n >= 10 => n \div 10 < n
  OBVIOUS

LEMMA DigitsUpto ==
    ASSUME NEW m \in Nat
    PROVE  \E f : f = [n \in 0..m |-> DigitsAfter(f, n)]
<1> DEFINE S == {i \in Nat : \E f : f = [n \in 0..i |-> DigitsAfter(f, n)]}
<1>1. 0 \in S
  <2> DEFINE f == [n \in 0..0 |-> <<48 + n>>]
  <2>1. \A n \in 0..0 : DigitsAfter(f, n) = f[n]
    BY DEF DigitsAfter
  <2>2. f = [n \in 0..0 |-> f[n]]
    OBVIOUS
  <2> HIDE DEF f
  <2>3. f = [n \in 0..0 |-> DigitsAfter(f, n)]
    BY <2>1, <2>2, Zenon
  <2> QED
    BY <2>3, Zenon
<1>2. ASSUME NEW i \in Nat, i \in S
      PROVE  i + 1 \in S
  <2>1. PICK f : f = [n \in 0..i |-> DigitsAfter(f, n)]
    BY <1>2
  <2> DEFINE g == [n \in 0..(i + 1) |-> IF n = i + 1 THEN DigitsAfter(f, i + 1) ELSE f[n]]
  <2>2. /\ g[i + 1] = DigitsAfter(f, i + 1)
        /\ \A n \in 0..i : g[n] = f[n]
        /\ g = [n \in 0..(i + 1) |-> g[n]]
    OBVIOUS
  <2> HIDE DEF g
  <2>3. \A n \in 0..i : g[n] = DigitsAfter(f, n)
    BY <2>1, <2>2, Zenon
  <2>4. ASSUME NEW n \in 0..(i + 1)
        PROVE  DigitsAfter(g, n) = DigitsAfter(f, n)
    <3>1. CASE n < 10
      BY <3>1 DEF DigitsAfter
    <3>2. CASE n >= 10
      <4>1. n \div 10 \in 0..i
        BY <3>2, LastDigit
      <4>2. g[n \div 10] = f[n \div 10]
        BY <4>1, <2>2, Zenon
      <4> QED
        BY <3>2, <4>2 DEF DigitsAfter
    <3> QED
      BY <3>1, <3>2
  <2>5. \A n \in 0..(i + 1) : g[n] = DigitsAfter(g, n)
    <3> TAKE n \in 0..(i + 1)
    <3>1. CASE n = i + 1
      BY <3>1, <2>2, <2>4
    <3>2. CASE n # i + 1
      <4>1. n \in 0..i
        BY <3>2
      <4> QED
        BY <4>1, <2>3, <2>4
    <3> QED
      BY <3>1, <3>2
  <2>6. g = [n \in 0..(i + 1) |-> DigitsAfter(g, n)]
    BY <2>2, <2>5, Zenon
  <2>7. i + 1 \in Nat
    OBVIOUS
  <2> QED
    BY <2>6, <2>7, Zenon
<1>3. Nat \subseteq S
  <2> HIDE DEF S
  <2> QED
    BY <1>1, <1>2, Induction
<1> QED
  BY <1>3

LEMMA DigitsAgree ==
    ASSUME NEW a \in Nat, NEW b \in Nat,
           NEW f, f = [n \in 0..a |-> DigitsAfter(f, n)],
           NEW g, g = [n \in 0..b |-> DigitsAfter(g, n)]
    PROVE  \A k \in Nat : k <= a /\ k <= b => f[k] = g[k]
<1> DEFINE wrong == {k \in Nat : k <= a /\ k <= b /\ f[k] # g[k]}
<1>1. ASSUME NEW m \in wrong, \A k \in wrong : m <= k
      PROVE  FALSE
  <2>1. m \in Nat /\ m \in 0..a /\ m \in 0..b /\ f[m] # g[m]
    OBVIOUS
  <2>2. f[m] = DigitsAfter(f, m) /\ g[m] = DigitsAfter(g, m)
    BY <2>1, Zenon
  <2>3. CASE m < 10
    BY <2>1, <2>2, <2>3 DEF DigitsAfter
  <2>4. CASE m >= 10
    <3>1. m \div 10 \in Nat /\ m \div 10 <= a /\ m \div 10 <= b /\ ~(m <= m \div 10)
      <4>1. m \div 10 \in Nat /\ m \div 10 < m
        BY <2>1, <2>4, LastDigit
      <4> HIDE DEF wrong
      <4> QED
        BY <4>1, <2>1
    <3>2. ~(m \div 10 \in wrong)
      BY <3>1, <1>1, Zenon
    <3>3. f[m \div 10] = g[m \div 10]
      BY <3>1, <3>2, Zenon
    <3> HIDE DEF wrong
    <3> QED
      BY <2>1, <2>2, <2>4, <3>3 DEF DigitsAfter
  <2> QED
    BY <2>1, <2>3, <2>4
<1>2. wrong = {}
  <2>1. wrong \in SUBSET Nat
    OBVIOUS
  <2> HIDE DEF wrong
  <2> QED
    BY <2>1, <1>1, Smallest
<1> QED
  BY <1>2, Zenon

LEMMA DigitsDefined == \A n \in Nat : Digits[n] = DigitsAfter(Digits, n)
<1> DEFINE F(n) == CHOOSE f : f = [k \in 0..n |-> DigitsAfter(f, k)]
           g == [n \in Nat |-> F(n)[n]]
<1>1. ASSUME NEW n \in Nat
      PROVE  F(n) = [k \in 0..n |-> DigitsAfter(F(n), k)]
  BY DigitsUpto, Zenon
<1> HIDE DEF F
<1>2. ASSUME NEW n \in Nat
      PROVE  g[n] = DigitsAfter(g, n)
  <2>1. g[n] = F(n)[n]
    BY Zenon
  <2>2. n \in 0..n
    OBVIOUS
  <2>3. F(n)[n] = DigitsAfter(F(n), n)
    BY <1>1, <2>2, Zenon
  <2> HIDE DEF g
  <2>4. CASE n < 10
    BY <2>1, <2>3, <2>4 DEF DigitsAfter
  <2>5. CASE n >= 10
    <3> DEFINE p == n \div 10
    <3>1. p \in Nat /\ p <= n /\ p <= p
      <4>1. n \div 10 \in Nat /\ n \div 10 < n
        BY <2>5, LastDigit
      <4> QED
        BY <4>1
    <3> HIDE DEF p
    <3>2. F(n)[p] = F(p)[p]
      BY <1>1, <3>1, DigitsAgree
    <3>3. g[p] = F(p)[p]
      BY <3>1, Zenon DEF g
    <3> QED
      BY <2>1, <2>3, <2>5, <3>2, <3>3 DEF DigitsAfter, p
  <2> QED
    BY <2>4, <2>5
<1>3. g = [n \in Nat |-> DigitsAfter(g, n)]
  <2>1. g = [n \in Nat |-> g[n]]
    OBVIOUS
  <2> HIDE DEF g
  <2> QED
    BY <1>2, <2>1, Zenon
<1> HIDE DEF g
<1>4. Digits = CHOOSE f : f = [n \in Nat |-> DigitsAfter(f, n)]
  BY Zenon DEF Digits
<1>5. Digits = [n \in Nat |-> DigitsAfter(Digits, n)]
  BY <1>3, <1>4, Zenon
<1> QED
  BY <1>5, Zenon

\* A list of digits and the number it stands for
Stands(digits, n) ==
    \E value : /\ value = [k \in 0..Len(digits) |-> ValueStep(digits, value, k)]
               /\ value[Len(digits)] = n

LEMMA StandsForOne ==
    ASSUME NEW digits, IsList(digits), NEW n, Stands(digits, n)
    PROVE  ValueOf(digits) = n
<1> DEFINE v == CHOOSE value : value = [k \in 0..Len(digits) |-> ValueStep(digits, value, k)]
<1>1. PICK w : w = [k \in 0..Len(digits) |-> ValueStep(digits, w, k)] /\ w[Len(digits)] = n
  BY DEF Stands
<1>2. v = [k \in 0..Len(digits) |-> ValueStep(digits, v, k)]
  BY <1>1, Zenon
<1>3. ValueOf(digits) = v[Len(digits)]
  BY Zenon DEF ValueOf
<1>4. Len(digits) \in Nat
  BY DEF IsList
<1> HIDE DEF v
<1> DEFINE wrong == {k \in Nat : k <= Len(digits) /\ v[k] # w[k]}
<1>5. ASSUME NEW m \in wrong, \A k \in wrong : m <= k
      PROVE  FALSE
  <2>1. m \in Nat /\ m \in 0..Len(digits) /\ v[m] # w[m]
    BY <1>4
  <2>2. v[m] = ValueStep(digits, v, m) /\ w[m] = ValueStep(digits, w, m)
    BY <2>1, <1>1, <1>2, Zenon
  <2>3. CASE m = 0
    BY <2>1, <2>2, <2>3 DEF ValueStep
  <2>4. CASE m # 0
    <3>1. m - 1 \in Nat /\ m - 1 <= Len(digits) /\ ~(m <= m - 1)
      BY <2>1, <2>4, <1>4
    <3>2. v[m - 1] = w[m - 1]
      BY <3>1, <1>5, Zenon
    <3> HIDE DEF wrong
    <3> QED
      BY <2>1, <2>2, <2>4, <3>2 DEF ValueStep
  <2> QED
    BY <2>3, <2>4
<1>6. wrong = {}
  <2>1. wrong \in SUBSET Nat
    OBVIOUS
  <2> HIDE DEF wrong
  <2> QED
    BY <2>1, <1>5, Smallest
<1>7. Len(digits) <= Len(digits)
  BY <1>4
<1> QED
  BY <1>1, <1>3, <1>4, <1>6, <1>7, Zenon

LEMMA DigitsStand ==
    ASSUME NEW n \in Nat
    PROVE  Digits[n] \in Seq(48..57) /\ Len(Digits[n]) > 0 /\ Stands(Digits[n], n)
<1> DEFINE good(i) == Digits[i] \in Seq(48..57) /\ Len(Digits[i]) > 0 /\ Stands(Digits[i], i)
           wrong == {i \in Nat : ~good(i)}
<1>1. ASSUME NEW m \in Nat, m < 10
      PROVE  good(m)
  <2>1. Digits[m] = <<48 + m>>
    BY <1>1, DigitsDefined DEF DigitsAfter
  <2> DEFINE d == <<48 + m>>
             v == [k \in 0..1 |-> IF k = 0 THEN 0 ELSE m]
  <2>2. d \in Seq(48..57) /\ Len(d) = 1 /\ d[1] = 48 + m
    BY <1>1
  <2>3. v = [k \in 0..1 |-> v[k]] /\ v[0] = 0 /\ v[1] = m
    OBVIOUS
  <2> HIDE DEF v, d
  <2>4. \A k \in 0..1 : v[k] = ValueStep(d, v, k)
    BY <2>2, <2>3 DEF ValueStep
  <2>5. v = [k \in 0..Len(d) |-> ValueStep(d, v, k)]
    BY <2>2, <2>3, <2>4
  <2>6. Stands(d, m)
    BY <2>2, <2>3, <2>5 DEF Stands
  <2>7. Digits[m] = d
    BY <2>1 DEF d
  <2>8. Len(d) > 0
    BY <2>2
  <2> QED
    BY <2>2, <2>6, <2>7, <2>8
<1>2. ASSUME NEW m \in Nat, m >= 10, good(m \div 10)
      PROVE  good(m)
  <2> DEFINE d == Digits[m \div 10]
             e == Digits[m]
             L == Len(d)
  <2>1. e = d \o <<48 + (m % 10)>>
    <3>1. Digits[m] = DigitsAfter(Digits, m)
      BY DigitsDefined, <1>2
    <3>2. DigitsAfter(Digits, m) = Digits[m \div 10] \o <<48 + (m % 10)>>
      <4>1. ~(m < 10)
        BY <1>2
      <4> QED
        BY <4>1, Zenon DEF DigitsAfter
    <3> QED
      BY <3>1, <3>2
  <2>2. m \div 10 \in Nat /\ m % 10 \in 0..9 /\ m = 10 * (m \div 10) + (m % 10)
    BY LastDigit
  <2>3. d \in Seq(48..57) /\ L \in Nat /\ L > 0
    BY <1>2
  <2>4. PICK w : w = [k \in 0..L |-> ValueStep(d, w, k)] /\ w[L] = m \div 10
    BY <1>2 DEF Stands
  <2> HIDE DEF d
  <2>5. 48 + (m % 10) \in 48..57
    BY <2>2
  <2>6. /\ e \in Seq(48..57) /\ Len(e) = L + 1 /\ e[L + 1] = 48 + (m % 10)
        /\ \A k \in 1..L : e[k] = d[k]
    BY <2>1, <2>3, <2>5
  <2> DEFINE v == [k \in 0..(L + 1) |-> IF k = L + 1 THEN m ELSE w[k]]
  <2>7. v = [k \in 0..(L + 1) |-> v[k]] /\ v[L + 1] = m /\ \A k \in 0..L : v[k] = w[k]
    BY <2>3
  <2> HIDE DEF v, e, L
  <2>8. ASSUME NEW k \in 0..(L + 1)
        PROVE  v[k] = ValueStep(e, v, k)
    <3>1. CASE k = L + 1
      <4>0. k - 1 = L /\ L \in 0..L
        BY <3>1, <2>3 DEF L
      <4>1. v[k - 1] = m \div 10
        BY <4>0, <2>4, <2>7
      <4>2. ValueStep(e, v, k) = 10 * (m \div 10) + (48 + (m % 10)) - 48
        BY <3>1, <2>3, <4>1, <2>6 DEF ValueStep
      <4> QED
        BY <4>2, <2>2, <2>7, <3>1
    <3>2. CASE k # L + 1
      <4>1. k \in 0..L
        BY <3>2, <2>3
      <4>2. v[k] = w[k] /\ w[k] = ValueStep(d, w, k)
        BY <4>1, <2>4, <2>7, Zenon
      <4>3. CASE k = 0
        BY <4>2, <4>3 DEF ValueStep
      <4>4. CASE k # 0
        <5>1. k \in 1..L /\ k - 1 \in 0..L
          BY <4>1, <4>4, <2>3
        <5>2. e[k] = d[k] /\ v[k - 1] = w[k - 1]
          BY <5>1, <2>6, <2>7
        <5> QED
          BY <4>2, <4>4, <5>2 DEF ValueStep
      <4> QED
        BY <4>3, <4>4
    <3> QED
      BY <3>1, <3>2
  <2>9. v = [k \in 0..Len(e) |-> ValueStep(e, v, k)]
    BY <2>6, <2>7, <2>8
  <2>10. Stands(e, m)
    BY <2>6, <2>7, <2>9 DEF Stands
  <2>11. Len(e) > 0
    BY <2>3, <2>6
  <2> QED
    BY <2>6, <2>10, <2>11 DEF e
<1> HIDE DEF good
<1>3. ASSUME NEW m \in wrong, \A k \in wrong : m <= k
      PROVE  FALSE
  <2>1. m \in Nat /\ ~good(m)
    OBVIOUS
  <2>2. m >= 10
    BY <2>1, <1>1
  <2>3. m \div 10 \in Nat /\ ~(m <= m \div 10)
    <3>1. m \div 10 \in Nat /\ m \div 10 < m
      BY <2>1, <2>2, LastDigit
    <3> HIDE DEF wrong
    <3> QED
      BY <3>1, <2>1
  <2>4. good(m \div 10)
    BY <2>3, <1>3, Zenon
  <2> QED
    BY <2>1, <2>2, <2>4, <1>2
<1>4. wrong = {}
  <2>1. wrong \in SUBSET Nat
    OBVIOUS
  <2> HIDE DEF wrong
  <2> QED
    BY <2>1, <1>3, Smallest
<1>5. good(n)
  BY <1>4, Zenon
<1> QED
  BY <1>5 DEF good

\* A number printed and parsed again is the number.
LEMMA PrintedAndParsed ==
    ASSUME NEW n \in Int
    PROVE  /\ Decimal(n) \in Seq(Nat)
           /\ Parsed(Decimal(n)) = {n} \cap Int64
<1>1. ASSUME NEW m \in Nat
      PROVE  /\ Digits[m] \in Seq(Nat) /\ Digits[m] # <<>> /\ Digits[m] \in Seq(48..57)
             /\ Digits[m][1] \in 48..57 /\ \A k \in DOMAIN Digits[m] : Digits[m][k] \in 48..57
             /\ ValueOf(Digits[m]) = m
  <2> DEFINE d == Digits[m]
  <2>1. d \in Seq(48..57) /\ Len(d) > 0 /\ Stands(d, m)
    BY DigitsStand
  <2> HIDE DEF d
  <2>2. 48..57 \subseteq Nat
    OBVIOUS
  <2>3. d \in Seq(Nat) /\ d # <<>> /\ d[1] \in 48..57 /\ \A k \in DOMAIN d : d[k] \in 48..57
    BY <2>1
  <2>4. IsList(d)
    <3>1. \A k \in DOMAIN d : d[k] \in Range(d)
      BY DEF Range
    <3>2. Len(d) \in Nat /\ DOMAIN d = 1..Len(d) /\ d = [k \in 1..Len(d) |-> d[k]]
      BY <2>1
    <3> QED
      BY <3>2, Lists
  <2>5. ValueOf(d) = m
    BY <2>1, <2>4, StandsForOne
  <2> QED
    BY <2>1, <2>3, <2>5 DEF d
<1>2. CASE n >= 0
  <2> DEFINE d == Digits[n]
  <2>1. Decimal(n) = d
    BY <1>2 DEF Decimal
  <2>2. n \in Nat
    BY <1>2
  <2>3. d \in Seq(Nat) /\ d # <<>> /\ d[1] \in 48..57 /\ (\A k \in DOMAIN d : d[k] \in 48..57) /\ ValueOf(d) = n
    BY <2>2, <1>1
  <2> HIDE DEF d
  <2>4. d[1] \notin {43, 45} /\ d[1] # 45
    BY <2>3
  <2>5. Parsed(d) = {n} \cap Int64
    BY <2>3, <2>4, Zenon DEF Parsed
  <2> QED
    BY <2>1, <2>3, <2>5
<1>3. CASE n < 0
  <2> DEFINE d == Digits[-n]
             text == <<45>> \o d
  <2>1. Decimal(n) = text
    BY <1>3 DEF Decimal
  <2>2. -n \in Nat /\ -(-n) = n
    BY <1>3
  <2>3. d \in Seq(Nat) /\ d # <<>> /\ (\A k \in DOMAIN d : d[k] \in 48..57) /\ ValueOf(d) = -n
    BY <2>2, <1>1
  <2> HIDE DEF d
  <2>4. text \in Seq(Nat) /\ text # <<>> /\ text[1] = 45 /\ Tail(text) = d
    BY <2>3
  <2> HIDE DEF text
  <2>5. Parsed(text) = {-ValueOf(d)} \cap Int64
    BY <2>3, <2>4, Zenon DEF Parsed
  <2> QED
    BY <2>1, <2>2, <2>3, <2>4, <2>5
<1> QED
  BY <1>2, <1>3

---------------------------------------------------------------------------------
(* Literals and the values they become *)

LEMMA DecimalsDiffer ==
    ASSUME NEW m \in Int64, NEW n \in Int64, Decimal(m) = Decimal(n)
    PROVE  m = n
<1>1. m \in Int /\ n \in Int
  BY DEF Int64
<1>2. Parsed(Decimal(m)) = {m} /\ Parsed(Decimal(n)) = {n}
  BY <1>1, PrintedAndParsed
<1> QED
  BY <1>2

LEMMA SpellingsDiffer ==
    ASSUME NEW a \in BOOLEAN, NEW b \in BOOLEAN
    PROVE  /\ Spelled(a) = Spelled(b) <=> a = b
           /\ Lowered(Spelled(a)) = Spelled(a)
<1>1. Len(<<116, 114, 117, 101>>) = 4 /\ Len(<<102, 97, 108, 115, 101>>) = 5
  OBVIOUS
<1>2. Spelled(a) = Spelled(b) <=> a = b
  BY <1>1 DEF Spelled
<1>3. Spelled(a) \in Seq(Nat) /\ \A k \in DOMAIN Spelled(a) : Spelled(a)[k] >= 97
  <2>1. CASE a
    <3> DEFINE s == <<116, 114, 117, 101>>
    <3>1. s \in Seq(Nat) /\ DOMAIN s = 1..4 /\ s[1] = 116 /\ s[2] = 114 /\ s[3] = 117 /\ s[4] = 101
      OBVIOUS
    <3>2. Spelled(a) = s
      BY <2>1 DEF Spelled
    <3> HIDE DEF s
    <3> QED
      BY <3>1, <3>2
  <2>2. CASE ~a
    <3> DEFINE s == <<102, 97, 108, 115, 101>>
    <3>1. s \in Seq(Nat) /\ DOMAIN s = 1..5 /\ s[1] = 102 /\ s[2] = 97 /\ s[3] = 108 /\ s[4] = 115 /\ s[5] = 101
      OBVIOUS
    <3>2. Spelled(a) = s
      BY <2>2 DEF Spelled
    <3> HIDE DEF s
    <3> QED
      BY <3>1, <3>2
  <2> QED
    BY <2>1, <2>2
<1>4. ASSUME NEW s \in Seq(Nat), \A k \in DOMAIN s : s[k] >= 97
      PROVE  Lowered(s) = s
  <2>1. \A k \in DOMAIN s : s[k] \notin 65..90
    <3>1. \A k \in DOMAIN s : s[k] \in Nat
      OBVIOUS
    <3>2. \A n \in Nat : n >= 97 => n \notin 65..90
      OBVIOUS
    <3> QED
      BY <1>4, <3>1, <3>2, Zenon
  <2>2. s = [k \in DOMAIN s |-> s[k]]
    OBVIOUS
  <2>3. Lowered(s) = [k \in DOMAIN s |-> s[k]]
    BY <2>1, Zenon DEF Lowered
  <2> QED
    BY <2>2, <2>3
<1> QED
  BY <1>2, <1>3, <1>4

\* The kinds of a value
LEMMA Kinds ==
    ASSUME NEW v \in Vals
    PROVE  \/ v = Null
           \/ v[1] = "Int" /\ v[2] \in Int64 /\ v = IntValue(v[2]) /\ v # Null
           \/ v[1] = "Text" /\ v[2] \in Seq(Nat) /\ v = TextValue(v[2]) /\ v # Null
           \/ v[1] = "Bool" /\ v[2] \in BOOLEAN /\ v = BoolValue(v[2]) /\ v # Null
<1>1. CASE v \in {Null}
  BY <1>1
<1>2. CASE v \in {"Int"} \X Int64
  BY <1>2 DEF IntValue, Null
<1>3. CASE v \in {"Text"} \X Seq(Nat)
  BY <1>3 DEF TextValue, Null
<1>4. CASE v \in {"Bool"} \X BOOLEAN
  BY <1>4 DEF BoolValue, Null
<1> QED
  BY <1>1, <1>2, <1>3, <1>4 DEF Vals

LEMMA MadeValues ==
    /\ \A n \in Int64 : IntValue(n) \in Vals
    /\ \A x \in Seq(Nat) : TextValue(x) \in Vals
    /\ \A b \in BOOLEAN : BoolValue(b) \in Vals
    /\ Null \in Vals
  BY DEF Vals, IntValue, TextValue, BoolValue

\* A coerced value is a value.
LEMMA CoercedIsValue ==
    ASSUME NEW type, NEW v \in Vals, NEW w \in Coerced(type, v)
    PROVE  w \in Vals
<1>1. CASE v = Null \/ v[1] = type
  <2>1. w = v
    BY <1>1 DEF Coerced, Null
  <2> QED
    BY <2>1
<1>2. CASE ~(v = Null \/ v[1] = type)
  <2>1. CASE type = "Int" /\ v[1] = "Text"
    <3>1. w \in {IntValue(n) : n \in Parsed(v[2])}
      BY <1>2, <2>1 DEF Coerced
    <3>2. PICK n \in Parsed(v[2]) : w = IntValue(n)
      BY <3>1
    <3>3. n \in Int64
      BY <3>2, Zenon DEF Parsed
    <3> QED
      BY <3>2, <3>3, MadeValues
  <2>2. CASE type = "Bool" /\ v[1] = "Text"
    <3>1. w \in {BoolValue(b) : b \in {x \in BOOLEAN : Spelled(x) = Lowered(v[2])}}
      BY <1>2, <2>2 DEF Coerced
    <3>2. PICK b \in BOOLEAN : w = BoolValue(b)
      BY <3>1
    <3> QED
      BY <3>2, MadeValues
  <2>3. CASE type = "Text" /\ v[1] = "Int"
    <3>1. w = TextValue(Decimal(v[2]))
      BY <1>2, <2>3 DEF Coerced
    <3>2. v[2] \in Int
      BY <1>2, <2>3, Kinds DEF Int64
    <3>3. Decimal(v[2]) \in Seq(Nat)
      BY <3>2, PrintedAndParsed
    <3> QED
      BY <3>1, <3>3, MadeValues
  <2>4. CASE type = "Text" /\ v[1] = "Bool"
    <3>1. w = TextValue(Spelled(v[2]))
      BY <1>2, <2>4 DEF Coerced
    <3>2. Spelled(v[2]) \in Seq(Nat)
      BY DEF Spelled
    <3> QED
      BY <3>1, <3>2, MadeValues
  <2> QED
    BY <1>2, <2>1, <2>2, <2>3, <2>4 DEF Coerced
<1> QED
  BY <1>1, <1>2

\* Two values of one type look the same only when they are.
LEMMA SameOfType ==
    ASSUME NEW type \in Types, NEW u \in Vals, NEW v \in Vals, OfType(type, u), OfType(type, v)
    PROVE  SameText(u, v) <=> u = v
<1> SUFFICES ASSUME u # Null, v # Null, Printed(u) = Printed(v) PROVE u = v
  BY DEF SameText
<1>1. u[1] = type /\ v[1] = type
  BY DEF OfType
<1>2. CASE type = "Int"
  <2>1. u[2] \in Int64 /\ v[2] \in Int64 /\ u = IntValue(u[2]) /\ v = IntValue(v[2])
    BY <1>1, <1>2, Kinds
  <2>2. Decimal(u[2]) = Decimal(v[2])
    BY <1>1, <1>2 DEF Printed
  <2> QED
    BY <2>1, <2>2, DecimalsDiffer
<1>3. CASE type = "Bool"
  <2>1. u[2] \in BOOLEAN /\ v[2] \in BOOLEAN /\ u = BoolValue(u[2]) /\ v = BoolValue(v[2])
    BY <1>1, <1>3, Kinds
  <2>2. Spelled(u[2]) = Spelled(v[2])
    BY <1>1, <1>3 DEF Printed
  <2>3. u[2] = v[2]
    BY <2>1, <2>2, SpellingsDiffer
  <2> QED
    BY <2>1, <2>3, Zenon
<1>4. CASE type = "Text"
  <2>1. u = TextValue(u[2]) /\ v = TextValue(v[2])
    BY <1>1, <1>4, Kinds
  <2>2. u[2] = v[2]
    BY <1>1, <1>4 DEF Printed
  <2> QED
    BY <2>1, <2>2
<1> QED
  BY <1>2, <1>3, <1>4 DEF Types

\* A literal that fits a column becomes one value, which is equal to just the
\* values of the column that look like the literal.
LEMMA FittingCoerced ==
    ASSUME NEW type \in Types, NEW v \in Vals, Fitting(type, v)
    PROVE  \E w \in Vals :
            /\ Coerced(type, v) = {w} /\ OfType(type, w)
            /\ \A u \in Vals : OfType(type, u) => (SameText(u, v) <=> u = w)
<1>1. CASE v = Null \/ v[1] = type
  <2>1. Coerced(type, v) = {v}
    BY <1>1 DEF Coerced, Null
  <2>2. OfType(type, v)
    BY <1>1 DEF OfType
  <2> QED
    BY <2>1, <2>2, SameOfType
<1>2. CASE ~(v = Null \/ v[1] = type)
  <2>1. CASE type = "Text"
    <3> DEFINE w == TextValue(Printed(v))
    <3>1. Coerced(type, v) = {w} /\ Printed(v) \in Seq(Nat)
      <4>1. CASE v[1] = "Int"
        <5>1. v[2] \in Int
          BY <1>2, <4>1, Kinds DEF Int64
        <5>2. Decimal(v[2]) \in Seq(Nat)
          BY <5>1, PrintedAndParsed
        <5> QED
          BY <1>2, <2>1, <4>1, <5>2 DEF Coerced, Printed
      <4>2. CASE v[1] = "Bool"
        <5>1. Spelled(v[2]) \in Seq(Nat)
          BY DEF Spelled
        <5> QED
          BY <1>2, <2>1, <4>2, <5>1 DEF Coerced, Printed
      <4> QED
        BY <1>2, <2>1, <4>1, <4>2, Kinds
    <3>2. w \in Vals /\ OfType(type, w)
      BY <2>1, <3>1, MadeValues DEF OfType, TextValue
    <3>3. ASSUME NEW u \in Vals, OfType(type, u)
          PROVE  SameText(u, v) <=> u = w
      <4>1. CASE u = Null
        BY <1>2, <4>1 DEF SameText, Null, TextValue
      <4>2. CASE u # Null
        <5>1. u[1] = "Text" /\ u = TextValue(u[2])
          BY <2>1, <3>3, <4>2, Kinds DEF OfType
        <5>2. Printed(u) = u[2]
          BY <5>1 DEF Printed
        <5>3. u # v
          BY <5>1, <1>2, <2>1
        <5>4. SameText(u, v) <=> u[2] = Printed(v)
          BY <1>2, <4>2, <5>2, <5>3 DEF SameText
        <5>5. w[2] = Printed(v)
          BY DEF TextValue
        <5> QED
          BY <5>1, <5>4, <5>5
      <4> QED
        BY <4>1, <4>2
    <3> QED
      BY <3>1, <3>2, <3>3
  <2>2. CASE type = "Int" /\ v[1] = "Text"
    <3>1. PICK n \in Int64 : v[2] = Decimal(n)
      BY <1>2, <2>2 DEF Fitting
    <3> DEFINE w == IntValue(n)
    <3>2. n \in Int /\ Parsed(v[2]) = {n}
      <4>1. n \in Int
        BY DEF Int64
      <4> QED
        BY <3>1, <4>1, PrintedAndParsed
    <3>3. Coerced(type, v) = {w}
      BY <1>2, <2>2, <3>2 DEF Coerced
    <3>4. w \in Vals /\ OfType(type, w) /\ w # Null /\ w # v
      BY <2>2, MadeValues DEF OfType, IntValue, Null
    <3>5. Printed(w) = Printed(v)
      BY <2>2, <3>1 DEF Printed, IntValue
    <3>6. ASSUME NEW u \in Vals, OfType(type, u)
          PROVE  SameText(u, v) <=> u = w
      <4>1. u # v
        BY <1>2, <3>6 DEF OfType
      <4>2. SameText(u, v) <=> SameText(u, w)
        BY <1>2, <3>4, <3>5, <4>1 DEF SameText
      <4> QED
        BY <3>4, <3>6, <4>2, SameOfType
    <3> QED
      BY <3>3, <3>4, <3>6
  <2>3. CASE type = "Bool" /\ v[1] = "Text"
    <3>1. PICK b \in BOOLEAN : v[2] = Spelled(b)
      BY <1>2, <2>3 DEF Fitting
    <3> DEFINE w == BoolValue(b)
    <3>2. {x \in BOOLEAN : Spelled(x) = Lowered(v[2])} = {b}
      BY <3>1, SpellingsDiffer
    <3>3. Coerced(type, v) = {w}
      <4>1. Coerced(type, v) = {BoolValue(x) : x \in {x \in BOOLEAN : Spelled(x) = Lowered(v[2])}}
        BY <1>2, <2>3 DEF Coerced
      <4> QED
        BY <3>2, <4>1
    <3>4. w \in Vals /\ OfType(type, w) /\ w # Null /\ w # v
      BY <2>3, MadeValues DEF OfType, BoolValue, Null
    <3>5. Printed(w) = Printed(v)
      BY <2>3, <3>1 DEF Printed, BoolValue
    <3>6. ASSUME NEW u \in Vals, OfType(type, u)
          PROVE  SameText(u, v) <=> u = w
      <4>1. u # v
        BY <1>2, <3>6 DEF OfType
      <4>2. SameText(u, v) <=> SameText(u, w)
        BY <1>2, <3>4, <3>5, <4>1 DEF SameText
      <4> QED
        BY <3>4, <3>6, <4>2, SameOfType
    <3> QED
      BY <3>3, <3>4, <3>6
  <2> QED
    BY <1>2, <2>1, <2>2, <2>3 DEF Fitting
<1> QED
  BY <1>1, <1>2

---------------------------------------------------------------------------------
(* Cells are values *)

ValuedRow(t, row) == TypedRow(t, row) /\ \A c \in ColumnNames(Schemas[t]) : row[c] \in Vals

ValuedTable(t, rows) == IsList(rows) /\ \A k \in DOMAIN rows : ValuedRow(t, rows[k])

ValuedTables == DOMAIN tables = Tables /\ \A t \in Tables : ValuedTable(t, tables[t])

LEMMA AssignedValued ==
    ASSUME NEW t \in Tables, NEW row, ValuedRow(t, row), NEW columns, IsList(columns),
           NEW literals, \A k \in DOMAIN columns : literals[k] \in Vals,
           NEW values, \A k \in DOMAIN columns : values[k] \in Coerced(TypeOf(Schemas[t], columns[k]), literals[k])
    PROVE  ValuedRow(t, Assigned(row, columns, values))
<1>1. \A k \in DOMAIN columns : values[k] \in Vals /\ OfType(TypeOf(Schemas[t], columns[k]), values[k])
  BY CoercedTyped, CoercedIsValue
<1>2. TypedRow(t, Assigned(row, columns, values))
  BY <1>1, AssignedTyped DEF ValuedRow
<1>3. ASSUME NEW c \in ColumnNames(Schemas[t])
      PROVE  Assigned(row, columns, values)[c] \in Vals
  <2>1. c \in DOMAIN row /\ row[c] \in Vals
    BY DEF ValuedRow, TypedRow
  <2>2. Assigned(row, columns, values)[c] =
            IF c \in Range(columns) THEN values[LastPosition(columns, c)] ELSE row[c]
    BY <2>1, Zenon DEF Assigned
  <2>3. c \in Range(columns) => LastPosition(columns, c) \in DOMAIN columns
    BY LastAt
  <2> QED
    BY <1>1, <2>1, <2>2, <2>3
<1> QED
  BY <1>2, <1>3 DEF ValuedRow

\* The literals of a statement are values.
LiteralsAreValues(s) ==
    /\ s.kind = "Insert" => s.values \in Seq(Vals)
    /\ s.kind = "Update" => \A k \in DOMAIN s.assignments : s.assignments[k][2] \in Vals

LEMMA WrittenValued ==
    ASSUME NEW s, ListsIn(s), LiteralsAreValues(s), ValuedTables, NEW rows \in NewRows(s),
           s.kind \in {"Insert", "Update", "Delete"}
    PROVE  s.table \in Tables /\ ValuedTable(s.table, rows)
<1> DEFINE t == s.table
           old == tables[t]
<1>1. TypedTables
  BY DEF ValuedTables, TypedTables, ValuedTable, TypedTable, ValuedRow
<1>2. t \in Tables /\ TypedTable(t, rows)
  BY <1>1, WrittenTyped
<1>3. IsList(old) /\ \A k \in DOMAIN old : ValuedRow(t, old[k])
  BY <1>2 DEF ValuedTables, ValuedTable
<1>4. SUFFICES ASSUME NEW i \in DOMAIN rows
               PROVE  ValuedRow(t, rows[i])
  BY <1>2 DEF TypedTable, ValuedTable
<1>5. CASE s.kind = "Insert"
  <2> DEFINE columns == IF s.columns = None THEN [k \in DOMAIN Schemas[t] |-> Schemas[t][k].name] ELSE s.columns[1]
             nulls == [c \in ColumnNames(Schemas[t]) |-> Null]
             results == [k \in DOMAIN columns |-> Coerced(TypeOf(Schemas[t], columns[k]), s.values[k])]
  <2>1. rows \in InsertedRows(s)
    BY <1>2, <1>5 DEF NewRows
  <2>2. InsertedRows(s) =
            IF Len(columns) # Len(s.values) \/ ~(Range(columns) \subseteq ColumnNames(Schemas[t])) THEN {}
            ELSE {Append(tables[t], Assigned(nulls, columns, values)) : values \in Collect(results)}
    BY DEF InsertedRows
  <2>3. IsList(columns)
    <3>1. CASE s.columns = None
      <4> DEFINE S == Schemas[t]
      <4>1. S \in Seq([name : Seq(STRING), type : Types])
        BY <1>2, SchemasAssumption
      <4> HIDE DEF S
      <4>2. Len(S) \in Nat /\ DOMAIN S = 1..Len(S)
        BY <4>1
      <4> DEFINE l == [k \in DOMAIN S |-> S[k].name]
      <4>3. DOMAIN l = 1..Len(S) /\ l = [k \in 1..Len(S) |-> l[k]]
        BY <4>2
      <4> HIDE DEF l
      <4>4. IsList(l)
        BY <4>2, <4>3, Lists
      <4>5. columns = l
        BY <3>1, Zenon DEF l, S
      <4> QED
        BY <4>4, <4>5
    <3>2. CASE s.columns # None
      BY <1>5, <3>2 DEF ListsIn
    <3> QED
      BY <3>1, <3>2
  <2> HIDE DEF columns, old
  <2>4. \A k \in DOMAIN columns : Len(columns) = Len(s.values) => s.values[k] \in Vals
    <3>1. s.values \in Seq(Vals)
      BY <1>5 DEF LiteralsAreValues
    <3>2. DOMAIN columns = 1..Len(columns)
      BY <2>3 DEF IsList
    <3> QED
      BY <3>1, <3>2
  <2>5. ValuedRow(t, nulls)
    BY MadeValues DEF ValuedRow, TypedRow, OfType
  <2> HIDE DEF nulls, results
  <2>6. PICK values \in Collect(results) :
            rows = Append(tables[t], Assigned(nulls, columns, values)) /\ Len(columns) = Len(s.values)
    BY <2>1, <2>2
  <2>7. \A k \in DOMAIN columns : values[k] \in Coerced(TypeOf(Schemas[t], columns[k]), s.values[k])
    BY <2>6, Picked, Zenon DEF results
  <2> DEFINE row == Assigned(nulls, columns, values)
  <2>8. ValuedRow(t, row)
    BY <1>2, <2>3, <2>4, <2>5, <2>6, <2>7, AssignedValued
  <2>9. rows = Append(old, row)
    BY <2>6 DEF old
  <2> HIDE DEF row
  <2>10. /\ DOMAIN rows = 1..(Len(old) + 1) /\ Len(old) \in Nat /\ DOMAIN old = 1..Len(old)
         /\ \A k \in 1..Len(old) : rows[k] = old[k]
         /\ rows[Len(old) + 1] = row
    BY <1>3, <2>9, ListAppended
  <2>11. CASE i \in 1..Len(old)
    BY <2>10, <2>11, <1>3
  <2>12. CASE i = Len(old) + 1
    BY <2>10, <2>12, <2>8
  <2> QED
    BY <2>10, <2>11, <2>12
<1>6. CASE s.kind = "Update"
  <2> DEFINE columns == [k \in DOMAIN s.assignments |-> s.assignments[k][1]]
             results == [k \in DOMAIN columns |-> Coerced(TypeOf(Schemas[t], columns[k]), s.assignments[k][2])]
             literals == [k \in DOMAIN columns |-> s.assignments[k][2]]
  <2>1. rows \in UpdatedRows(s)
    BY <1>2, <1>6 DEF NewRows
  <2>2. UpdatedRows(s) =
            {[k \in DOMAIN old |-> IF Matches(old[k], f) THEN Assigned(old[k], columns, values) ELSE old[k]] :
                f \in Filters(s), values \in PreparedAssignments(s, columns)}
    BY DEF UpdatedRows
  <2>3. IsList(columns)
    <3> DEFINE S == s.assignments
               l == [k \in DOMAIN S |-> S[k][1]]
    <3>1. IsList(S)
      BY <1>6 DEF ListsIn
    <3> HIDE DEF S
    <3>2. Len(S) \in Nat /\ DOMAIN S = 1..Len(S)
      BY <3>1 DEF IsList
    <3>3. DOMAIN l = 1..Len(S) /\ l = [k \in 1..Len(S) |-> l[k]]
      BY <3>2
    <3> HIDE DEF l
    <3>4. IsList(l)
      BY <3>2, <3>3, Lists
    <3>5. columns = l
      BY Zenon DEF l, S
    <3> QED
      BY <3>4, <3>5
  <2>4. \A k \in DOMAIN columns : literals[k] \in Vals
    BY <1>6 DEF LiteralsAreValues
  <2>5. \A values : values \in PreparedAssignments(s, columns) =>
                        \A k \in DOMAIN columns : values[k] \in Coerced(TypeOf(Schemas[t], columns[k]), literals[k])
    <3> SUFFICES ASSUME NEW values \in PreparedAssignments(s, columns), NEW k \in DOMAIN columns
                 PROVE  values[k] \in Coerced(TypeOf(Schemas[t], columns[k]), literals[k])
      BY Zenon
    <3>1. values \in Collect(results)
      BY Zenon DEF PreparedAssignments
    <3>2. values[k] \in Coerced(TypeOf(Schemas[t], columns[k]), s.assignments[k][2])
      BY <3>1, Picked, Zenon
    <3> QED
      BY <3>2
  <2> HIDE DEF columns, old, literals
  <2>6. PICK f, values : /\ values \in PreparedAssignments(s, columns)
                         /\ rows = [k \in DOMAIN old |-> IF Matches(old[k], f) THEN Assigned(old[k], columns, values)
                                                         ELSE old[k]]
    BY <2>1, <2>2
  <2>7. i \in DOMAIN old /\ (rows[i] = Assigned(old[i], columns, values) \/ rows[i] = old[i])
    BY <1>4, <2>6
  <2>8. ValuedRow(t, old[i])
    BY <1>3, <2>7
  <2>9. ValuedRow(t, Assigned(old[i], columns, values))
    BY <1>2, <2>3, <2>4, <2>5, <2>6, <2>8, AssignedValued
  <2> QED
    BY <2>7, <2>8, <2>9
<1>7. CASE s.kind = "Delete"
  <2>1. rows \in KeptRows(s)
    BY <1>2, <1>7 DEF NewRows
  <2>2. PICK f \in Filters(s) : rows = At(old, {k \in DOMAIN old : ~Matches(old[k], f)})
    BY <2>1, Zenon DEF KeptRows
  <2> DEFINE P == {k \in DOMAIN old : ~Matches(old[k], f)}
  <2>3. P \in SUBSET DOMAIN old
    BY Zenon
  <2>4. rows = At(old, P)
    BY <2>2
  <2> HIDE DEF old, P
  <2>5. P \in SUBSET Int /\ IsFiniteSet(P)
    BY <1>3, <2>3, Positions
  <2>6. /\ DOMAIN At(old, P) = 1..Cardinality(P)
        /\ \A k \in 1..Cardinality(P) : \E j \in P : At(old, P)[k] = old[j]
    BY <2>5, AtElements
  <2>7. PICK j \in P : rows[i] = old[j]
    BY <1>4, <2>4, <2>6, Zenon
  <2> QED
    BY <1>3, <2>3, <2>7
<1> QED
  BY <1>5, <1>6, <1>7

---------------------------------------------------------------------------------
(* Filters that are prepared in just one way *)

IsOne(S) == \E x : S = {x}

The(S) == CHOOSE x : x \in S

LEMMA TheOne ==
    /\ \A S : IsOne(S) => S = {The(S)}
    /\ \A x : IsOne({x}) /\ The({x}) = x
    /\ \A S, x : S = {x} => IsOne(S) /\ The(S) = x
  BY DEF IsOne, The

LEMMA OnesCollected ==
    ASSUME NEW results, \A k \in DOMAIN results : IsOne(results[k])
    PROVE  Collect(results) = {[k \in DOMAIN results |-> The(results[k])]}
<1>1. \A k \in DOMAIN results : results[k] = {The(results[k])}
  BY TheOne
<1>2. {} \notin Range(results)
  BY <1>1 DEF Range
<1>3. Collect(results) = {[k \in DOMAIN results |-> CHOOSE x \in results[k] : TRUE]}
  BY <1>2, Zenon DEF Collect
<1>4. \A k \in DOMAIN results : (CHOOSE x \in results[k] : TRUE) = The(results[k])
  BY <1>1
<1>5. [k \in DOMAIN results |-> CHOOSE x \in results[k] : TRUE] = [k \in DOMAIN results |-> The(results[k])]
  BY <1>4, Zenon
<1> QED
  BY <1>3, <1>5

LEMMA OnesChosen ==
    ASSUME NEW sets, \A k \in DOMAIN sets : IsOne(sets[k])
    PROVE  OneOfEach(sets) = {[k \in DOMAIN sets |-> The(sets[k])]}
<1> DEFINE it == [k \in DOMAIN sets |-> The(sets[k])]
<1>1. \A k \in DOMAIN sets : sets[k] = {The(sets[k])}
  BY TheOne
<1>2. it \in OneOfEach(sets)
  BY <1>1 DEF OneOfEach, Range
<1>3. ASSUME NEW choice \in OneOfEach(sets)
      PROVE  choice = it
  <2>1. choice \in [DOMAIN sets -> UNION Range(sets)] /\ \A k \in DOMAIN sets : choice[k] \in sets[k]
    BY DEF OneOfEach
  <2>2. \A k \in DOMAIN sets : choice[k] = The(sets[k])
    BY <1>1, <2>1
  <2> QED
    BY <2>1, <2>2
<1> QED
  BY <1>2, <1>3

---------------------------------------------------------------------------------
(* What a condition comes to *)

LEMMA ColumnsTyped ==
    ASSUME NEW t \in Tables, NEW c \in ColumnNames(Schemas[t])
    PROVE  TypeOf(Schemas[t], c) \in Types
<1> DEFINE S == Schemas[t]
           found == {i \in 1..Len(S) : S[i].name = c}
           at == IF found # {} THEN Min(found) ELSE 0
<1>1. S \in Seq([name : Seq(STRING), type : Types])
  BY SchemasAssumption
<1>2. TypeOf(S, c) = S[at].type
  BY Zenon DEF TypeOf, SelectInSeq
<1>3. PICK k \in DOMAIN S : c = S[k].name
  BY DEF ColumnNames
<1> HIDE DEF S
<1>4. k \in found /\ found \in SUBSET Nat
  BY <1>1, <1>3
<1>5. at \in found
  <2>1. \A T \in SUBSET Nat : T # {} => Min(T) \in T
    BY MinIn
  <2> HIDE DEF found
  <2> QED
    BY <1>4, <2>1, Zenon
<1>6. at \in DOMAIN S
  BY <1>1, <1>5
<1> HIDE DEF at
<1>7. S[at] \in [name : Seq(STRING), type : Types]
  <2> DEFINE T == [name : Seq(STRING), type : Types]
  <2>1. S \in Seq(T)
    BY <1>1
  <2> HIDE DEF T
  <2>2. S[at] \in T
    BY <2>1, <1>6
  <2> QED
    BY <2>2 DEF T
<1> QED
  BY <1>2, <1>7 DEF S

\* The cell of a row in a column of its table
LEMMA CellOf ==
    ASSUME NEW t \in Tables, NEW row, ValuedRow(t, row), NEW c \in ColumnNames(Schemas[t])
    PROVE  Cell(row, c) = row[c] /\ row[c] \in Vals /\ OfType(TypeOf(Schemas[t], c), row[c])
  BY DEF ValuedRow, TypedRow, Cell

LEMMA SameTextBothWays ==
    ASSUME NEW u, NEW v
    PROVE  SameText(u, v) <=> SameText(v, u)
  BY DEF SameText

\* The condition that is evaluated in place of another
InPlace(t, c, answers) == The(PreparedCondition(Schemas[t], The(ResolvedCondition(c, answers))))

LEMMA ComparisonMeaning ==
    ASSUME NEW t \in Tables, NEW c, IsCondition(c), c[1] = "Compare", Sensible(t, c)
    PROVE  /\ IsOne(PreparedCondition(Schemas[t], c))
           /\ \A row, selected : ValuedRow(t, row) =>
                (HoldsCondition(row, The(PreparedCondition(Schemas[t], c)))
                    <=> MeantCondition(tables, row, c, selected))
<1> DEFINE type == TypeOf(Schemas[t], c[2])
           p == PreparedCondition(Schemas[t], c)
<1>1. /\ c = Compare(c[2], c[3], c[4]) /\ c[4] \in Vals
      /\ c[3] \in {"=", "!=", "<", "<=", ">", ">=", "LIKE"}
  BY DEF IsCondition
<1>2. c[2] \in ColumnNames(Schemas[t]) /\ type \in Types
  BY ColumnsTyped DEF Sensible
<1>3. CASE c[3] = "LIKE"
  <2>1. type = "Text" /\ c[4][1] = "Text"
    BY <1>3 DEF Sensible
  <2>2. p = {c}
    BY <1>2, <1>3, <2>1 DEF PreparedCondition
  <2>3. ASSUME NEW row, NEW selected, ValuedRow(t, row)
        PROVE  HoldsCondition(row, c) <=> MeantCondition(tables, row, c, selected)
    <3> DEFINE u == row[c[2]]
    <3>1. Cell(row, c[2]) = u /\ u \in Vals /\ OfType(type, u)
      BY <1>2, <2>3, CellOf
    <3>2. HoldsCondition(row, c) <=> u[1] = "Text" /\ LikeMatches(u[2], c[4][2])
      BY <1>3, <2>1, <3>1 DEF HoldsCondition, CompareValues
    <3>3. MeantCondition(tables, row, c, selected) <=> u # Null /\ Fits(u[2], c[4][2])
      BY <1>3 DEF MeantCondition
    <3>4. u[1] = "Text" <=> u # Null
      BY <2>1, <3>1 DEF OfType, Null
    <3>5. u # Null => IsList(u[2]) /\ IsList(c[4][2])
      <4>1. ASSUME NEW x \in Seq(Nat) PROVE IsList(x)
        <5>1. DOMAIN x = 1..Len(x) /\ x = [k \in 1..Len(x) |-> x[k]] /\ Len(x) \in Nat
          OBVIOUS
        <5> QED
          BY <5>1, Lists
      <4>2. u # Null => u[2] \in Seq(Nat)
        BY <3>1, <3>4, Kinds
      <4>3. c[4][2] \in Seq(Nat)
        BY <1>1, <2>1, Kinds DEF Null
      <4> QED
        BY <4>1, <4>2, <4>3
    <3>6. u # Null => (LikeMatches(u[2], c[4][2]) <=> Fits(u[2], c[4][2]))
      BY <3>5, LikeMatchesWildcards
    <3> QED
      BY <3>2, <3>3, <3>4, <3>6
  <2>4. IsOne(p) /\ The(p) = c
    BY <2>2, TheOne, Zenon
  <2> QED
    BY <2>3, <2>4, Zenon
<1>4. CASE c[3] \in {"=", "!="}
  <2>1. Fitting(type, c[4])
    BY <1>4 DEF Sensible
  <2>2. PICK w \in Vals : /\ Coerced(type, c[4]) = {w}
                          /\ \A u \in Vals : OfType(type, u) => (SameText(u, c[4]) <=> u = w)
    BY <1>1, <1>2, <2>1, FittingCoerced
  <2>3. p = {Compare(c[2], c[3], w)}
    BY <1>2, <1>4, <2>2 DEF PreparedCondition
  <2>4. ASSUME NEW row, NEW selected, ValuedRow(t, row)
        PROVE  HoldsCondition(row, Compare(c[2], c[3], w)) <=> MeantCondition(tables, row, c, selected)
    <3> DEFINE u == row[c[2]]
    <3>1. Cell(row, c[2]) = u /\ u \in Vals /\ OfType(type, u)
      BY <1>2, <2>4, CellOf
    <3>2. SameText(u, c[4]) <=> u = w
      BY <2>2, <3>1
    <3>3. c[3] = "=" => (HoldsCondition(row, Compare(c[2], c[3], w)) <=> u = w)
      BY <3>1 DEF HoldsCondition, CompareValues, Compare
    <3>4. c[3] = "!=" => (HoldsCondition(row, Compare(c[2], c[3], w)) <=> u # w)
      BY <3>1 DEF HoldsCondition, CompareValues, Compare
    <3>5. c[3] = "=" => (MeantCondition(tables, row, c, selected) <=> SameText(u, c[4]))
      BY DEF MeantCondition
    <3>6. c[3] = "!=" => (MeantCondition(tables, row, c, selected) <=> ~SameText(u, c[4]))
      BY DEF MeantCondition
    <3> QED
      BY <1>4, <3>2, <3>3, <3>4, <3>5, <3>6
  <2>5. IsOne(p) /\ The(p) = Compare(c[2], c[3], w)
    BY <2>3, TheOne, Zenon
  <2> QED
    BY <2>4, <2>5, Zenon
<1>5. CASE c[3] \in {"<", "<=", ">", ">="}
  <2>1. c[4] = Null \/ c[4][1] = type
    BY <1>5 DEF Sensible
  <2>2. Coerced(type, c[4]) = {c[4]}
    BY <2>1 DEF Coerced, Null
  <2>3. p = {c}
    BY <1>1, <1>2, <1>5, <2>2 DEF PreparedCondition
  <2>4. ASSUME NEW row, NEW selected, ValuedRow(t, row)
        PROVE  HoldsCondition(row, c) <=> MeantCondition(tables, row, c, selected)
    <3>1. Cell(row, c[2]) = row[c[2]]
      BY <1>2, <2>4, CellOf
    <3>2. HoldsCondition(row, c) <=> CompareValues(row[c[2]], c[3], c[4])
      BY <3>1 DEF HoldsCondition
    <3>3. MeantCondition(tables, row, c, selected) <=> CompareValues(row[c[2]], c[3], c[4])
      BY <1>5 DEF MeantCondition
    <3> QED
      BY <3>2, <3>3
  <2>5. IsOne(p) /\ The(p) = c
    BY <2>3, TheOne, Zenon
  <2> QED
    BY <2>4, <2>5, Zenon
<1> QED
  BY <1>1, <1>3, <1>4, <1>5

LEMMA Unlike ==
    ASSUME NEW P \in BOOLEAN, NEW n \in BOOLEAN
    PROVE  (P # n) <=> (n = FALSE /\ P) \/ (n = TRUE /\ ~P)
  OBVIOUS

\* IN with a list of values that fit the column
LEMMA ListMeaning ==
    ASSUME NEW t \in Tables, NEW column \in ColumnNames(Schemas[t]), NEW list, NEW negated \in BOOLEAN,
           \A k \in DOMAIN list : list[k] \in Vals /\ Fitting(TypeOf(Schemas[t], column), list[k])
    PROVE  /\ IsOne(PreparedCondition(Schemas[t], InList(column, list, negated)))
           /\ \A row : ValuedRow(t, row) =>
                (HoldsCondition(row, The(PreparedCondition(Schemas[t], InList(column, list, negated))))
                    <=> /\ row[column] # Null
                        /\ (\E k \in DOMAIN list : SameText(list[k], row[column])) # negated)
<1> DEFINE type == TypeOf(Schemas[t], column)
           results == [k \in DOMAIN list |-> Coerced(type, list[k])]
           ws == [k \in DOMAIN list |-> The(results[k])]
<1>1. type \in Types
  BY ColumnsTyped
<1>2. \A k \in DOMAIN list : \E w \in Vals :
            /\ Coerced(type, list[k]) = {w}
            /\ \A u \in Vals : OfType(type, u) => (SameText(u, list[k]) <=> u = w)
  BY <1>1, FittingCoerced
<1>3. \A k \in DOMAIN list :
            /\ IsOne(results[k])
            /\ \A u \in Vals : OfType(type, u) => (SameText(u, list[k]) <=> u = ws[k])
  <2> SUFFICES ASSUME NEW k \in DOMAIN list
               PROVE  /\ IsOne(results[k])
                      /\ \A u \in Vals : OfType(type, u) => (SameText(u, list[k]) <=> u = ws[k])
    BY Zenon
  <2>1. PICK w \in Vals : /\ Coerced(type, list[k]) = {w}
                          /\ \A u \in Vals : OfType(type, u) => (SameText(u, list[k]) <=> u = w)
    BY <1>2, Zenon
  <2>2. results[k] = {w}
    BY <2>1
  <2>3. IsOne(results[k]) /\ The(results[k]) = w
    BY <2>2, TheOne, Zenon
  <2>4. ws[k] = w
    BY <2>3
  <2> HIDE DEF ws, results
  <2> QED
    BY <2>1, <2>3, <2>4, Zenon
<1>4. Collect(results) = {ws}
  <2>1. DOMAIN results = DOMAIN list
    OBVIOUS
  <2> HIDE DEF results
  <2> QED
    BY <1>3, <2>1, OnesCollected
<1> HIDE DEF ws
<1>5. PreparedCondition(Schemas[t], InList(column, list, negated)) = {InList(column, ws, negated)}
  <2>1. PreparedCondition(Schemas[t], InList(column, list, negated)) =
                {InList(column, vs, negated) : vs \in Collect(results)}
    BY DEF PreparedCondition, InList
  <2> QED
    BY <1>4, <2>1
<1>6. ASSUME NEW row, ValuedRow(t, row)
      PROVE  HoldsCondition(row, InList(column, ws, negated))
                    <=> /\ row[column] # Null
                        /\ (\E k \in DOMAIN list : SameText(list[k], row[column])) # negated
  <2> DEFINE u == row[column]
  <2>1. Cell(row, column) = u /\ u \in Vals /\ OfType(type, u)
    BY <1>6, CellOf
  <2>2. HoldsCondition(row, InList(column, ws, negated)) <=> u # Null /\ ((u \in Range(ws)) # negated)
    BY <2>1 DEF HoldsCondition, InList
  <2>3. u \in Range(ws) <=> \E k \in DOMAIN list : SameText(list[k], u)
    <3>1. DOMAIN ws = DOMAIN list
      BY DEF ws
    <3>2. \A k \in DOMAIN list : SameText(list[k], u) <=> u = ws[k]
      BY <1>3, <2>1, SameTextBothWays
    <3> QED
      BY <3>1, <3>2 DEF Range
  <2>4. ((u \in Range(ws)) # negated) <=>
            (negated = FALSE /\ u \in Range(ws)) \/ (negated = TRUE /\ u \notin Range(ws))
    BY Unlike
  <2>5. ((\E k \in DOMAIN list : SameText(list[k], u)) # negated) <=>
            \/ negated = FALSE /\ \E k \in DOMAIN list : SameText(list[k], u)
            \/ negated = TRUE /\ ~(\E k \in DOMAIN list : SameText(list[k], u))
    BY Unlike
  <2> QED
    BY <2>2, <2>3, <2>4, <2>5, Zenon
<1>7. /\ IsOne(PreparedCondition(Schemas[t], InList(column, list, negated)))
      /\ The(PreparedCondition(Schemas[t], InList(column, list, negated))) = InList(column, ws, negated)
  BY <1>5, TheOne, Zenon
<1> QED
  BY <1>6, <1>7, Zenon

\* A subquery is answered with the column it asks for, of the rows it means.
AnsweredRight(x, answers, selected) ==
    LET c == x.columns[1][2]
        rows == At(tables[x.table], selected[x])
    IN /\ selected[x] \in SUBSET DOMAIN tables[x.table]
       /\ answers[x] = {[columns |-> <<c>>, rows |-> [k \in DOMAIN rows |-> <<rows[k][c]>>]]}

LEMMA SubqueryMeaning ==
    ASSUME NEW t \in Tables, NEW c, IsCondition(c), c[1] = "InSubquery", Sensible(t, c), ValuedTables,
           NEW answers, NEW selected, AnsweredRight(c[3], answers, selected)
    PROVE  /\ IsOne(ResolvedCondition(c, answers))
           /\ IsOne(PreparedCondition(Schemas[t], The(ResolvedCondition(c, answers))))
           /\ \A row : ValuedRow(t, row) =>
                (HoldsCondition(row, InPlace(t, c, answers)) <=> MeantCondition(tables, row, c, selected))
<1> DEFINE x == c[3]
           d == x.columns[1][2]
           from == tables[x.table]
           P == selected[x]
           rows == At(from, P)
           list == [k \in DOMAIN rows |-> rows[k][d]]
           type == TypeOf(Schemas[t], c[2])
<1>1. c = InSubquery(c[2], x, c[4]) /\ c[4] \in BOOLEAN
  BY DEF IsCondition
<1>2. /\ c[2] \in ColumnNames(Schemas[t]) /\ x.table \in Tables
      /\ d \in ColumnNames(Schemas[x.table]) /\ type \in {"Text", TypeOf(Schemas[x.table], d)}
  BY DEF Sensible
<1>3. P \in SUBSET DOMAIN from /\ answers[x] = {[columns |-> <<d>>, rows |-> [k \in DOMAIN rows |-> <<rows[k][d]>>]]}
  BY DEF AnsweredRight
<1>4. IsList(from) /\ \A k \in DOMAIN from : ValuedRow(x.table, from[k])
  BY <1>2 DEF ValuedTables, ValuedTable
<1> HIDE DEF from, P
<1>5. P \in SUBSET Int /\ IsFiniteSet(P)
  BY <1>3, <1>4, Positions
<1>6. /\ DOMAIN rows = 1..Cardinality(P)
      /\ \A k \in DOMAIN rows : \E i \in P : rows[k] = from[i]
      /\ \A i \in P : \E k \in DOMAIN rows : rows[k] = from[i]
  <2>1. DOMAIN rows = 1..Cardinality(P)
    BY <1>5, AtElements, Zenon
  <2>2. /\ \A k \in 1..Cardinality(P) : \E i \in P : rows[k] = from[i]
        /\ \A i \in P : \E k \in 1..Cardinality(P) : rows[k] = from[i]
    BY <1>5, AtElements, Zenon
  <2> HIDE DEF rows
  <2> QED
    BY <2>1, <2>2, Zenon
<1> HIDE DEF rows
<1>7. ResolvedCondition(c, answers) = {InList(c[2], list, c[4])}
  <2> DEFINE a == [columns |-> <<d>>, rows |-> [k \in DOMAIN rows |-> <<rows[k][d]>>]]
  <2>1. Len(a.columns) = 1
    OBVIOUS
  <2>2. DOMAIN a.rows = DOMAIN rows /\ \A k \in DOMAIN rows : a.rows[k][1] = rows[k][d]
    OBVIOUS
  <2>3. answers[x] = {a}
    BY <1>3
  <2> HIDE DEF a, d
  <2>4. {y \in answers[x] : Len(y.columns) = 1} = {a}
    BY <2>1, <2>3
  <2>5. [k \in DOMAIN a.rows |-> a.rows[k][1]] = list
    BY <2>2
  <2> HIDE DEF list
  <2>6. ResolvedCondition(c, answers) =
            {InList(c[2], [k \in DOMAIN y.rows |-> y.rows[k][1]], c[4]) :
                y \in {z \in answers[x] : Len(z.columns) = 1}}
    BY DEF ResolvedCondition
  <2> HIDE DEF x
  <2> QED
    BY <2>4, <2>5, <2>6
<1>8. ASSUME NEW k \in DOMAIN list
      PROVE  list[k] \in Vals /\ Fitting(type, list[k])
  <2>1. PICK i \in P : rows[k] = from[i]
    BY <1>6
  <2>2. ValuedRow(x.table, from[i])
    BY <1>3, <1>4, <2>1
  <2>3. list[k] = from[i][d]
    BY <2>1
  <2>4. from[i][d] \in Vals /\ OfType(TypeOf(Schemas[x.table], d), from[i][d])
    BY <1>2, <2>2, CellOf
  <2> HIDE DEF list
  <2> QED
    BY <1>2, <2>3, <2>4 DEF Fitting, OfType
<1>9. /\ IsOne(ResolvedCondition(c, answers))
      /\ The(ResolvedCondition(c, answers)) = InList(c[2], list, c[4])
  BY <1>7, TheOne, Zenon
<1>10. ASSUME NEW row
       PROVE  MeantCondition(tables, row, c, selected) <=>
                /\ row[c[2]] # Null
                /\ (\E k \in DOMAIN list : SameText(list[k], row[c[2]])) # c[4]
  <2> DEFINE u == row[c[2]]
  <2>1. (\E k \in P : SameText(from[k][d], u)) <=> \E k \in DOMAIN list : SameText(list[k], u)
    <3>1. ASSUME NEW k \in P, SameText(from[k][d], u)
          PROVE  \E i \in DOMAIN list : SameText(list[i], u)
      <4>1. PICK i \in DOMAIN rows : rows[i] = from[k]
        BY <1>6
      <4>2. i \in DOMAIN list /\ list[i] = from[k][d]
        BY <4>1
      <4> HIDE DEF list
      <4> QED
        BY <3>1, <4>2
    <3>2. ASSUME NEW i \in DOMAIN list, SameText(list[i], u)
          PROVE  \E k \in P : SameText(from[k][d], u)
      <4>1. PICK k \in P : rows[i] = from[k]
        BY <1>6
      <4>2. list[i] = from[k][d]
        BY <4>1
      <4> HIDE DEF list
      <4> QED
        BY <3>2, <4>2
    <3> QED
      BY <3>1, <3>2
  <2>2. MeantCondition(tables, row, c, selected) <=> u # Null /\ (\E k \in P : SameText(from[k][d], u)) # c[4]
    BY DEF MeantCondition, from, P
  <2> HIDE DEF list, u
  <2>3. ((\E k \in P : SameText(from[k][d], u)) # c[4]) <=>
            \/ c[4] = FALSE /\ \E k \in P : SameText(from[k][d], u)
            \/ c[4] = TRUE /\ ~(\E k \in P : SameText(from[k][d], u))
    BY <1>1, Unlike
  <2>4. ((\E k \in DOMAIN list : SameText(list[k], u)) # c[4]) <=>
            \/ c[4] = FALSE /\ \E k \in DOMAIN list : SameText(list[k], u)
            \/ c[4] = TRUE /\ ~(\E k \in DOMAIN list : SameText(list[k], u))
    BY <1>1, Unlike
  <2>5. MeantCondition(tables, row, c, selected) <=>
            u # Null /\ (\E k \in DOMAIN list : SameText(list[k], u)) # c[4]
    BY <2>1, <2>2, <2>3, <2>4, Zenon
  <2> QED
    BY <2>5 DEF u
<1> HIDE DEF list, type, x
<1>11. /\ IsOne(PreparedCondition(Schemas[t], InList(c[2], list, c[4])))
       /\ \A row : ValuedRow(t, row) =>
            (HoldsCondition(row, The(PreparedCondition(Schemas[t], InList(c[2], list, c[4]))))
                <=> /\ row[c[2]] # Null
                    /\ (\E k \in DOMAIN list : SameText(list[k], row[c[2]])) # c[4])
  <2>1. \A k \in DOMAIN list : list[k] \in Vals /\ Fitting(TypeOf(Schemas[t], c[2]), list[k])
    BY <1>8 DEF type
  <2>2. c[4] \in BOOLEAN /\ c[2] \in ColumnNames(Schemas[t])
    BY <1>1, <1>2
  <2>3. PICK column, negated : column = c[2] /\ negated = c[4]
    OBVIOUS
  <2> SUFFICES /\ IsOne(PreparedCondition(Schemas[t], InList(column, list, negated)))
               /\ \A row : ValuedRow(t, row) =>
                    (HoldsCondition(row, The(PreparedCondition(Schemas[t], InList(column, list, negated))))
                        <=> /\ row[column] # Null
                            /\ (\E k \in DOMAIN list : SameText(list[k], row[column])) # negated)
    BY <2>3, Zenon
  <2>4. /\ \A k \in DOMAIN list : list[k] \in Vals /\ Fitting(TypeOf(Schemas[t], column), list[k])
        /\ column \in ColumnNames(Schemas[t]) /\ negated \in BOOLEAN
    BY <2>1, <2>2, <2>3
  <2> QED
    BY <2>4, ListMeaning, Zenon
<1> QED
  BY <1>9, <1>10, <1>11, Zenon DEF InPlace

LEMMA ConditionMeaning ==
    ASSUME NEW t \in Tables, NEW c, IsCondition(c), Sensible(t, c), ValuedTables, NEW answers, NEW selected,
           c[1] = "InSubquery" => AnsweredRight(c[3], answers, selected)
    PROVE  /\ IsOne(ResolvedCondition(c, answers))
           /\ IsOne(PreparedCondition(Schemas[t], The(ResolvedCondition(c, answers))))
           /\ \A row : ValuedRow(t, row) =>
                (HoldsCondition(row, InPlace(t, c, answers)) <=> MeantCondition(tables, row, c, selected))
<1>1. CASE c[1] = "InSubquery"
  BY <1>1, SubqueryMeaning
<1>2. CASE c[1] # "InSubquery"
  <2>1. ResolvedCondition(c, answers) = {c}
    BY <1>2, Zenon DEF ResolvedCondition
  <2>2. IsOne(ResolvedCondition(c, answers)) /\ The(ResolvedCondition(c, answers)) = c
    BY <2>1, TheOne, Zenon
  <2> DEFINE p == PreparedCondition(Schemas[t], c)
  <2> SUFFICES /\ IsOne(p)
               /\ \A row : ValuedRow(t, row) =>
                        (HoldsCondition(row, The(p)) <=> MeantCondition(tables, row, c, selected))
    BY <2>2, Zenon DEF InPlace
  <2>3. CASE c[1] = "Compare"
    BY <2>3, ComparisonMeaning
  <2>4. CASE c[1] = "InList"
    <3>1. c = InList(c[2], c[3], c[4]) /\ c[3] \in Seq(Vals) /\ c[4] \in BOOLEAN
      BY <2>4 DEF IsCondition
    <3>2. c[2] \in ColumnNames(Schemas[t]) /\ \A k \in DOMAIN c[3] : Fitting(TypeOf(Schemas[t], c[2]), c[3][k])
      BY <2>4 DEF Sensible
    <3>3. \A k \in DOMAIN c[3] : c[3][k] \in Vals
      BY <3>1
    <3>4. PICK column, list, negated : /\ c = InList(column, list, negated) /\ column = c[2] /\ list = c[3]
                                       /\ negated = c[4]
      BY <3>1
    <3>5. /\ IsOne(PreparedCondition(Schemas[t], InList(column, list, negated)))
          /\ \A row : ValuedRow(t, row) =>
                (HoldsCondition(row, The(PreparedCondition(Schemas[t], InList(column, list, negated))))
                    <=> /\ row[column] # Null
                        /\ (\E k \in DOMAIN list : SameText(list[k], row[column])) # negated)
      <4>1. /\ \A k \in DOMAIN list : list[k] \in Vals /\ Fitting(TypeOf(Schemas[t], column), list[k])
            /\ column \in ColumnNames(Schemas[t]) /\ negated \in BOOLEAN
        BY <3>1, <3>2, <3>3, <3>4
      <4> QED
        BY <4>1, ListMeaning, Zenon
    <3>6. \A row : MeantCondition(tables, row, c, selected)
                    <=> /\ row[column] # Null
                        /\ (\E k \in DOMAIN list : SameText(list[k], row[column])) # negated
      BY <2>4, <3>4 DEF MeantCondition
    <3> QED
      BY <3>4, <3>5, <3>6, Zenon
  <2>5. CASE c[1] \notin {"Compare", "InList"}
    <3>1. c = IsNull(c[2]) \/ c = IsNotNull(c[2])
      BY <1>2, <2>5 DEF IsCondition
    <3>2. c[1] \in {"IsNull", "IsNotNull"}
      BY <3>1 DEF IsNull, IsNotNull
    <3>3. c[2] \in ColumnNames(Schemas[t])
      BY DEF Sensible
    <3>4. p = {c}
      BY <3>2, <3>3 DEF PreparedCondition
    <3>5. ASSUME NEW row, ValuedRow(t, row)
          PROVE  HoldsCondition(row, c) <=> MeantCondition(tables, row, c, selected)
      <4>1. Cell(row, c[2]) = row[c[2]]
        BY <3>3, <3>5, CellOf
      <4> QED
        BY <3>2, <4>1 DEF HoldsCondition, MeantCondition
    <3>6. IsOne(p) /\ The(p) = c
      BY <3>4, TheOne, Zenon
    <3> QED
      BY <3>5, <3>6, Zenon
  <2> QED
    BY <2>3, <2>4, <2>5
<1> QED
  BY <1>1, <1>2

---------------------------------------------------------------------------------
(* What a filter comes to *)

LEMMA FilterMeaning ==
    ASSUME NEW t \in Tables, NEW f, IsFilter(Some(f)), \A c \in ConditionsOf(f) : Sensible(t, c),
           ValuedTables, NEW answers, NEW selected,
           \A x \in Subqueries(Some(f)) : AnsweredRight(x, answers, selected)
    PROVE  \E r, p :
            /\ Resolved(f, answers) = {r} /\ Prepared(Schemas[t], r) = {p}
            /\ IsList(p) /\ \A i \in DOMAIN p : IsList(p[i])
            /\ \A row : ValuedRow(t, row) => (Holds(row, p) <=> Meant(tables, row, f, selected))
<1> DEFINE resolved(c) == ResolvedCondition(c, answers)
           prepared(c) == PreparedCondition(Schemas[t], The(resolved(c)))
           r == [i \in DOMAIN f |-> [j \in DOMAIN f[i] |-> The(resolved(f[i][j]))]]
           p == [i \in DOMAIN f |-> [j \in DOMAIN f[i] |-> The(prepared(f[i][j]))]]
<1>1. IsList(f) /\ \A i \in DOMAIN f : IsList(f[i]) /\ \A j \in DOMAIN f[i] : IsCondition(f[i][j])
  BY DEF IsFilter, Some, None, IsList
<1>2. \A i \in DOMAIN f : \A j \in DOMAIN f[i] :
            /\ IsOne(resolved(f[i][j])) /\ IsOne(prepared(f[i][j]))
            /\ \A row : ValuedRow(t, row) =>
                    (HoldsCondition(row, The(prepared(f[i][j]))) <=> MeantCondition(tables, row, f[i][j], selected))
  <2> SUFFICES ASSUME NEW i \in DOMAIN f, NEW j \in DOMAIN f[i]
               PROVE  /\ IsOne(resolved(f[i][j])) /\ IsOne(prepared(f[i][j]))
                      /\ \A row : ValuedRow(t, row) =>
                            (HoldsCondition(row, The(prepared(f[i][j])))
                                <=> MeantCondition(tables, row, f[i][j], selected))
    BY Zenon
  <2>1. PICK c : c = f[i][j]
    OBVIOUS
  <2>2. IsCondition(c) /\ c \in ConditionsOf(f)
    BY <1>1, <2>1 DEF ConditionsOf, Range
  <2>3. c[1] = "InSubquery" => c[3] \in Subqueries(Some(f))
    BY <2>2 DEF Subqueries, Some, None
  <2>4. /\ IsOne(resolved(c)) /\ IsOne(prepared(c))
        /\ \A row : ValuedRow(t, row) =>
                (HoldsCondition(row, The(prepared(c))) <=> MeantCondition(tables, row, c, selected))
    BY <2>2, <2>3, ConditionMeaning, Zenon DEF InPlace
  <2> QED
    BY <2>1, <2>4, Zenon
<1>3. Resolved(f, answers) = {r}
  <2> DEFINE sets == [i \in DOMAIN f |-> OneOfEach([j \in DOMAIN f[i] |-> resolved(f[i][j])])]
  <2>1. ASSUME NEW i \in DOMAIN f
        PROVE  sets[i] = {r[i]}
    <3> DEFINE inner == [j \in DOMAIN f[i] |-> resolved(f[i][j])]
    <3>1. \A j \in DOMAIN inner : IsOne(inner[j])
      BY <1>2
    <3>2. OneOfEach(inner) = {[j \in DOMAIN inner |-> The(inner[j])]}
      <4> HIDE DEF inner
      <4> QED
        BY <3>1, OnesChosen
    <3>3. [j \in DOMAIN inner |-> The(inner[j])] = [j \in DOMAIN f[i] |-> The(resolved(f[i][j]))]
      OBVIOUS
    <3>4. r[i] = [j \in DOMAIN f[i] |-> The(resolved(f[i][j]))] /\ sets[i] = OneOfEach(inner)
      OBVIOUS
    <3> QED
      BY <3>2, <3>3, <3>4, Zenon
  <2>2. DOMAIN sets = DOMAIN f
    OBVIOUS
  <2>3. \A i \in DOMAIN sets : IsOne(sets[i]) /\ The(sets[i]) = r[i]
    <3> HIDE DEF sets, r
    <3> QED
      BY <2>1, <2>2, TheOne, Zenon
  <2>4. OneOfEach(sets) = {[i \in DOMAIN sets |-> The(sets[i])]}
    <3> HIDE DEF sets
    <3> QED
      BY <2>3, OnesChosen
  <2>5. r = [i \in DOMAIN f |-> r[i]]
    OBVIOUS
  <2>6. [i \in DOMAIN sets |-> The(sets[i])] = [i \in DOMAIN f |-> r[i]]
    <3> HIDE DEF sets, r
    <3> QED
      BY <2>2, <2>3, Zenon
  <2>7. Resolved(f, answers) = OneOfEach(sets)
    BY Zenon DEF Resolved
  <2> HIDE DEF sets, r
  <2> QED
    BY <2>4, <2>5, <2>6, <2>7, Zenon
<1>4. Prepared(Schemas[t], r) = {p}
  <2> DEFINE made(c) == PreparedCondition(Schemas[t], c)
             sets == [i \in DOMAIN r |-> Collect([j \in DOMAIN r[i] |-> made(r[i][j])])]
  <2>1. DOMAIN r = DOMAIN f /\ \A i \in DOMAIN f : DOMAIN r[i] = DOMAIN f[i]
    OBVIOUS
  <2>2. \A i \in DOMAIN f : \A j \in DOMAIN f[i] : made(r[i][j]) = prepared(f[i][j])
    OBVIOUS
  <2>3. \A i \in DOMAIN f : p[i] = [j \in DOMAIN f[i] |-> The(prepared(f[i][j]))]
    OBVIOUS
  <2>4. ASSUME NEW i \in DOMAIN f
        PROVE  sets[i] = {p[i]}
    <3> DEFINE inner == [j \in DOMAIN r[i] |-> made(r[i][j])]
    <3> HIDE DEF r, prepared, made, p
    <3>1. DOMAIN inner = DOMAIN f[i] /\ \A j \in DOMAIN f[i] : inner[j] = prepared(f[i][j])
      BY <2>1, <2>2
    <3>2. sets[i] = Collect(inner)
      BY <2>1
    <3> HIDE DEF inner, sets
    <3>3. \A j \in DOMAIN inner : IsOne(inner[j])
      BY <1>2, <3>1 DEF prepared
    <3>4. Collect(inner) = {[j \in DOMAIN inner |-> The(inner[j])]}
      BY <3>3, OnesCollected
    <3>5. [j \in DOMAIN inner |-> The(inner[j])] = [j \in DOMAIN f[i] |-> The(prepared(f[i][j]))]
      BY <3>1, Zenon
    <3> QED
      BY <2>3, <3>2, <3>4, <3>5, Zenon
  <2>5. DOMAIN sets = DOMAIN f
    BY <2>1
  <2>6. p = [i \in DOMAIN f |-> p[i]]
    OBVIOUS
  <2>7. Prepared(Schemas[t], r) = Collect(sets)
    BY Zenon DEF Prepared
  <2> HIDE DEF sets, p, r
  <2>8. \A i \in DOMAIN sets : IsOne(sets[i]) /\ The(sets[i]) = p[i]
    BY <2>4, <2>5, TheOne, Zenon
  <2>9. Collect(sets) = {[i \in DOMAIN sets |-> The(sets[i])]}
    BY <2>8, OnesCollected
  <2>10. [i \in DOMAIN sets |-> The(sets[i])] = [i \in DOMAIN f |-> p[i]]
    BY <2>5, <2>8, Zenon
  <2> QED
    BY <2>6, <2>7, <2>9, <2>10, Zenon
<1>5. /\ DOMAIN p = DOMAIN f
      /\ \A i \in DOMAIN f : DOMAIN p[i] = DOMAIN f[i] /\ p[i] = [j \in DOMAIN f[i] |-> p[i][j]]
      /\ \A i \in DOMAIN f : \A j \in DOMAIN f[i] : p[i][j] = The(prepared(f[i][j]))
      /\ p = [i \in DOMAIN f |-> p[i]]
  OBVIOUS
<1> HIDE DEF p, r, resolved, prepared
<1>6. IsList(p) /\ \A i \in DOMAIN p : IsList(p[i])
  <2>1. \A g : IsList(g) => Len(g) \in Nat /\ DOMAIN g = 1..Len(g)
    BY DEF IsList
  <2>2. \A n \in Nat : \A l : DOMAIN l = 1..n /\ l = [k \in 1..n |-> l[k]] => IsList(l)
    BY Lists
  <2>3. IsList(p)
    BY <1>1, <1>5, <2>1, <2>2, Zenon
  <2>4. ASSUME NEW i \in DOMAIN f
        PROVE  IsList(p[i])
    <3>1. IsList(f[i]) /\ DOMAIN p[i] = DOMAIN f[i] /\ p[i] = [j \in DOMAIN f[i] |-> p[i][j]]
      BY <1>1, <1>5, Zenon
    <3>2. Len(f[i]) \in Nat /\ DOMAIN f[i] = 1..Len(f[i])
      BY <2>1, <3>1, Zenon
    <3>3. PICK n \in Nat : DOMAIN f[i] = 1..n
      BY <3>2, Zenon
    <3> QED
      BY <2>2, <3>1, <3>3, Zenon
  <2> QED
    BY <1>5, <2>3, <2>4, Zenon
<1>7. ASSUME NEW row, ValuedRow(t, row)
      PROVE  Holds(row, p) <=> Meant(tables, row, f, selected)
  <2>1. \A i \in DOMAIN f : \A j \in DOMAIN f[i] :
            HoldsCondition(row, p[i][j]) <=> MeantCondition(tables, row, f[i][j], selected)
    BY <1>2, <1>5, <1>7, Zenon
  <2> QED
    BY <1>5, <2>1, Zenon DEF Holds, Meant
<1> QED
  BY <1>3, <1>4, <1>6, <1>7, Zenon

\* The rows an index is asked for are among those that are fetched: none that
\* meets the filter is left out.
LEMMA FetchedAll ==
    ASSUME NEW t \in Tables, IsList(tables[t]), NEW filter,
           filter = None \/ (IsList(filter[1]) /\ \A i \in DOMAIN filter[1] : IsList(filter[1][i]))
    PROVE  /\ Fetched(t, filter) \in SUBSET DOMAIN tables[t]
           /\ \A k \in DOMAIN tables[t] : Matches(tables[t][k], filter) => k \in Fetched(t, filter)
<1> DEFINE rows == tables[t]
           candidates == IF filter = None THEN <<>> ELSE Candidates(filter[1])
           usable == {k \in DOMAIN candidates : [table |-> t, column |-> candidates[k][2]] \in Range(indexes)}
           found(k) == {i \in DOMAIN rows : Cell(rows[i], candidates[k][2]) = candidates[k][4]}
           size(k) == Cardinality(found(k))
           best == CHOOSE k \in usable :
                    \A other \in usable : size(k) < size(other) \/ (size(k) = size(other) /\ k <= other)
<1>1. Fetched(t, filter) = IF usable = {} THEN DOMAIN rows ELSE found(best)
  BY Zenon DEF Fetched
<1>2. CASE usable = {}
  BY <1>1, <1>2
<1>3. CASE usable # {}
  <2>1. filter # None /\ Len(filter[1]) = 1
    <3>1. candidates # <<>>
      <4>1. candidates = <<>> => DOMAIN candidates = {}
        OBVIOUS
      <4> HIDE DEF candidates
      <4> QED
        BY <1>3, <4>1
    <3> QED
      BY <3>1 DEF Candidates
  <2> DEFINE term == filter[1][1]
             P == {k \in DOMAIN term : term[k][1] = "Compare" /\ term[k][3] = "="}
  <2>2. 1 \in DOMAIN filter[1] /\ IsList(term) /\ DOMAIN filter[1] = {1}
    BY <2>1 DEF IsList
  <2>3. candidates = At(term, P)
    BY <2>1, Zenon DEF Candidates, Equalities
  <2>4. P \in SUBSET DOMAIN term
    BY Zenon
  <2> HIDE DEF P, candidates, term
  <2>5. P \in SUBSET Int /\ IsFiniteSet(P)
    BY <2>2, <2>4, Positions
  <2>6. /\ Cardinality(P) \in Nat /\ DOMAIN candidates = 1..Cardinality(P)
        /\ \A k \in 1..Cardinality(P) : \E i \in P : candidates[k] = term[i]
    BY <2>3, <2>5, AtElements, Zenon
  <2>7. usable \in SUBSET Nat
    BY <2>6
  <2>8. \A k : size(k) \in Nat
    <3>1. \A k : found(k) \in SUBSET DOMAIN rows
      BY Zenon
    <3>2. IsFiniteSet(DOMAIN rows)
      BY Positions, Zenon
    <3> HIDE DEF found, rows
    <3>3. \A k : IsFiniteSet(found(k))
      BY <3>1, <3>2, FS_Subset
    <3> QED
      BY <3>3, FS_CardinalityType
  <2> HIDE DEF usable, found, rows
  <2>9. \E k \in usable : \A other \in usable : size(k) < size(other) \/ (size(k) = size(other) /\ k <= other)
    <3> HIDE DEF size
    <3>1. \A S \in SUBSET Nat : S # {} => \E m \in S : \A k \in S : m <= k
      BY Smallest
    <3> DEFINE sizes == {size(k) : k \in usable}
    <3>2. sizes \in SUBSET Nat /\ sizes # {}
      BY <1>3, <2>8
    <3>3. PICK m \in sizes : \A n \in sizes : m <= n
      BY <3>1, <3>2, Zenon
    <3> DEFINE least == {k \in usable : size(k) = m}
    <3>4. least \in SUBSET Nat /\ least # {}
      BY <2>7
    <3>5. PICK k \in least : \A other \in least : k <= other
      <4> HIDE DEF least
      <4> QED
        BY <3>1, <3>4, Zenon
    <3>6. k \in usable /\ size(k) = m
      BY <3>5
    <3>7. ASSUME NEW other \in usable
          PROVE  size(k) < size(other) \/ (size(k) = size(other) /\ k <= other)
      <4>1. m <= size(other) /\ m \in Nat /\ size(other) \in Nat
        BY <2>8, <3>2, <3>3
      <4>2. size(other) = m => k <= other
        BY <3>5
      <4> QED
        BY <3>6, <4>1, <4>2
    <3> QED
      BY <3>6, <3>7
  <2>10. best \in usable
    BY <2>9, Zenon
  <2>11. Fetched(t, filter) = found(best)
    BY <1>1, <1>3
  <2> HIDE DEF best
  <2>12. PICK i \in P : candidates[best] = term[i]
    BY <2>6, <2>10 DEF usable
  <2>13. i \in DOMAIN term /\ term[i][1] = "Compare" /\ term[i][3] = "="
    BY <2>12 DEF P
  <2>14. ASSUME NEW k \in DOMAIN rows, Matches(rows[k], filter)
         PROVE  k \in found(best)
    <3>1. Holds(rows[k], filter[1])
      BY <2>1, <2>14 DEF Matches
    <3>2. HoldsCondition(rows[k], term[i])
      BY <2>2, <2>13, <3>1 DEF Holds, term
    <3>3. Cell(rows[k], term[i][2]) = term[i][4]
      BY <2>13, <3>2 DEF HoldsCondition, CompareValues
    <3> QED
      BY <2>12, <3>3 DEF found
  <2>15. found(best) \in SUBSET DOMAIN rows
    BY DEF found
  <2> QED
    BY <2>11, <2>14, <2>15 DEF rows
<1> QED
  BY <1>2, <1>3

---------------------------------------------------------------------------------
(* What SELECT answers *)

LEMMA FlatOfOne ==
    ASSUME NEW l
    PROVE  FlattenSeq(<<l>>) = l
<1> DEFINE s == <<l>>
           step(f, i) == IF i = 1 THEN s[i] ELSE f[i - 1] \o s[i]
           flat == CHOOSE f : f = [i \in 1..Len(s) |-> step(f, i)]
<1>1. Len(s) = 1 /\ s[1] = l
  OBVIOUS
<1>2. FlattenSeq(s) = flat[Len(s)]
  <2>1. Len(s) # 0
    BY <1>1
  <2> HIDE DEF s
  <2> QED
    BY <2>1, Zenon DEF FlattenSeq
<1> HIDE DEF s
<1>3. [i \in 1..1 |-> l] = [i \in 1..Len(s) |-> step([j \in 1..1 |-> l], i)]
  <2>1. \A i \in 1..1 : i = 1
    OBVIOUS
  <2> QED
    BY <1>1, <2>1
<1> HIDE DEF step
<1>4. flat = [i \in 1..Len(s) |-> step(flat, i)]
  BY <1>3, Zenon
<1> HIDE DEF flat
<1>5. flat[1] = step(flat, 1)
  BY <1>1, <1>4
<1> QED
  BY <1>1, <1>2, <1>5 DEF step, s

LEMMA OptionMeaning ==
    ASSUME NEW t \in Tables, NEW filter, IsFilter(filter), SensibleFilter(t, filter), ValuedTables,
           NEW answers, NEW selected, \A x \in Subqueries(filter) : AnsweredRight(x, answers, selected)
    PROVE  \E r, p :
            /\ ResolvedOption(filter, answers) = {r} /\ PreparedOption(Schemas[t], r) = {p}
            /\ p = None \/ (IsList(p[1]) /\ \A i \in DOMAIN p[1] : IsList(p[1][i]))
            /\ \A row : ValuedRow(t, row) =>
                    (Matches(row, p) <=> filter = None \/ Meant(tables, row, filter[1], selected))
<1>1. CASE filter = None
  <2>1. ResolvedOption(filter, answers) = {None} /\ PreparedOption(Schemas[t], None) = {None}
    BY <1>1 DEF ResolvedOption, PreparedOption
  <2>2. \A row : Matches(row, None)
    BY DEF Matches
  <2> QED
    BY <1>1, <2>1, <2>2, Zenon
<1>2. CASE filter # None
  <2>1. PICK f : filter = Some(f) /\ f = filter[1]
    BY <1>2 DEF IsFilter
  <2>2. \A c \in ConditionsOf(f) : Sensible(t, c)
    BY <1>2, <2>1 DEF SensibleFilter
  <2>3. PICK r, p :
            /\ Resolved(f, answers) = {r} /\ Prepared(Schemas[t], r) = {p}
            /\ IsList(p) /\ \A i \in DOMAIN p : IsList(p[i])
            /\ \A row : ValuedRow(t, row) => (Holds(row, p) <=> Meant(tables, row, f, selected))
    BY <2>1, <2>2, FilterMeaning, Zenon
  <2>4. \A x : Some(x) # None /\ Some(x)[1] = x
    BY DEF Some, None
  <2>5. ResolvedOption(filter, answers) = {Some(r)}
    <3>1. ResolvedOption(filter, answers) = {Some(x) : x \in Resolved(f, answers)}
      BY <1>2, <2>1, Zenon DEF ResolvedOption
    <3> QED
      BY <2>3, <3>1
  <2>6. PreparedOption(Schemas[t], Some(r)) = {Some(p)}
    <3>1. PreparedOption(Schemas[t], Some(r)) = {Some(x) : x \in Prepared(Schemas[t], r)}
      BY <2>4, Zenon DEF PreparedOption
    <3> QED
      BY <2>3, <3>1
  <2>7. ASSUME NEW row, ValuedRow(t, row)
        PROVE  Matches(row, Some(p)) <=> filter = None \/ Meant(tables, row, filter[1], selected)
    <3>1. Matches(row, Some(p)) <=> Holds(row, p)
      BY <2>4, Zenon DEF Matches
    <3> QED
      BY <1>2, <2>1, <2>3, <2>7, <3>1, Zenon
  <2>8. IsList(Some(p)[1]) /\ \A i \in DOMAIN Some(p)[1] : IsList(Some(p)[1][i])
    BY <2>3, <2>4, Zenon
  <2> QED
    BY <2>5, <2>6, <2>7, <2>8, Zenon
<1> QED
  BY <1>1, <1>2

\* A SELECT of one table without groups, order and pages
FromTable(q) ==
    /\ q.table \in Tables /\ q.joins = <<>> /\ q.group_by = <<>> /\ q.having = None
    /\ \/ q.columns = <<AllColumns>>
       \/ \E d \in ColumnNames(Schemas[q.table]) : q.columns = <<Column(d)>>

\* ... and no order and no pages
PlainSelect(q) == FromTable(q) /\ q.order_by = <<>> /\ q.limit = None /\ q.offset = None

LEMMA Projected ==
    ASSUME NEW q, FromTable(q)
    PROVE  LET schema == Schemas[q.table]
               projected == ProjectedColumns(q, schema)
           IN /\ Range(projected) \subseteq ColumnNames(schema)
              /\ q.columns = <<AllColumns>> => projected = [i \in DOMAIN schema |-> schema[i].name]
              /\ \A d : q.columns = <<Column(d)>> => projected = <<d>>
              /\ ~Aggregated(q.columns)
<1> DEFINE schema == Schemas[q.table]
           names == [i \in DOMAIN schema |-> schema[i].name]
           projected == ProjectedColumns(q, schema)
           piece(k) == IF q.columns[k][1] = "AllColumns" THEN names ELSE <<q.columns[k][2]>>
<1>1. projected = FlattenSeq([k \in DOMAIN q.columns |-> piece(k)])
  BY Zenon DEF ProjectedColumns
<1>2. CASE q.columns = <<AllColumns>>
  <2>1. DOMAIN q.columns = 1..1 /\ q.columns[1][1] = "AllColumns"
    BY <1>2 DEF AllColumns
  <2>2. piece(1) = names
    BY <2>1
  <2> HIDE DEF piece
  <2>3. [k \in DOMAIN q.columns |-> piece(k)] = <<names>>
    BY <2>1, <2>2
  <2>4. projected = names
    BY <1>1, <2>3, FlatOfOne
  <2>5. Range(names) \subseteq ColumnNames(schema)
    BY DEF Range, ColumnNames
  <2>6. ~Aggregated(q.columns)
    BY <2>1 DEF Aggregated
  <2>7. \A d : q.columns # <<Column(d)>>
    BY <2>1 DEF Column
  <2> QED
    BY <2>4, <2>5, <2>6, <2>7, Zenon
<1>3. ASSUME NEW d \in ColumnNames(schema), q.columns = <<Column(d)>>
      PROVE  /\ Range(projected) \subseteq ColumnNames(schema)
             /\ q.columns # <<AllColumns>> /\ projected = <<d>> /\ ~Aggregated(q.columns)
             /\ \A e : q.columns = <<Column(e)>> => e = d
  <2>1. DOMAIN q.columns = 1..1 /\ q.columns[1][1] = "Column" /\ q.columns[1][2] = d
    BY <1>3 DEF Column
  <2>2. piece(1) = <<d>>
    BY <2>1
  <2> HIDE DEF piece
  <2>3. [k \in DOMAIN q.columns |-> piece(k)] = <<<<d>>>>
    BY <2>1, <2>2
  <2>4. projected = <<d>>
    BY <1>1, <2>3, FlatOfOne
  <2>5. Range(<<d>>) \subseteq ColumnNames(schema)
    BY DEF Range
  <2>6. ~Aggregated(q.columns)
    BY <2>1 DEF Aggregated
  <2>7. q.columns # <<AllColumns>>
    BY <2>1 DEF AllColumns
  <2>8. \A e : q.columns = <<Column(e)>> => e = d
    BY <1>3 DEF Column
  <2> QED
    BY <2>4, <2>5, <2>6, <2>7, <2>8, Zenon
<1> HIDE DEF names, projected
<1> QED
  BY <1>2, <1>3, Zenon DEF FromTable, names, projected

\* What a SELECT answers is one table: of each row its filter means, the
\* columns that were asked for.
LEMMA SelectMeaning ==
    ASSUME NEW q, FromTable(q), IsFilter(q.filter), SensibleFilter(q.table, q.filter), ValuedTables,
           NEW answers, NEW selected, \A x \in Subqueries(q.filter) : AnsweredRight(x, answers, selected)
    PROVE  LET projected == ProjectedColumns(q, Schemas[q.table])
               rows == At(tables[q.table], MeantRows(tables, q, selected))
               shown == [k \in DOMAIN rows |-> [i \in DOMAIN projected |-> Cell(rows[k], projected[i])]]
           IN SelectAnswers(q, answers) = PagesOf(q, [columns |-> projected, rows |-> shown]) /\ IsList(shown)
<1> DEFINE t == q.table
           schema == Schemas[t]
           from == tables[t]
           projected == ProjectedColumns(q, schema)
           P == MeantRows(tables, q, selected)
           rows == At(from, P)
           shown == [k \in DOMAIN rows |-> [i \in DOMAIN projected |-> Cell(rows[k], projected[i])]]
           a == [columns |-> projected, rows |-> shown]
<1>1. t \in Tables /\ IsList(from) /\ \A k \in DOMAIN from : ValuedRow(t, from[k])
  BY DEF FromTable, ValuedTables, ValuedTable
<1>2. PICK r, p :
            /\ ResolvedOption(q.filter, answers) = {r} /\ PreparedOption(schema, r) = {p}
            /\ p = None \/ (IsList(p[1]) /\ \A i \in DOMAIN p[1] : IsList(p[1][i]))
            /\ \A row : ValuedRow(t, row) =>
                    (Matches(row, p) <=> q.filter = None \/ Meant(tables, row, q.filter[1], selected))
  BY <1>1, OptionMeaning, Zenon
<1> DEFINE source == [filter |-> r, rows |-> from, fetched |-> Fetched(t, p), columns |-> schema]
<1>3. Sources(q, answers) = {source}
  <2> DEFINE some(filter) == {[filter |-> filter, rows |-> from, fetched |-> Fetched(t, f), columns |-> schema] :
                                f \in PreparedOption(schema, filter)}
             alone(filter) == IF q.joins # <<>>
                THEN {[filter |-> filter, rows |-> joined.rows, fetched |-> DOMAIN joined.rows,
                       columns |-> joined.columns] : joined \in {Joined(q)}}
                ELSE some(filter)
  <2>1. Sources(q, answers) = UNION {alone(filter) : filter \in ResolvedOption(q.filter, answers)}
    BY Zenon DEF Sources
  <2>2. alone(r) = some(r)
    BY DEF FromTable
  <2>3. some(r) = {source}
    BY <1>2
  <2> HIDE DEF alone, source, some
  <2> QED
    BY <1>2, <2>1, <2>2, <2>3
<1>4. Filtered(source, p) = rows
  <2> DEFINE Q == {k \in source.fetched : Matches(source.rows[k], p)}
  <2>1. Filtered(source, p) = At(source.rows, Q)
    BY Zenon DEF Filtered
  <2>2. source.rows = from /\ source.fetched = Fetched(t, p)
    OBVIOUS
  <2>3. /\ Fetched(t, p) \in SUBSET DOMAIN from
        /\ \A k \in DOMAIN from : Matches(from[k], p) => k \in Fetched(t, p)
    BY <1>1, <1>2, FetchedAll
  <2>4. P = {k \in DOMAIN from : q.filter = None \/ Meant(tables, from[k], q.filter[1], selected)}
    BY Zenon DEF MeantRows
  <2> HIDE DEF source, from, P
  <2>5. \A k \in DOMAIN from : Matches(from[k], p) <=> k \in P
    BY <1>1, <1>2, <2>4
  <2>6. Q = P
    BY <2>2, <2>3, <2>4, <2>5
  <2> QED
    BY <2>1, <2>2, <2>6
<1>5. RowAnswers(q, schema, rows) = {a}
  <2>1. /\ Range(projected) \subseteq ColumnNames(schema) /\ ~Aggregated(q.columns)
    BY Projected
  <2>2. q.having = None /\ q.group_by = <<>>
    BY DEF FromTable
  <2> HIDE DEF rows
  <2>3. PlainAnswers(q, schema, rows) = {a}
    BY <2>1, <2>2, Zenon DEF PlainAnswers
  <2> HIDE DEF a
  <2>4. RowAnswers(q, schema, rows) = PlainAnswers(q, schema, rows)
    BY <2>1, <2>2, Zenon DEF RowAnswers
  <2> QED
    BY <2>3, <2>4
<1>6. IsList(shown)
  <2>1. IsFiniteSet(P) /\ P \in SUBSET Int
    <3>1. P \in SUBSET DOMAIN from
      BY Zenon DEF MeantRows
    <3> HIDE DEF P, from
    <3> QED
      BY <1>1, <3>1, Positions
  <2>2. Cardinality(P) \in Nat /\ DOMAIN rows = 1..Cardinality(P)
    BY <2>1, AtElements, Zenon
  <2> HIDE DEF rows, P, projected
  <2>3. DOMAIN shown = 1..Cardinality(P) /\ shown = [k \in 1..Cardinality(P) |-> shown[k]]
    BY <2>2
  <2> HIDE DEF shown
  <2> QED
    BY <2>2, <2>3, Lists, Zenon
<1>7. SelectAnswers(q, answers) =
        UNION {UNION {UNION {PagesOf(q, b) : b \in RowAnswers(q, s.columns, Filtered(s, f))}
                       : f \in PreparedOption(s.columns, s.filter)}
                : s \in Sources(q, answers)}
  <2>1. {q.table} \cup {j.table : j \in Range(q.joins)} \subseteq Tables
    <3>1. q.joins = <<>> /\ DOMAIN <<>> = {}
      BY DEF FromTable
    <3> QED
      BY <1>1, <3>1 DEF Range
  <2> QED
    BY <2>1, Zenon DEF SelectAnswers
<1>8. source.columns = schema /\ source.filter = r
  OBVIOUS
<1> HIDE DEF a, source, rows, schema
<1> DEFINE last(s, f) == UNION {PagesOf(q, b) : b \in RowAnswers(q, s.columns, Filtered(s, f))}
           next(s) == UNION {last(s, f) : f \in PreparedOption(s.columns, s.filter)}
<1>9. last(source, p) = PagesOf(q, a)
  BY <1>4, <1>5, <1>8
<1>10. next(source) = PagesOf(q, a)
  <2> HIDE DEF last
  <2> QED
    BY <1>2, <1>8, <1>9
<1>11. SelectAnswers(q, answers) = UNION {next(s) : s \in Sources(q, answers)}
  BY <1>7
<1>12. SelectAnswers(q, answers) = PagesOf(q, a)
  <2> HIDE DEF next
  <2> QED
    BY <1>3, <1>10, <1>11
<1> QED
  BY <1>6, <1>12 DEF a, rows, schema

\* Without order and pages an answer is as it is.
LEMMA PlainPages ==
    ASSUME NEW q, q.order_by = <<>>, q.limit = None, q.offset = None, NEW columns, NEW rows, IsList(rows)
    PROVE  PagesOf(q, [columns |-> columns, rows |-> rows]) = {[columns |-> columns, rows |-> rows]}
<1> DEFINE a == [columns |-> columns, rows |-> rows]
<1>1. Len(rows) \in Nat /\ SubSeq(rows, 1, Len(rows)) = rows
  BY DEF IsList
<1>2. Page(rows, q.limit, q.offset) = rows
  BY <1>1 DEF Page
<1>3. Ordered(q.order_by, columns, rows) = {rows}
  BY Zenon DEF Ordered
<1>4. a.columns = columns /\ a.rows = rows
  OBVIOUS
<1>5. PagesOf(q, a) = {[columns |-> columns, rows |-> Page(x, q.limit, q.offset)] : x \in {rows}}
  BY <1>3, <1>4 DEF PagesOf
<1> QED
  BY <1>2, <1>5

---------------------------------------------------------------------------------
(* Subqueries inside subqueries *)

\* The subqueries of a filter, down to a depth
Nesting(f, m, filter) == f = [n \in 0..m |-> NestedBelow(f, n, filter)]

LEMMA NestedUpto ==
    ASSUME NEW filter, NEW m \in Nat
    PROVE  \E f : Nesting(f, m, filter)
<1> DEFINE S == {i \in Nat : \E f : f = [n \in 0..i |-> NestedBelow(f, n, filter)]}
<1>1. 0 \in S
  <2> DEFINE f == [n \in 0..0 |-> Subqueries(filter)]
  <2>1. \A n \in 0..0 : NestedBelow(f, n, filter) = f[n]
    BY DEF NestedBelow
  <2>2. f = [n \in 0..0 |-> f[n]]
    OBVIOUS
  <2> HIDE DEF f
  <2>3. f = [n \in 0..0 |-> NestedBelow(f, n, filter)]
    BY <2>1, <2>2, Zenon
  <2> QED
    BY <2>3, Zenon
<1>2. ASSUME NEW i \in Nat, i \in S
      PROVE  i + 1 \in S
  <2>1. PICK f : f = [n \in 0..i |-> NestedBelow(f, n, filter)]
    BY <1>2
  <2> DEFINE g == [n \in 0..(i + 1) |-> IF n = i + 1 THEN NestedBelow(f, i + 1, filter) ELSE f[n]]
  <2>2. /\ g[i + 1] = NestedBelow(f, i + 1, filter)
        /\ \A n \in 0..i : g[n] = f[n]
        /\ g = [n \in 0..(i + 1) |-> g[n]]
    OBVIOUS
  <2> HIDE DEF g
  <2>3. \A n \in 0..i : g[n] = NestedBelow(f, n, filter)
    BY <2>1, <2>2, Zenon
  <2>4. ASSUME NEW n \in 0..(i + 1)
        PROVE  NestedBelow(g, n, filter) = NestedBelow(f, n, filter)
    <3>1. CASE n = 0
      BY <3>1, Zenon DEF NestedBelow
    <3>2. CASE n # 0
      <4>1. n - 1 \in 0..i
        BY <3>2
      <4>2. g[n - 1] = f[n - 1]
        BY <4>1, <2>2, Zenon
      <4> QED
        BY <3>2, <4>2, Zenon DEF NestedBelow
    <3> QED
      BY <3>1, <3>2
  <2>5. \A n \in 0..(i + 1) : g[n] = NestedBelow(g, n, filter)
    <3> TAKE n \in 0..(i + 1)
    <3>1. CASE n = i + 1
      BY <3>1, <2>2, <2>4
    <3>2. CASE n # i + 1
      <4>1. n \in 0..i
        BY <3>2
      <4> QED
        BY <4>1, <2>3, <2>4
    <3> QED
      BY <3>1, <3>2
  <2>6. g = [n \in 0..(i + 1) |-> NestedBelow(g, n, filter)]
    BY <2>2, <2>5, Zenon
  <2>7. i + 1 \in Nat
    OBVIOUS
  <2> QED
    BY <2>6, <2>7, Zenon
<1>3. Nat \subseteq S
  <2> HIDE DEF S
  <2> QED
    BY <1>1, <1>2, Induction
<1> QED
  BY <1>3 DEF Nesting

LEMMA NestedAgree ==
    ASSUME NEW filter, NEW a \in Nat, NEW b \in Nat,
           NEW f, Nesting(f, a, filter), NEW g, Nesting(g, b, filter)
    PROVE  \A k \in Nat : k <= a /\ k <= b => f[k] = g[k]
<1> DEFINE wrong == {k \in Nat : k <= a /\ k <= b /\ f[k] # g[k]}
<1>1. ASSUME NEW m \in wrong, \A k \in wrong : m <= k
      PROVE  FALSE
  <2>1. m \in Nat /\ m \in 0..a /\ m \in 0..b /\ f[m] # g[m]
    OBVIOUS
  <2>2. f[m] = NestedBelow(f, m, filter) /\ g[m] = NestedBelow(g, m, filter)
    BY <2>1, Zenon DEF Nesting
  <2>3. CASE m = 0
    BY <2>1, <2>2, <2>3, Zenon DEF NestedBelow
  <2>4. CASE m # 0
    <3>1. m - 1 \in Nat /\ m - 1 <= a /\ m - 1 <= b /\ ~(m <= m - 1)
      <4> HIDE DEF wrong
      <4> QED
        BY <2>1, <2>4
    <3>2. ~(m - 1 \in wrong)
      BY <3>1, <1>1, Zenon
    <3>3. f[m - 1] = g[m - 1]
      BY <3>1, <3>2, Zenon
    <3> HIDE DEF wrong
    <3> QED
      BY <2>1, <2>2, <2>4, <3>3, Zenon DEF NestedBelow
  <2> QED
    BY <2>1, <2>3, <2>4
<1>2. wrong = {}
  <2>1. wrong \in SUBSET Nat
    OBVIOUS
  <2> HIDE DEF wrong
  <2> QED
    BY <2>1, <1>1, Smallest
<1> QED
  BY <1>2, Zenon

\* The subqueries of a filter, and inside those n deep the ones n + 1 deep
LEMMA NestedDefined ==
    ASSUME NEW filter
    PROVE  /\ Nested(filter)[0] = Subqueries(filter)
           /\ \A n \in Nat : Nested(filter)[n + 1] = UNION {Subqueries(s.filter) : s \in Nested(filter)[n]}
<1> DEFINE F(n) == CHOOSE f : Nesting(f, n, filter)
           g == [n \in Nat |-> F(n)[n]]
           N == Nested(filter)
<1>1. ASSUME NEW n \in Nat
      PROVE  Nesting(F(n), n, filter)
  BY NestedUpto, Zenon
<1> HIDE DEF F
<1>2. ASSUME NEW n \in Nat
      PROVE  g[n] = NestedBelow(g, n, filter)
  <2>1. g[n] = F(n)[n]
    BY Zenon
  <2>2. n \in 0..n
    OBVIOUS
  <2>3. F(n)[n] = NestedBelow(F(n), n, filter)
    BY <1>1, <2>2, Zenon DEF Nesting
  <2> HIDE DEF g
  <2>4. CASE n = 0
    BY <2>1, <2>3, <2>4, Zenon DEF NestedBelow
  <2>5. CASE n # 0
    <3> DEFINE p == n - 1
    <3>1. p \in Nat /\ p <= n /\ p <= p
      BY <2>5
    <3> HIDE DEF p
    <3>2. F(n)[p] = F(p)[p]
      BY <1>1, <3>1, NestedAgree
    <3>3. g[p] = F(p)[p]
      BY <3>1, Zenon DEF g
    <3> QED
      BY <2>1, <2>3, <2>5, <3>2, <3>3, Zenon DEF NestedBelow, p
  <2> QED
    BY <2>4, <2>5
<1>3. g = [n \in Nat |-> NestedBelow(g, n, filter)]
  <2>1. g = [n \in Nat |-> g[n]]
    OBVIOUS
  <2> HIDE DEF g
  <2> QED
    BY <1>2, <2>1, Zenon
<1> HIDE DEF g
<1>4. N = CHOOSE f : f = [n \in Nat |-> NestedBelow(f, n, filter)]
  BY Zenon DEF Nested
<1> HIDE DEF N
<1>5. N = [n \in Nat |-> NestedBelow(N, n, filter)]
  BY <1>3, <1>4, Zenon
<1>6. \A n \in Nat : N[n] = NestedBelow(N, n, filter)
  BY <1>5, Zenon
<1>7. N[0] = Subqueries(filter)
  <2>1. 0 \in Nat
    OBVIOUS
  <2> QED
    BY <1>6, <2>1, Zenon DEF NestedBelow
<1>8. ASSUME NEW n \in Nat
      PROVE  N[n + 1] = UNION {Subqueries(s.filter) : s \in N[n]}
  <2>1. n + 1 \in Nat /\ n + 1 # 0 /\ (n + 1) - 1 = n
    OBVIOUS
  <2>2. N[n + 1] = NestedBelow(N, n + 1, filter)
    BY <1>6, <2>1, Zenon
  <2> QED
    BY <2>1, <2>2, Zenon DEF NestedBelow
<1> QED
  BY <1>7, <1>8 DEF N

LEMMA NestedEnds ==
    ASSUME NEW filter, NEW m \in Nat, Nested(filter)[m] = {}
    PROVE  \A n \in Nat : n >= m => Nested(filter)[n] = {}
<1> DEFINE N == Nested(filter)
           S == {i \in Nat : N[m + i] = {}}
<1>1. \A n \in Nat : N[n + 1] = UNION {Subqueries(s.filter) : s \in N[n]}
  BY NestedDefined
<1> HIDE DEF N
<1>2. 0 \in S
  <2>1. m + 0 = m
    OBVIOUS
  <2> QED
    BY <2>1 DEF N
<1>3. ASSUME NEW i \in Nat, i \in S
      PROVE  i + 1 \in S
  <2>1. m + i \in Nat /\ m + (i + 1) = (m + i) + 1 /\ i + 1 \in Nat /\ N[m + i] = {}
    BY <1>3
  <2>2. N[(m + i) + 1] = UNION {Subqueries(s.filter) : s \in N[m + i]}
    BY <1>1, <2>1, Zenon
  <2>3. N[m + (i + 1)] = {}
    BY <2>1, <2>2
  <2> QED
    BY <2>1, <2>3, Zenon
<1>4. Nat \subseteq S
  <2> HIDE DEF S
  <2> QED
    BY <1>2, <1>3, Induction
<1>5. ASSUME NEW n \in Nat, n >= m
      PROVE  N[n] = {}
  <2>1. n - m \in Nat /\ m + (n - m) = n
    BY <1>5
  <2>2. n - m \in S
    BY <1>4, <2>1
  <2>3. N[m + (n - m)] = {}
    BY <2>2, Zenon
  <2> QED
    BY <2>1, <2>3, Zenon
<1> QED
  BY <1>5 DEF N

\* Answers that start from the innermost subqueries
LEMMA AnswersInsideDefined ==
    ASSUME NEW filter, NEW m \in Nat, \A n \in Nat : n >= m => Nested(filter)[n] = {}
    PROVE  \E answers :
            /\ AnswersInside(filter) = answers[0]
            /\ \A n \in Nat : answers[n] = [q \in Nested(filter)[n] |-> SelectAnswers(q, answers[n + 1])]
<1> DEFINE N == Nested(filter)
           step(f, n) == [q \in N[n] |-> SelectAnswers(q, f[n + 1])]
           S == {i \in Nat : \E f : f = [n \in Nat |-> f[n]] /\ \A n \in Nat : n + i >= m => f[n] = step(f, n)}
<1>1. 0 \in S
  <2> DEFINE f == [n \in Nat |-> [q \in {} |-> {}]]
  <2>1. f = [n \in Nat |-> f[n]] /\ \A n \in Nat : f[n] = [q \in {} |-> {}]
    OBVIOUS
  <2>2. ASSUME NEW n \in Nat, n + 0 >= m
        PROVE  f[n] = step(f, n)
    <3>1. N[n] = {}
      BY <2>2
    <3> HIDE DEF f, N
    <3>2. [q \in {} |-> {}] = [q \in {} |-> SelectAnswers(q, f[n + 1])]
      BY Zenon
    <3> QED
      BY <2>1, <3>1, <3>2, Zenon
  <2> HIDE DEF step, f
  <2>3. 0 \in Nat
    OBVIOUS
  <2> QED
    BY <2>1, <2>2, <2>3, Zenon
<1> HIDE DEF N
<1>2. ASSUME NEW i \in Nat, i \in S
      PROVE  i + 1 \in S
  <2>1. PICK f : f = [n \in Nat |-> f[n]] /\ \A n \in Nat : n + i >= m => f[n] = step(f, n)
    BY <1>2, Zenon
  <2> DEFINE g == [n \in Nat |-> IF n + (i + 1) = m THEN step(f, n) ELSE f[n]]
  <2>2. /\ g = [n \in Nat |-> g[n]]
        /\ \A n \in Nat : g[n] = IF n + (i + 1) = m THEN step(f, n) ELSE f[n]
    <3> HIDE DEF step
    <3> QED
      OBVIOUS
  <2> HIDE DEF g
  <2>3. ASSUME NEW n \in Nat, n + (i + 1) >= m
        PROVE  g[n] = step(g, n)
    <3>1. n + 1 \in Nat /\ (n + 1) + (i + 1) # m
      BY <2>3
    <3>2. g[n + 1] = f[n + 1]
      BY <2>2, <3>1, Zenon
    <3>3. step(g, n) = step(f, n)
      BY <3>2, Zenon
    <3> HIDE DEF step
    <3>4. CASE n + (i + 1) = m
      BY <2>2, <3>3, <3>4, Zenon
    <3>5. CASE n + (i + 1) # m
      <4>1. n + i >= m
        BY <2>3, <3>5
      <4> QED
        BY <2>1, <2>2, <3>3, <3>5, <4>1, Zenon
    <3> QED
      BY <3>4, <3>5
  <2>4. i + 1 \in Nat
    OBVIOUS
  <2> HIDE DEF step
  <2> QED
    BY <2>2, <2>3, <2>4, Zenon
<1>3. Nat \subseteq S
  <2> HIDE DEF S
  <2> QED
    BY <1>1, <1>2, Induction
<1>4. PICK f : f = [n \in Nat |-> f[n]] /\ \A n \in Nat : n + m >= m => f[n] = step(f, n)
  <2>1. m \in S
    BY <1>3
  <2> QED
    BY <2>1, Zenon
<1> DEFINE answers == CHOOSE g : g = [n \in Nat |-> step(g, n)]
<1>5. AnswersInside(filter) = answers[0]
  BY Zenon DEF AnswersInside, N
<1> HIDE DEF step
<1>6. f = [n \in Nat |-> step(f, n)]
  <2>1. \A n \in Nat : n + m >= m
    OBVIOUS
  <2>2. \A n \in Nat : f[n] = step(f, n)
    BY <1>4, <2>1, Zenon
  <2> QED
    BY <1>4, <2>2, Zenon
<1>7. answers = [n \in Nat |-> step(answers, n)]
  BY <1>6, Zenon
<1> HIDE DEF answers
<1>8. \A n \in Nat : answers[n] = step(answers, n)
  BY <1>7, Zenon
<1> QED
  BY <1>5, <1>8, Zenon DEF step, N

SelectedRight(db, filter, selected) ==
    /\ MeantInside(db, filter) = selected[0]
    /\ \A n \in Nat : selected[n] = [q \in Nested(filter)[n] |-> MeantRows(db, q, selected[n + 1])]

LEMMA MeantInsideDefined ==
    ASSUME NEW db, NEW filter, NEW m \in Nat, \A n \in Nat : n >= m => Nested(filter)[n] = {}
    PROVE  \E selected : SelectedRight(db, filter, selected)
<1> DEFINE N == Nested(filter)
           step(f, n) == [q \in N[n] |-> MeantRows(db, q, f[n + 1])]
           S == {i \in Nat : \E f : f = [n \in Nat |-> f[n]] /\ \A n \in Nat : n + i >= m => f[n] = step(f, n)}
<1>1. 0 \in S
  <2> DEFINE f == [n \in Nat |-> [q \in {} |-> {}]]
  <2>1. f = [n \in Nat |-> f[n]] /\ \A n \in Nat : f[n] = [q \in {} |-> {}]
    OBVIOUS
  <2>2. ASSUME NEW n \in Nat, n + 0 >= m
        PROVE  f[n] = step(f, n)
    <3>1. N[n] = {}
      BY <2>2
    <3> HIDE DEF f, N
    <3>2. [q \in {} |-> {}] = [q \in {} |-> MeantRows(db, q, f[n + 1])]
      BY Zenon
    <3> QED
      BY <2>1, <3>1, <3>2, Zenon
  <2> HIDE DEF step, f
  <2>3. 0 \in Nat
    OBVIOUS
  <2> QED
    BY <2>1, <2>2, <2>3, Zenon
<1> HIDE DEF N
<1>2. ASSUME NEW i \in Nat, i \in S
      PROVE  i + 1 \in S
  <2>1. PICK f : f = [n \in Nat |-> f[n]] /\ \A n \in Nat : n + i >= m => f[n] = step(f, n)
    BY <1>2, Zenon
  <2> DEFINE g == [n \in Nat |-> IF n + (i + 1) = m THEN step(f, n) ELSE f[n]]
  <2>2. /\ g = [n \in Nat |-> g[n]]
        /\ \A n \in Nat : g[n] = IF n + (i + 1) = m THEN step(f, n) ELSE f[n]
    <3> HIDE DEF step
    <3> QED
      OBVIOUS
  <2> HIDE DEF g
  <2>3. ASSUME NEW n \in Nat, n + (i + 1) >= m
        PROVE  g[n] = step(g, n)
    <3>1. n + 1 \in Nat /\ (n + 1) + (i + 1) # m
      BY <2>3
    <3>2. g[n + 1] = f[n + 1]
      BY <2>2, <3>1, Zenon
    <3>3. step(g, n) = step(f, n)
      BY <3>2, Zenon
    <3> HIDE DEF step
    <3>4. CASE n + (i + 1) = m
      BY <2>2, <3>3, <3>4, Zenon
    <3>5. CASE n + (i + 1) # m
      <4>1. n + i >= m
        BY <2>3, <3>5
      <4> QED
        BY <2>1, <2>2, <3>3, <3>5, <4>1, Zenon
    <3> QED
      BY <3>4, <3>5
  <2>4. i + 1 \in Nat
    OBVIOUS
  <2> HIDE DEF step
  <2> QED
    BY <2>2, <2>3, <2>4, Zenon
<1>3. Nat \subseteq S
  <2> HIDE DEF S
  <2> QED
    BY <1>1, <1>2, Induction
<1>4. PICK f : f = [n \in Nat |-> f[n]] /\ \A n \in Nat : n + m >= m => f[n] = step(f, n)
  <2>1. m \in S
    BY <1>3
  <2> QED
    BY <2>1, Zenon
<1> DEFINE selected == CHOOSE g : g = [n \in Nat |-> step(g, n)]
<1>5. MeantInside(db, filter) = selected[0]
  BY Zenon DEF MeantInside, N
<1> HIDE DEF step
<1>6. f = [n \in Nat |-> step(f, n)]
  <2>1. \A n \in Nat : n + m >= m
    OBVIOUS
  <2>2. \A n \in Nat : f[n] = step(f, n)
    BY <1>4, <2>1, Zenon
  <2> QED
    BY <1>4, <2>2, Zenon
<1>7. selected = [n \in Nat |-> step(selected, n)]
  BY <1>6, Zenon
<1> HIDE DEF selected
<1>8. \A n \in Nat : selected[n] = step(selected, n)
  BY <1>7, Zenon
<1>9. SelectedRight(db, filter, selected)
  BY <1>5, <1>8, Zenon DEF step, N, SelectedRight
<1> QED
  BY <1>9, Zenon

---------------------------------------------------------------------------------
(* SELECT * is answered with the rows it means *)

\* Every filter of a statement is one, and its subqueries end.
FiltersEnd(s) ==
    /\ IsFilter(s.filter) /\ Nested(s.filter)[MaxNesting] = {}
    /\ \A n \in 0..MaxNesting : \A q \in Nested(s.filter)[n] : IsFilter(q.filter)

LEMMA SubqueryIsPlain ==
    ASSUME NEW t, NEW filter, SensibleFilter(t, filter), NEW x \in Subqueries(filter)
    PROVE  PlainSelect(x) /\ \E d \in ColumnNames(Schemas[x.table]) : x.columns = <<Column(d)>> /\ x.columns[1][2] = d
<1>1. filter # None /\ \A c \in ConditionsOf(filter[1]) : Sensible(t, c)
  BY DEF Subqueries, SensibleFilter
<1>2. PICK c \in ConditionsOf(filter[1]) : c[1] = "InSubquery" /\ x = c[3]
  BY <1>1 DEF Subqueries
<1>3. Sensible(t, c)
  BY <1>1, <1>2
<1>4. /\ x.table \in Tables /\ x.columns = <<Column(x.columns[1][2])>>
      /\ x.columns[1][2] \in ColumnNames(Schemas[x.table])
      /\ x.joins = <<>> /\ x.group_by = <<>> /\ x.having = None
      /\ x.order_by = <<>> /\ x.limit = None /\ x.offset = None
  BY <1>2, <1>3 DEF Sensible
<1> QED
  BY <1>4, Zenon DEF PlainSelect, FromTable

\* The subqueries of a statement are answered with the rows they mean: the
\* innermost ones first, then those around them.
LEMMA SubqueriesAnswered ==
    ASSUME NEW s, FiltersEnd(s), SelectsRows(s), ValuedTables
    PROVE  \A x \in Subqueries(s.filter) : AnsweredRight(x, AnswersInside(s.filter), MeantInside(tables, s.filter))
<1> DEFINE N == Nested(s.filter)
           m == MaxNesting
<1>1. m \in Nat
  BY ScriptAssumption
<1>2. \A n \in Nat : n >= m => N[n] = {}
  BY <1>1, NestedEnds DEF FiltersEnd
<1>3. N[0] = Subqueries(s.filter) /\ \A n \in Nat : N[n + 1] = UNION {Subqueries(q.filter) : q \in N[n]}
  BY NestedDefined
<1>4. PICK answers :
        /\ AnswersInside(s.filter) = answers[0]
        /\ \A n \in Nat : answers[n] = [q \in N[n] |-> SelectAnswers(q, answers[n + 1])]
  BY <1>1, <1>2, AnswersInsideDefined, Zenon
<1>5a. PICK selected : SelectedRight(tables, s.filter, selected)
  <2>1. \E selected : SelectedRight(tables, s.filter, selected)
    <3>1. \A n \in Nat : n >= m => Nested(s.filter)[n] = {}
      BY <1>2, Zenon DEF N
    <3> HIDE DEF m
    <3> QED
      BY <1>1, <3>1, MeantInsideDefined
  <2> QED
    BY <2>1, Zenon
<1>5. /\ MeantInside(tables, s.filter) = selected[0]
      /\ \A n \in Nat : selected[n] = [q \in N[n] |-> MeantRows(tables, q, selected[n + 1])]
  BY <1>5a, Zenon DEF SelectedRight
<1>6. ASSUME NEW n \in Nat, NEW q \in N[n]
      PROVE  IsFilter(q.filter) /\ SensibleFilter(q.table, q.filter)
  <2>1. n \in 0..m
    <3> HIDE DEF N, m
    <3> QED
      BY <1>1, <1>2, <1>6
  <2> QED
    BY <2>1, <1>6, Zenon DEF FiltersEnd, SelectsRows
<1> DEFINE all(n) == \A q \in N[n] : PlainSelect(q) /\ \E d \in ColumnNames(Schemas[q.table]) :
                                                        q.columns = <<Column(d)>> /\ q.columns[1][2] = d
<1> HIDE DEF N, m
<1>7. ASSUME NEW n \in Nat
      PROVE  all(n)
  <2>1. CASE n = 0
    <3>1. SensibleFilter(s.table, s.filter)
      BY DEF SelectsRows
    <3>2. \A q \in Subqueries(s.filter) :
            PlainSelect(q) /\ \E d \in ColumnNames(Schemas[q.table]) : q.columns = <<Column(d)>> /\ q.columns[1][2] = d
      BY <3>1, SubqueryIsPlain, Zenon
    <3> QED
      BY <1>3, <2>1, <3>2, Zenon
  <2>2. CASE n # 0
    <3>1. n - 1 \in Nat /\ (n - 1) + 1 = n
      BY <2>2
    <3> SUFFICES ASSUME NEW q \in N[n]
                 PROVE  PlainSelect(q) /\ \E d \in ColumnNames(Schemas[q.table]) :
                                                q.columns = <<Column(d)>> /\ q.columns[1][2] = d
      BY Zenon
    <3>2. PICK around \in N[n - 1] : q \in Subqueries(around.filter)
      <4>1. N[n] = UNION {Subqueries(x.filter) : x \in N[n - 1]}
        BY <1>3, <3>1, Zenon
      <4> QED
        BY <4>1
    <3>3. SensibleFilter(around.table, around.filter)
      BY <1>6, <3>1, <3>2
    <3> QED
      BY <3>2, <3>3, SubqueryIsPlain, Zenon
  <2> QED
    BY <2>1, <2>2
<1> HIDE DEF all
<1> DEFINE right(n) == \A q \in N[n] : AnsweredRight(q, answers[n], selected[n])
           S == {i \in Nat : \A n \in Nat : n + i >= m => right(n)}
<1>8. 0 \in S
  <2>1. \A n \in Nat : n + 0 >= m => n >= m
    BY <1>1
  <2>2. \A n \in Nat : n + 0 >= m => right(n)
    BY <1>2, <2>1, Zenon
  <2> QED
    BY <2>2
<1>9. ASSUME NEW i \in Nat, i \in S
      PROVE  i + 1 \in S
  <2>1. ASSUME NEW n \in Nat, n + (i + 1) >= m, NEW q \in N[n]
        PROVE  AnsweredRight(q, answers[n], selected[n])
    <3>1. n + 1 \in Nat /\ (n + 1) + i >= m
      BY <1>1, <2>1
    <3>2. right(n + 1)
      BY <1>9, <3>1, Zenon
    <3>3. \A x \in Subqueries(q.filter) : x \in N[n + 1]
      <4>1. N[n + 1] = UNION {Subqueries(x.filter) : x \in N[n]}
        BY <1>3, <2>1, Zenon
      <4> QED
        BY <2>1, <4>1
    <3>4. \A x \in Subqueries(q.filter) : AnsweredRight(x, answers[n + 1], selected[n + 1])
      BY <3>2, <3>3, Zenon
    <3>5. IsFilter(q.filter) /\ SensibleFilter(q.table, q.filter)
      BY <1>6, <2>1 DEF N
    <3>6. PICK d \in ColumnNames(Schemas[q.table]) :
                PlainSelect(q) /\ q.columns = <<Column(d)>> /\ q.columns[1][2] = d
      BY <1>7, <2>1, Zenon DEF all
    <3> DEFINE P == MeantRows(tables, q, selected[n + 1])
               from == tables[q.table]
               rows == At(from, P)
               projected == ProjectedColumns(q, Schemas[q.table])
               shown == [k \in DOMAIN rows |-> [j \in DOMAIN projected |-> Cell(rows[k], projected[j])]]
    <3>7. SelectAnswers(q, answers[n + 1]) = {[columns |-> projected, rows |-> shown]}
      <4>1. PICK a, b : a = answers[n + 1] /\ b = selected[n + 1]
        OBVIOUS
      <4>2. \A x \in Subqueries(q.filter) : AnsweredRight(x, a, b)
        BY <3>4, <4>1, Zenon
      <4>3. LET chosen == At(tables[q.table], MeantRows(tables, q, b))
                cells == [k \in DOMAIN chosen |-> [j \in DOMAIN projected |-> Cell(chosen[k], projected[j])]]
            IN SelectAnswers(q, a) = PagesOf(q, [columns |-> projected, rows |-> cells]) /\ IsList(cells)
        <5>1. FromTable(q)
          BY <3>6 DEF PlainSelect
        <5> QED
          BY <3>5, <5>1, <4>2, SelectMeaning, Zenon
      <4>4. SelectAnswers(q, a) = PagesOf(q, [columns |-> projected, rows |-> shown]) /\ IsList(shown)
        BY <4>1, <4>3, Zenon
      <4>5. q.order_by = <<>> /\ q.limit = None /\ q.offset = None
        BY <3>6 DEF PlainSelect
      <4> QED
        BY <4>1, <4>4, <4>5, PlainPages, Zenon
    <3>8. projected = <<d>>
      BY <3>6, Projected, Zenon DEF PlainSelect
    <3>9. P \in SUBSET DOMAIN from
      BY Zenon DEF MeantRows
    <3>10. IsList(from) /\ \A k \in DOMAIN from : ValuedRow(q.table, from[k])
      BY <3>6 DEF PlainSelect, FromTable, ValuedTables, ValuedTable
    <3> HIDE DEF from, P, projected
    <3>11. \A k \in DOMAIN rows : Cell(rows[k], d) = rows[k][d]
      <4>1. P \in SUBSET Int /\ IsFiniteSet(P)
        BY <3>9, <3>10, Positions
      <4>2. DOMAIN rows = 1..Cardinality(P) /\ \A k \in 1..Cardinality(P) : \E j \in P : rows[k] = from[j]
        BY <4>1, AtElements, Zenon
      <4> HIDE DEF rows
      <4>3. ASSUME NEW k \in DOMAIN rows
            PROVE  Cell(rows[k], d) = rows[k][d]
        <5>1. PICK j \in P : rows[k] = from[j]
          BY <4>2, <4>3, Zenon
        <5>2. ValuedRow(q.table, rows[k])
          BY <3>9, <3>10, <5>1
        <5>3. q.table \in Tables
          BY <3>6 DEF PlainSelect, FromTable
        <5> QED
          BY <3>6, <5>2, <5>3, CellOf
      <4> QED
        BY <4>3
    <3> HIDE DEF rows
    <3>12. shown = [k \in DOMAIN rows |-> <<rows[k][d]>>]
      <4>1. \A k \in DOMAIN rows : [j \in DOMAIN <<d>> |-> Cell(rows[k], <<d>>[j])] = <<rows[k][d]>>
        <5>1. DOMAIN <<d>> = 1..1 /\ <<d>>[1] = d
          OBVIOUS
        <5> QED
          BY <3>11, <5>1
      <4>2. shown = [k \in DOMAIN rows |-> [j \in DOMAIN <<d>> |-> Cell(rows[k], <<d>>[j])]]
        BY <3>8, Zenon
      <4> QED
        BY <4>1, <4>2, Zenon
    <3> HIDE DEF shown
    <3>13. answers[n][q] = {[columns |-> <<d>>, rows |-> [k \in DOMAIN rows |-> <<rows[k][d]>>]]}
      <4>1. answers[n][q] = SelectAnswers(q, answers[n + 1])
        BY <1>4, <2>1, Zenon
      <4> QED
        BY <3>7, <3>8, <3>12, <4>1
    <3>14. selected[n][q] = P
      BY <1>5, <2>1, Zenon DEF P
    <3> QED
      BY <3>6, <3>9, <3>13, <3>14 DEF AnsweredRight, rows, from
  <2>2. \A n \in Nat : n + (i + 1) >= m => right(n)
    BY <2>1, Zenon
  <2>3. i + 1 \in Nat
    OBVIOUS
  <2> HIDE DEF right
  <2> QED
    BY <2>2, <2>3
<1>10. Nat \subseteq S
  <2> HIDE DEF S
  <2> QED
    BY <1>8, <1>9, Induction
<1>11. right(0)
  <2>1. m \in S /\ 0 + m >= m /\ 0 \in Nat
    BY <1>1, <1>10
  <2> QED
    BY <2>1, Zenon
<1> QED
  BY <1>3, <1>4, <1>5, <1>11, Zenon

\* The rows SELECT * shows are rows of the table.
LEMMA RowsOfTable ==
    ASSUME NEW s, s.table \in Tables, ValuedTables
    PROVE  /\ IsList(RowsShown(tables, s))
           /\ \A k \in DOMAIN RowsShown(tables, s) :
                \E row : ValuedRow(s.table, row) /\ RowsShown(tables, s)[k] = Shown(s.table, row)
<1> DEFINE t == s.table
           P == MeantRows(tables, s, MeantInside(tables, s.filter))
           from == tables[t]
           rows == At(from, P)
<1>1. P \in SUBSET DOMAIN from
  BY Zenon DEF MeantRows
<1>2. IsList(from) /\ \A k \in DOMAIN from : ValuedRow(t, from[k])
  BY DEF ValuedTables, ValuedTable
<1>3. RowsShown(tables, s) = [k \in DOMAIN rows |-> Shown(t, rows[k])]
  BY Zenon DEF RowsShown, Selected
<1> HIDE DEF P, from
<1>4. P \in SUBSET Int /\ IsFiniteSet(P)
  BY <1>1, <1>2, Positions
<1>5. /\ Cardinality(P) \in Nat /\ DOMAIN rows = 1..Cardinality(P)
      /\ \A k \in 1..Cardinality(P) : \E j \in P : rows[k] = from[j]
  BY <1>4, AtElements, Zenon
<1> HIDE DEF rows
<1>6. \A k \in DOMAIN rows : ValuedRow(t, rows[k])
  BY <1>1, <1>2, <1>5
<1>7. IsList(RowsShown(tables, s))
  <2> DEFINE l == RowsShown(tables, s)
  <2>1. DOMAIN l = 1..Cardinality(P) /\ l = [k \in 1..Cardinality(P) |-> l[k]]
    BY <1>3, <1>5
  <2> HIDE DEF l
  <2> QED
    BY <1>5, <2>1, Lists, Zenon DEF l
<1> QED
  BY <1>3, <1>6, <1>7

\* The answer of SELECT * before it is ordered and cut
Whole(s) == [columns |-> Heads(s.table), rows |-> RowsShown(tables, s)]

\* SELECT * answers with pages of the rows its filter means.
LEMMA AnswersMeaning ==
    ASSUME NEW s, FiltersEnd(s), SelectsRows(s), ValuedTables
    PROVE  Answers(s) = PagesOf(s, Whole(s))
<1> DEFINE t == s.table
           schema == Schemas[t]
           P == MeantRows(tables, s, MeantInside(tables, s.filter))
           from == tables[t]
           rows == At(from, P)
           projected == ProjectedColumns(s, schema)
           shown == [k \in DOMAIN rows |-> [i \in DOMAIN projected |-> Cell(rows[k], projected[i])]]
<1>1. FromTable(s) /\ IsFilter(s.filter) /\ SensibleFilter(t, s.filter)
  BY DEF SelectsRows, FromTable, FiltersEnd
<1>2. \A x \in Subqueries(s.filter) : AnsweredRight(x, AnswersInside(s.filter), MeantInside(tables, s.filter))
  BY SubqueriesAnswered
<1>3. Answers(s) = PagesOf(s, [columns |-> projected, rows |-> shown])
  BY <1>1, <1>2, SelectMeaning, Zenon DEF Answers
<1>4. projected = Heads(t)
  BY <1>1, Projected, Zenon DEF SelectsRows, Heads
<1>5. P \in SUBSET DOMAIN from
  BY Zenon DEF MeantRows
<1>6. IsList(from) /\ t \in Tables /\ \A k \in DOMAIN from : ValuedRow(t, from[k])
  BY <1>1 DEF FromTable, ValuedTables, ValuedTable
<1>7. RowsShown(tables, s) = [k \in DOMAIN rows |-> Shown(t, rows[k])]
  BY Zenon DEF RowsShown, Selected
<1> HIDE DEF P, from, projected
<1>8. \A k \in DOMAIN rows : ValuedRow(t, rows[k])
  <2>1. P \in SUBSET Int /\ IsFiniteSet(P)
    BY <1>5, <1>6, Positions
  <2>2. DOMAIN rows = 1..Cardinality(P) /\ \A k \in 1..Cardinality(P) : \E j \in P : rows[k] = from[j]
    BY <2>1, AtElements, Zenon
  <2> HIDE DEF rows
  <2> QED
    BY <1>5, <1>6, <2>2
<1> HIDE DEF rows
<1>9. \A k \in DOMAIN rows : [i \in DOMAIN projected |-> Cell(rows[k], projected[i])] = Shown(t, rows[k])
  <2> SUFFICES ASSUME NEW k \in DOMAIN rows
               PROVE  [i \in DOMAIN projected |-> Cell(rows[k], projected[i])] = Shown(t, rows[k])
    BY Zenon
  <2>1. DOMAIN projected = DOMAIN schema /\ \A i \in DOMAIN schema : projected[i] = schema[i].name
    BY <1>4 DEF Heads
  <2>2. \A i \in DOMAIN schema : Cell(rows[k], projected[i]) = rows[k][schema[i].name]
    <3>1. \A i \in DOMAIN schema : schema[i].name \in ColumnNames(schema)
      BY DEF ColumnNames
    <3> QED
      BY <1>6, <1>8, <2>1, <3>1, CellOf
  <2> QED
    BY <2>1, <2>2, Zenon DEF Shown
<1>10. shown = RowsShown(tables, s)
  BY <1>7, <1>9, Zenon
<1> QED
  BY <1>3, <1>4, <1>10 DEF Whole

\* There is always an order to show rows in.
LEMMA SomePage ==
    ASSUME NEW s, NEW a
    PROVE  PagesOf(s, a) # {}
<1> DEFINE rows == a.rows
           D == DOMAIN rows
           id == [i \in D |-> i]
<1>1. id \in Bijection(D, D)
  BY DEF Bijection, Injection, Surjection, IsInjective
<1>2. Bijection(D, D) # {}
  BY <1>1
<1>3. Ordered(s.order_by, a.columns, rows) # {}
  <2> DEFINE permuted(order) == [k \in D |-> rows[order[k]]]
  <2>1. {permuted(order) : order \in Bijection(D, D)} # {}
    BY <1>2
  <2>2. \A x : {x} # {}
    OBVIOUS
  <2> HIDE DEF permuted
  <2> QED
    BY <2>1, <2>2, Zenon DEF Ordered, OrderedBy, permuted
<1> QED
  BY <1>3 DEF PagesOf

\* A SELECT * that was asked is answered with a page of the rows it means.
AnsweredByPage(s) ==
    answer.result = "rows" /\ [columns |-> answer.columns, rows |-> answer.rows] \in PagesOf(s, Whole(s))

RightAnswers ==
    /\ asked \subseteq Script
    /\ \A s \in asked : SelectsRows(s) => AnsweredByPage(s)

LEMMA ExecutedRight ==
    ASSUME NEW s, FiltersEnd(s), SelectsRows(s), ValuedTables, Execute(s)
    PROVE  /\ UNCHANGED tables /\ answer'.result = "rows"
           /\ [columns |-> answer'.columns, rows |-> answer'.rows] \in PagesOf(s, Whole(s))
<1>1. s.kind = "Select" /\ Answers(s) = PagesOf(s, Whole(s)) /\ Answers(s) # {}
  BY AnswersMeaning, SomePage DEF SelectsRows
<1>2. CASE SelectRows(s)
  <2>1. PICK a \in Answers(s) : answer' = [result |-> "rows", columns |-> a.columns, rows |-> a.rows]
    BY <1>2 DEF SelectRows
  <2>2. a = [columns |-> a.columns, rows |-> a.rows]
    BY <1>1, <2>1 DEF PagesOf
  <2> QED
    BY <1>1, <1>2, <2>1, <2>2 DEF SelectRows
<1>3. ~Refuse(s)
  BY <1>1 DEF Refuse
<1> QED
  BY <1>1, <1>2, <1>3 DEF Execute, WriteRows, ChangeIndexes, OnlyRead

\* What is asked stands in the script.
LEMMA AskedInScript ==
    ASSUME NEW q \in Texts, NEW s \in q.meant
    PROVE  s \in Script /\ q.meant = {s}
<1>1. ASSUME NEW x \in Script, q \in {[text |-> t, meant |-> {x}] : t \in Spellings(x)}
      PROVE  s \in Script /\ q.meant = {s}
  BY <1>1
<1>2. CASE q \in {[text |-> t, meant |-> {}] : t \in Broken}
  BY <1>2
<1> QED
  BY <1>1, <1>2 DEF Texts

LEMMA ValuedStep ==
    ASSUME ValuedTables, [QueryNext]_query_vars, ReadAsWritten'
    PROVE  ValuedTables'
<1>1. CASE UNCHANGED tables
  BY <1>1 DEF ValuedTables
<1>2. CASE UNCHANGED query_vars \/ Prompt
  BY <1>1, <1>2 DEF query_vars, Prompt
<1>3. ASSUME NEW q \in Texts, Ask(q)
      PROVE  ValuedTables'
  <2>1. asked' = q.meant /\ read' = q.meant /\ read' = Understood[q]
    BY <1>3 DEF Ask, ReadAsWritten
  <2>2. CASE Reject
    BY <1>1, <2>2 DEF Reject
  <2>3. ASSUME NEW s \in q.meant, WriteRows(s)
        PROVE  ValuedTables'
    <3>1. s \in Script
      BY AskedInScript
    <3>2. LiteralsAreValues(s)
      BY <3>1, ScriptAssumption DEF LiteralsAreValues
    <3>3. ListsIn(s)
      BY <2>1, <2>3, ReadLists DEF WriteRows
    <3>4. PICK rows \in NewRows(s) : tables' = [tables EXCEPT ![s.table] = rows]
      BY <2>3 DEF WriteRows
    <3>5. s.table \in Tables /\ ValuedTable(s.table, rows)
      BY <2>3, <3>2, <3>3, <3>4, WrittenValued DEF WriteRows
    <3> QED
      BY <3>4, <3>5 DEF ValuedTables
  <2>4. ASSUME NEW s \in q.meant, Execute(s)
        PROVE  ValuedTables'
    BY <1>1, <2>3, <2>4 DEF Execute, SelectRows, ChangeIndexes, Refuse, OnlyRead
  <2> QED
    BY <1>3, <2>1, <2>2, <2>4 DEF Ask
<1> QED
  BY <1>2, <1>3 DEF QueryNext

LEMMA RightStep ==
    ASSUME ValuedTables, RightAnswers, [QueryNext]_query_vars, ReadAsWritten'
    PROVE  RightAnswers'
<1>1. CASE UNCHANGED query_vars
  <2>1. \A s : Whole(s)' = Whole(s)
    BY <1>1, Zenon DEF query_vars, Whole, Heads, RowsShown
  <2> QED
    BY <1>1, <2>1 DEF query_vars, RightAnswers, AnsweredByPage
<1>2. CASE Prompt
  BY <1>2 DEF Prompt, RightAnswers
<1>3. ASSUME NEW q \in Texts, Ask(q)
      PROVE  RightAnswers'
  <2> SUFFICES ASSUME NEW s \in q.meant, SelectsRows(s)
               PROVE  AnsweredByPage(s)'
    <3>1. asked' = q.meant /\ \A x \in q.meant : x \in Script
      BY <1>3, AskedInScript DEF Ask
    <3> QED
      BY <3>1 DEF RightAnswers
  <2>1. asked' = {s} /\ read' = {s} /\ s \in Script
    BY <1>3, AskedInScript DEF Ask, ReadAsWritten
  <2>2. FiltersEnd(s)
    <3>1. s.kind \in {"Select", "Update", "Delete"}
      BY DEF SelectsRows
    <3> QED
      BY <2>1, <3>1, ScriptAssumption DEF FiltersEnd
  <2>3. Execute(s)
    BY <1>3, <2>1 DEF Ask, Reject
  <2>4. /\ tables' = tables /\ answer'.result = "rows"
        /\ [columns |-> answer'.columns, rows |-> answer'.rows] \in PagesOf(s, Whole(s))
    BY <2>2, <2>3, ExecutedRight
  <2>5. Whole(s)' = Whole(s)
    BY <2>4, Zenon DEF Whole, Heads, RowsShown
  <2> QED
    BY <2>4, <2>5 DEF AnsweredByPage
<1> QED
  BY <1>1, <1>2, <1>3 DEF QueryNext

\* Where the statements are read as they are written, every SELECT * is
\* answered with a page of the rows it means.
LEMMA RightInvariant == QuerySpec /\ []ReadAsWritten => [](ValuedTables /\ RightAnswers)
<1>1. QueryInit => ValuedTables /\ RightAnswers
  <2>1. IsList(<<>>) /\ DOMAIN <<>> = {}
    BY DEF IsList
  <2> QED
    BY <2>1 DEF QueryInit, ValuedTables, ValuedTable, RightAnswers
<1>2. ValuedTables /\ RightAnswers /\ [QueryNext]_query_vars /\ ReadAsWritten' => (ValuedTables /\ RightAnswers)'
  BY ValuedStep, RightStep
<1> QED
  BY <1>1, <1>2, PTL DEF QuerySpec

\* Without order and pages the answer is those rows, in the order of the table.
LEMMA PlainAnswered ==
    ASSUME ValuedTables, RightAnswers, NEW s \in AskedPlain
    PROVE  AnswersExactly(s)
<1>1. /\ s \in asked /\ SelectsRows(s) /\ s.table \in Tables
      /\ s.order_by = <<>> /\ s.limit = None /\ s.offset = None
  BY DEF AskedPlain, SelectsRows
<1>2. answer.result = "rows" /\ [columns |-> answer.columns, rows |-> answer.rows] \in PagesOf(s, Whole(s))
  BY <1>1 DEF RightAnswers, AnsweredByPage
<1>3. PagesOf(s, Whole(s)) = {Whole(s)}
  <2>1. IsList(RowsShown(tables, s))
    BY <1>1, RowsOfTable, Zenon
  <2> QED
    BY <1>1, <2>1, PlainPages, Zenon DEF Whole
<1>4. Whole(s).columns = Heads(s.table) /\ Whole(s).rows = RowsShown(tables, s)
  BY Zenon DEF Whole
<1>5. [columns |-> answer.columns, rows |-> answer.rows] = Whole(s)
  BY <1>2, <1>3
<1>6. answer.columns = Heads(s.table) /\ answer.rows = RowsShown(tables, s)
  BY <1>4, <1>5
<1> QED
  BY <1>2, <1>6 DEF AnswersExactly

\* As long as statements are read as what they say (ReadAsWritten, which TLC
\* checks), an index never changes what a WHERE yields: whatever tables,
\* literals and filters there are (query_rows_with_index, engine.rs:1607).
THEOREM IndexIsInvisible == QuerySpec /\ []ReadAsWritten => []IndexInvisible
<1>1. ValuedTables /\ RightAnswers => IndexInvisible
  BY PlainAnswered DEF IndexInvisible
<1> QED
  BY <1>1, RightInvariant, PTL

\* Under the same premise, LIKE in a WHERE keeps the rows whose text can be cut
\* along the wildcards of the pattern (like_matches, engine.rs:1580).
THEOREM LikeIsWildcards == QuerySpec /\ []ReadAsWritten => []LikeMeansWildcards
<1>1. ValuedTables /\ RightAnswers => LikeMeansWildcards
  BY PlainAnswered DEF LikeMeansWildcards
<1> QED
  BY <1>1, RightInvariant, PTL

\* Under the same premise, IN and NOT IN a subquery keep the rows with and
\* without a partner, subqueries in subqueries included, to any depth
\* (resolve_subqueries, engine.rs:657).
THEOREM SubqueryFindsPartners == QuerySpec /\ []ReadAsWritten => []SubqueryIsSemiJoin
<1>1. ValuedTables /\ RightAnswers => SubqueryIsSemiJoin
  BY PlainAnswered DEF SubqueryIsSemiJoin
<1> QED
  BY <1>1, RightInvariant, PTL

---------------------------------------------------------------------------------
(* Weak orders: what ORDER BY needs of a comparison *)

WeaklyOrders(R, S) ==
    /\ \A x, y \in S : <<x, y>> \in R => <<y, x>> \notin R
    /\ \A x, y, z \in S : <<x, y>> \in R => <<x, z>> \in R \/ <<z, y>> \in R

\* The first of some relations that tells two elements apart
FirstApart(R, n, x, y) ==
    \E k \in 1..n : <<x, y>> \in R[k] /\ \A i \in 1..(k - 1) : <<x, y>> \notin R[i] /\ <<y, x>> \notin R[i]

LEMMA FirstApartOrders ==
    ASSUME NEW n \in Nat, NEW S, NEW R, \A k \in 1..n : WeaklyOrders(R[k], S)
    PROVE  /\ \A x, y \in S : FirstApart(R, n, x, y) => ~FirstApart(R, n, y, x)
           /\ \A x, y, z \in S : FirstApart(R, n, x, y) => FirstApart(R, n, x, z) \/ FirstApart(R, n, z, y)
<1>1. ASSUME NEW x \in S, NEW y \in S, FirstApart(R, n, x, y), FirstApart(R, n, y, x)
      PROVE  FALSE
  <2>1. PICK k \in 1..n : <<x, y>> \in R[k] /\ \A i \in 1..(k - 1) : <<x, y>> \notin R[i] /\ <<y, x>> \notin R[i]
    BY <1>1 DEF FirstApart
  <2>2. PICK j \in 1..n : <<y, x>> \in R[j] /\ \A i \in 1..(j - 1) : <<y, x>> \notin R[i] /\ <<x, y>> \notin R[i]
    BY <1>1 DEF FirstApart
  <2>3. ~(k < j) /\ ~(j < k)
    BY <2>1, <2>2
  <2>4. k = j
    BY <2>3
  <2> QED
    BY <2>1, <2>2, <2>4 DEF WeaklyOrders
<1>2. ASSUME NEW x \in S, NEW y \in S, NEW z \in S, FirstApart(R, n, x, y)
      PROVE  FirstApart(R, n, x, z) \/ FirstApart(R, n, z, y)
  <2>1. PICK k \in 1..n : <<x, y>> \in R[k] /\ \A i \in 1..(k - 1) : <<x, y>> \notin R[i] /\ <<y, x>> \notin R[i]
    BY <1>2 DEF FirstApart
  <2> DEFINE apart(i) == <<x, z>> \in R[i] \/ <<z, x>> \in R[i] \/ <<z, y>> \in R[i] \/ <<y, z>> \in R[i]
             T == {i \in Nat : i >= 1 /\ apart(i)}
  <2>2. k \in T
    BY <2>1 DEF WeaklyOrders
  <2>3. PICK m \in T : \A i \in T : m <= i
    <3>1. T \in SUBSET Nat /\ T # {}
      BY <2>2
    <3> HIDE DEF T
    <3> QED
      BY <3>1, Smallest
  <2>4. m \in 1..n /\ m <= k /\ \A i \in 1..(m - 1) : ~apart(i)
    BY <2>2, <2>3
  <2>5. apart(m) /\ WeaklyOrders(R[m], S)
    BY <2>3, <2>4
  <2> HIDE DEF T, apart
  <2>6. m < k => <<x, y>> \notin R[m] /\ <<y, x>> \notin R[m]
    <3>1. m < k => m \in 1..(k - 1)
      BY <2>4
    <3> QED
      BY <2>1, <3>1, Zenon
  <2>7. <<x, z>> \in R[m] \/ <<z, y>> \in R[m]
    <3>1. CASE m = k
      BY <2>1, <2>5, <3>1 DEF WeaklyOrders
    <3>2. CASE m # k
      <4>1. m < k
        BY <2>4, <3>2
      <4>2. <<x, y>> \notin R[m] /\ <<y, x>> \notin R[m]
        BY <2>6, <4>1, Zenon
      <4> QED
        BY <2>5, <4>2 DEF WeaklyOrders, apart
    <3> QED
      BY <3>1, <3>2
  <2>8. \A i \in 1..(m - 1) : /\ <<x, z>> \notin R[i] /\ <<z, x>> \notin R[i]
                              /\ <<z, y>> \notin R[i] /\ <<y, z>> \notin R[i]
    BY <2>4, Zenon DEF apart
  <2> QED
    BY <2>4, <2>7, <2>8, Zenon DEF FirstApart
<1> QED
  BY <1>1, <1>2

\* Texts are ordered like the words of a dictionary.
BeforeAt(a, b, k) ==
    /\ k <= Len(b) /\ k <= Len(a) + 1
    /\ \A i \in 1..(k - 1) : a[i] = b[i]
    /\ k = Len(a) + 1 \/ a[k] < b[k]

LEMMA TextBeforeAt ==
    ASSUME NEW a \in Seq(Nat), NEW b \in Seq(Nat)
    PROVE  TextBefore(a, b) <=> \E k \in Nat : k >= 1 /\ BeforeAt(a, b, k)
<1>1. ASSUME NEW k \in 1..Len(b), Len(a) >= k - 1
      PROVE  SubSeq(a, 1, k - 1) = SubSeq(b, 1, k - 1) <=> \A i \in 1..(k - 1) : a[i] = b[i]
  <2> DEFINE u == SubSeq(a, 1, k - 1)
             v == SubSeq(b, 1, k - 1)
  <2>1. /\ u = [i \in 1..(k - 1) |-> u[i]] /\ \A i \in 1..(k - 1) : u[i] = a[i]
        /\ v = [i \in 1..(k - 1) |-> v[i]] /\ \A i \in 1..(k - 1) : v[i] = b[i]
    BY <1>1
  <2> HIDE DEF u, v
  <2>2. u = v <=> \A i \in 1..(k - 1) : u[i] = v[i]
    BY <2>1
  <2> QED
    BY <2>1, <2>2 DEF u, v
<1>2. ASSUME NEW k \in 1..Len(b)
      PROVE  (/\ Len(a) >= k - 1 /\ SubSeq(a, 1, k - 1) = SubSeq(b, 1, k - 1)
              /\ Len(a) = k - 1 \/ a[k] < b[k])
             <=> BeforeAt(a, b, k)
  BY <1>1 DEF BeforeAt
<1>3. \A k \in Nat : k >= 1 /\ BeforeAt(a, b, k) => k \in 1..Len(b)
  BY DEF BeforeAt
<1>4. \A k \in 1..Len(b) : k \in Nat /\ k >= 1
  OBVIOUS
<1> QED
  BY <1>2, <1>3, <1>4, Zenon DEF TextBefore

LEMMA TextsOrdered ==
    /\ \A a \in Seq(Nat) : ~TextBefore(a, a)
    /\ \A a, b, c \in Seq(Nat) : TextBefore(a, b) /\ TextBefore(b, c) => TextBefore(a, c)
    /\ \A a, b \in Seq(Nat) : a # b => TextBefore(a, b) \/ TextBefore(b, a)
<1>1. ASSUME NEW a \in Seq(Nat)
      PROVE  ~TextBefore(a, a)
  <2>1. ASSUME NEW k \in Nat, k >= 1, BeforeAt(a, a, k) PROVE FALSE
    <3>1. k \in 1..Len(a) /\ a[k] \in Nat
      BY <2>1 DEF BeforeAt
    <3> QED
      BY <2>1, <3>1 DEF BeforeAt
  <2> QED
    BY <2>1, TextBeforeAt
<1>2. ASSUME NEW a \in Seq(Nat), NEW b \in Seq(Nat), NEW c \in Seq(Nat), TextBefore(a, b), TextBefore(b, c)
      PROVE  TextBefore(a, c)
  <2>1. PICK j \in Nat : j >= 1 /\ BeforeAt(a, b, j)
    BY <1>2, TextBeforeAt
  <2>2. PICK k \in Nat : k >= 1 /\ BeforeAt(b, c, k)
    BY <1>2, TextBeforeAt
  <2>3. \E m \in Nat : m >= 1 /\ BeforeAt(a, c, m)
    <3>0. Len(a) \in Nat /\ Len(b) \in Nat /\ Len(c) \in Nat
      OBVIOUS
    <3>1. CASE j < k
      <4>1. j \in 1..(k - 1) /\ b[j] = c[j] /\ j <= Len(c)
        BY <2>1, <2>2, <3>0, <3>1 DEF BeforeAt
      <4>2. \A i \in 1..(j - 1) : a[i] = b[i] /\ i \in 1..(k - 1) /\ b[i] = c[i]
        BY <2>1, <2>2, <3>1 DEF BeforeAt
      <4>3. BeforeAt(a, c, j)
        BY <2>1, <4>1, <4>2 DEF BeforeAt
      <4> QED
        BY <2>1, <4>3
    <3>2. CASE j = k
      <4>1. k # Len(b) + 1 /\ b[k] < c[k]
        BY <2>1, <2>2, <3>0, <3>2 DEF BeforeAt
      <4>2. k \in 1..Len(b) /\ k \in 1..Len(c) /\ b[k] \in Nat /\ c[k] \in Nat
        BY <2>1, <2>2, <3>0, <3>2 DEF BeforeAt
      <4>3. k = Len(a) + 1 \/ (k \in 1..Len(a) /\ a[k] \in Nat /\ a[k] < b[k])
        BY <2>1, <3>0, <3>2 DEF BeforeAt
      <4>4. k = Len(a) + 1 \/ a[k] < c[k]
        BY <4>1, <4>2, <4>3
      <4>5. \A i \in 1..(k - 1) : a[i] = b[i] /\ b[i] = c[i]
        BY <2>1, <2>2, <3>2 DEF BeforeAt
      <4>6. BeforeAt(a, c, k)
        BY <2>1, <2>2, <3>2, <4>4, <4>5 DEF BeforeAt
      <4> QED
        BY <2>2, <4>6
    <3>3. CASE k < j
      <4>1. k \in 1..(j - 1) /\ a[k] = b[k] /\ k <= Len(a) /\ k # Len(b) + 1
        BY <2>1, <2>2, <3>0, <3>3 DEF BeforeAt
      <4>2. \A i \in 1..(k - 1) : b[i] = c[i] /\ i \in 1..(j - 1) /\ a[i] = b[i]
        BY <2>1, <2>2, <3>3 DEF BeforeAt
      <4>3. BeforeAt(a, c, k)
        BY <2>2, <3>0, <4>1, <4>2 DEF BeforeAt
      <4> QED
        BY <2>2, <4>3
    <3> QED
      BY <3>1, <3>2, <3>3
  <2> QED
    BY <2>3, TextBeforeAt
<1>3. ASSUME NEW a \in Seq(Nat), NEW b \in Seq(Nat), a # b
      PROVE  TextBefore(a, b) \/ TextBefore(b, a)
  <2> DEFINE T == {k \in Nat : k >= 1 /\ (k > Len(a) \/ k > Len(b) \/ a[k] # b[k])}
  <2>0. Len(a) \in Nat /\ Len(b) \in Nat
    OBVIOUS
  <2>1. PICK m \in T : \A i \in T : m <= i
    <3>1. Len(a) + 1 \in T
      BY <2>0
    <3>2. T \in SUBSET Nat /\ T # {}
      BY <3>1
    <3> HIDE DEF T
    <3> QED
      BY <3>2, Smallest
  <2>2. m \in Nat /\ m >= 1 /\ \A i \in 1..(m - 1) : i <= Len(a) /\ i <= Len(b) /\ a[i] = b[i]
    <3>1. \A i \in 1..(m - 1) : i \notin T
      BY <2>1
    <3> QED
      BY <2>1, <3>1
  <2>3. m <= Len(a) + 1 /\ m <= Len(b) + 1
    <3>1. m = 1 \/ m - 1 \in 1..(m - 1)
      BY <2>2
    <3>2. m = 1 \/ (m - 1 <= Len(a) /\ m - 1 <= Len(b))
      BY <2>2, <3>1
    <3> QED
      BY <2>0, <2>2, <3>2
  <2>4. m <= Len(a) \/ m <= Len(b)
    <3> SUFFICES ASSUME m > Len(a), m > Len(b) PROVE FALSE
      BY <2>0, <2>2
    <3>1. Len(a) = m - 1 /\ Len(b) = m - 1
      BY <2>0, <2>2, <2>3
    <3> QED
      BY <1>3, <2>2, <3>1
  <2>5. CASE m <= Len(a) /\ m <= Len(b)
    <3>1. a[m] \in Nat /\ b[m] \in Nat /\ a[m] # b[m]
      BY <2>0, <2>1, <2>2, <2>5
    <3>2. BeforeAt(a, b, m) \/ BeforeAt(b, a, m)
      BY <2>0, <2>2, <2>5, <3>1 DEF BeforeAt
    <3> QED
      BY <2>2, <3>2, TextBeforeAt
  <2>6. CASE m > Len(a)
    <3>1. BeforeAt(a, b, m)
      BY <2>0, <2>2, <2>3, <2>4, <2>6 DEF BeforeAt
    <3> QED
      BY <2>2, <3>1, TextBeforeAt
  <2>7. CASE m > Len(b)
    <3>1. BeforeAt(b, a, m)
      BY <2>0, <2>2, <2>3, <2>4, <2>7 DEF BeforeAt
    <3> QED
      BY <2>2, <3>1, TextBeforeAt
  <2> QED
    BY <2>0, <2>2, <2>5, <2>6, <2>7
<1> QED
  BY <1>1, <1>2, <1>3

\* Values of one type that are not NULL are in order.
LEMMA ValuesOrdered ==
    ASSUME NEW type \in Types
    PROVE  LET typed == {v \in Vals : v[1] = type}
           IN /\ \A v \in typed : ~Less(v, v)
              /\ \A u, v, w \in typed : Less(u, v) /\ Less(v, w) => Less(u, w)
              /\ \A u, v \in typed : u # v => Less(u, v) \/ Less(v, u)
<1>1. CASE type = "Int"
  <2>1. \A v \in Vals : v[1] = "Int" => v = <<"Int", v[2]>> /\ v[2] \in Int
    BY DEF Vals, Null, Int64
  <2> QED
    BY <1>1, <2>1 DEF Less
<1>2. CASE type = "Text"
  <2>1. \A v \in Vals : v[1] = "Text" => v = <<"Text", v[2]>> /\ v[2] \in Seq(Nat)
    BY DEF Vals, Null
  <2>2. \A u, v \in Vals : u[1] = "Text" /\ v[1] = "Text" => (Less(u, v) <=> TextBefore(u[2], v[2]))
    BY DEF Less
  <2> QED
    <3> DEFINE typed == {v \in Vals : v[1] = type}
    <3>1. \A v \in typed : v \in Vals /\ v[1] = "Text" /\ v[2] \in Seq(Nat) /\ v = <<"Text", v[2]>>
      BY <1>2, <2>1
    <3>2. \A u, v \in typed : Less(u, v) <=> TextBefore(u[2], v[2])
      BY <3>1, <2>2, Zenon
    <3>3. \A u, v \in typed : u # v => u[2] # v[2]
      BY <3>1
    <3> HIDE DEF typed
    <3>4. \A v \in typed : ~Less(v, v)
      BY <3>1, <3>2, TextsOrdered, Zenon
    <3>5. ASSUME NEW u \in typed, NEW v \in typed, NEW w \in typed, Less(u, v), Less(v, w)
          PROVE  Less(u, w)
      <4>1. TextBefore(u[2], v[2]) /\ TextBefore(v[2], w[2])
        BY <3>2, <3>5
      <4>2. TextBefore(u[2], w[2])
        BY <3>1, <4>1, TextsOrdered
      <4> QED
        BY <3>2, <4>2
    <3>6. ASSUME NEW u \in typed, NEW v \in typed, u # v
          PROVE  Less(u, v) \/ Less(v, u)
      <4>1. TextBefore(u[2], v[2]) \/ TextBefore(v[2], u[2])
        BY <3>1, <3>3, <3>6, TextsOrdered
      <4> QED
        BY <3>2, <4>1
    <3> QED
      BY <3>4, <3>5, <3>6 DEF typed
<1>3. CASE type = "Bool"
  <2>1. \A v \in Vals : v[1] = "Bool" => v = <<"Bool", v[2]>> /\ v[2] \in BOOLEAN
    BY DEF Vals, Null
  <2> QED
    BY <1>3, <2>1 DEF Less
<1> QED
  BY <1>1, <1>2, <1>3 DEF Types
---------------------------------------------------------------------------------
(* ORDER BY and pages *)

\* A relation on numbers, made strict: what it does not tell apart keeps its order.
Stably(W, D) == {p \in D \X D : p \in W \/ (<<p[2], p[1]>> \notin W /\ p[1] < p[2])}

\* A relation that orders, up to what it does not tell apart
OrdersUpToTies(W, S) ==
    /\ \A x \in S : <<x, x>> \notin W
    /\ \A x, y, z \in S : <<x, y>> \in W /\ <<y, z>> \in W => <<x, z>> \in W
    /\ \A x, y, z \in S :
            /\ <<x, y>> \notin W /\ <<y, x>> \notin W
            /\ <<y, z>> \notin W /\ <<z, y>> \notin W
            => <<x, z>> \notin W /\ <<z, x>> \notin W

LEMMA StablyOrders ==
    ASSUME NEW D \in SUBSET Int, NEW W, OrdersUpToTies(W, D)
    PROVE  Orders(Stably(W, D), D)
<1> DEFINE R == Stably(W, D)
<1>1. \A x, y \in D : <<x, y>> \in R <=> <<x, y>> \in W \/ (<<y, x>> \notin W /\ x < y)
  BY DEF Stably
<1> HIDE DEF R
<1>2. ASSUME NEW x \in D, NEW y \in D, NEW z \in D, <<x, y>> \in R, <<y, z>> \in R
      PROVE  <<x, z>> \in R
  <2>1. ASSUME <<x, y>> \in W, <<y, z>> \notin W
        PROVE  <<x, z>> \in W
    <3>1. <<z, y>> \notin W
      BY <1>1, <1>2, <2>1
    <3>2. <<z, x>> \notin W
      BY <2>1, <3>1 DEF OrdersUpToTies
    <3>3. <<y, x>> \notin W
      BY <2>1 DEF OrdersUpToTies
    <3> QED
      BY <2>1, <3>1, <3>2, <3>3 DEF OrdersUpToTies
  <2>2. ASSUME <<x, y>> \notin W, <<y, z>> \in W
        PROVE  <<x, z>> \in W
    <3>1. <<y, x>> \notin W
      BY <1>1, <1>2, <2>2
    <3>2. <<z, x>> \notin W
      BY <2>2, <3>1 DEF OrdersUpToTies
    <3>3. <<z, y>> \notin W
      BY <2>2 DEF OrdersUpToTies
    <3> QED
      BY <2>2, <3>1, <3>2, <3>3 DEF OrdersUpToTies
  <2>3. ASSUME <<x, y>> \notin W, <<y, z>> \notin W
        PROVE  <<z, x>> \notin W /\ x < z
    <3>1. <<y, x>> \notin W /\ <<z, y>> \notin W /\ x < y /\ y < z
      BY <1>1, <1>2, <2>3
    <3>2. x < z
      BY <3>1
    <3> QED
      BY <2>3, <3>1, <3>2 DEF OrdersUpToTies
  <2>4. <<x, y>> \in W /\ <<y, z>> \in W => <<x, z>> \in W
    BY DEF OrdersUpToTies
  <2> QED
    BY <1>1, <2>1, <2>2, <2>3, <2>4
<1>3. \A x \in D : <<x, x>> \notin R
  <2>1. \A x \in D : ~(x < x)
    OBVIOUS
  <2> QED
    BY <1>1, <2>1, Zenon DEF OrdersUpToTies
<1>4. \A x, y \in D : x # y => <<x, y>> \in R \/ <<y, x>> \in R
  BY <1>1
<1> QED
  BY <1>2, <1>3, <1>4 DEF Orders, R

\* The elements of an ordered set, each put where its rank says
LEMMA RanksPermute ==
    ASSUME NEW n \in Nat, NEW R, Orders(R, 1..n), NEW e, e = [k \in 1..n |-> e[k]],
           \A k \in 1..n : e[k] \in 1..n /\ Cardinality(Below(R, 1..n, e[k])) = k - 1
    PROVE  /\ e \in Bijection(1..n, 1..n)
           /\ \A i, j \in 1..n : i < j => <<e[i], e[j]>> \in R
<1>1. PICK D : D = 1..n
  OBVIOUS
<1>2. IsFiniteSet(D) /\ Cardinality(D) = n /\ Orders(R, D)
  BY <1>1, FS_Interval
<1>3. PICK rank : rank = [i \in D |-> Cardinality(Below(R, D, i))]
  OBVIOUS
<1>4. /\ \A i \in D : rank[i] \in 0..(n - 1)
      /\ \A i, j \in D : <<i, j>> \in R => rank[i] < rank[j]
  <2>1. \A i \in D : Cardinality(Below(R, D, i)) \in 0..(Cardinality(D) - 1)
    BY <1>2, RankInRange
  <2>2. \A i, j \in D : <<i, j>> \in R => Cardinality(Below(R, D, i)) < Cardinality(Below(R, D, j))
    BY <1>2, RankGrows
  <2> QED
    BY <1>2, <1>3, <2>1, <2>2
<1>5. \A k \in D : e[k] \in D /\ rank[e[k]] = k - 1
  BY <1>1, <1>3
<1>6. \A i, j \in D : i # j => <<i, j>> \in R \/ <<j, i>> \in R
  BY <1>2 DEF Orders
<1>7. \A i \in D : \E k \in D : e[k] = i
  <2> SUFFICES ASSUME NEW i \in D PROVE \E k \in D : e[k] = i
    BY Zenon
  <2>1. PICK k \in D : k - 1 = rank[i]
    <3>1. rank[i] + 1 \in D /\ (rank[i] + 1) - 1 = rank[i]
      BY <1>1, <1>4
    <3> QED
      BY <3>1
  <2>2. rank[e[k]] = rank[i] /\ e[k] \in D /\ rank[i] \in Int
    BY <1>4, <1>5, <2>1
  <2>3. ~(rank[i] < rank[i])
    BY <2>2
  <2>4. e[k] = i
    BY <1>4, <1>6, <2>2, <2>3
  <2> QED
    BY <2>4
<1>8. \A i, j \in D : e[i] = e[j] => i = j
  <2> SUFFICES ASSUME NEW i \in D, NEW j \in D, e[i] = e[j] PROVE i = j
    BY Zenon
  <2>1. i - 1 = j - 1 /\ i \in Int /\ j \in Int
    BY <1>1, <1>5
  <2> QED
    BY <2>1
<1>9. e \in Bijection(D, D)
  <2>1. e \in [D -> D]
    BY <1>1, <1>5
  <2>2. e \in Injection(D, D)
    BY <1>8, <2>1 DEF Injection, IsInjective
  <2>3. e \in Surjection(D, D)
    BY <1>7, <2>1 DEF Surjection
  <2> QED
    BY <2>2, <2>3 DEF Bijection
<1>10. ASSUME NEW i \in D, NEW j \in D, i < j
      PROVE  <<e[i], e[j]>> \in R
  <2>1. e[i] \in D /\ e[j] \in D /\ rank[e[i]] = i - 1 /\ rank[e[j]] = j - 1 /\ i \in Int /\ j \in Int
    BY <1>1, <1>5
  <2>2. e[i] # e[j] /\ ~(rank[e[j]] < rank[e[i]])
    BY <1>10, <2>1
  <2> QED
    BY <1>4, <1>6, <2>1, <2>2
<1> QED
  BY <1>1, <1>9, <1>10

\* Which rows come before which
Before(order_by, columns, rows) ==
    {p \in (DOMAIN rows) \X (DOMAIN rows) : Precedes(order_by, columns, rows[p[1]], rows[p[2]])}

LEMMA BeforeOf ==
    ASSUME NEW order_by, NEW columns, NEW rows, NEW i \in DOMAIN rows, NEW j \in DOMAIN rows
    PROVE  <<i, j>> \in Before(order_by, columns, rows) <=> Precedes(order_by, columns, rows[i], rows[j])
  BY DEF Before

\* Rows in order are a permutation of the rows; where their order is one, they
\* are sorted, and ties stay as they were.
LEMMA OrderedPermutes ==
    ASSUME NEW order_by, order_by # <<>>, NEW columns, NEW rows, IsList(rows),
           \A a \in Range(rows) : ~Precedes(order_by, columns, a, a),
           NEW sorted \in Ordered(order_by, columns, rows)
    PROVE  \E order \in Bijection(DOMAIN rows, DOMAIN rows) :
            /\ sorted = [k \in DOMAIN rows |-> rows[order[k]]]
            /\ OrdersUpToTies(Before(order_by, columns, rows), DOMAIN rows)
               => \A i, j \in DOMAIN rows : i < j =>
                    \/ Precedes(order_by, columns, rows[order[i]], rows[order[j]])
                    \/ ~Precedes(order_by, columns, rows[order[j]], rows[order[i]]) /\ order[i] < order[j]
<1> DEFINE D == DOMAIN rows
           ahead == {p \in Range(rows) \X Range(rows) : Precedes(order_by, columns, p[1], p[2])}
           before(a, b) == <<a, b>> \in ahead
           same(a, b) == ~before(a, b) /\ ~before(b, a)
           consistent == \A a, b, c \in Range(rows) :
                            /\ before(a, b) /\ before(b, c) => before(a, c)
                            /\ same(a, b) /\ same(b, c) => same(a, c)
           stable(i, j) == before(rows[i], rows[j]) \/ (same(rows[i], rows[j]) /\ i < j)
           permuted(order) == [k \in D |-> rows[order[k]]]
           best(k) == CHOOSE i \in D : Cardinality({j \in D : stable(j, i)}) = k - 1
           W == Before(order_by, columns, rows)
           R == Stably(W, D)
<1>1. PICK n \in Nat : D = 1..n
  BY Zenon, Positions
<1>2. Ordered(order_by, columns, rows) =
        IF consistent THEN {permuted([k \in D |-> best(k)])} ELSE {permuted(order) : order \in Bijection(D, D)}
  BY Zenon DEF Ordered, OrderedBy, ahead
<1>3. \A i \in D : rows[i] \in Range(rows)
  BY DEF Range
<1>4. \A i, j \in D : before(rows[i], rows[j]) <=> Precedes(order_by, columns, rows[i], rows[j])
  BY <1>3
<1> HIDE DEF ahead
<1>5. \A i, j \in D : <<i, j>> \in W <=> before(rows[i], rows[j])
  BY <1>4, BeforeOf, Zenon
<1>6. \A i, j \in D : <<i, j>> \in R <=> stable(i, j)
  <2>1. \A i, j \in D : <<i, j>> \in R <=> <<i, j>> \in W \/ (<<j, i>> \notin W /\ i < j)
    <3> HIDE DEF W, D
    <3> QED
      BY DEF Stably
  <2>2. SUFFICES ASSUME NEW i \in D, NEW j \in D PROVE <<i, j>> \in R <=> stable(i, j)
    BY Zenon
  <2>3. /\ <<i, j>> \in W <=> before(rows[i], rows[j])
        /\ <<j, i>> \in W <=> before(rows[j], rows[i])
    BY <1>5, Zenon
  <2>4. (<<j, i>> \notin W /\ i < j)
            <=> (<<i, j>> \notin W /\ <<j, i>> \notin W /\ i < j) \/ (<<i, j>> \in W /\ <<j, i>> \notin W /\ i < j)
    OBVIOUS
  <2>5. <<i, j>> \in R <=> <<i, j>> \in W \/ (<<j, i>> \notin W /\ i < j)
    BY <2>1, Zenon
  <2> HIDE DEF R, W, before, D
  <2> QED
    BY <2>3, <2>4, <2>5, Zenon
<1>7. \A a \in Range(rows) : \E i \in D : rows[i] = a
  BY DEF Range
<1>8. consistent <=> OrdersUpToTies(W, D)
  <2>1. \A i \in D : <<i, i>> \notin W
    BY <1>5, <1>3, <1>4, Zenon
  <2>2. ASSUME consistent PROVE OrdersUpToTies(W, D)
    <3>1. ASSUME NEW x \in D, NEW y \in D, NEW z \in D
          PROVE  /\ before(rows[x], rows[y]) /\ before(rows[y], rows[z]) => before(rows[x], rows[z])
                 /\ same(rows[x], rows[y]) /\ same(rows[y], rows[z]) => same(rows[x], rows[z])
      BY <1>3, <2>2, <3>1, Zenon
    <3> HIDE DEF before, W, D
    <3> QED
      BY <1>5, <2>1, <3>1 DEF OrdersUpToTies
  <2>3. ASSUME OrdersUpToTies(W, D) PROVE consistent
    <3>1. SUFFICES ASSUME NEW a \in Range(rows), NEW b \in Range(rows), NEW c \in Range(rows)
                   PROVE  /\ before(a, b) /\ before(b, c) => before(a, c)
                          /\ same(a, b) /\ same(b, c) => same(a, c)
      BY Zenon
    <3>2. PICK x \in D, y \in D, z \in D : rows[x] = a /\ rows[y] = b /\ rows[z] = c
      BY <1>7, Zenon
    <3> HIDE DEF before, W, D
    <3> QED
      BY <1>5, <2>3, <3>2 DEF OrdersUpToTies
  <2> QED
    BY <2>2, <2>3, Zenon
<1> HIDE DEF consistent, R, W, best
<1>9. CASE consistent
  <2> DEFINE e == [k \in D |-> best(k)]
  <2>1. Orders(R, D)
    <3>1. D \in SUBSET Int
      BY <1>1
    <3> QED
      BY <3>1, <1>8, <1>9, StablyOrders, Zenon DEF R
  <2>2. \A k \in D : e[k] \in D /\ Cardinality(Below(R, D, e[k])) = k - 1
    <3> SUFFICES ASSUME NEW k \in D PROVE e[k] \in D /\ Cardinality(Below(R, D, e[k])) = k - 1
      BY Zenon
    <3>1. IsFiniteSet(D) /\ Cardinality(D) = n /\ k - 1 \in 0..(Cardinality(D) - 1)
      <4>1. /\ IsFiniteSet(1..n) /\ Cardinality(1..n) = n
            /\ \A m \in 1..n : m - 1 \in 0..(n - 1)
        BY FS_Interval
      <4> HIDE DEF D
      <4> QED
        BY <1>1, <4>1
    <3>2. PICK i \in D : Cardinality(Below(R, D, i)) = k - 1
      <4> HIDE DEF D, e
      <4> QED
        BY <2>1, <3>1, EveryRank
    <3>3. \A j \in D : {m \in D : stable(m, j)} = Below(R, D, j)
      <4> HIDE DEF stable, D
      <4> QED
        BY <1>6 DEF Below
    <3>4. \E j \in D : Cardinality({m \in D : stable(m, j)}) = k - 1
      BY <3>2, <3>3, Zenon
    <3>5. best(k) \in D /\ Cardinality({m \in D : stable(m, best(k))}) = k - 1
      BY <3>4, Zenon DEF best
    <3>6. e[k] = best(k)
      OBVIOUS
    <3> QED
      BY <3>3, <3>5, <3>6, Zenon
  <2>3. e = [k \in D |-> e[k]]
    OBVIOUS
  <2>4. sorted = permuted(e)
    <3> HIDE DEF permuted, e
    <3> QED
      BY <1>2, <1>9 DEF e
  <2> HIDE DEF e
  <2>5. e \in Bijection(D, D) /\ \A i, j \in D : i < j => <<e[i], e[j]>> \in R
    BY <1>1, <2>1, <2>2, <2>3, RanksPermute, Zenon
  <2>6. \A i, j \in D : i < j => stable(e[i], e[j])
    BY <1>6, <2>2, <2>5, Zenon
  <2>7. \A i, j \in D : i < j =>
            \/ Precedes(order_by, columns, rows[e[i]], rows[e[j]])
            \/ ~Precedes(order_by, columns, rows[e[j]], rows[e[i]]) /\ e[i] < e[j]
    BY <1>4, <2>2, <2>6, Zenon
  <2> QED
    BY <2>4, <2>5, <2>7, Zenon
<1>10. CASE ~consistent
  <2>1. PICK order \in Bijection(D, D) : sorted = permuted(order)
    <3> HIDE DEF permuted
    <3> QED
      BY <1>2, <1>10
  <2> QED
    BY <2>1, <1>8, <1>10, Zenon DEF W
<1> QED
  BY <1>9, <1>10

\* How many rows a page leaves out, and how many it has
Skipped(offset) == IF offset = None THEN 0 ELSE offset[1]

SizeOf(rows, limit, offset) ==
    LET left == IF Len(rows) > Skipped(offset) THEN Len(rows) - Skipped(offset) ELSE 0
    IN IF limit # None /\ limit[1] < left THEN limit[1] ELSE left

\* The rows of a page
LEMMA PageCut ==
    ASSUME NEW rows, IsList(rows), NEW limit, limit = None \/ limit[1] \in Nat,
           NEW offset, offset = None \/ offset[1] \in Nat
    PROVE  /\ Len(Page(rows, limit, offset)) = SizeOf(rows, limit, offset)
           /\ \A p \in DOMAIN Page(rows, limit, offset) :
                /\ Skipped(offset) + p \in DOMAIN rows
                /\ Page(rows, limit, offset)[p] = rows[Skipped(offset) + p]
<1> DEFINE start == IF offset = None THEN 0 ELSE offset[1]
           end == IF limit = None \/ start + limit[1] > Len(rows) THEN Len(rows) ELSE start + limit[1]
           page == SubSeq(rows, start + 1, end)
           left == IF Len(rows) > start THEN Len(rows) - start ELSE 0
           size == IF limit # None /\ limit[1] < left THEN limit[1] ELSE left
<1>1. Page(rows, limit, offset) = page
  BY Zenon DEF Page
<1>2. Len(rows) \in Nat /\ DOMAIN rows = 1..Len(rows)
  BY DEF IsList
<1>3. start \in Nat
  OBVIOUS
<1> HIDE DEF start
<1>4. PICK n \in Nat : n = Len(rows)
  BY <1>2
<1>5. end \in Nat /\ end <= Len(rows) /\ size \in Nat /\ (end - start = size \/ (end <= start /\ size = 0))
  <2>1. CASE limit = None
    <3>1. end = n /\ size = IF n > start THEN n - start ELSE 0
      BY <1>4, <2>1, Zenon
    <3> HIDE DEF end, size
    <3> QED
      BY <1>4, <1>3, <3>1
  <2>2. CASE limit # None
    <3>1. PICK most \in Nat : limit[1] = most
      BY <2>2
    <3>2. /\ end = IF start + most > n THEN n ELSE start + most
          /\ left = IF n > start THEN n - start ELSE 0
          /\ size = IF most < left THEN most ELSE left
      BY <1>4, <2>2, <3>1, Zenon
    <3> HIDE DEF end, size, left
    <3> QED
      BY <1>4, <1>3, <3>2
  <2> QED
    BY <2>1, <2>2
<1> HIDE DEF end, size
<1>6. /\ page = [k \in 1..(end - start) |-> page[k]]
      /\ \A k \in 1..(end - start) : page[k] = rows[start + k]
  <2>1. page = [k \in 1..(end - (start + 1) + 1) |-> rows[k + (start + 1) - 1]]
    BY <1>3, <1>5
  <2>2. end - (start + 1) + 1 = end - start /\ \A k \in Int : k + (start + 1) - 1 = start + k
    BY <1>3, <1>5
  <2> HIDE DEF page
  <2> QED
    BY <2>1, <2>2
<1>7. 1..(end - start) = 1..size
  BY <1>3, <1>5
<1> HIDE DEF page
<1>8. DOMAIN page = 1..size /\ page = [k \in 1..size |-> page[k]]
  BY <1>6, <1>7
<1>9. Len(page) = size
  BY <1>5, <1>8, Lists
<1>10. ASSUME NEW p \in DOMAIN page
      PROVE  start + p \in DOMAIN rows /\ page[p] = rows[start + p]
  <2>1. p \in 1..(end - start)
    BY <1>7, <1>8
  <2>2. start + p \in DOMAIN rows
    BY <1>2, <1>3, <1>5, <2>1
  <2> QED
    BY <1>6, <2>1, <2>2
<1> QED
  BY <1>1, <1>9, <1>10, Zenon DEF start, size, Skipped, SizeOf

\* The place of a column of ORDER BY in the rows that are shown, or 0
PlaceOf(t, order_by, k) == Position(Heads(t), order_by[k][1])

\* Whether that column puts a row ahead of another
AheadAt(t, order_by, k, x, y) ==
    /\ PlaceOf(t, order_by, k) # 0
    /\ IF order_by[k][2] THEN Less(x[PlaceOf(t, order_by, k)], y[PlaceOf(t, order_by, k)])
       ELSE Less(y[PlaceOf(t, order_by, k)], x[PlaceOf(t, order_by, k)])

ShownRow(t, x) == \E row : ValuedRow(t, row) /\ x = Shown(t, row)

LEMMA PrecedesAhead ==
    ASSUME NEW t, NEW order_by, NEW x, NEW y
    PROVE  Precedes(order_by, Heads(t), x, y) <=>
            \E k \in DOMAIN order_by :
                /\ AheadAt(t, order_by, k, x, y)
                /\ \A i \in 1..(k - 1) : ~AheadAt(t, order_by, i, x, y) /\ ~AheadAt(t, order_by, i, y, x)
  BY Zenon DEF Precedes, AheadAt, PlaceOf

LEMMA PlaceFound ==
    ASSUME NEW t \in Tables, NEW c
    PROVE  LET at == Position(Heads(t), c)
           IN /\ c \in ColumnNames(Schemas[t]) <=> at # 0
              /\ at # 0 => at \in DOMAIN Schemas[t]
<1> DEFINE S == Schemas[t]
           heads == Heads(t)
           found == {i \in 1..Len(heads) : heads[i] = c}
           at == Position(heads, c)
<1>1. S \in Seq([name : Seq(STRING), type : Types])
  BY SchemasAssumption
<1>2. at = IF found # {} THEN Min(found) ELSE 0
  BY Zenon DEF Position, SelectInSeq
<1>3. DOMAIN S = 1..Len(S) /\ Len(S) \in Nat
  BY <1>1
<1>4. DOMAIN heads = DOMAIN S /\ \A i \in DOMAIN S : heads[i] = S[i].name
  BY DEF Heads
<1>5. Len(heads) = Len(S)
  <2>1. heads = [i \in 1..Len(S) |-> heads[i]]
    BY <1>3 DEF Heads
  <2> HIDE DEF heads, S
  <2> QED
    BY <1>3, <1>4, <2>1, Lists
<1>6. found \in SUBSET Nat /\ found \in SUBSET DOMAIN S
  BY <1>3, <1>5
<1>7. found # {} <=> c \in ColumnNames(S)
  <2>1. \A i \in DOMAIN S : i \in found <=> S[i].name = c
    <3> HIDE DEF heads, S
    <3> QED
      BY <1>3, <1>4, <1>5
  <2> HIDE DEF found, S
  <2> QED
    BY <1>6, <2>1 DEF ColumnNames
<1> HIDE DEF found, at, S
<1>8. found # {} => Min(found) \in found
  BY <1>6, MinIn
<1>9. found # {} => at \in DOMAIN S /\ at # 0
  <2>1. found # {} => at \in found
    BY <1>2, <1>8
  <2>2. found # {} => at \in DOMAIN S
    BY <1>6, <2>1
  <2>3. \A i \in DOMAIN S : i # 0
    BY <1>3
  <2> QED
    BY <2>2, <2>3, Zenon
<1>10. found = {} => at = 0
  BY <1>2
<1> QED
  BY <1>7, <1>9, <1>10, Zenon DEF S, at

LEMMA CellsShown ==
    ASSUME NEW t \in Tables, NEW at \in DOMAIN Schemas[t]
    PROVE  \E type \in Types : \A x : ShownRow(t, x) => x[at] \in Vals /\ OfType(type, x[at])
<1> DEFINE c == Schemas[t][at].name
<1>1. c \in ColumnNames(Schemas[t])
  BY DEF ColumnNames
<1>2. TypeOf(Schemas[t], c) \in Types
  BY <1>1, ColumnsTyped
<1>3. ASSUME NEW x, ShownRow(t, x)
      PROVE  x[at] \in Vals /\ OfType(TypeOf(Schemas[t], c), x[at])
  <2>1. PICK row : ValuedRow(t, row) /\ x = Shown(t, row)
    BY <1>3 DEF ShownRow
  <2>2. x[at] = row[c]
    BY <2>1 DEF Shown
  <2>3. row[c] \in Vals /\ OfType(TypeOf(Schemas[t], c), row[c])
    <3> HIDE DEF c
    <3> QED
      BY <1>1, <2>1, CellOf
  <2> QED
    BY <2>2, <2>3, Zenon
<1> QED
  BY <1>2, <1>3, Zenon

LEMMA LessIrreflexive ==
    ASSUME NEW v \in Vals
    PROVE  ~Less(v, v)
<1>1. v = Null => v[1] = "Null"
  BY DEF Null
<1>2. v = Null => ~Less(v, v)
  BY <1>1, Zenon DEF Less
<1>3. v # Null => v[1] \in Types
  BY DEF Vals, Types
<1>4. ASSUME NEW type \in Types, v[1] = type
      PROVE  ~Less(v, v)
  BY <1>4, ValuesOrdered
<1> QED
  BY <1>2, <1>3, <1>4

LEMMA NeverAheadOfItself ==
    ASSUME NEW t \in Tables, NEW order_by, NEW x, ShownRow(t, x)
    PROVE  ~Precedes(order_by, Heads(t), x, x)
<1>1. ASSUME NEW k
      PROVE  ~AheadAt(t, order_by, k, x, x)
  <2> DEFINE at == PlaceOf(t, order_by, k)
  <2> SUFFICES ASSUME at # 0 PROVE ~AheadAt(t, order_by, k, x, x)
    BY DEF AheadAt
  <2>1. at \in DOMAIN Schemas[t]
    BY PlaceFound, Zenon DEF PlaceOf
  <2>2. x[at] \in Vals
    BY <2>1, CellsShown, Zenon
  <2>3. ~Less(x[at], x[at])
    BY <2>2, LessIrreflexive, Zenon
  <2> QED
    BY <2>3, Zenon DEF AheadAt
<1> QED
  BY <1>1, PrecedesAhead, Zenon

Aheads(t, order_by, k, S) == {p \in S \X S : AheadAt(t, order_by, k, p[1], p[2])}

\* Rows that a column does not tell apart, and rows it can compare
EqualAt(t, order_by, k, x, y) ==
    PlaceOf(t, order_by, k) # 0 => x[PlaceOf(t, order_by, k)] = y[PlaceOf(t, order_by, k)]

ComparableAt(t, order_by, k, S) ==
    PlaceOf(t, order_by, k) # 0 => \A x \in S : x[PlaceOf(t, order_by, k)] # Null

\* Where a column is nowhere NULL it orders the rows, up to those with equal cells.
LEMMA ColumnOrders ==
    ASSUME NEW t \in Tables, NEW order_by, NEW k, NEW S, \A x \in S : ShownRow(t, x),
           ComparableAt(t, order_by, k, S)
    PROVE  /\ WeaklyOrders(Aheads(t, order_by, k, S), S)
           /\ \A x, y \in S :
                ~AheadAt(t, order_by, k, x, y) /\ ~AheadAt(t, order_by, k, y, x) <=> EqualAt(t, order_by, k, x, y)
<1> DEFINE at == PlaceOf(t, order_by, k)
           R == Aheads(t, order_by, k, S)
<1>1. \A x, y \in S : <<x, y>> \in R <=> AheadAt(t, order_by, k, x, y)
  BY DEF Aheads
<1> HIDE DEF R
<1>2. CASE at = 0
  <2>1. \A x, y \in S : <<x, y>> \notin R /\ ~AheadAt(t, order_by, k, x, y)
    BY <1>1, <1>2 DEF AheadAt
  <2>2. \A x, y \in S : EqualAt(t, order_by, k, x, y)
    BY <1>2, Zenon DEF EqualAt
  <2>3. WeaklyOrders(R, S)
    BY <2>1, Zenon DEF WeaklyOrders
  <2> QED
    BY <2>1, <2>2, <2>3, Zenon DEF R
<1>3. CASE at # 0
  <2>1. at \in DOMAIN Schemas[t]
    BY <1>3, PlaceFound, Zenon DEF PlaceOf
  <2>2. PICK type \in Types : \A x \in S : x[at] \in Vals /\ OfType(type, x[at])
    BY <2>1, CellsShown, Zenon
  <2> DEFINE typed == {v \in Vals : v[1] = type}
  <2>3. \A x \in S : x[at] \in typed
    BY <1>3, <2>2 DEF OfType, ComparableAt
  <2>4. /\ \A v \in typed : ~Less(v, v)
        /\ \A u, v, w \in typed : Less(u, v) /\ Less(v, w) => Less(u, w)
        /\ \A u, v \in typed : u # v => Less(u, v) \/ Less(v, u)
    BY ValuesOrdered, Zenon
  <2> HIDE DEF typed
  <2>5. PICK cell : cell = [x \in S |-> x[at]]
    OBVIOUS
  <2>6. \A x \in S : cell[x] \in typed /\ cell[x] = x[at]
    BY <2>3, <2>5
  <2>7. \A x, y \in S : AheadAt(t, order_by, k, x, y) <=>
            IF order_by[k][2] THEN Less(cell[x], cell[y]) ELSE Less(cell[y], cell[x])
    BY <1>3, <2>6, Zenon DEF AheadAt
  <2>8. WeaklyOrders(R, S)
    <3>1. ASSUME NEW x \in S, NEW y \in S, <<x, y>> \in R
          PROVE  <<y, x>> \notin R
      BY <1>1, <2>4, <2>6, <2>7, <3>1
    <3>2. ASSUME NEW x \in S, NEW y \in S, NEW z \in S, <<x, y>> \in R
          PROVE  <<x, z>> \in R \/ <<z, y>> \in R
      BY <1>1, <2>4, <2>6, <2>7, <3>2
    <3> QED
      BY <3>1, <3>2 DEF WeaklyOrders
  <2>9. ASSUME NEW x \in S, NEW y \in S
        PROVE  ~AheadAt(t, order_by, k, x, y) /\ ~AheadAt(t, order_by, k, y, x) <=> cell[x] = cell[y]
    BY <2>4, <2>6, <2>7
  <2>10. \A x, y \in S : EqualAt(t, order_by, k, x, y) <=> cell[x] = cell[y]
    BY <1>3, <2>6, Zenon DEF EqualAt
  <2> QED
    BY <2>8, <2>9, <2>10, Zenon DEF R
<1> QED
  BY <1>2, <1>3

\* The first column that tells two rows apart decides which of them is first.
DecidedByKey(t, order_by, x, y) ==
    \E k \in DOMAIN order_by :
        AheadAt(t, order_by, k, x, y) /\ \A i \in 1..(k - 1) : EqualAt(t, order_by, i, x, y)

\* Where no cell they compare is NULL, the columns of ORDER BY order the rows:
\* the first column in which two rows differ decides.
LEMMA KeysOrder ==
    ASSUME NEW t \in Tables, NEW n \in Nat, NEW order_by, DOMAIN order_by = 1..n,
           NEW rows, \A x \in Range(rows) : ShownRow(t, x),
           \A k \in 1..n : ComparableAt(t, order_by, k, Range(rows))
    PROVE  /\ OrdersUpToTies(Before(order_by, Heads(t), rows), DOMAIN rows)
           /\ \A x, y \in Range(rows) : Precedes(order_by, Heads(t), x, y) <=> DecidedByKey(t, order_by, x, y)
<1>1. PICK S : S = Range(rows)
  OBVIOUS
<1>2. PICK R : R = [k \in 1..n |-> Aheads(t, order_by, k, S)]
  OBVIOUS
<1>3. \A k \in 1..n : R[k] = Aheads(t, order_by, k, S)
  BY <1>2
<1>4. ASSUME NEW k \in 1..n
      PROVE  /\ WeaklyOrders(R[k], S)
             /\ \A x, y \in S :
                    ~AheadAt(t, order_by, k, x, y) /\ ~AheadAt(t, order_by, k, y, x) <=> EqualAt(t, order_by, k, x, y)
             /\ \A x, y \in S : <<x, y>> \in R[k] <=> AheadAt(t, order_by, k, x, y)
  <2>1. ComparableAt(t, order_by, k, S) /\ \A x \in S : ShownRow(t, x)
    BY <1>1
  <2>2. /\ WeaklyOrders(Aheads(t, order_by, k, S), S)
        /\ \A x, y \in S :
            ~AheadAt(t, order_by, k, x, y) /\ ~AheadAt(t, order_by, k, y, x) <=> EqualAt(t, order_by, k, x, y)
    BY <2>1, ColumnOrders, Zenon
  <2>3. \A x, y \in S : <<x, y>> \in Aheads(t, order_by, k, S) <=> AheadAt(t, order_by, k, x, y)
    BY DEF Aheads
  <2> QED
    BY <1>3, <2>2, <2>3, Zenon
<1>5. \A k \in 1..n : \A i \in 1..(k - 1) : i \in 1..n
  OBVIOUS
<1>6. ASSUME NEW x \in S, NEW y \in S
      PROVE  /\ Precedes(order_by, Heads(t), x, y) <=> FirstApart(R, n, x, y)
             /\ Precedes(order_by, Heads(t), x, y) <=> DecidedByKey(t, order_by, x, y)
  <2>1. Precedes(order_by, Heads(t), x, y) <=>
            \E k \in 1..n :
                /\ AheadAt(t, order_by, k, x, y)
                /\ \A i \in 1..(k - 1) : ~AheadAt(t, order_by, i, x, y) /\ ~AheadAt(t, order_by, i, y, x)
    BY PrecedesAhead, Zenon
  <2>2. Precedes(order_by, Heads(t), x, y) <=> FirstApart(R, n, x, y)
    BY <1>4, <1>5, <2>1 DEF FirstApart
  <2>3. Precedes(order_by, Heads(t), x, y) <=> DecidedByKey(t, order_by, x, y)
    BY <1>4, <1>5, <2>1 DEF DecidedByKey
  <2> QED
    BY <2>2, <2>3
<1>7. /\ \A x, y \in S : FirstApart(R, n, x, y) => ~FirstApart(R, n, y, x)
      /\ \A x, y, z \in S : FirstApart(R, n, x, y) => FirstApart(R, n, x, z) \/ FirstApart(R, n, z, y)
  <2>1. \A k \in 1..n : WeaklyOrders(R[k], S)
    BY <1>4, Zenon
  <2> QED
    BY <2>1, FirstApartOrders, Zenon
<1>8. OrdersUpToTies(Before(order_by, Heads(t), rows), DOMAIN rows)
  <2> DEFINE W == Before(order_by, Heads(t), rows)
             D == DOMAIN rows
  <2>1. \A i \in D : rows[i] \in S
    BY <1>1 DEF Range
  <2>2. \A i, j \in D : <<i, j>> \in W <=> FirstApart(R, n, rows[i], rows[j])
    BY <1>6, <2>1, BeforeOf, Zenon
  <2>3. \A i, j \in D : <<i, j>> \in W => <<j, i>> \notin W
    BY <1>7, <2>1, <2>2, Zenon
  <2>4. \A i, j, k \in D : <<i, j>> \in W => <<i, k>> \in W \/ <<k, j>> \in W
    BY <1>7, <2>1, <2>2, Zenon
  <2> HIDE DEF W, D
  <2>5. \A i \in D : <<i, i>> \notin W
    BY <2>3, Zenon
  <2>6. ASSUME NEW i \in D, NEW j \in D, NEW k \in D, <<i, j>> \in W, <<j, k>> \in W
        PROVE  <<i, k>> \in W
    BY <2>3, <2>4, <2>6, Zenon
  <2>7. ASSUME NEW i \in D, NEW j \in D, NEW k \in D,
               <<i, j>> \notin W, <<j, i>> \notin W, <<j, k>> \notin W, <<k, j>> \notin W
        PROVE  <<i, k>> \notin W /\ <<k, i>> \notin W
    BY <2>4, <2>7, Zenon
  <2> QED
    BY <2>5, <2>6, <2>7, Zenon DEF OrdersUpToTies, W, D
<1> QED
  BY <1>1, <1>6, <1>8, Zenon

\* The pages of a SELECT * of the script are as PagesInOrder says.
LEMMA PagesRight ==
    ASSUME ValuedTables, RightAnswers
    PROVE  PagesInOrder
<1> SUFFICES ASSUME NEW s \in asked, SelectsRows(s), s.order_by # <<>>
             PROVE  LET rows == RowsShown(tables, s)
                        skipped == IF s.offset = None THEN 0 ELSE s.offset[1]
                        left == IF Len(rows) > skipped THEN Len(rows) - skipped ELSE 0
                        keys == {k \in DOMAIN s.order_by : s.order_by[k][1] \in ColumnNames(Schemas[s.table])}
                        cell(k, row) == row[Position(Heads(s.table), s.order_by[k][1])]
                        by(k, a, b) == IF s.order_by[k][2] THEN Less(cell(k, a), cell(k, b)) ELSE Less(cell(k, b), cell(k, a))
                        before(a, b) == \E k \in keys : by(k, a, b) /\ \A i \in keys : i < k => cell(i, a) = cell(i, b)
                        comparable == \A k \in keys : \A row \in Range(rows) : cell(k, row) # Null
                    IN /\ answer.result = "rows"
                       /\ Len(answer.rows) = IF s.limit # None /\ s.limit[1] < left THEN s.limit[1] ELSE left
                       /\ \E order \in Bijection(DOMAIN rows, DOMAIN rows) :
                            /\ \A p \in DOMAIN answer.rows : answer.rows[p] = rows[order[skipped + p]]
                            /\ comparable => \A i, j \in DOMAIN rows : i < j =>
                                    \/ before(rows[order[i]], rows[order[j]])
                                    \/ ~before(rows[order[j]], rows[order[i]]) /\ order[i] < order[j]
  BY Zenon DEF PagesInOrder
<1> DEFINE t == s.table
           by == s.order_by
           rows == RowsShown(tables, s)
           skipped == IF s.offset = None THEN 0 ELSE s.offset[1]
           left == IF Len(rows) > skipped THEN Len(rows) - skipped ELSE 0
           keys == {k \in DOMAIN by : by[k][1] \in ColumnNames(Schemas[t])}
           cell(k, row) == row[Position(Heads(t), by[k][1])]
           ahead(k, a, b) == IF by[k][2] THEN Less(cell(k, a), cell(k, b)) ELSE Less(cell(k, b), cell(k, a))
           before(a, b) == \E k \in keys : ahead(k, a, b) /\ \A i \in keys : i < k => cell(i, a) = cell(i, b)
           comparable == \A k \in keys : \A row \in Range(rows) : cell(k, row) # Null
<1>1. /\ t \in Tables /\ by \in Seq(Range(by))
      /\ s.limit = None \/ s.limit[1] \in Nat
      /\ s.offset = None \/ s.offset[1] \in Nat
  <2>1. s \in Script /\ s.kind = "Select" /\ t \in Tables
    BY DEF RightAnswers, SelectsRows
  <2> QED
    BY <2>1, ScriptAssumption
<1>2. PICK n \in Nat : DOMAIN by = 1..n
  <2>1. IsList(by)
    BY <1>1 DEF IsList
  <2> QED
    BY <2>1, Positions, Zenon
<1>3. IsList(rows) /\ \A x \in Range(rows) : ShownRow(t, x)
  <2>1. /\ IsList(rows)
        /\ \A k \in DOMAIN rows : \E row : ValuedRow(t, row) /\ rows[k] = Shown(t, row)
    BY <1>1, RowsOfTable, Zenon
  <2> HIDE DEF rows
  <2> QED
    BY <2>1 DEF Range, ShownRow
<1>4. answer.result = "rows" /\ [columns |-> answer.columns, rows |-> answer.rows] \in PagesOf(s, Whole(s))
  BY DEF RightAnswers, AnsweredByPage
<1>5. PICK sorted \in Ordered(by, Heads(t), rows) : answer.rows = Page(sorted, s.limit, s.offset)
  <2>1. Whole(s).columns = Heads(t) /\ Whole(s).rows = rows
    BY Zenon DEF Whole
  <2>2. PagesOf(s, Whole(s)) =
            {[columns |-> Heads(t), rows |-> Page(x, s.limit, s.offset)] : x \in Ordered(by, Heads(t), rows)}
    BY <2>1, Zenon DEF PagesOf
  <2> HIDE DEF rows, t, by
  <2>3. PICK x \in Ordered(by, Heads(t), rows) :
            [columns |-> answer.columns, rows |-> answer.rows]
                = [columns |-> Heads(t), rows |-> Page(x, s.limit, s.offset)]
    BY <1>4, <2>2
  <2>4. answer.rows = Page(x, s.limit, s.offset)
    BY <2>3
  <2> QED
    BY <2>4
<1>6. PICK order \in Bijection(DOMAIN rows, DOMAIN rows) :
        /\ sorted = [k \in DOMAIN rows |-> rows[order[k]]]
        /\ OrdersUpToTies(Before(by, Heads(t), rows), DOMAIN rows)
           => \A i, j \in DOMAIN rows : i < j =>
                \/ Precedes(by, Heads(t), rows[order[i]], rows[order[j]])
                \/ ~Precedes(by, Heads(t), rows[order[j]], rows[order[i]]) /\ order[i] < order[j]
  <2>1. \A x \in Range(rows) : ~Precedes(by, Heads(t), x, x)
    BY <1>1, <1>3, NeverAheadOfItself, Zenon
  <2> QED
    BY <1>3, <2>1, OrderedPermutes, Zenon
<1>7. IsList(sorted) /\ Len(sorted) = Len(rows) /\ DOMAIN sorted = DOMAIN rows
  <2>1. Len(rows) \in Nat /\ DOMAIN rows = 1..Len(rows)
    BY <1>3, Positions, Zenon
  <2> HIDE DEF rows
  <2>2. DOMAIN sorted = 1..Len(rows) /\ sorted = [k \in 1..Len(rows) |-> sorted[k]]
    BY <1>6, <2>1
  <2> QED
    BY <2>1, <2>2, Lists, Zenon
<1>8. /\ Len(answer.rows) = IF s.limit # None /\ s.limit[1] < left THEN s.limit[1] ELSE left
      /\ \A p \in DOMAIN answer.rows : skipped + p \in DOMAIN rows /\ answer.rows[p] = rows[order[skipped + p]]
  <2>1. /\ Len(Page(sorted, s.limit, s.offset)) = SizeOf(sorted, s.limit, s.offset)
        /\ \A p \in DOMAIN Page(sorted, s.limit, s.offset) :
            /\ Skipped(s.offset) + p \in DOMAIN sorted
            /\ Page(sorted, s.limit, s.offset)[p] = sorted[Skipped(s.offset) + p]
    <3>1. PICK limit, offset, l : limit = s.limit /\ offset = s.offset /\ l = sorted
      OBVIOUS
    <3>2. /\ limit = None \/ limit[1] \in Nat
          /\ offset = None \/ offset[1] \in Nat
          /\ IsList(l)
      BY <1>1, <1>7, <3>1, Zenon
    <3>3. /\ Len(Page(l, limit, offset)) = SizeOf(l, limit, offset)
          /\ \A p \in DOMAIN Page(l, limit, offset) :
                /\ Skipped(offset) + p \in DOMAIN l
                /\ Page(l, limit, offset)[p] = l[Skipped(offset) + p]
      BY <3>2, PageCut
    <3> QED
      BY <3>1, <3>3, Zenon
  <2>2. \A k \in DOMAIN rows : sorted[k] = rows[order[k]]
    BY <1>6
  <2>3. Skipped(s.offset) = skipped
    BY Zenon DEF Skipped
  <2>4. SizeOf(sorted, s.limit, s.offset) = IF s.limit # None /\ s.limit[1] < left THEN s.limit[1] ELSE left
    BY <1>7, <2>3, Zenon DEF SizeOf
  <2> HIDE DEF skipped, left, rows
  <2> QED
    BY <1>5, <1>7, <2>1, <2>2, <2>3, <2>4, Zenon
<1>9. ASSUME comparable
      PROVE  /\ OrdersUpToTies(Before(by, Heads(t), rows), DOMAIN rows)
             /\ \A a, b \in Range(rows) : Precedes(by, Heads(t), a, b) <=> before(a, b)
  <2>1. \A k \in 1..n : k \in keys <=> PlaceOf(t, by, k) # 0
    <3>1. \A c : c \in ColumnNames(Schemas[t]) <=> Position(Heads(t), c) # 0
      BY <1>1, PlaceFound, Zenon
    <3> QED
      BY <1>2, <3>1, Zenon DEF PlaceOf
  <2>2. keys \in SUBSET (1..n)
    BY <1>2
  <2>3. \A k, x : cell(k, x) = x[PlaceOf(t, by, k)]
    BY Zenon DEF PlaceOf
  <2>4. \A k \in 1..n : \A x, y : AheadAt(t, by, k, x, y) <=> k \in keys /\ ahead(k, x, y)
    BY <2>1, Zenon DEF AheadAt, PlaceOf
  <2>5. \A k \in 1..n : ComparableAt(t, by, k, Range(rows))
    BY <1>9, <2>1, <2>3, Zenon DEF ComparableAt
  <2>6. PICK o, l : o = by /\ l = rows
    OBVIOUS
  <2>7. /\ OrdersUpToTies(Before(o, Heads(t), l), DOMAIN l)
        /\ \A x, y \in Range(l) : Precedes(o, Heads(t), x, y) <=> DecidedByKey(t, o, x, y)
    <3>1. /\ DOMAIN o = 1..n /\ \A x \in Range(l) : ShownRow(t, x)
          /\ \A k \in 1..n : ComparableAt(t, o, k, Range(l))
      BY <1>2, <1>3, <2>5, <2>6, Zenon
    <3> HIDE DEF t, by, rows
    <3> QED
      BY <1>1, <3>1, KeysOrder, Zenon
  <2> HIDE DEF rows, keys, ahead, cell
  <2>8. \A k, i \in 1..n : i \in 1..(k - 1) <=> i < k
    OBVIOUS
  <2>9. \A k \in 1..n : \A i \in 1..(k - 1) : i \in 1..n
    OBVIOUS
  <2>10. ASSUME NEW x \in Range(rows), NEW y \in Range(rows)
         PROVE  Precedes(by, Heads(t), x, y) <=> before(x, y)
    <3>1. ASSUME NEW i \in 1..n
          PROVE  EqualAt(t, by, i, x, y) <=> (i \in keys => cell(i, x) = cell(i, y))
      BY <2>1, <2>3, Zenon DEF EqualAt
    <3>2. ASSUME NEW k \in 1..n
          PROVE  (\A i \in 1..(k - 1) : EqualAt(t, by, i, x, y)) <=> \A i \in keys : i < k => cell(i, x) = cell(i, y)
      BY <2>2, <2>8, <2>9, <3>1
    <3>3. DecidedByKey(t, by, x, y) <=> before(x, y)
      BY <1>2, <2>2, <2>4, <3>2 DEF DecidedByKey
    <3> QED
      BY <2>6, <2>7, <3>3
  <2> QED
    BY <2>6, <2>10, <2>7
<1>10. comparable => \A i, j \in DOMAIN rows : i < j =>
            \/ before(rows[order[i]], rows[order[j]])
            \/ ~before(rows[order[j]], rows[order[i]]) /\ order[i] < order[j]
  <2>1. \A i \in DOMAIN rows : rows[order[i]] \in Range(rows)
    <3>1. \A i \in DOMAIN rows : order[i] \in DOMAIN rows
      BY DEF Bijection, Injection
    <3> QED
      BY <3>1 DEF Range
  <2> HIDE DEF before, comparable, rows
  <2> QED
    BY <1>6, <1>9, <2>1, Zenon
<1> QED
  BY <1>4, <1>8, <1>10, Zenon

\* Under the same premise, a page of ORDER BY, LIMIT and OFFSET is cut out of a
\* sorted permutation of the rows the WHERE means, whatever tables, columns and
\* bounds there are (select, engine.rs:621).
THEOREM PagesAreSorted == QuerySpec /\ []ReadAsWritten => []PagesInOrder
<1>1. ValuedTables /\ RightAnswers => PagesInOrder
  BY PagesRight
<1> QED
  BY <1>1, RightInvariant, PTL

---------------------------------------------------------------------------------
(* GROUP BY *)

\* The cells GROUP BY compares
KeyOf(row, group_by) == [k \in DOMAIN group_by |-> Cell(row, group_by[k])]

\* The positions of the rows with the key of one of them
Alike(rows, group_by, k) == {i \in DOMAIN rows : KeyOf(rows[i], group_by) = KeyOf(rows[k], group_by)}

\* GROUP BY parts the rows: every row is in the group of its key, a group has all
\* the rows of one key in the order of the table, and no two groups have a key in
\* common, whatever rows and columns there are (compute_group_by, engine.rs:1138).
THEOREM GroupsPartRows ==
    ASSUME NEW rows, IsList(rows), NEW group_by
    PROVE  LET groups == GroupsOf(rows, group_by)
           IN /\ \A k \in DOMAIN rows : \E g \in DOMAIN groups : groups[g] = At(rows, Alike(rows, group_by, k))
              /\ \A g \in DOMAIN groups : groups[g] # <<>> /\
                    \E k \in DOMAIN rows : groups[g] = At(rows, Alike(rows, group_by, k))
              /\ \A g, h \in DOMAIN groups : g # h =>
                    \A i \in DOMAIN groups[g], j \in DOMAIN groups[h] :
                        KeyOf(groups[g][i], group_by) # KeyOf(groups[h][j], group_by)
<1> DEFINE D == DOMAIN rows
           key(k) == KeyOf(rows[k], group_by)
           F == {k \in D : \A i \in 1..(k - 1) : key(i) # key(k)}
           first == Ascending(F)
           n == Cardinality(F)
           members(k) == Alike(rows, group_by, k)
           groups == GroupsOf(rows, group_by)
<1>1. D = 1..Len(rows) /\ Len(rows) \in Nat
  BY Positions, Zenon
<1>2. groups = [g \in DOMAIN first |-> At(rows, members(first[g]))]
  BY Zenon DEF GroupsOf, KeyOf, Alike
<1>3. F \in SUBSET Int /\ IsFiniteSet(F) /\ F \in SUBSET D
  <2>1. F \in SUBSET D
    OBVIOUS
  <2> HIDE DEF F
  <2> QED
    BY <2>1, Positions
<1>4. \A k \in D : members(k) \in SUBSET D /\ \A i \in D : i \in members(k) <=> key(i) = key(k)
  BY DEF Alike
<1>5. \A k \in F : k \in D /\ k \in Int /\ \A i \in F : i < k => key(i) # key(k)
  BY <1>1
<1>6. \A k \in D : \E m \in F : key(m) = key(k)
  <2> SUFFICES ASSUME NEW k \in D PROVE \E m \in F : key(m) = key(k)
    BY Zenon
  <2> DEFINE T == {i \in D : key(i) = key(k)}
  <2>1. PICK m \in T : \A i \in T : m <= i
    <3>1. T \in SUBSET Nat /\ T # {}
      <4> HIDE DEF key
      <4> QED
        BY <1>1
    <3> HIDE DEF T
    <3> QED
      BY <3>1, Smallest
  <2>2. m \in D /\ key(m) = key(k)
    OBVIOUS
  <2>3. ASSUME NEW i \in 1..(m - 1) PROVE key(i) # key(m)
    <3>1. i \in D /\ ~(m <= i)
      BY <1>1, <2>2
    <3> HIDE DEF key
    <3> QED
      BY <2>1, <2>2, <3>1
  <2>4. m \in F
    <3> HIDE DEF key
    <3> QED
      BY <2>2, <2>3
  <2> QED
    BY <2>2, <2>4
<1> HIDE DEF F, D, key, members, groups
<1>7. /\ n \in Nat /\ DOMAIN first = 1..n
      /\ \A g \in 1..n : first[g] \in F
      /\ \A k \in F : \E g \in 1..n : first[g] = k
  BY <1>3, AscendingElements, Zenon
<1>8. \A g, h \in 1..n : g # h => first[g] # first[h]
  <2>1. \A g \in 1..n : Cardinality({m \in F : m < first[g]}) = g - 1
    BY <1>3, AscendingElements, Zenon
  <2> SUFFICES ASSUME NEW g \in 1..n, NEW h \in 1..n, first[g] = first[h] PROVE g = h
    BY Zenon
  <2>2. g - 1 = h - 1
    BY <2>1, Zenon
  <2> HIDE DEF n
  <2> QED
    BY <1>7, <2>2
<1> HIDE DEF first, n
<1>9. DOMAIN groups = 1..n /\ \A g \in 1..n : groups[g] = At(rows, members(first[g]))
  BY <1>2, <1>7
<1>10. ASSUME NEW k \in D
       PROVE  \E g \in DOMAIN groups : groups[g] = At(rows, members(k))
  <2>1. PICK g \in 1..n : key(first[g]) = key(k)
    BY <1>6, <1>7, Zenon
  <2>2. first[g] \in D
    BY <1>5, <1>7, Zenon
  <2>3. \A i \in D : i \in members(first[g]) <=> i \in members(k)
    BY <1>4, <2>1, <2>2, Zenon
  <2>4. members(first[g]) \in SUBSET D /\ members(k) \in SUBSET D
    BY <1>4, <2>2, Zenon
  <2>5. members(first[g]) = members(k)
    BY <2>3, <2>4
  <2>6. g \in DOMAIN groups /\ groups[g] = At(rows, members(first[g]))
    BY <1>9, Zenon
  <2> QED
    BY <2>5, <2>6, Zenon
<1>11. ASSUME NEW g \in 1..n
       PROVE  /\ first[g] \in D /\ groups[g] # <<>>
              /\ \A i \in DOMAIN groups[g] : KeyOf(groups[g][i], group_by) = key(first[g])
  <2>1. first[g] \in D /\ first[g] \in members(first[g])
    BY <1>4, <1>5, <1>7
  <2>2. PICK P : P = members(first[g]) /\ P \in SUBSET Int /\ IsFiniteSet(P) /\ P \in SUBSET D
    <3>1. members(first[g]) \in SUBSET DOMAIN rows
      BY <1>4, <2>1 DEF D
    <3> QED
      BY <3>1, Positions DEF D
  <2>3. /\ DOMAIN At(rows, P) = 1..Cardinality(P)
        /\ \A k \in 1..Cardinality(P) : \E i \in P : At(rows, P)[k] = rows[i]
        /\ \A i \in P : \E k \in 1..Cardinality(P) : At(rows, P)[k] = rows[i]
    BY <2>2, AtElements, Zenon
  <2>4. groups[g] = At(rows, P)
    BY <1>9, <2>2
  <2>5. DOMAIN groups[g] # {}
    BY <2>1, <2>2, <2>3, <2>4
  <2>6. DOMAIN <<>> = {}
    OBVIOUS
  <2>7. \A i \in P : KeyOf(rows[i], group_by) = key(first[g])
    BY <1>4, <2>1, <2>2 DEF key
  <2>8. groups[g] # <<>>
    BY <2>5, <2>6, Zenon
  <2>9. ASSUME NEW k \in DOMAIN groups[g]
        PROVE  KeyOf(groups[g][k], group_by) = key(first[g])
    <3>1. PICK i \in P : groups[g][k] = rows[i]
      BY <2>3, <2>4, Zenon
    <3>2. KeyOf(groups[g][k], group_by) = KeyOf(rows[i], group_by)
      BY <3>1, Zenon
    <3> QED
      BY <2>7, <3>2, Zenon
  <2> QED
    BY <2>1, <2>8, <2>9, Zenon
<1>12. ASSUME NEW g \in 1..n, NEW h \in 1..n, g # h
       PROVE  key(first[g]) # key(first[h])
  <2>1. /\ first[g] \in F /\ first[h] \in F /\ first[g] # first[h]
        /\ first[g] \in Int /\ first[h] \in Int
    BY <1>5, <1>7, <1>8, <1>12
  <2>2. first[g] < first[h] \/ first[h] < first[g]
    BY <2>1
  <2> QED
    BY <1>5, <2>1, <2>2
<1>13. \A g, h \in DOMAIN groups : g # h =>
            \A i \in DOMAIN groups[g], j \in DOMAIN groups[h] :
                KeyOf(groups[g][i], group_by) # KeyOf(groups[h][j], group_by)
  BY <1>9, <1>11, <1>12, Zenon
<1>14. \A g \in DOMAIN groups : groups[g] # <<>> /\ \E k \in D : groups[g] = At(rows, members(k))
  BY <1>9, <1>11, Zenon
<1> QED
  BY <1>10, <1>13, <1>14 DEF D, members, groups
=================================================================================
