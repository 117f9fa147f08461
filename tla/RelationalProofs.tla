---------------------------- MODULE RelationalProofs ----------------------------
(***************************************************************************)
(* Lemmas about maps, rows and migration records that the proofs about     *)
(* Storage and about Engine rest on.                                       *)
(***************************************************************************)
EXTENDS Relational, WellFoundedInduction, TLAPS

---------------------------------------------------------------------------------
(* Induction over the natural numbers, for sets of them *)

Less == {p \in Nat \X Nat : p[1] < p[2]}

LEMMA LessWellFounded == IsWellFoundedOn(Less, Nat)
  BY NatLessThanWellFounded, SMT DEF OpToRel, Less

LEMMA Smallest ==
    ASSUME NEW S \in SUBSET Nat, S # {}
    PROVE  \E m \in S : \A k \in S : m <= k
<1>1. PICK m \in S : \A k \in S : <<k, m>> \notin Less
  BY LessWellFounded, WFMin
<1>2. ASSUME NEW k \in S
      PROVE  m <= k
  <2>1. <<k, m>> \in Nat \X Nat /\ ~(<<k, m>>[1] < <<k, m>>[2])
    BY <1>1 DEF Less
  <2> QED
    BY <2>1
<1> QED
  BY <1>2

LEMMA Induction ==
    ASSUME NEW S, 0 \in S, \A n \in Nat : n \in S => n + 1 \in S
    PROVE  Nat \subseteq S
<1> DEFINE T == Nat \ S
<1> SUFFICES ASSUME T # {} PROVE FALSE
  OBVIOUS
<1>1. PICK m \in T : \A k \in T : m <= k
  <2>1. T \in SUBSET Nat
    OBVIOUS
  <2> HIDE DEF T
  <2> QED
    BY <2>1, Smallest
<1>2. m \in Nat /\ m # 0 /\ m - 1 \in Nat /\ m - 1 \in S
  BY <1>1
<1> QED
  BY <1>1, <1>2

---------------------------------------------------------------------------------
(* Maps *)

LEMMA OverrideIsMap ==
    ASSUME NEW S, NEW T, NEW f, NEW g, IsMap(f, S, T), IsMap(g, S, T)
    PROVE  IsMap(Override(f, g), S, T)
  BY DEF IsMap, Override

LEMMA PutIsMap ==
    ASSUME NEW S, NEW T, NEW f, IsMap(f, S, T), NEW k \in S, NEW v \in T
    PROVE  IsMap(Put(f, k, v), S, T)
  BY DEF IsMap, Put, Override

LEMMA WithoutIsMap ==
    ASSUME NEW S, NEW T, NEW f, IsMap(f, S, T), NEW D
    PROVE  IsMap(Without(f, D), S, T)
  BY DEF IsMap, Without, Restrict

LEMMA EmptyIsMap ==
    ASSUME NEW S, NEW T
    PROVE  IsMap(EmptyMap, S, T)
  BY DEF IsMap, EmptyMap

LEMMA MapsAreMaps ==
    ASSUME NEW S, NEW T, NEW f
    PROVE  f \in Maps(S, T) <=> IsMap(f, S, T)
  BY DEF IsMap, Maps

---------------------------------------------------------------------------------
(* Row data *)

LEMMA CellIsVal ==
    ASSUME NEW data \in Data, NEW c
    PROVE  Cell(data, c) \in Val
  BY MapsAreMaps DEF Data, Cell, Val, IsMap

\* What ALTER TABLE and UPDATE make of a row's data is row data.
LEMMA DataMapped ==
    ASSUME NEW data \in Data
    PROVE  /\ \A c \in Columns, v \in Val : WithColumn(data, c, v) \in Data
           /\ \A c : WithoutColumn(data, c) \in Data
           /\ \A c, new \in Columns : WithRenamed(data, c, new) \in Data
           /\ \A where : \A assignments \in Data : Updated(data, where, assignments) \in Data
<1>1. IsMap(data, Columns, Val)
  BY MapsAreMaps DEF Data
<1>2. \A c \in DOMAIN data : data[c] \in Val
  BY <1>1 DEF IsMap
<1>3. \A f : f \in Data <=> IsMap(f, Columns, Val)
  BY MapsAreMaps DEF Data
<1> QED
  BY <1>1, <1>2, <1>3, PutIsMap, WithoutIsMap, OverrideIsMap
  DEF WithColumn, WithoutColumn, WithRenamed, Updated

LEMMA ChangeTyped ==
    ASSUME NEW op \in Operations, NEW t \in Tables, NEW columns \in SUBSET Columns,
           NEW renamed \in SUBSET Columns, NEW index \in SUBSET IndexNames
    PROVE  Change(op, t, columns, renamed, index) \in Changes
  BY DEF Change, Changes

\* A sequence of the same length.
LEMMA SameLength ==
    ASSUME NEW S, NEW s \in Seq(S), NEW T, NEW r \in [DOMAIN s -> T]
    PROVE  r \in Seq(T)
<1>1. DOMAIN s = 1..Len(s) /\ Len(s) \in Nat
  OBVIOUS
<1> QED
  BY <1>1

\* r consists of the members of s at the positions in S, each once.
IsSelection(s, S, r) ==
    \E f \in [DOMAIN r -> S] :
        /\ \A i \in DOMAIN r : r[i] = s[f[i]]
        /\ \A i, j \in DOMAIN r : f[i] = f[j] => i = j
        /\ \A k \in S : \E i \in DOMAIN r : f[i] = k

LEMMA KeptRows ==
    ASSUME NEW T, NEW s \in Seq(T), NEW S \in SUBSET DOMAIN s, NEW r \in Kept(s, S)
    PROVE  r \in Seq(T) /\ IsSelection(s, S, r)
<1>1. PICK f \in Enumerations(S, Len(s)) : r = [i \in DOMAIN f |-> s[f[i]]]
  BY DEF Kept
<1>2. PICK m \in 0..Len(s) : f \in [1..m -> S]
  BY <1>1 DEF Enumerations
<1>3. r \in [1..m -> T]
  BY <1>1, <1>2
<1>4. r \in Seq(T) /\ DOMAIN r = 1..m
  BY <1>2, <1>3
<1>5. \A i, j \in DOMAIN f : f[i] = f[j] => i = j
  <2>1. \A i, j \in DOMAIN f : i < j => f[i] < f[j]
    BY <1>1 DEF Enumerations
  <2>2. \A i \in 1..m : f[i] \in DOMAIN s /\ f[i] \in Int
    BY <1>2
  <2> QED
    BY <1>2, <2>1, <2>2
<1>6. Range(f) = S
  BY <1>1 DEF Enumerations
<1> QED
  BY <1>1, <1>2, <1>4, <1>5, <1>6 DEF Range, IsSelection
=================================================================================
