------------------------------ MODULE EngineProofs ------------------------------
(***************************************************************************)
(* Proofs about Engine.tla, for every set of tables, columns and values    *)
(* and every bound: the constraints hold in every reachable state, as long *)
(* as the statements are CarefulScripts.                                   *)
(***************************************************************************)
EXTENDS Engine, RelationalProofs

---------------------------------------------------------------------------------
(* The instance of Database has its own copy of what Relational defines *)

LEMMA SameVal == storage!Val = Val
  BY DEF storage!Val, Val

LEMMA SameData == storage!Data = Data
  BY SameVal DEF storage!Data, storage!Maps, Data, Maps

LEMMA SameChanges == storage!Changes = Changes
  BY DEF storage!Changes, Changes, storage!Operations, Operations

LEMMA SameIndexDefinition == storage!IndexDefinition = IndexDefinition
  BY DEF storage!IndexDefinition, IndexDefinition

LEMMA SameIsMap ==
    ASSUME NEW f, NEW S, NEW T
    PROVE  storage!IsMap(f, S, T) <=> IsMap(f, S, T)
  BY DEF storage!IsMap, IsMap

LEMMA SameChange ==
    ASSUME NEW op, NEW t, NEW columns, NEW renamed, NEW index
    PROVE  storage!Change(op, t, columns, renamed, index) = Change(op, t, columns, renamed, index)
  BY DEF storage!Change, Change

LEMMA SameEdits ==
    /\ \A f, k, v : storage!Put(f, k, v) = Put(f, k, v)
    /\ \A f, D : storage!Without(f, D) = Without(f, D)
    /\ \A f, old, new : storage!WithRenamed(f, old, new) = WithRenamed(f, old, new)
    /\ \A data, where, a : storage!Updated(data, where, a) = Updated(data, where, a)
    /\ \A data, c, v : storage!WithColumn(data, c, v) = Put(data, c, v)
    /\ \A data, c : storage!WithoutColumn(data, c) = Without(data, {c})
<1>1. \A f, g : storage!Override(f, g) = Override(f, g)
  BY DEF storage!Override, Override
<1>2. \A f, k, v : storage!Put(f, k, v) = Put(f, k, v)
  BY <1>1 DEF storage!Put, Put
<1>3. \A f, D : storage!Without(f, D) = Without(f, D)
  BY DEF storage!Without, Without, storage!Restrict, Restrict
<1>4. \A f, old, new : storage!WithRenamed(f, old, new) = WithRenamed(f, old, new)
  BY <1>2, <1>3 DEF storage!WithRenamed, WithRenamed
<1>5. \A data, where, a : storage!Updated(data, where, a) = Updated(data, where, a)
  BY <1>1 DEF storage!Updated, Updated
<1> QED
  BY <1>2, <1>3, <1>4, <1>5 DEF storage!WithColumn, storage!WithoutColumn

LEMMA SameKept ==
    ASSUME NEW s, NEW S
    PROVE  storage!Kept(s, S) = Kept(s, S)
<1>1. storage!Enumerations(S, Len(s)) = Enumerations(S, Len(s))
  BY DEF storage!Enumerations, Enumerations, storage!Range, Range
<1> QED
  BY <1>1 DEF storage!Kept, Kept

LEMMA ContentsAre ==
    ASSUME NEW d
    PROVE  storage!IsContents(d) <=>
             /\ d = [schema |-> d.schema, rows |-> d.rows, indexes |-> d.indexes, log |-> d.log]
             /\ IsMap(d.schema, Tables, SUBSET Columns)
             /\ IsMap(d.rows, Tables, Seq(Data))
             /\ IsMap(d.indexes, IndexNames, IndexDefinition)
             /\ d.log \in Seq(Changes)
  BY SameData, SameChanges, SameIndexDefinition, SameIsMap DEF storage!IsContents

---------------------------------------------------------------------------------
(* What the invariant says of one table *)

LEMMA Shape ==
    ASSUME NEW d, NEW cons, Shaped(d, cons), NEW t \in DOMAIN cons
    PROVE  /\ t \in Tables /\ t \in DOMAIN d.rows /\ t \in DOMAIN d.schema
           /\ d.rows[t] \in Seq(Data)
           /\ d.schema[t] \in SUBSET Columns
           /\ DOMAIN cons[t] = d.schema[t]
           /\ cons[t] \in [d.schema[t] -> Declaration]
           /\ \A i \in DOMAIN d.rows[t] : DOMAIN d.rows[t][i] = d.schema[t]
           /\ \A i \in DOMAIN d.rows[t] : \A c \in d.schema[t] :
                  Cell(d.rows[t][i], c) = d.rows[t][i][c]
<1>1. IsMap(d.schema, Tables, SUBSET Columns) /\ IsMap(d.rows, Tables, Seq(Data))
  BY ContentsAre DEF Shaped
<1>2. t \in DOMAIN d.schema /\ cons[t] \in [d.schema[t] -> Declaration]
  BY DEF Shaped, Declared
<1>3. t \in DOMAIN d.rows /\ \A i \in DOMAIN d.rows[t] : DOMAIN d.rows[t][i] = d.schema[t]
  BY <1>2 DEF Shaped, RowsFit
<1> QED
  BY <1>1, <1>2, <1>3 DEF IsMap, Cell

LEMMA Held ==
    ASSUME NEW d, NEW t \in DOMAIN d.rows, NEW c, NEW v
    PROVE  v \in HeldIn(d, t, c) <=>
             \E i \in DOMAIN d.rows[t] : c \in DOMAIN d.rows[t][i] /\ d.rows[t][i][c] = v
  BY DEF HeldIn, Range

---------------------------------------------------------------------------------
(* A statement that writes the rows of one table *)

\* Rows that may take the place of those of table t.
RowsAllowed(d, cons, t, rows) ==
    /\ \A i \in DOMAIN rows : DOMAIN rows[i] = d.schema[t]
    /\ \A i \in DOMAIN rows : \A c \in Mandatory(cons, t) : rows[i][c] # Null
    /\ \A i, j \in DOMAIN rows : \A c \in Distinct(cons, t) :
           rows[i][c] # Null /\ rows[i][c] = rows[j][c] => i = j
    /\ \A i \in DOMAIN rows : \A c \in DOMAIN cons[t] : \A r \in cons[t][c].references :
           r.table # t => rows[i][c] \in HeldIn(d, r.table, r.column) \cup {Null}
    /\ \A u \in DOMAIN cons \ {t} : \A c \in DOMAIN cons[u] : \A r \in cons[u][c].references :
           r.table = t =>
               \A i \in DOMAIN d.rows[u] :
                   \/ d.rows[u][i][c] = Null
                   \/ \E j \in DOMAIN rows : rows[j][r.column] = d.rows[u][i][c]

RowsPut(d, e, t, rows) == e = [d EXCEPT !.rows[t] = rows]

LEMMA RowsWritten ==
    ASSUME NEW d, NEW e, NEW cons, Sound(d, cons), NEW t \in DOMAIN d.rows,
           NEW rows \in Seq(Data), RowsAllowed(d, cons, t, rows),
           RowsPut(d, e, t, rows)
    PROVE  Sound(e, cons)
<1>1. /\ Shaped(d, cons)
      /\ d = [schema |-> d.schema, rows |-> d.rows, indexes |-> d.indexes, log |-> d.log]
  BY ContentsAre DEF Sound, Shaped
<1>2. /\ e.schema = d.schema
      /\ e.rows = [d.rows EXCEPT ![t] = rows]
      /\ e.indexes = d.indexes /\ e.log = d.log
      /\ e = [schema |-> e.schema, rows |-> e.rows, indexes |-> e.indexes, log |-> e.log]
  BY <1>1 DEF RowsPut
<1>3. DOMAIN e.rows = DOMAIN d.rows /\ e.rows[t] = rows
      /\ \A u \in DOMAIN d.rows \ {t} : e.rows[u] = d.rows[u]
  BY <1>2
<1>4. t \in DOMAIN cons /\ DOMAIN cons = DOMAIN d.rows
  BY <1>1 DEF Shaped, Declared, RowsFit
<1>5. Shaped(e, cons)
  <2>1. storage!IsContents(e)
    <3>1. IsMap(d.rows, Tables, Seq(Data))
      BY <1>1, ContentsAre DEF Shaped
    <3>2. IsMap(e.rows, Tables, Seq(Data))
      BY <3>1, <1>2 DEF IsMap
    <3>3. storage!IsContents(d)
      BY <1>1 DEF Shaped
    <3> QED
      BY <3>2, <3>3, <1>2, ContentsAre
  <2>2. RowsFit(e)
    BY <1>1, <1>2, <1>3 DEF Shaped, RowsFit, RowsAllowed
  <2>3. Declared(e, cons) /\ ReferencesStay(cons) /\ ResolveIn(e, cons)
    BY <1>1, <1>2 DEF Shaped, Declared, ResolveIn
  <2> QED
    BY <2>1, <2>2, <2>3 DEF Shaped
<1>6. \A u \in DOMAIN cons : \A i \in DOMAIN e.rows[u] : \A c \in DOMAIN cons[u] :
          Cell(e.rows[u][i], c) = e.rows[u][i][c]
  <2> TAKE u \in DOMAIN cons
  <2> QED
    BY <1>5, Shape
<1>7. \A u \in DOMAIN cons : \A i \in DOMAIN d.rows[u] : \A c \in DOMAIN cons[u] :
          Cell(d.rows[u][i], c) = d.rows[u][i][c]
  <2> TAKE u \in DOMAIN cons
  <2> QED
    BY <1>1, Shape
<1>8. NotNullIn(e, cons)
  <2> SUFFICES ASSUME NEW u \in DOMAIN cons, NEW i \in DOMAIN e.rows[u], NEW c \in Mandatory(cons, u)
               PROVE  Cell(e.rows[u][i], c) # Null
    BY DEF NotNullIn
  <2>1. c \in DOMAIN cons[u]
    BY DEF Mandatory
  <2>2. CASE u = t
    BY <2>1, <2>2, <1>3, <1>6 DEF RowsAllowed
  <2>3. CASE u # t
    BY <2>1, <2>3, <1>3, <1>4 DEF Sound, NotNullIn
  <2> QED
    BY <2>2, <2>3
<1>9. UniqueIn(e, cons)
  <2> SUFFICES ASSUME NEW u \in DOMAIN cons, NEW i \in DOMAIN e.rows[u], NEW j \in DOMAIN e.rows[u],
                      NEW c \in Distinct(cons, u),
                      Cell(e.rows[u][i], c) # Null, Cell(e.rows[u][i], c) = Cell(e.rows[u][j], c)
               PROVE  i = j
    BY DEF UniqueIn
  <2>1. c \in DOMAIN cons[u]
    BY DEF Distinct
  <2>2. CASE u = t
    BY <2>1, <2>2, <1>3, <1>6 DEF RowsAllowed
  <2>3. CASE u # t
    BY <2>1, <2>3, <1>3, <1>4 DEF Sound, UniqueIn
  <2> QED
    BY <2>2, <2>3
<1>10. ReferencesIn(e, cons)
  <2> SUFFICES ASSUME NEW u \in DOMAIN cons, NEW c \in DOMAIN cons[u],
                      NEW r \in cons[u][c].references, r.table # u,
                      NEW i \in DOMAIN e.rows[u]
               PROVE  Cell(e.rows[u][i], c) \in HeldIn(e, r.table, r.column) \cup {Null}
    BY DEF ReferencesIn, Matched
  <2>1. r.table \in DOMAIN d.schema /\ r.column \in d.schema[r.table]
    BY <1>1 DEF Shaped, ResolveIn
  <2>2. r.table \in DOMAIN d.rows
    BY <2>1, <1>1 DEF Shaped, RowsFit
  <2>3. r.table # t => HeldIn(e, r.table, r.column) = HeldIn(d, r.table, r.column)
    <3> SUFFICES ASSUME r.table # t PROVE HeldIn(e, r.table, r.column) = HeldIn(d, r.table, r.column)
      OBVIOUS
    <3>1. r.table \in DOMAIN e.rows /\ e.rows[r.table] = d.rows[r.table]
      BY <2>2, <1>3
    <3> QED
      BY <2>2, <3>1 DEF HeldIn
  <2>4. CASE u = t
    BY <2>3, <2>4, <1>3, <1>6 DEF RowsAllowed
  <2>5. CASE u # t /\ r.table # t
    <3>1. Cell(d.rows[u][i], c) \in HeldIn(d, r.table, r.column) \cup {Null}
      BY <2>5, <1>3, <1>4 DEF Sound, ReferencesIn, Matched
    <3> QED
      BY <3>1, <2>3, <2>5, <1>3, <1>4
  <2>6. CASE u # t /\ r.table = t
    <3>1. i \in DOMAIN d.rows[u] /\ e.rows[u][i][c] = d.rows[u][i][c]
      BY <2>6, <1>3, <1>4
    <3>2. d.rows[u][i][c] = Null \/ \E j \in DOMAIN rows : rows[j][r.column] = d.rows[u][i][c]
      BY <3>1, <2>6 DEF RowsAllowed
    <3>3. \A j \in DOMAIN rows : r.column \in DOMAIN rows[j]
      BY <2>1, <2>6 DEF RowsAllowed
    <3>4. t \in DOMAIN e.rows
      BY <1>3
    <3>5. d.rows[u][i][c] = Null \/ d.rows[u][i][c] \in HeldIn(e, t, r.column)
      BY <3>2, <3>3, <3>4, <1>3, Held
    <3> QED
      BY <3>1, <3>5, <2>6, <1>6
  <2> QED
    BY <2>4, <2>5, <2>6
<1> QED
  BY <1>5, <1>8, <1>9, <1>10 DEF Sound

\* The facts each of the three statements starts from.
LEMMA TableAt ==
    ASSUME Sound(db, constraints), NEW t \in DOMAIN db.rows
    PROVE  /\ t \in DOMAIN constraints
           /\ db.rows[t] \in Seq(Data)
           /\ db.schema[t] \in SUBSET Columns
           /\ DOMAIN constraints[t] = db.schema[t]
           /\ \A i \in DOMAIN db.rows[t] : DOMAIN db.rows[t][i] = db.schema[t]
           /\ \A i \in DOMAIN db.rows[t] : \A c \in db.schema[t] :
                  Cell(db.rows[t][i], c) = db.rows[t][i][c]
           /\ \A c \in Mandatory(constraints, t) \cup Distinct(constraints, t) : c \in db.schema[t]
<1>1. Shaped(db, constraints)
  BY DEF Sound
<1>2. t \in DOMAIN constraints
  BY <1>1 DEF Shaped, Declared, RowsFit
<1> QED
  BY <1>1, <1>2, Shape DEF Mandatory, Distinct

\* The same rows keep meeting the constraints, and a reference to table t has
\* its match among them.
LEMMA RowsNow ==
    ASSUME Sound(db, constraints), NEW t \in DOMAIN db.rows
    PROVE  /\ \A i \in DOMAIN db.rows[t] : \A c \in Mandatory(constraints, t) :
                  db.rows[t][i][c] # Null
           /\ \A i, j \in DOMAIN db.rows[t] : \A c \in Distinct(constraints, t) :
                  db.rows[t][i][c] # Null /\ db.rows[t][i][c] = db.rows[t][j][c] => i = j
           /\ \A c \in DOMAIN constraints[t] : \A r \in constraints[t][c].references :
                  r.table # t => \A i \in DOMAIN db.rows[t] :
                      db.rows[t][i][c] \in HeldIn(db, r.table, r.column) \cup {Null}
<1>1. t \in DOMAIN constraints /\ DOMAIN constraints[t] = db.schema[t]
  BY TableAt
<1>2. \A i \in DOMAIN db.rows[t] : \A c \in db.schema[t] :
          Cell(db.rows[t][i], c) = db.rows[t][i][c]
  BY TableAt
<1>3. \A c \in Mandatory(constraints, t) \cup Distinct(constraints, t) : c \in db.schema[t]
  BY TableAt
<1> QED
  BY <1>1, <1>2, <1>3 DEF Sound, NotNullIn, UniqueIn, ReferencesIn, Matched

LEMMA Children ==
    ASSUME Sound(db, constraints), NEW t \in DOMAIN db.rows,
           NEW u \in DOMAIN constraints \ {t}, NEW c \in DOMAIN constraints[u],
           NEW r \in constraints[u][c].references, r.table = t,
           NEW i \in DOMAIN db.rows[u]
    PROVE  /\ r \in [table : Tables, column : Columns]
           /\ r.column \in db.schema[t]
           /\ db.rows[u][i][c] \in HeldIn(db, u, c)
           /\ \/ db.rows[u][i][c] = Null
              \/ \E j \in DOMAIN db.rows[t] : db.rows[t][j][r.column] = db.rows[u][i][c]
<1>1. u \in DOMAIN db.rows /\ DOMAIN constraints[u] = db.schema[u]
      /\ constraints[u] \in [db.schema[u] -> Declaration]
      /\ DOMAIN db.rows[u][i] = db.schema[u]
      /\ Cell(db.rows[u][i], c) = db.rows[u][i][c]
  BY Shape DEF Sound
<1>2. r \in [table : Tables, column : Columns]
  BY <1>1 DEF Declaration
<1>3. r.column \in db.schema[t]
  BY DEF Sound, Shaped, ResolveIn
<1>4. db.rows[u][i][c] \in HeldIn(db, u, c)
  BY <1>1, Held
<1>5. db.rows[u][i][c] \in HeldIn(db, t, r.column) \cup {Null}
  BY <1>1 DEF Sound, ReferencesIn, Matched
<1> QED
  BY <1>2, <1>3, <1>4, <1>5, Held

LEMMA InsertSound ==
    ASSUME Sound(db, constraints), NEW t \in DOMAIN db.rows,
           NEW data \in [db.schema[t] -> Val], Insert(t, data)
    PROVE  Sound(db', constraints)
<1> DEFINE rows == Append(db.rows[t], data)
           n == Len(db.rows[t])
<1>1. /\ db.rows[t] \in Seq(Data) /\ db.schema[t] \in SUBSET Columns
      /\ DOMAIN constraints[t] = db.schema[t]
      /\ \A i \in DOMAIN db.rows[t] : DOMAIN db.rows[t][i] = db.schema[t]
      /\ \A c \in Mandatory(constraints, t) \cup Distinct(constraints, t) : c \in db.schema[t]
  BY TableAt
<1>2. data \in Data
  BY <1>1 DEF Data, Maps
<1>3. /\ rows \in Seq(Data) /\ DOMAIN rows = DOMAIN db.rows[t] \cup {n + 1}
      /\ rows[n + 1] = data
      /\ \A i \in DOMAIN db.rows[t] : rows[i] = db.rows[t][i] /\ i # n + 1
  BY <1>1, <1>2
<1>4. RowsPut(db, db', t, rows)
  BY DEF Insert, storage!Insert, RowsPut
<1>5. /\ \A c \in Mandatory(constraints, t) : data[c] # Null
      /\ \A c \in Distinct(constraints, t) : data[c] # Null => data[c] \notin HeldIn(db, t, c)
      /\ \A c \in DOMAIN constraints[t] : HasParents(t, c, data[c])
  BY DEF Insert
<1> HIDE DEF rows, n
<1>6. RowsAllowed(db, constraints, t, rows)
  <2>1. \A i \in DOMAIN rows : DOMAIN rows[i] = db.schema[t]
    BY <1>1, <1>3
  <2>2. \A i \in DOMAIN rows : \A c \in Mandatory(constraints, t) : rows[i][c] # Null
    BY <1>3, <1>5, RowsNow
  <2>3. \A i, j \in DOMAIN rows : \A c \in Distinct(constraints, t) :
           rows[i][c] # Null /\ rows[i][c] = rows[j][c] => i = j
    <3> SUFFICES ASSUME NEW i \in DOMAIN rows, NEW j \in DOMAIN rows,
                        NEW c \in Distinct(constraints, t),
                        rows[i][c] # Null, rows[i][c] = rows[j][c]
                 PROVE  i = j
      OBVIOUS
    <3>1. \A k \in DOMAIN db.rows[t] : db.rows[t][k][c] \in HeldIn(db, t, c)
      BY <1>1, Held
    <3>2. \A k \in DOMAIN db.rows[t] : data[c] # Null => db.rows[t][k][c] # data[c]
      BY <3>1, <1>5
    <3> QED
      BY <3>2, <1>3, RowsNow
  <2>4. \A i \in DOMAIN rows : \A c \in DOMAIN constraints[t] :
           \A r \in constraints[t][c].references :
               r.table # t => rows[i][c] \in HeldIn(db, r.table, r.column) \cup {Null}
    BY <1>3, <1>5, RowsNow DEF HasParents
  <2>5. \A u \in DOMAIN constraints \ {t} : \A c \in DOMAIN constraints[u] :
           \A r \in constraints[u][c].references : r.table = t =>
               \A i \in DOMAIN db.rows[u] :
                   \/ db.rows[u][i][c] = Null
                   \/ \E j \in DOMAIN rows : rows[j][r.column] = db.rows[u][i][c]
    BY <1>3, Children
  <2> QED
    BY <2>1, <2>2, <2>3, <2>4, <2>5 DEF RowsAllowed
<1> QED
  BY <1>3, <1>4, <1>6, RowsWritten

\* A referencing column as ReferencingColumns lists it.
LEMMA Listed ==
    ASSUME Sound(db, constraints), NEW t \in DOMAIN db.rows,
           NEW u \in DOMAIN constraints, NEW c \in DOMAIN constraints[u],
           NEW r \in constraints[u][c].references, r.table = t
    PROVE  [table |-> u, column |-> c, parent_column |-> r.column] \in ReferencingColumns(t)
<1>1. DOMAIN constraints[u] \in SUBSET Columns /\ constraints[u][c] \in Declaration
  BY Shape DEF Sound
<1>2. r \in [table : Tables, column : Columns]
  BY <1>1 DEF Declaration
<1>3. r.column \in Columns /\ r = [table |-> t, column |-> r.column]
  BY <1>2
<1> QED
  BY <1>1, <1>3 DEF ReferencingColumns

LEMMA UpdateSound ==
    ASSUME Sound(db, constraints), NEW t \in DOMAIN db.rows, NEW where,
           NEW assignments \in Assignments(db.schema[t]), Update(t, where, assignments)
    PROVE  Sound(db', constraints)
<1> DEFINE rows == [i \in DOMAIN db.rows[t] |-> Updated(db.rows[t][i], where, assignments)]
<1>1. /\ db.rows[t] \in Seq(Data) /\ db.schema[t] \in SUBSET Columns
      /\ DOMAIN constraints[t] = db.schema[t]
      /\ \A i \in DOMAIN db.rows[t] : DOMAIN db.rows[t][i] = db.schema[t]
      /\ \A c \in Mandatory(constraints, t) \cup Distinct(constraints, t) : c \in db.schema[t]
  BY TableAt
<1>2. PICK S \in SUBSET db.schema[t] : assignments \in [S -> Val]
  BY DEF Assignments
<1>3. assignments \in Data
  BY <1>1, <1>2 DEF Data, Maps
<1>4. rows \in Seq(Data)
  <2>1. \A i \in DOMAIN db.rows[t] : db.rows[t][i] \in Data
    BY <1>1
  <2>2. \A i \in DOMAIN db.rows[t] : rows[i] \in Data
    BY <2>1, <1>3, DataMapped
  <2>3. rows \in [DOMAIN db.rows[t] -> Data]
    BY <2>2
  <2> HIDE DEF rows
  <2> QED
    BY <1>1, <2>3, SameLength
<1>5. /\ DOMAIN rows = DOMAIN db.rows[t]
      /\ \A i \in DOMAIN rows : rows[i] = Updated(db.rows[t][i], where, assignments)
  OBVIOUS
<1>6. RowsPut(db, db', t, rows)
  BY SameEdits DEF Update, storage!Update, RowsPut
<1> HIDE DEF rows
<1>7. \A i \in DOMAIN rows :
         /\ DOMAIN rows[i] = db.schema[t]
         /\ \A c \in db.schema[t] :
               rows[i][c] = IF db.rows[t][i] \in where /\ c \in DOMAIN assignments
                            THEN assignments[c] ELSE db.rows[t][i][c]
  BY <1>1, <1>2, <1>5 DEF Updated, Override
<1>8. /\ AssignedHaveParents(t, assignments)
      /\ KeysChangedUnreferenced(t, where, assignments)
      /\ StaysDistinct(t, where, assignments)
      /\ NoNullAssigned(t, where, assignments)
  BY DEF Update
<1>9. RowsAllowed(db, constraints, t, rows)
  <2>1. \A i \in DOMAIN rows : DOMAIN rows[i] = db.schema[t]
    BY <1>7
  <2>2. \A i \in DOMAIN rows : \A c \in Mandatory(constraints, t) : rows[i][c] # Null
    BY <1>1, <1>5, <1>7, <1>8, RowsNow DEF NoNullAssigned
  <2>3. \A i, j \in DOMAIN rows : \A c \in Distinct(constraints, t) :
           rows[i][c] # Null /\ rows[i][c] = rows[j][c] => i = j
    <3> SUFFICES ASSUME NEW i \in DOMAIN rows, NEW j \in DOMAIN rows,
                        NEW c \in Distinct(constraints, t),
                        rows[i][c] # Null, rows[i][c] = rows[j][c]
                 PROVE  i = j
      OBVIOUS
    <3>1. CASE c \in DOMAIN assignments
      <4>1. /\ rows[i] = Updated(db.rows[t][i], where, assignments)
            /\ rows[j] = Updated(db.rows[t][j], where, assignments)
        BY <1>5
      <4>2. StaysDistinct(t, where, assignments) /\ c \in Distinct(constraints, t) \cap DOMAIN assignments
            /\ i \in DOMAIN db.rows[t] /\ j \in DOMAIN db.rows[t]
        BY <3>1, <1>5, <1>8
      <4>3. /\ Updated(db.rows[t][i], where, assignments)[c] # Null
            /\ Updated(db.rows[t][i], where, assignments)[c] = Updated(db.rows[t][j], where, assignments)[c]
            => i = j
        BY ONLY <4>2 DEF StaysDistinct
      <4> QED
        BY <4>1, <4>3
    <3>2. CASE c \notin DOMAIN assignments
      <4>1. rows[i][c] = db.rows[t][i][c] /\ rows[j][c] = db.rows[t][j][c]
        BY <3>2, <1>1, <1>7
      <4>2. db.rows[t][i][c] # Null /\ db.rows[t][i][c] = db.rows[t][j][c] => i = j
        BY <1>5, RowsNow
      <4> QED
        BY <4>1, <4>2
    <3> QED
      BY <3>1, <3>2
  <2>4. \A i \in DOMAIN rows : \A c \in DOMAIN constraints[t] :
           \A r \in constraints[t][c].references :
               r.table # t => rows[i][c] \in HeldIn(db, r.table, r.column) \cup {Null}
    <3> SUFFICES ASSUME NEW i \in DOMAIN rows, NEW c \in DOMAIN constraints[t],
                        NEW r \in constraints[t][c].references, r.table # t
                 PROVE  rows[i][c] \in HeldIn(db, r.table, r.column) \cup {Null}
      OBVIOUS
    <3>1. db.rows[t][i][c] \in HeldIn(db, r.table, r.column) \cup {Null}
      BY <1>5, RowsNow
    <3>2. c \in DOMAIN assignments =>
             assignments[c] \in HeldIn(db, r.table, r.column) \cup {Null}
      BY <1>8 DEF AssignedHaveParents, HasParents
    <3> QED
      BY <3>1, <3>2, <1>1, <1>7
  <2>5. \A u \in DOMAIN constraints \ {t} : \A c \in DOMAIN constraints[u] :
           \A r \in constraints[u][c].references : r.table = t =>
               \A i \in DOMAIN db.rows[u] :
                   \/ db.rows[u][i][c] = Null
                   \/ \E j \in DOMAIN rows : rows[j][r.column] = db.rows[u][i][c]
    <3> SUFFICES ASSUME NEW u \in DOMAIN constraints \ {t}, NEW c \in DOMAIN constraints[u],
                        NEW r \in constraints[u][c].references, r.table = t,
                        NEW i \in DOMAIN db.rows[u], db.rows[u][i][c] # Null
                 PROVE  \E j \in DOMAIN rows : rows[j][r.column] = db.rows[u][i][c]
      OBVIOUS
    <3>1. r.column \in db.schema[t] /\ db.rows[u][i][c] \in HeldIn(db, u, c)
      BY Children
    <3>2. PICK j \in DOMAIN db.rows[t] : db.rows[t][j][r.column] = db.rows[u][i][c]
      BY Children
    <3>3. CASE db.rows[t][j] \in where /\ r.column \in DOMAIN assignments
      <4> DEFINE ref == [table |-> u, column |-> c, parent_column |-> r.column]
      <4>1. ref \in ReferencingColumns(t)
        BY Listed
      <4>2. \/ db.rows[t][j][r.column] \in {Null, assignments[r.column]}
            \/ db.rows[t][j][r.column] \notin HeldIn(db, u, c)
        BY <4>1, <3>1, <3>3, <1>1, <1>8 DEF KeysChangedUnreferenced
      <4>3. rows[j][r.column] = assignments[r.column]
        BY <3>1, <3>3, <1>5, <1>7
      <4> QED
        BY <4>2, <4>3, <3>1, <3>2, <1>5
    <3>4. CASE ~(db.rows[t][j] \in where /\ r.column \in DOMAIN assignments)
      BY <3>1, <3>2, <3>4, <1>5, <1>7
    <3> QED
      BY <3>3, <3>4
  <2> QED
    BY <2>1, <2>2, <2>3, <2>4, <2>5 DEF RowsAllowed
<1> QED
  BY <1>4, <1>6, <1>9, RowsWritten

LEMMA DeleteSound ==
    ASSUME Sound(db, constraints), NEW t \in DOMAIN db.rows, NEW where, Delete(t, where)
    PROVE  Sound(db', constraints)
<1> DEFINE S == {i \in DOMAIN db.rows[t] : db.rows[t][i] \notin where}
<1>1. /\ db.rows[t] \in Seq(Data)
      /\ DOMAIN constraints[t] = db.schema[t]
      /\ \A i \in DOMAIN db.rows[t] : DOMAIN db.rows[t][i] = db.schema[t]
      /\ \A c \in Mandatory(constraints, t) \cup Distinct(constraints, t) : c \in db.schema[t]
  BY TableAt
<1>2. PICK rows \in Kept(db.rows[t], S) : RowsPut(db, db', t, rows)
  BY SameKept DEF Delete, storage!Delete, RowsPut
<1>3. S \in SUBSET DOMAIN db.rows[t] /\ \A k \in DOMAIN db.rows[t] : db.rows[t][k] \notin where => k \in S
  OBVIOUS
<1> HIDE DEF S
<1>9. /\ rows \in Seq(Data)
      /\ IsSelection(db.rows[t], S, rows)
  BY <1>1, <1>3, KeptRows
<1>4. PICK f \in [DOMAIN rows -> S] :
         /\ \A i \in DOMAIN rows : rows[i] = db.rows[t][f[i]]
         /\ \A i, j \in DOMAIN rows : f[i] = f[j] => i = j
         /\ \A k \in S : \E i \in DOMAIN rows : f[i] = k
  BY <1>9 DEF IsSelection
<1>5. \A i \in DOMAIN rows : f[i] \in DOMAIN db.rows[t] /\ rows[i] = db.rows[t][f[i]]
  BY <1>3, <1>4
<1>6. \A k \in DOMAIN db.rows[t] :
         db.rows[t][k] \notin where => \E i \in DOMAIN rows : rows[i] = db.rows[t][k]
  BY <1>3, <1>4
<1>7. \A i, j \in DOMAIN rows : f[i] = f[j] => i = j
  BY <1>4
<1>8. RowsAllowed(db, constraints, t, rows)
  <2>1. \A i \in DOMAIN rows : DOMAIN rows[i] = db.schema[t]
    BY <1>1, <1>5
  <2>2. \A i \in DOMAIN rows : \A c \in Mandatory(constraints, t) : rows[i][c] # Null
    BY <1>5, RowsNow
  <2>3. \A i, j \in DOMAIN rows : \A c \in Distinct(constraints, t) :
           rows[i][c] # Null /\ rows[i][c] = rows[j][c] => i = j
    BY <1>5, <1>7, RowsNow
  <2>4. \A i \in DOMAIN rows : \A c \in DOMAIN constraints[t] :
           \A r \in constraints[t][c].references :
               r.table # t => rows[i][c] \in HeldIn(db, r.table, r.column) \cup {Null}
    BY <1>5, RowsNow
  <2>5. \A u \in DOMAIN constraints \ {t} : \A c \in DOMAIN constraints[u] :
           \A r \in constraints[u][c].references : r.table = t =>
               \A i \in DOMAIN db.rows[u] :
                   \/ db.rows[u][i][c] = Null
                   \/ \E j \in DOMAIN rows : rows[j][r.column] = db.rows[u][i][c]
    <3> SUFFICES ASSUME NEW u \in DOMAIN constraints \ {t}, NEW c \in DOMAIN constraints[u],
                        NEW r \in constraints[u][c].references, r.table = t,
                        NEW i \in DOMAIN db.rows[u], db.rows[u][i][c] # Null
                 PROVE  \E j \in DOMAIN rows : rows[j][r.column] = db.rows[u][i][c]
      OBVIOUS
    <3>1. r.column \in db.schema[t] /\ db.rows[u][i][c] \in HeldIn(db, u, c)
      BY Children
    <3>2. PICK k \in DOMAIN db.rows[t] : db.rows[t][k][r.column] = db.rows[u][i][c]
      BY Children
    <3>3. CASE db.rows[t][k] \in where
      <4> DEFINE ref == [table |-> u, column |-> c, parent_column |-> r.column]
      <4>1. ref \in ReferencingColumns(t)
        BY Listed
      <4>2. KeysDeletedUnreferenced(t, where)
        BY DEF Delete
      <4>3. \E other \in Range(db.rows[t]) \ where : other[r.column] = db.rows[t][k][r.column]
        BY <4>1, <4>2, <3>1, <3>2, <3>3, <1>1 DEF KeysDeletedUnreferenced
      <4>4. PICK l \in DOMAIN db.rows[t] : /\ db.rows[t][l] \notin where
                                           /\ db.rows[t][l][r.column] = db.rows[t][k][r.column]
        BY <4>3 DEF Range
      <4> QED
        BY <4>4, <3>2, <1>6
    <3>4. CASE db.rows[t][k] \notin where
      BY <3>2, <3>4, <1>6
    <3> QED
      BY <3>3, <3>4
  <2> QED
    BY <2>1, <2>2, <2>3, <2>4, <2>5 DEF RowsAllowed
<1> QED
  BY <1>2, <1>9, <1>8, RowsWritten

---------------------------------------------------------------------------------
(* A statement that alters one table *)

\* Rows, columns and constraints that may take the place of those of table t:
\* a column is unconstrained or comes, with its cells, from a column of t, and
\* the columns that statements do not alter stay as they are.
Alteration(d, cons, t, rows, columns, declared) ==
    /\ DOMAIN rows = DOMAIN d.rows[t]
    /\ \A i \in DOMAIN rows : DOMAIN rows[i] = columns
    /\ declared \in [columns -> Declaration]
    /\ \A c \in columns :
         \/ declared[c] = Unconstrained
         \/ \E b \in d.schema[t] : /\ declared[c] = cons[t][b]
                                   /\ \A i \in DOMAIN rows : rows[i][c] = d.rows[t][i][b]
    /\ \A c \in d.schema[t] \ Alterable :
         c \in columns /\ \A i \in DOMAIN rows : rows[i][c] = d.rows[t][i][c]

Altered(d, cons, e, econs, t, rows, columns, declared) ==
    /\ storage!IsContents(e)
    /\ e.schema = [d.schema EXCEPT ![t] = columns]
    /\ e.rows = [d.rows EXCEPT ![t] = rows]
    /\ econs = [cons EXCEPT ![t] = declared]

LEMMA TableAltered ==
    ASSUME NEW d, NEW cons, NEW e, NEW econs, Sound(d, cons), NEW t \in DOMAIN d.rows,
           NEW rows, NEW columns, NEW declared,
           Alteration(d, cons, t, rows, columns, declared),
           Altered(d, cons, e, econs, t, rows, columns, declared)
    PROVE  Sound(e, econs)
<1>1. Shaped(d, cons)
  BY DEF Sound
<1>2. /\ DOMAIN d.rows = DOMAIN d.schema /\ DOMAIN cons = DOMAIN d.schema
      /\ \A u \in DOMAIN cons : cons[u] \in [d.schema[u] -> Declaration]
  BY <1>1 DEF Shaped, RowsFit, Declared
<1>3. /\ DOMAIN e.rows = DOMAIN d.rows /\ DOMAIN e.schema = DOMAIN d.schema
      /\ DOMAIN econs = DOMAIN cons
      /\ e.rows[t] = rows /\ e.schema[t] = columns /\ econs[t] = declared
      /\ \A u \in DOMAIN cons \ {t} :
            e.rows[u] = d.rows[u] /\ e.schema[u] = d.schema[u] /\ econs[u] = cons[u]
  BY <1>2 DEF Altered
\* Where a constraint of the altered table comes from.
<1>4. ASSUME NEW c \in DOMAIN declared, declared[c] # Unconstrained
      PROVE  \E b \in DOMAIN cons[t] : /\ declared[c] = cons[t][b]
                                       /\ \A i \in DOMAIN rows : rows[i][c] = d.rows[t][i][b]
  BY <1>2, <1>4 DEF Alteration
\* A column that a reference names is still there, with its cells.
<1>5. ASSUME NEW u \in DOMAIN cons, NEW c \in DOMAIN cons[u], NEW r \in cons[u][c].references
      PROVE  /\ r.table \in DOMAIN e.schema /\ r.column \in e.schema[r.table]
             /\ \A v : v \in HeldIn(d, r.table, r.column) => v \in HeldIn(e, r.table, r.column)
  <2>1. /\ r.column \notin Alterable
        /\ r.table \in DOMAIN d.rows /\ r.column \in d.schema[r.table]
    BY <1>1, <1>2 DEF Shaped, ReferencesStay, ResolveIn
  <2>2. CASE r.table # t
    <3>1. e.rows[r.table] = d.rows[r.table] /\ e.schema[r.table] = d.schema[r.table]
      BY <2>1, <2>2, <1>2, <1>3
    <3> QED
      BY <3>1, <2>1, <1>2, <1>3 DEF HeldIn
  <2>3. CASE r.table = t
    <3>1. r.column \in columns /\ \A i \in DOMAIN rows : rows[i][r.column] = d.rows[t][i][r.column]
      BY <2>1, <2>3 DEF Alteration
    <3>2. \A i \in DOMAIN rows : r.column \in DOMAIN rows[i]
      BY <3>1 DEF Alteration
    <3>3. DOMAIN rows = DOMAIN d.rows[t] /\ t \in DOMAIN e.rows
      BY <1>3 DEF Alteration
    <3>4. ASSUME NEW v, v \in HeldIn(d, t, r.column)
          PROVE  v \in HeldIn(e, t, r.column)
      <4>1. PICK i \in DOMAIN d.rows[t] : d.rows[t][i][r.column] = v
        BY <3>4, Held
      <4> QED
        BY <4>1, <3>1, <3>2, <3>3, <1>3, Held
    <3>5. t \in DOMAIN e.schema /\ r.column \in e.schema[t]
      BY <3>1, <1>2, <1>3
    <3> QED
      BY ONLY <3>4, <3>5, <2>3
  <2> QED
    BY <2>2, <2>3
\* Every constraint is one of the old ones, of a column with the same cells.
<1>6. ASSUME NEW u \in DOMAIN econs, NEW c \in DOMAIN econs[u], econs[u][c] # Unconstrained
      PROVE  \E b \in DOMAIN cons[u] :
                /\ econs[u][c] = cons[u][b]
                /\ DOMAIN e.rows[u] = DOMAIN d.rows[u]
                /\ \A i \in DOMAIN e.rows[u] : Cell(e.rows[u][i], c) = Cell(d.rows[u][i], b)
  <2>1. CASE u = t
    <3>1. PICK b \in DOMAIN cons[t] : /\ declared[c] = cons[t][b]
                                      /\ \A i \in DOMAIN rows : rows[i][c] = d.rows[t][i][b]
      BY <2>1, <1>3, <1>4, <1>6
    <3>2. \A i \in DOMAIN d.rows[t] : Cell(d.rows[t][i], b) = d.rows[t][i][b]
      BY <1>1, <1>2, Shape
    <3>3. DOMAIN rows = DOMAIN d.rows[t] /\ \A i \in DOMAIN rows : c \in DOMAIN rows[i]
      BY <2>1, <1>3 DEF Alteration
    <3>4. \A i \in DOMAIN rows : Cell(rows[i], c) = rows[i][c]
      BY <3>3 DEF Cell
    <3> QED
      BY <3>1, <3>2, <3>3, <3>4, <2>1, <1>3
  <2>2. CASE u # t
    BY <2>2, <1>3
  <2> QED
    BY <2>1, <2>2
<1>7. Unconstrained.references = {} /\ ~Unconstrained.not_null /\ ~Unconstrained.unique
      /\ ~Unconstrained.primary_key
  BY DEF Unconstrained
<1>8. \A u \in DOMAIN econs : \A c \in DOMAIN econs[u] : \A r \in econs[u][c].references :
         /\ r.column \notin Alterable
         /\ r.table \in DOMAIN e.schema /\ r.column \in e.schema[r.table]
  <2> SUFFICES ASSUME NEW u \in DOMAIN econs, NEW c \in DOMAIN econs[u],
                      NEW r \in econs[u][c].references
               PROVE  /\ r.column \notin Alterable
                      /\ r.table \in DOMAIN e.schema /\ r.column \in e.schema[r.table]
    OBVIOUS
  <2>1. PICK b \in DOMAIN cons[u] : econs[u][c] = cons[u][b]
    BY <1>6, <1>7
  <2>2. u \in DOMAIN cons /\ r \in cons[u][b].references
    BY <2>1, <1>3
  <2> QED
    BY <2>2, <1>1, <1>5 DEF Shaped, ReferencesStay
<1>9. Shaped(e, econs)
  <2>1. storage!IsContents(e)
    BY DEF Altered
  <2>2. RowsFit(e)
    BY <1>1, <1>2, <1>3 DEF Shaped, RowsFit, Alteration
  <2>3. Declared(e, econs)
    BY <1>2, <1>3 DEF Declared, Alteration
  <2> QED
    BY <2>1, <2>2, <2>3, <1>8 DEF Shaped, ReferencesStay, ResolveIn
<1>10. NotNullIn(e, econs)
  <2> SUFFICES ASSUME NEW u \in DOMAIN econs, NEW i \in DOMAIN e.rows[u], NEW c \in Mandatory(econs, u)
               PROVE  Cell(e.rows[u][i], c) # Null
    BY DEF NotNullIn
  <2>1. c \in DOMAIN econs[u] /\ (econs[u][c].not_null \/ econs[u][c].primary_key)
    BY DEF Mandatory
  <2>2. PICK b \in DOMAIN cons[u] :
           /\ econs[u][c] = cons[u][b]
           /\ DOMAIN e.rows[u] = DOMAIN d.rows[u]
           /\ \A k \in DOMAIN e.rows[u] : Cell(e.rows[u][k], c) = Cell(d.rows[u][k], b)
    BY <2>1, <1>6, <1>7
  <2>3. b \in Mandatory(cons, u)
    BY <2>1, <2>2 DEF Mandatory
  <2> QED
    BY <2>2, <2>3, <1>3 DEF Sound, NotNullIn
<1>11. UniqueIn(e, econs)
  <2> SUFFICES ASSUME NEW u \in DOMAIN econs, NEW i \in DOMAIN e.rows[u], NEW j \in DOMAIN e.rows[u],
                      NEW c \in Distinct(econs, u),
                      Cell(e.rows[u][i], c) # Null, Cell(e.rows[u][i], c) = Cell(e.rows[u][j], c)
               PROVE  i = j
    BY DEF UniqueIn
  <2>1. c \in DOMAIN econs[u] /\ (econs[u][c].unique \/ econs[u][c].primary_key)
    BY DEF Distinct
  <2>2. PICK b \in DOMAIN cons[u] :
           /\ econs[u][c] = cons[u][b]
           /\ DOMAIN e.rows[u] = DOMAIN d.rows[u]
           /\ \A k \in DOMAIN e.rows[u] : Cell(e.rows[u][k], c) = Cell(d.rows[u][k], b)
    BY <2>1, <1>6, <1>7
  <2>3. b \in Distinct(cons, u)
    BY <2>1, <2>2 DEF Distinct
  <2> QED
    BY <2>2, <2>3, <1>3 DEF Sound, UniqueIn
<1>12. ReferencesIn(e, econs)
  <2> SUFFICES ASSUME NEW u \in DOMAIN econs, NEW c \in DOMAIN econs[u],
                      NEW r \in econs[u][c].references, r.table # u,
                      NEW i \in DOMAIN e.rows[u]
               PROVE  Cell(e.rows[u][i], c) \in HeldIn(e, r.table, r.column) \cup {Null}
    BY DEF ReferencesIn, Matched
  <2>1. PICK b \in DOMAIN cons[u] :
           /\ econs[u][c] = cons[u][b]
           /\ DOMAIN e.rows[u] = DOMAIN d.rows[u]
           /\ \A k \in DOMAIN e.rows[u] : Cell(e.rows[u][k], c) = Cell(d.rows[u][k], b)
    BY <1>6, <1>7
  <2>2. u \in DOMAIN cons /\ r \in cons[u][b].references
    BY <2>1, <1>3
  <2>3. Cell(d.rows[u][i], b) \in HeldIn(d, r.table, r.column) \cup {Null}
    BY <2>1, <2>2 DEF Sound, ReferencesIn, Matched
  <2> QED
    BY <2>1, <2>2, <2>3, <1>5
<1> QED
  BY <1>9, <1>10, <1>11, <1>12 DEF Sound

\* The parts of the contents the three statements start from and leave.
LEMMA AlteredTyped ==
    ASSUME NEW d, storage!IsContents(d), NEW t, t \in Tables,
           NEW rows \in Seq(Data), NEW columns \in SUBSET Columns,
           NEW indexes, IsMap(indexes, IndexNames, IndexDefinition), NEW ch \in Changes,
           NEW e,
           e = [schema |-> [d.schema EXCEPT ![t] = columns], rows |-> [d.rows EXCEPT ![t] = rows],
                indexes |-> indexes, log |-> Append(d.log, ch)]
    PROVE  storage!IsContents(e)
<1>1. /\ IsMap(d.schema, Tables, SUBSET Columns) /\ IsMap(d.rows, Tables, Seq(Data))
      /\ d.log \in Seq(Changes)
  BY ContentsAre
<1>2. IsMap(e.schema, Tables, SUBSET Columns) /\ IsMap(e.rows, Tables, Seq(Data))
  BY <1>1 DEF IsMap
<1>3. e.log \in Seq(Changes)
  BY <1>1
<1> QED
  BY <1>2, <1>3, ContentsAre

LEMMA AddColumnSound ==
    ASSUME CarefulScripts, Sound(db, constraints), NEW t \in Tables, NEW c \in Columns,
           NEW declared \in AddedDeclarations, NEW default \in Val,
           AddColumn(t, c, declared, default)
    PROVE  Sound(db', constraints')
<1> DEFINE rows == [i \in DOMAIN db.rows[t] |-> Put(db.rows[t][i], c, default)]
           columns == db.schema[t] \cup {c}
           all == Put(constraints[t], c, declared)
<1>1. t \in DOMAIN db.schema /\ c \notin db.schema[t]
  BY DEF AddColumn, storage!AddColumn, storage!Exists
<1>2. t \in DOMAIN db.rows
  BY <1>1 DEF Sound, Shaped, RowsFit
<1>3. /\ t \in DOMAIN constraints
      /\ db.rows[t] \in Seq(Data) /\ db.schema[t] \in SUBSET Columns
      /\ DOMAIN constraints[t] = db.schema[t]
      /\ \A i \in DOMAIN db.rows[t] : DOMAIN db.rows[t][i] = db.schema[t]
  BY <1>2, TableAt
<1>4. declared = Unconstrained
  BY DEF CarefulScripts
<1>5. /\ storage!IsContents(db)
      /\ db = [schema |-> db.schema, rows |-> db.rows, indexes |-> db.indexes, log |-> db.log]
      /\ IsMap(db.indexes, IndexNames, IndexDefinition)
  BY ContentsAre DEF Sound, Shaped
<1>6. rows \in Seq(Data)
  <2>1. ASSUME NEW i \in DOMAIN db.rows[t]
        PROVE  rows[i] \in Data
    <3>1. db.rows[t][i] \in Data
      BY <1>3
    <3> QED
      BY <3>1, DataMapped DEF WithColumn
  <2>2. rows \in [DOMAIN db.rows[t] -> Data]
    BY <2>1
  <2> HIDE DEF rows
  <2> QED
    BY <1>3, <2>2, SameLength
<1>7. /\ DOMAIN rows = DOMAIN db.rows[t]
      /\ \A i \in DOMAIN rows : rows[i] = Put(db.rows[t][i], c, default)
  OBVIOUS
<1>8. /\ db' = [schema |-> [db.schema EXCEPT ![t] = columns], rows |-> [db.rows EXCEPT ![t] = rows],
                indexes |-> db.indexes,
                log |-> Append(db.log, Change("ALTER_TABLE_ADD_COLUMN", t, {c}, {}, {}))]
      /\ constraints' = [constraints EXCEPT ![t] = all]
  BY <1>5, SameEdits, SameChange DEF AddColumn, storage!AddColumn
<1> HIDE DEF rows
<1>9. storage!IsContents(db')
  <2>1. Change("ALTER_TABLE_ADD_COLUMN", t, {c}, {}, {}) \in Changes
    BY ChangeTyped DEF Operations
  <2>2. columns \in SUBSET Columns
    BY <1>3
  <2> HIDE DEF columns
  <2> QED
    BY <1>5, <1>6, <1>8, <2>1, <2>2, AlteredTyped
<1>10. Altered(db, constraints, db', constraints', t, rows, columns, all)
  BY <1>8, <1>9 DEF Altered
<1>11. Alteration(db, constraints, t, rows, columns, all)
  <2>1. ASSUME NEW i \in DOMAIN rows
        PROVE  /\ DOMAIN rows[i] = columns
               /\ \A b \in db.schema[t] : rows[i][b] = db.rows[t][i][b]
    <3>1. rows[i] = Put(db.rows[t][i], c, default) /\ DOMAIN db.rows[t][i] = db.schema[t]
      BY <1>3, <1>7
    <3> QED
      BY <3>1, <1>1 DEF Put, Override
  <2>2. all[c] = Unconstrained /\ \A b \in db.schema[t] : all[b] = constraints[t][b]
    BY <1>1, <1>3, <1>4 DEF Put, Override
  <2>3. all \in [columns -> Declaration]
    <3>1. Unconstrained \in Declaration
      BY DEF Unconstrained, Declaration
    <3>2. constraints[t] \in [db.schema[t] -> Declaration]
      BY <1>3 DEF Sound, Shaped, Declared
    <3> QED
      BY <3>1, <3>2, <1>4 DEF Put, Override
  <2>4. \A b \in columns : \/ all[b] = Unconstrained
                           \/ b \in db.schema[t] /\ all[b] = constraints[t][b]
    BY <2>2
  <2> HIDE DEF all
  <2> QED
    BY <2>1, <2>3, <2>4, <1>7 DEF Alteration
<1> HIDE DEF columns, all
<1> QED
  BY <1>2, <1>10, <1>11, TableAltered

LEMMA DropColumnSound ==
    ASSUME CarefulScripts, Sound(db, constraints), NEW t \in Tables, NEW c \in Alterable,
           DropColumn(t, c)
    PROVE  Sound(db', constraints')
<1> DEFINE rows == [i \in DOMAIN db.rows[t] |-> Without(db.rows[t][i], {c})]
           columns == db.schema[t] \ {c}
           all == Without(constraints[t], {c})
           indexes == Without(db.indexes, storage!IndexesOnColumn(db.indexes, t, c))
<1>1. t \in DOMAIN db.schema /\ c \in db.schema[t]
  BY DEF DropColumn, storage!DropColumn, storage!Exists
<1>2. t \in DOMAIN db.rows
  BY <1>1 DEF Sound, Shaped, RowsFit
<1>3. /\ t \in DOMAIN constraints
      /\ db.rows[t] \in Seq(Data) /\ db.schema[t] \in SUBSET Columns
      /\ DOMAIN constraints[t] = db.schema[t]
      /\ \A i \in DOMAIN db.rows[t] : DOMAIN db.rows[t][i] = db.schema[t]
  BY <1>2, TableAt
<1>5. /\ storage!IsContents(db)
      /\ db = [schema |-> db.schema, rows |-> db.rows, indexes |-> db.indexes, log |-> db.log]
      /\ IsMap(db.indexes, IndexNames, IndexDefinition)
  BY ContentsAre DEF Sound, Shaped
<1>6. rows \in Seq(Data)
  <2>1. ASSUME NEW i \in DOMAIN db.rows[t]
        PROVE  rows[i] \in Data
    <3>1. db.rows[t][i] \in Data
      BY <1>3
    <3> QED
      BY <3>1, DataMapped DEF WithoutColumn
  <2>2. rows \in [DOMAIN db.rows[t] -> Data]
    BY <2>1
  <2> HIDE DEF rows
  <2> QED
    BY <1>3, <2>2, SameLength
<1>7. /\ DOMAIN rows = DOMAIN db.rows[t]
      /\ \A i \in DOMAIN rows : rows[i] = Without(db.rows[t][i], {c})
  OBVIOUS
<1>8. /\ db' = [schema |-> [db.schema EXCEPT ![t] = columns], rows |-> [db.rows EXCEPT ![t] = rows],
                indexes |-> indexes,
                log |-> Append(db.log, Change("ALTER_TABLE_DROP_COLUMN", t, {c}, {}, {}))]
      /\ constraints' = [constraints EXCEPT ![t] = all]
  BY <1>5, SameEdits, SameChange DEF DropColumn, storage!DropColumn
<1> HIDE DEF rows
<1>9. storage!IsContents(db')
  <2>1. Change("ALTER_TABLE_DROP_COLUMN", t, {c}, {}, {}) \in Changes
    BY <1>1, <1>3, ChangeTyped DEF Operations
  <2>2. columns \in SUBSET Columns
    BY <1>3
  <2>3. IsMap(indexes, IndexNames, IndexDefinition)
    BY <1>5, WithoutIsMap
  <2> HIDE DEF columns, indexes
  <2> QED
    BY <1>6, <1>5, <1>8, <2>1, <2>2, <2>3, AlteredTyped
<1>10. Altered(db, constraints, db', constraints', t, rows, columns, all)
  BY <1>8, <1>9 DEF Altered
<1>11. Alteration(db, constraints, t, rows, columns, all)
  <2>1. \A i \in DOMAIN rows : /\ DOMAIN rows[i] = columns
                               /\ \A b \in columns : rows[i][b] = db.rows[t][i][b]
    BY <1>3, <1>7 DEF Without, Restrict
  <2>2. DOMAIN all = columns /\ \A b \in columns : all[b] = constraints[t][b]
    BY <1>3 DEF Without, Restrict
  <2>3. all \in [columns -> Declaration]
    <3>1. constraints[t] \in [db.schema[t] -> Declaration]
      BY <1>3 DEF Sound, Shaped, Declared
    <3> QED
      BY <3>1 DEF Without, Restrict
  <2>4. columns \subseteq db.schema[t] /\ \A b \in db.schema[t] \ Alterable : b \in columns
    OBVIOUS
  <2> HIDE DEF all, columns
  <2> QED
    BY <2>1, <2>2, <2>3, <2>4, <1>7 DEF Alteration
<1> HIDE DEF columns, all
<1> QED
  BY <1>2, <1>10, <1>11, TableAltered

LEMMA RenameColumnSound ==
    ASSUME CarefulScripts, Sound(db, constraints), NEW t \in Tables, NEW old \in Alterable,
           NEW new \in Columns, RenameColumn(t, old, new)
    PROVE  Sound(db', constraints')
<1> DEFINE rows == [i \in DOMAIN db.rows[t] |-> WithRenamed(db.rows[t][i], old, new)]
           columns == (db.schema[t] \ {old}) \cup {new}
           all == WithRenamed(constraints[t], old, new)
           indexes == [i \in DOMAIN db.indexes |->
                          IF i \in storage!IndexesOnColumn(db.indexes, t, old)
                          THEN [db.indexes[i] EXCEPT !.column = new] ELSE db.indexes[i]]
<1>1. t \in DOMAIN db.schema /\ old \in db.schema[t] /\ new \notin db.schema[t]
  BY DEF RenameColumn, storage!RenameColumn, storage!Exists
<1>2. t \in DOMAIN db.rows
  BY <1>1 DEF Sound, Shaped, RowsFit
<1>3. /\ t \in DOMAIN constraints
      /\ db.rows[t] \in Seq(Data) /\ db.schema[t] \in SUBSET Columns
      /\ DOMAIN constraints[t] = db.schema[t]
      /\ \A i \in DOMAIN db.rows[t] : DOMAIN db.rows[t][i] = db.schema[t]
  BY <1>2, TableAt
<1>4. old \in Columns
  BY <1>1, <1>3
<1>5. /\ storage!IsContents(db)
      /\ db = [schema |-> db.schema, rows |-> db.rows, indexes |-> db.indexes, log |-> db.log]
      /\ IsMap(db.indexes, IndexNames, IndexDefinition)
  BY ContentsAre DEF Sound, Shaped
<1>6. rows \in Seq(Data)
  <2>1. ASSUME NEW i \in DOMAIN db.rows[t]
        PROVE  rows[i] \in Data
    <3>1. db.rows[t][i] \in Data
      BY <1>3
    <3> QED
      BY <3>1, <1>4, DataMapped
  <2>2. rows \in [DOMAIN db.rows[t] -> Data]
    BY <2>1
  <2> HIDE DEF rows
  <2> QED
    BY <1>3, <2>2, SameLength
<1>7. /\ DOMAIN rows = DOMAIN db.rows[t]
      /\ \A i \in DOMAIN rows : rows[i] = WithRenamed(db.rows[t][i], old, new)
  OBVIOUS
<1>8. /\ db' = [schema |-> [db.schema EXCEPT ![t] = columns], rows |-> [db.rows EXCEPT ![t] = rows],
                indexes |-> indexes,
                log |-> Append(db.log, Change("ALTER_TABLE_RENAME_COLUMN", t, {old}, {new}, {}))]
      /\ constraints' = [constraints EXCEPT ![t] = all]
  BY <1>5, SameEdits, SameChange DEF RenameColumn, storage!RenameColumn
<1> HIDE DEF rows
<1>9. storage!IsContents(db')
  <2>1. Change("ALTER_TABLE_RENAME_COLUMN", t, {old}, {new}, {}) \in Changes
    BY <1>4, ChangeTyped DEF Operations
  <2>2. columns \in SUBSET Columns
    BY <1>3
  <2>3. IsMap(indexes, IndexNames, IndexDefinition)
    BY <1>5 DEF IsMap, IndexDefinition
  <2> HIDE DEF columns, indexes
  <2> QED
    BY <1>6, <1>5, <1>8, <2>1, <2>2, <2>3, AlteredTyped
<1>10. Altered(db, constraints, db', constraints', t, rows, columns, all)
  BY <1>8, <1>9 DEF Altered
<1>11. Alteration(db, constraints, t, rows, columns, all)
  <2>1. ASSUME NEW i \in DOMAIN rows
        PROVE  /\ DOMAIN rows[i] = columns
               /\ rows[i][new] = db.rows[t][i][old]
               /\ \A b \in db.schema[t] \ {old} : rows[i][b] = db.rows[t][i][b]
    <3>1. rows[i] = WithRenamed(db.rows[t][i], old, new) /\ DOMAIN db.rows[t][i] = db.schema[t]
      BY <1>3, <1>7
    <3> DEFINE f == db.rows[t][i]
    <3>2. old \in DOMAIN f /\ new \notin DOMAIN f /\ DOMAIN f = db.schema[t]
      BY <3>1, <1>1
    <3>3. rows[i] = WithRenamed(f, old, new)
      BY <3>1
    <3> HIDE DEF f
    <3>4. /\ DOMAIN rows[i] = (DOMAIN f \ {old}) \cup {new}
          /\ rows[i][new] = f[old]
          /\ \A b \in DOMAIN f \ {old} : rows[i][b] = f[b]
      BY ONLY <3>2, <3>3 DEF WithRenamed, Put, Override, Without, Restrict
    <3> QED
      BY <3>2, <3>4 DEF f
  <2>2. /\ DOMAIN all = columns /\ all[new] = constraints[t][old]
        /\ \A b \in db.schema[t] \ {old} : all[b] = constraints[t][b]
        /\ all = [b \in DOMAIN all |-> all[b]]
    <3> DEFINE f == constraints[t]
    <3>1. old \in DOMAIN f /\ new \notin DOMAIN f /\ DOMAIN f = db.schema[t]
      BY <1>1, <1>3
    <3>2. all = WithRenamed(f, old, new)
      OBVIOUS
    <3> HIDE DEF f, all
    <3>3. /\ DOMAIN all = (DOMAIN f \ {old}) \cup {new}
          /\ all[new] = f[old]
          /\ \A b \in DOMAIN f \ {old} : all[b] = f[b]
          /\ all = [b \in DOMAIN all |-> all[b]]
      BY ONLY <3>1, <3>2 DEF WithRenamed, Put, Override, Without, Restrict
    <3> QED
      BY <3>1, <3>3 DEF f
  <2> HIDE DEF all
  <2>3. all \in [columns -> Declaration]
    <3>1. constraints[t] \in [db.schema[t] -> Declaration]
      BY <1>3 DEF Sound, Shaped, Declared
    <3>2. \A b \in columns : all[b] \in Declaration
      BY <3>1, <2>2, <1>1
    <3> QED
      BY <3>2, <2>2
  <2>4. \A b \in db.schema[t] \ Alterable : b \in db.schema[t] \ {old} /\ b \in columns
    OBVIOUS
  <2>5. \A c \in columns : \E b \in db.schema[t] :
           all[c] = constraints[t][b] /\ \A i \in DOMAIN rows : rows[i][c] = db.rows[t][i][b]
    BY <2>1, <2>2, <1>1
  <2> HIDE DEF columns
  <2> QED
    BY <2>1, <2>3, <2>4, <2>5, <1>7 DEF Alteration
<1> HIDE DEF columns, all
<1> QED
  BY <1>2, <1>10, <1>11, TableAltered

---------------------------------------------------------------------------------
(* CREATE TABLE, DROP TABLE and the indexes *)

LEMMA CreateTableSound ==
    ASSUME CarefulScripts, Sound(db, constraints), NEW t \in Tables,
           NEW columns \in SUBSET Columns, NEW declared \in [columns -> Declarations],
           CreateTable(t, declared)
    PROVE  Sound(db', constraints')
<1>1. Shaped(db, constraints)
  BY DEF Sound
<1>2. /\ t \notin DOMAIN db.schema
      /\ db = [schema |-> db.schema, rows |-> db.rows, indexes |-> db.indexes, log |-> db.log]
      /\ DOMAIN declared = columns
  BY <1>1, ContentsAre DEF CreateTable, storage!CreateTable, storage!Exists, Shaped
<1>3. /\ db' = [schema |-> Put(db.schema, t, columns), rows |-> Put(db.rows, t, <<>>),
                indexes |-> db.indexes,
                log |-> Append(db.log, Change("CREATE_TABLE", t, columns, {}, {}))]
      /\ constraints' = Put(constraints, t, declared)
  BY <1>2, SameEdits, SameChange DEF CreateTable, storage!CreateTable
<1>4. DOMAIN db.rows = DOMAIN db.schema /\ DOMAIN constraints = DOMAIN db.schema
  BY <1>1 DEF Shaped, RowsFit, Declared
<1>5. /\ DOMAIN db'.schema = DOMAIN db.schema \cup {t}
      /\ DOMAIN db'.rows = DOMAIN db.schema \cup {t}
      /\ DOMAIN constraints' = DOMAIN db.schema \cup {t}
      /\ db'.schema[t] = columns /\ db'.rows[t] = <<>> /\ constraints'[t] = declared
      /\ \A u \in DOMAIN db.schema :
            db'.schema[u] = db.schema[u] /\ db'.rows[u] = db.rows[u] /\ constraints'[u] = constraints[u]
  BY <1>2, <1>3, <1>4 DEF Put, Override
<1>6. storage!IsContents(db')
  <2>1. Change("CREATE_TABLE", t, columns, {}, {}) \in Changes
    BY ChangeTyped DEF Operations
  <2>2. /\ IsMap(db.schema, Tables, SUBSET Columns) /\ IsMap(db.rows, Tables, Seq(Data))
        /\ IsMap(db.indexes, IndexNames, IndexDefinition) /\ db.log \in Seq(Changes)
    BY <1>1, ContentsAre DEF Shaped
  <2>3. <<>> \in Seq(Data)
    OBVIOUS
  <2>4. IsMap(db'.schema, Tables, SUBSET Columns) /\ IsMap(db'.rows, Tables, Seq(Data))
    BY <1>3, <2>2, <2>3, PutIsMap
  <2>5. db'.log \in Seq(Changes)
    BY <1>3, <2>1, <2>2
  <2> QED
    BY <1>3, <2>2, <2>4, <2>5, ContentsAre
<1>7. \A c \in columns : /\ declared[c] \in Declaration
                         /\ \A r \in declared[c].references :
                               r.column \notin Alterable /\ TargetExists(t, columns, r)
  BY <1>2, DeclarationAssumption DEF CarefulScripts, CreateTable
<1>8. Shaped(db', constraints')
  <2>1. RowsFit(db')
    BY <1>1, <1>5 DEF Shaped, RowsFit
  <2>2. Declared(db', constraints')
    BY <1>1, <1>4, <1>5, <1>7 DEF Shaped, Declared
  <2>3. ReferencesStay(constraints')
    BY <1>1, <1>2, <1>4, <1>5, <1>7 DEF Shaped, ReferencesStay
  <2>4. ResolveIn(db', constraints')
    <3> SUFFICES ASSUME NEW u \in DOMAIN constraints', NEW c \in DOMAIN constraints'[u],
                        NEW r \in constraints'[u][c].references
                 PROVE  r.table \in DOMAIN db'.schema /\ r.column \in db'.schema[r.table]
      BY DEF ResolveIn
    <3>1. CASE u = t
      BY <3>1, <1>2, <1>5, <1>7 DEF TargetExists
    <3>2. CASE u # t
      BY <3>2, <1>1, <1>4, <1>5 DEF Shaped, ResolveIn
    <3> QED
      BY <3>1, <3>2
  <2> QED
    BY <1>6, <2>1, <2>2, <2>3, <2>4 DEF Shaped
<1>9. NotNullIn(db', constraints')
  BY <1>2, <1>4, <1>5 DEF Sound, NotNullIn, Mandatory
<1>10. UniqueIn(db', constraints')
  BY <1>2, <1>4, <1>5 DEF Sound, UniqueIn, Distinct
<1>11. ReferencesIn(db', constraints')
  <2> SUFFICES ASSUME NEW u \in DOMAIN constraints', NEW c \in DOMAIN constraints'[u],
                      NEW r \in constraints'[u][c].references, r.table # u,
                      NEW i \in DOMAIN db'.rows[u]
               PROVE  Cell(db'.rows[u][i], c) \in HeldIn(db', r.table, r.column) \cup {Null}
    BY DEF ReferencesIn, Matched
  <2>1. u # t
    BY <1>5
  <2>2. /\ u \in DOMAIN constraints /\ c \in DOMAIN constraints[u]
        /\ r \in constraints[u][c].references /\ i \in DOMAIN db.rows[u]
        /\ db'.rows[u][i] = db.rows[u][i]
    BY <2>1, <1>4, <1>5
  <2>3. Cell(db.rows[u][i], c) \in HeldIn(db, r.table, r.column) \cup {Null}
    BY <2>2 DEF Sound, ReferencesIn, Matched
  <2>4. r.table \in DOMAIN db.schema
    BY <2>2, <1>1 DEF Shaped, ResolveIn
  <2>5. HeldIn(db', r.table, r.column) = HeldIn(db, r.table, r.column)
    BY <2>4, <1>4, <1>5 DEF HeldIn
  <2> QED
    BY <2>2, <2>3, <2>5
<1> QED
  BY <1>8, <1>9, <1>10, <1>11 DEF Sound

LEMMA DropTableSound ==
    ASSUME Sound(db, constraints), NEW t \in Tables, DropTable(t)
    PROVE  Sound(db', constraints')
<1> DEFINE indexes == Without(db.indexes, storage!IndexesOn(db.indexes, t))
<1>1. Shaped(db, constraints)
  BY DEF Sound
<1>2. /\ t \in DOMAIN db.schema
      /\ db = [schema |-> db.schema, rows |-> db.rows, indexes |-> db.indexes, log |-> db.log]
  BY <1>1, ContentsAre DEF DropTable, storage!DropTable, storage!Exists, Shaped
<1>3. /\ db' = [schema |-> Without(db.schema, {t}), rows |-> Without(db.rows, {t}),
                indexes |-> indexes,
                log |-> Append(db.log, Change("DROP_TABLE", t, {}, {}, {}))]
      /\ constraints' = Without(constraints, {t})
  BY <1>2, SameEdits, SameChange DEF DropTable, storage!DropTable
<1>4. DOMAIN db.rows = DOMAIN db.schema /\ DOMAIN constraints = DOMAIN db.schema
  BY <1>1 DEF Shaped, RowsFit, Declared
<1>5. /\ DOMAIN db'.schema = DOMAIN db.schema \ {t}
      /\ DOMAIN db'.rows = DOMAIN db.schema \ {t}
      /\ DOMAIN constraints' = DOMAIN db.schema \ {t}
      /\ \A u \in DOMAIN db.schema \ {t} :
            db'.schema[u] = db.schema[u] /\ db'.rows[u] = db.rows[u] /\ constraints'[u] = constraints[u]
  BY <1>3, <1>4 DEF Without, Restrict
<1>6. storage!IsContents(db')
  <2>1. Change("DROP_TABLE", t, {}, {}, {}) \in Changes
    BY ChangeTyped DEF Operations
  <2>2. /\ IsMap(db.schema, Tables, SUBSET Columns) /\ IsMap(db.rows, Tables, Seq(Data))
        /\ IsMap(db.indexes, IndexNames, IndexDefinition) /\ db.log \in Seq(Changes)
    BY <1>1, ContentsAre DEF Shaped
  <2>3. /\ IsMap(db'.schema, Tables, SUBSET Columns) /\ IsMap(db'.rows, Tables, Seq(Data))
        /\ IsMap(db'.indexes, IndexNames, IndexDefinition)
    BY <1>3, <2>2, WithoutIsMap
  <2>4. db'.log \in Seq(Changes)
    BY <1>3, <2>1, <2>2
  <2> HIDE DEF indexes
  <2> QED
    BY <1>3, <2>3, <2>4, ContentsAre
\* What a column of another table references is in a table that stays.
<1>7. ASSUME NEW u \in DOMAIN constraints \ {t}, NEW c \in DOMAIN constraints[u],
             NEW r \in constraints[u][c].references
      PROVE  r.table \in DOMAIN db.schema \ {t} /\ r.column \in db.schema[r.table]
  <2>1. r.table \in DOMAIN db.schema /\ r.column \in db.schema[r.table]
    BY <1>1 DEF Shaped, ResolveIn
  <2>2. ASSUME r.table = t
        PROVE  FALSE
    <3> DEFINE ref == [table |-> u, column |-> c, parent_column |-> r.column]
    <3>1. ref \in ReferencingColumns(t)
      BY <2>2, <1>2, <1>4, Listed
    <3>2. ref.table = t
      BY <3>1 DEF DropTable
    <3> QED
      BY <3>2
  <2> QED
    BY <2>1, <2>2
<1>8. Shaped(db', constraints')
  <2>1. RowsFit(db') /\ Declared(db', constraints') /\ ReferencesStay(constraints')
    BY <1>1, <1>4, <1>5 DEF Shaped, RowsFit, Declared, ReferencesStay
  <2>2. ResolveIn(db', constraints')
    BY <1>4, <1>5, <1>7 DEF ResolveIn
  <2> QED
    BY <1>6, <2>1, <2>2 DEF Shaped
<1>9. NotNullIn(db', constraints')
  BY <1>4, <1>5 DEF Sound, NotNullIn, Mandatory
<1>10. UniqueIn(db', constraints')
  BY <1>4, <1>5 DEF Sound, UniqueIn, Distinct
<1>11. ReferencesIn(db', constraints')
  <2> SUFFICES ASSUME NEW u \in DOMAIN constraints', NEW c \in DOMAIN constraints'[u],
                      NEW r \in constraints'[u][c].references, r.table # u,
                      NEW i \in DOMAIN db'.rows[u]
               PROVE  Cell(db'.rows[u][i], c) \in HeldIn(db', r.table, r.column) \cup {Null}
    BY DEF ReferencesIn, Matched
  <2>1. /\ u \in DOMAIN constraints \ {t} /\ c \in DOMAIN constraints[u]
        /\ r \in constraints[u][c].references /\ i \in DOMAIN db.rows[u]
        /\ db'.rows[u][i] = db.rows[u][i]
    BY <1>4, <1>5
  <2>2. Cell(db.rows[u][i], c) \in HeldIn(db, r.table, r.column) \cup {Null}
    BY <2>1 DEF Sound, ReferencesIn, Matched
  <2>3. r.table \in DOMAIN db.schema \ {t}
    BY <2>1, <1>7
  <2>4. HeldIn(db', r.table, r.column) = HeldIn(db, r.table, r.column)
    BY <2>3, <1>4, <1>5 DEF HeldIn
  <2> QED
    BY <2>1, <2>2, <2>4
<1> QED
  BY <1>8, <1>9, <1>10, <1>11 DEF Sound

\* CREATE INDEX and DROP INDEX leave tables and rows alone.
LEMMA SameTables ==
    ASSUME NEW d, NEW e, NEW cons, Sound(d, cons), storage!IsContents(e),
           e.schema = d.schema, e.rows = d.rows
    PROVE  Sound(e, cons)
<1>1. \A t, c : HeldIn(e, t, c) = HeldIn(d, t, c)
  BY DEF HeldIn
<1>2. Shaped(e, cons)
  BY DEF Sound, Shaped, Declared, RowsFit, ResolveIn
<1>3. NotNullIn(e, cons) /\ UniqueIn(e, cons)
  BY DEF Sound, NotNullIn, UniqueIn
<1>4. ReferencesIn(e, cons)
  BY <1>1 DEF Sound, ReferencesIn, Matched
<1> QED
  BY <1>2, <1>3, <1>4 DEF Sound

LEMMA CreateIndexSound ==
    ASSUME Sound(db, constraints), NEW i \in IndexNames, NEW t \in Tables, NEW c \in Columns,
           CreateIndex(i, t, c)
    PROVE  Sound(db', constraints')
<1>1. /\ IsMap(db.schema, Tables, SUBSET Columns) /\ IsMap(db.rows, Tables, Seq(Data))
      /\ IsMap(db.indexes, IndexNames, IndexDefinition) /\ db.log \in Seq(Changes)
      /\ db = [schema |-> db.schema, rows |-> db.rows, indexes |-> db.indexes, log |-> db.log]
  BY ContentsAre DEF Sound, Shaped
<1>2. /\ db' = [schema |-> db.schema, rows |-> db.rows,
                indexes |-> Put(db.indexes, i, [table |-> t, column |-> c]),
                log |-> Append(db.log, Change("CREATE_INDEX", t, {c}, {}, {i}))]
      /\ constraints' = constraints
  BY <1>1, SameEdits, SameChange DEF CreateIndex, storage!CreateIndex
<1>3. Change("CREATE_INDEX", t, {c}, {}, {i}) \in Changes
  BY ChangeTyped DEF Operations
<1>4. IsMap(db'.indexes, IndexNames, IndexDefinition)
  <2>1. [table |-> t, column |-> c] \in IndexDefinition
    BY DEF IndexDefinition
  <2> QED
    BY <1>1, <1>2, <2>1, PutIsMap
<1>5. db'.log \in Seq(Changes)
  BY <1>1, <1>2, <1>3
<1>6. db'.schema = db.schema /\ db'.rows = db.rows
      /\ db' = [schema |-> db'.schema, rows |-> db'.rows, indexes |-> db'.indexes, log |-> db'.log]
  BY <1>2
<1>7. storage!IsContents(db')
  BY <1>1, <1>4, <1>5, <1>6, ContentsAre
<1> QED
  BY <1>2, <1>6, <1>7, SameTables

LEMMA DropIndexSound ==
    ASSUME Sound(db, constraints), NEW i \in IndexNames, DropIndex(i)
    PROVE  Sound(db', constraints')
<1>1. /\ IsMap(db.schema, Tables, SUBSET Columns) /\ IsMap(db.rows, Tables, Seq(Data))
      /\ IsMap(db.indexes, IndexNames, IndexDefinition) /\ db.log \in Seq(Changes)
      /\ db = [schema |-> db.schema, rows |-> db.rows, indexes |-> db.indexes, log |-> db.log]
      /\ i \in DOMAIN db.indexes
  BY ContentsAre DEF Sound, Shaped, DropIndex, storage!DropIndex
<1>2. /\ db' = [schema |-> db.schema, rows |-> db.rows,
                indexes |-> Without(db.indexes, {i}),
                log |-> Append(db.log, Change("DROP_INDEX", db.indexes[i].table, {}, {}, {i}))]
      /\ constraints' = constraints
  BY <1>1, SameEdits, SameChange DEF DropIndex, storage!DropIndex
<1>3. Change("DROP_INDEX", db.indexes[i].table, {}, {}, {i}) \in Changes
  <2>1. db.indexes[i].table \in Tables
    BY <1>1 DEF IsMap, IndexDefinition
  <2> QED
    BY <2>1, ChangeTyped DEF Operations
<1>4. IsMap(db'.indexes, IndexNames, IndexDefinition)
  BY <1>1, <1>2, WithoutIsMap
<1>5. db'.log \in Seq(Changes)
  BY <1>1, <1>2, <1>3
<1>6. db'.schema = db.schema /\ db'.rows = db.rows
      /\ db' = [schema |-> db'.schema, rows |-> db'.rows, indexes |-> db'.indexes, log |-> db'.log]
  BY <1>2
<1>7. storage!IsContents(db')
  BY <1>1, <1>4, <1>5, <1>6, ContentsAre
<1> QED
  BY <1>2, <1>6, <1>7, SameTables

---------------------------------------------------------------------------------
(* Every step *)

\* The statements outside BEGIN, COMMIT and ROLLBACK do not touch what is saved.
LEMMA SavedKept ==
    ASSUME IInv, saved' = saved, saved_constraints' = saved_constraints,
           Sound(db', constraints')
    PROVE  IInv'
  BY DEF IInv

LEMMA SchemaStatementSound ==
    ASSUME CarefulScripts, IInv, NEW t \in Tables, SchemaStatement(t)
    PROVE  IInv'
<1>0. Sound(db, constraints)
  BY DEF IInv
<1>1. ASSUME NEW columns \in SUBSET Columns, NEW declared \in [columns -> Declarations],
             CreateTable(t, declared)
      PROVE  IInv'
  <2>1. saved' = saved /\ saved_constraints' = saved_constraints
    BY <1>1 DEF CreateTable, storage!CreateTable
  <2> QED
    BY <2>1, <1>0, <1>1, CreateTableSound, SavedKept
<1>2. CASE DropTable(t)
  <2>1. saved' = saved /\ saved_constraints' = saved_constraints
    BY <1>2 DEF DropTable, storage!DropTable
  <2> QED
    BY <2>1, <1>0, <1>2, DropTableSound, SavedKept
<1>3. ASSUME NEW c \in Columns, NEW i \in IndexNames, CreateIndex(i, t, c)
      PROVE  IInv'
  <2>1. saved' = saved /\ saved_constraints' = saved_constraints
    BY <1>3 DEF CreateIndex, storage!CreateIndex
  <2> QED
    BY <2>1, <1>0, <1>3, CreateIndexSound, SavedKept
<1>4. ASSUME NEW c \in Columns, NEW declared \in AddedDeclarations, NEW default \in Val,
             AddColumn(t, c, declared, default)
      PROVE  IInv'
  <2>1. saved' = saved /\ saved_constraints' = saved_constraints
    BY <1>4 DEF AddColumn, storage!AddColumn
  <2> QED
    BY <2>1, <1>0, <1>4, AddColumnSound, SavedKept
<1>5. ASSUME NEW c \in Alterable, DropColumn(t, c)
      PROVE  IInv'
  <2>1. saved' = saved /\ saved_constraints' = saved_constraints
    BY <1>5 DEF DropColumn, storage!DropColumn
  <2> QED
    BY <2>1, <1>0, <1>5, DropColumnSound, SavedKept
<1>6. ASSUME NEW c \in Alterable, NEW new \in Columns, RenameColumn(t, c, new)
      PROVE  IInv'
  <2>1. saved' = saved /\ saved_constraints' = saved_constraints
    BY <1>6 DEF RenameColumn, storage!RenameColumn
  <2> QED
    BY <2>1, <1>0, <1>6, RenameColumnSound, SavedKept
<1> QED
  BY <1>1, <1>2, <1>3, <1>4, <1>5, <1>6 DEF SchemaStatement

LEMMA RowStatementSound ==
    ASSUME IInv, NEW t \in Tables, RowStatement(t)
    PROVE  IInv'
<1>0. Sound(db, constraints) /\ t \in DOMAIN db.rows
  BY DEF IInv, RowStatement
<1>1. ASSUME NEW data \in [db.schema[t] -> Val], Insert(t, data)
      PROVE  IInv'
  <2>1. /\ saved' = saved /\ saved_constraints' = saved_constraints
        /\ constraints' = constraints
    BY <1>1 DEF Insert, storage!Insert
  <2>2. Sound(db', constraints')
    BY <2>1, <1>0, <1>1, InsertSound
  <2> QED
    BY <2>1, <2>2, SavedKept
<1>2. ASSUME NEW where, Delete(t, where)
      PROVE  IInv'
  <2>1. /\ saved' = saved /\ saved_constraints' = saved_constraints
        /\ constraints' = constraints
    BY <1>2 DEF Delete, storage!Delete
  <2>2. Sound(db', constraints')
    BY <2>1, <1>0, <1>2, DeleteSound
  <2> QED
    BY <2>1, <2>2, SavedKept
<1>3. ASSUME NEW where, NEW assignments \in Assignments(db.schema[t]),
             Update(t, where, assignments)
      PROVE  IInv'
  <2>1. /\ saved' = saved /\ saved_constraints' = saved_constraints
        /\ constraints' = constraints
    BY <1>3 DEF Update, storage!Update
  <2>2. Sound(db', constraints')
    BY <2>1, <1>0, <1>3, UpdateSound
  <2> QED
    BY <2>1, <2>2, SavedKept
<1> QED
  BY <1>1, <1>2, <1>3 DEF RowStatement

LEMMA TransactionSound ==
    IInv /\ (BeginTransaction \/ CommitTransaction \/ RollbackTransaction) => IInv'
<1>1. Sound(db, constraints) => db # NoTransaction
  BY ContentsAre, MapsAreMaps, NoTransactionAssumption DEF Sound, Shaped
<1>2. CASE BeginTransaction
  BY <1>1, <1>2 DEF IInv, BeginTransaction, storage!Begin
<1>3. CASE CommitTransaction
  BY <1>3 DEF IInv, CommitTransaction, storage!Commit
<1>4. CASE RollbackTransaction
  BY <1>4 DEF IInv, RollbackTransaction, storage!Rollback
<1> QED
  BY <1>2, <1>3, <1>4

LEMMA InitIInv == Init => IInv
<1> SUFFICES ASSUME Init PROVE IInv
  OBVIOUS
<1>1. /\ db = [schema |-> EmptyMap, rows |-> EmptyMap, indexes |-> EmptyMap, log |-> <<>>]
      /\ constraints = EmptyMap /\ saved = NoTransaction /\ saved_constraints = EmptyMap
  BY DEF Init, storage!Init, storage!EmptyMap, EmptyMap
<1>2. DOMAIN EmptyMap = {}
  BY DEF EmptyMap
<1>3. storage!IsContents(db)
  <2>1. <<>> \in Seq(Changes)
    OBVIOUS
  <2> QED
    BY <1>1, <2>1, EmptyIsMap, ContentsAre
<1>4. Sound(db, constraints)
  BY <1>1, <1>2, <1>3 DEF Sound, Shaped, Declared, RowsFit, ReferencesStay, ResolveIn,
                          NotNullIn, UniqueIn, ReferencesIn
<1> QED
  BY ONLY <1>1, <1>4 DEF IInv

LEMMA IInvInductive ==
    ASSUME CarefulScripts
    PROVE  IInv /\ [Next]_vars => IInv'
<1> SUFFICES ASSUME IInv, [Next]_vars PROVE IInv'
  OBVIOUS
<1>1. ASSUME NEW t \in Tables, SchemaStatement(t) \/ RowStatement(t)
      PROVE  IInv'
  BY <1>1, SchemaStatementSound, RowStatementSound
<1>2. ASSUME NEW i \in IndexNames, DropIndex(i)
      PROVE  IInv'
  <2>1. saved' = saved /\ saved_constraints' = saved_constraints
    BY <1>2 DEF DropIndex, storage!DropIndex
  <2>2. Sound(db, constraints)
    BY DEF IInv
  <2> QED
    BY <2>1, <2>2, <1>2, DropIndexSound, SavedKept
<1>3. CASE BeginTransaction \/ CommitTransaction \/ RollbackTransaction
  BY <1>3, TransactionSound
<1>4. CASE UNCHANGED vars
  BY <1>4 DEF vars, IInv
<1> QED
  BY <1>1, <1>2, <1>3, <1>4 DEF Next

\* Careful statements keep the invariant, in every reachable state, of the
\* tables there are and of those a ROLLBACK would bring back.
THEOREM EngineInvariant ==
    ASSUME CarefulScripts
    PROVE  Spec => []IInv
<1>1. Init => IInv
  BY InitIInv
<1>2. IInv /\ [Next]_vars => IInv'
  BY IInvInductive
<1> QED
  BY <1>1, <1>2, PTL DEF Spec

\* The catalog and its constraints have their types and list the same tables
\* and columns, also after a ROLLBACK.
THEOREM EngineTyped ==
    ASSUME CarefulScripts
    PROVE  Spec => []TypeOK
<1>1. IInv => TypeOK
  BY DEF IInv, Sound, Shaped, TypeOK, storage!TypeOK
<1> QED
  BY <1>1, EngineInvariant, PTL

\* No row holds NULL where NOT NULL or PRIMARY KEY forbids it.
THEOREM NotNullAlways ==
    ASSUME CarefulScripts
    PROVE  Spec => []NotNullHolds
<1>1. IInv => NotNullHolds
  BY DEF IInv, Sound, NotNullHolds
<1> QED
  BY <1>1, EngineInvariant, PTL

\* No two rows hold the same value in a UNIQUE or PRIMARY KEY column.
THEOREM UniqueAlways ==
    ASSUME CarefulScripts
    PROVE  Spec => []UniqueHolds
<1>1. IInv => UniqueHolds
  BY DEF IInv, Sound, UniqueHolds
<1> QED
  BY <1>1, EngineInvariant, PTL

\* A value that references another table has its match there.
THEOREM ReferencesAlwaysHold ==
    ASSUME CarefulScripts
    PROVE  Spec => []ReferencesHold
<1>1. IInv => ReferencesHold
  BY DEF IInv, Sound, ReferencesHold
<1> QED
  BY <1>1, EngineInvariant, PTL

\* No reference names a table or a column that does not exist.
THEOREM ReferencesAlwaysResolve ==
    ASSUME CarefulScripts
    PROVE  Spec => []ReferencesResolve
<1>1. IInv => ReferencesResolve
  BY DEF IInv, Sound, Shaped, ReferencesResolve
<1> QED
  BY <1>1, EngineInvariant, PTL
=================================================================================
