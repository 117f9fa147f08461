------------------------------ MODULE QueryProperties ------------------------------
(***************************************************************************)
(* What the answers of Query.tla have to be, said of the rows of the       *)
(* tables and of the statement that was asked.                             *)
(***************************************************************************)
EXTENDS Query

---------------------------------------------------------------------------------
(* What a filter means *)

\* Whether two values are the same for one who sees them printed
Printed(v) == CASE v[1] = "Int" -> Decimal(v[2]) [] v[1] = "Bool" -> Spelled(v[2]) [] OTHER -> v[2]

SameText(a, b) == a = b \/ (a # Null /\ b # Null /\ Printed(a) = Printed(b))

\* A pattern fits a text that can be cut into one piece for each character of
\* the pattern: any piece for %, any one character for _, else the character.
Fits(text, pattern) ==
    \E cut \in [0..Len(pattern) -> 0..Len(text)] :
        /\ cut[0] = 0 /\ cut[Len(pattern)] = Len(text)
        /\ \A k \in 1..Len(pattern) :
            IF pattern[k] = 37 THEN cut[k - 1] <= cut[k]
            ELSE cut[k] = cut[k - 1] + 1 /\ pattern[k] \in {95, text[cut[k]]}

\* What a condition says of a row. `db` are the tables, and `selected` are, for
\* each subquery, the positions of the rows it means.
MeantCondition(db, row, c, selected) ==
    CASE c[1] = "Compare" ->
            (CASE c[3] = "=" -> SameText(row[c[2]], c[4])
               [] c[3] = "!=" -> ~SameText(row[c[2]], c[4])
               [] c[3] = "LIKE" -> row[c[2]] # Null /\ Fits(row[c[2]][2], c[4][2])
               [] OTHER -> CompareValues(row[c[2]], c[3], c[4]))
      [] c[1] = "IsNull" -> row[c[2]] = Null
      [] c[1] = "IsNotNull" -> row[c[2]] # Null
      [] c[1] = "InList" ->
            row[c[2]] # Null /\ ((\E k \in DOMAIN c[3] : SameText(c[3][k], row[c[2]])) # c[4])
      [] c[1] = "InSubquery" ->
            row[c[2]] # Null
            /\ ((\E k \in selected[c[3]] :
                    SameText(db[c[3].table][k][c[3].columns[1][2]], row[c[2]])) # c[4])

Meant(db, row, f, selected) ==
    \E i \in DOMAIN f : \A j \in DOMAIN f[i] : MeantCondition(db, row, f[i][j], selected)

MeantRows(db, s, selected) ==
    {k \in DOMAIN db[s.table] : s.filter = None \/ Meant(db, db[s.table][k], s.filter[1], selected)}

\* For each subquery of a filter; selected[n] is for those n deep in it.
MeantInside(db, filter) ==
    LET selected[n \in Nat] == [q \in Nested(filter)[n] |-> MeantRows(db, q, selected[n + 1])] IN selected[0]

\* The rows WHERE means, in the order of the table
Selected(db, s) == At(db[s.table], MeantRows(db, s, MeantInside(db, s.filter)))

\* A row as SELECT * shows it
Shown(t, row) == [k \in DOMAIN Schemas[t] |-> row[Schemas[t][k].name]]

Uses(f, what) == \E c \in ConditionsOf(f) : c[1] = what \/ (c[1] = "Compare" /\ c[3] = what)

\* A literal that is, in the type of a column, the value it spells
Fitting(type, v) ==
    \/ v = Null \/ v[1] = type \/ type = "Text"
    \/ v[1] = "Text" /\ type = "Int" /\ \E n \in Int64 : v[2] = Decimal(n)
    \/ v[1] = "Text" /\ type = "Bool" /\ \E b \in BOOLEAN : v[2] = Spelled(b)

\* A condition on a column of a table: other literals are refused, or compared
\* as what they become in its type.
Sensible(t, c) ==
    /\ t \in Tables /\ c[2] \in ColumnNames(Schemas[t])
    /\ LET type == TypeOf(Schemas[t], c[2]) IN
       CASE c[1] = "Compare" -> (CASE c[3] \in {"=", "!="} -> Fitting(type, c[4])
                                   [] c[3] = "LIKE" -> type = "Text" /\ c[4][1] = "Text"
                                   [] OTHER -> c[4] = Null \/ c[4][1] = type)
         [] c[1] = "InList" -> \A k \in DOMAIN c[3] : Fitting(type, c[3][k])
         [] c[1] = "InSubquery" ->
                LET sub == c[3] IN
                /\ sub.table \in Tables /\ sub.columns = <<Column(sub.columns[1][2])>>
                /\ sub.columns[1][2] \in ColumnNames(Schemas[sub.table])
                /\ type \in {"Text", TypeOf(Schemas[sub.table], sub.columns[1][2])}
                /\ sub.joins = <<>> /\ sub.group_by = <<>> /\ sub.having = None
                /\ sub.order_by = <<>> /\ sub.limit = None /\ sub.offset = None
         [] OTHER -> TRUE

SensibleFilter(t, filter) == filter = None \/ \A c \in ConditionsOf(filter[1]) : Sensible(t, c)

\* SELECT * FROM t with a filter that is sensible, as are those of its subqueries
SelectsRows(s) ==
    /\ s.kind = "Select" /\ s.table \in Tables /\ s.columns = <<AllColumns>>
    /\ s.joins = <<>> /\ s.group_by = <<>> /\ s.having = None
    /\ SensibleFilter(s.table, s.filter)
    /\ \A n \in 0..MaxNesting : \A q \in Nested(s.filter)[n] : SensibleFilter(q.table, q.filter)

AskedPlain ==
    {s \in asked : SelectsRows(s) /\ s.filter # None /\ s.order_by = <<>> /\ s.limit = None /\ s.offset = None}

\* The columns of a table, in order
Heads(t) == [k \in DOMAIN Schemas[t] |-> Schemas[t][k].name]

\* The answer of SELECT * without ORDER BY and pages
RowsShown(db, s) == LET rows == Selected(db, s) IN [k \in DOMAIN rows |-> Shown(s.table, rows[k])]

AnswersExactly(s) ==
    answer.result = "rows" /\ answer.columns = Heads(s.table) /\ answer.rows = RowsShown(tables, s)

---------------------------------------------------------------------------------
(* The properties *)

\* Every cell has the type of its column or is NULL, whatever literals INSERT
\* and UPDATE were given (coerce_value, engine.rs:1650).
TypedCells ==
    \A t \in Tables : \A k \in DOMAIN tables[t] :
        /\ DOMAIN tables[t][k] = ColumnNames(Schemas[t])
        /\ \A c \in ColumnNames(Schemas[t]) :
                tables[t][k][c] = Null \/ tables[t][k][c][1] = TypeOf(Schemas[t], c)

\* The parser reads every text of Grammar.tla, in both its spellings, as what it
\* says, and refuses a broken one: conditions inside a subquery, commas in
\* parentheses and a missing clause do not lead it astray (parser.rs:1136). These
\* are the statements of the SQL reference but for SELECT users.id (README.md:76),
\* which the parser refuses (:1230).
ReadAsWritten == read = asked

\* With or without an index, a WHERE yields exactly the rows it means: the
\* candidates taken from an index never leave out a row, also under OR, for
\* NULL, and where a literal is not of the type of its column (engine.rs:1607).
IndexInvisible ==
    \A s \in AskedPlain :
        Uses(s.filter[1], "LIKE") \/ Uses(s.filter[1], "InSubquery") \/ AnswersExactly(s)

\* LIKE, computed with a table of prefixes (engine.rs:1580), is what its
\* wildcards say.
LikeMeansWildcards == \A s \in AskedPlain : Uses(s.filter[1], "LIKE") => AnswersExactly(s)

\* IN (SELECT ...) keeps the rows that have a partner in the other table, NOT
\* IN the non-NULL rows that have none, also below AND and OR: the subquery is
\* run first and its values put in its place (engine.rs:657).
SubqueryIsSemiJoin == \A s \in AskedPlain : Uses(s.filter[1], "InSubquery") => AnswersExactly(s)

\* The rows of SELECT * over a chain of JOINs, each with a column of a named
\* table on its left: every combination that meets the ON conditions, in the
\* order of the tables, with every cell in its own column
ProductRows(from, joins) ==
    LET partners(rows, j) ==
            At(tables[j.table], {k \in DOMAIN tables[j.table] : tables[j.table][k][j.right_column] =
                                    rows[Position(from, j.left_table[1])][j.left_column]})
        extended(so_far, j) ==
            FlattenSeq([k \in DOMAIN so_far |->
                LET found == partners(so_far[k], j) IN [i \in DOMAIN found |-> Append(so_far[k], found[i])]])
        combinations ==
            FoldLeft(extended, [k \in DOMAIN tables[from[1]] |-> <<tables[from[1]][k]>>], joins)
    IN [k \in DOMAIN combinations |->
            FlattenSeq([i \in DOMAIN from |-> Shown(from[i], combinations[k][i])])]

JoinedTables(s) == <<s.table>> \o [k \in DOMAIN s.joins |-> s.joins[k].table]

AskedJoins ==
    {s \in asked : /\ s.kind = "Select" /\ s.joins # <<>> /\ s.columns = <<AllColumns>> /\ s.filter = None
                   /\ \A k \in DOMAIN s.joins : s.joins[k].left_table # None}

\* Every table is joined once, and what the columns of a joined table are called
\* if their names are taken, <table>_<column>, is the name of no other column.
\* Elsewhere README.md:123 is not kept: the code does not look whether the name it
\* gives is taken, and a cell takes the place of another (engine.rs:512-523, :554).
NamesApart(from) ==
    /\ IsInjective(from)
    /\ \A i \in 2..Len(from) : \A c \in ColumnNames(Schemas[from[i]]) : \A k \in DOMAIN from :
            /\ from[i] \o c \notin ColumnNames(Schemas[from[k]])
            /\ k > 1 /\ k # i => \A d \in ColumnNames(Schemas[from[k]]) : from[i] \o c # from[k] \o d

\* A chain of JOINs of tables whose names are apart yields each combination of
\* rows that meets its ON conditions: a column whose name is taken is renamed,
\* its cells go to the new name, and a later ON finds them there
\* (engine.rs:512-528).
JoinIsProduct ==
    \A s \in AskedJoins :
        NamesApart(JoinedTables(s)) => answer.rows = ProductRows(JoinedTables(s), s.joins)

\* Groups and aggregates add up: the groups part the rows WHERE means, HAVING
\* keeps those with enough rows, and in each the counts, sums and bounds are
\* those of its members. AVG is the sum over the non-NULL members; SUM is the
\* sum unless it leaves the range of an i64 (engine.rs:1093, :1248).
GroupsAddUp ==
    \A s \in {x \in asked : x.kind = "Select" /\ Aggregated(x.columns) /\ x.joins = <<>>
                             /\ x.limit = None /\ x.offset = None /\ answer.result = "rows"} :
        LET rows == Selected(tables, s)
            key(row) == [k \in DOMAIN s.group_by |-> row[s.group_by[k]]]
            shown(r) == [k \in DOMAIN s.group_by |->
                            r[Position(answer.columns, s.group_by[k])]]
            members(group) == {k \in DOMAIN rows : key(rows[k]) = group}
            enough(group) == s.having = None \/ Cardinality(members(group)) > s.having[1][1][1][4][2]
            kept == {group \in (IF s.group_by = <<>> THEN {<<>>} ELSE {key(row) : row \in Range(rows)}) :
                        enough(group)}
        IN /\ IsInjective([k \in DOMAIN answer.rows |-> shown(answer.rows[k])])
           /\ {shown(r) : r \in Range(answer.rows)} = kept
           /\ \A r \in Range(answer.rows) : \A k \in DOMAIN s.columns :
                s.columns[k][1] = "Aggregate" =>
                    LET at == s.columns[k][3]
                        counted == {i \in members(shown(r)) : at = Star \/ rows[i][at] # Null}
                        value(i) == rows[i][at]
                        sum == SumFunctionOnSet([i \in counted |-> value(i)[2]], counted)
                    IN CASE s.columns[k][2] = "COUNT" -> r[k] = IntValue(Cardinality(counted))
                         [] s.columns[k][2] = "SUM" -> sum \in Int64 => r[k] = IntValue(sum)
                         [] counted = {} -> r[k] = Null
                         [] counted # {} /\ s.columns[k][2] = "AVG" ->
                                sum \in Int64 =>
                                    LET rest == sum - r[k][2] * Cardinality(counted)
                                    IN -Cardinality(counted) < rest /\ rest < Cardinality(counted)
                         [] counted # {} /\ s.columns[k][2] = "MIN" ->
                                \E i \in counted : r[k] = value(i) /\ \A o \in counted : ~Less(value(o), r[k])
                         [] counted # {} /\ s.columns[k][2] = "MAX" ->
                                \E i \in counted : r[k] = value(i) /\ \A o \in counted : ~Less(r[k], value(o))

\* A page of ORDER BY ... LIMIT n OFFSET m is cut out of a permutation of the
\* rows WHERE means: it leaves out the first m and has n of the others or what
\* is left. The permutation is sorted by the columns of ORDER BY, the first in
\* which two rows differ deciding, and rows that agree in all of them keep the
\* order of the table. With NULL among the cells that are compared there is no
\* order to sort by (engine.rs:621-649).
PagesInOrder ==
    \A s \in {x \in asked : SelectsRows(x) /\ x.order_by # <<>>} :
        LET rows == RowsShown(tables, s)
            skipped == IF s.offset = None THEN 0 ELSE s.offset[1]
            left == IF Len(rows) > skipped THEN Len(rows) - skipped ELSE 0
            keys == {k \in DOMAIN s.order_by : s.order_by[k][1] \in ColumnNames(Schemas[s.table])}
            cell(k, row) == row[Position(Heads(s.table), s.order_by[k][1])]
            by(k, a, b) == IF s.order_by[k][2] THEN Less(cell(k, a), cell(k, b)) ELSE Less(cell(k, b), cell(k, a))
            before(a, b) == \E k \in keys : by(k, a, b) /\ \A i \in keys : i < k => cell(i, a) = cell(i, b)
            comparable == \A k \in keys : \A row \in Range(rows) : cell(k, row) # Null
        IN /\ answer.result = "rows"
           /\ Len(answer.rows) = IF s.limit # None /\ s.limit[1] < left THEN s.limit[1] ELSE left
           /\ \E order \in Bijection(DOMAIN rows, DOMAIN rows) :
                /\ \A p \in DOMAIN answer.rows : answer.rows[p] = rows[order[skipped + p]]
                /\ comparable => \A i, j \in DOMAIN rows : i < j =>
                        \/ before(rows[order[i]], rows[order[j]])
                        \/ ~before(rows[order[j]], rows[order[i]]) /\ order[i] < order[j]
=================================================================================
