---------------------------------- MODULE Query ----------------------------------
(***************************************************************************)
(* engine.rs: how a statement that was parsed is evaluated on the rows.    *)
(* SELECT with filters, joins, groups, aggregates, order and pages; the    *)
(* rows INSERT, UPDATE and DELETE leave behind. Constraints and the data   *)
(* directory are Engine.tla and Storage.tla: here tables come without      *)
(* constraints, a table is its rows in the order of its file, an index is  *)
(* exact (IndexedReadsAgree of StorageInvariants.tla), and SELECT is the   *)
(* only statement inside IN. Sums wrap, as in a release build.             *)
(***************************************************************************)
EXTENDS Grammar

CONSTANTS
    Schemas,    \* table -> its columns, a sequence of [name, type]
    Script,     \* the statements that are asked
    Broken,     \* texts that are no statements
    MaxRows,    \* bound: rows of all tables together
    MaxNesting  \* bound: how deep subqueries are nested

VARIABLES
    tables,     \* table -> sequence of rows
    indexes,    \* index -> [table, column]
    asked,      \* what the last text stood for: a statement, or nothing
    read,       \* what the parser made of it
    answer      \* what execute_statement returned

query_vars == <<tables, indexes, asked, read, answer>>

Tables == DOMAIN Schemas

\* Tables with columns of different names
ASSUME SchemasAssumption ==
    /\ Schemas \in [Tables -> Seq([name : Seq(STRING), type : Types])]
    /\ \A t \in Tables : IsInjective([k \in DOMAIN Schemas[t] |-> Schemas[t][k].name])

\* Statements: their literals are values, subqueries end, and the rows of a
\* page are counted.
ASSUME ScriptAssumption ==
    /\ MaxNesting \in Nat
    /\ \A s \in Script :
        /\ s.kind = "Insert" => s.values \in Seq(Vals)
        /\ s.kind = "Select" =>
                /\ s.order_by \in Seq(Range(s.order_by))
                /\ s.limit = None \/ s.limit[1] \in Nat
                /\ s.offset = None \/ s.offset[1] \in Nat
        /\ s.kind = "Update" => \A k \in DOMAIN s.assignments : s.assignments[k][2] \in Vals
        /\ s.kind \in {"Select", "Update", "Delete"} =>
                /\ IsFilter(s.filter) /\ Nested(s.filter)[MaxNesting] = {}
                /\ \A n \in 0..MaxNesting : \A q \in Nested(s.filter)[n] : IsFilter(q.filter)

---------------------------------------------------------------------------------
(* Columns and cells *)

ColumnNames(columns) == {columns[k].name : k \in DOMAIN columns}

TypeOf(columns, c) == columns[SelectInSeq(columns, LAMBDA d : d.name = c)].type

\* row.get(c).unwrap_or(&Value::Null)
Cell(row, c) == IF c \in DOMAIN row THEN row[c] ELSE Null

\* str::parse::<i64>
ValueStep(digits, value, k) == IF k = 0 THEN 0 ELSE 10 * value[k - 1] + digits[k] - 48

ValueOf(digits) ==
    LET value[k \in 0..Len(digits)] == ValueStep(digits, value, k) IN value[Len(digits)]

Parsed(text) ==
    LET signed == text # <<>> /\ text[1] \in {43, 45}
        digits == IF signed THEN Tail(text) ELSE text
    IN IF digits = <<>> \/ \E k \in DOMAIN digits : digits[k] \notin 48..57 THEN {}
       ELSE {IF signed /\ text[1] = 45 THEN -ValueOf(digits) ELSE ValueOf(digits)} \cap Int64

\* to_ascii_lowercase
Lowered(text) == [k \in DOMAIN text |-> IF text[k] \in 65..90 THEN text[k] + 32 ELSE text[k]]

\* coerce_value
Coerced(type, v) ==
    CASE v = Null \/ v[1] = type -> {v}
      [] type = "Int" /\ v[1] = "Text" -> {IntValue(n) : n \in Parsed(v[2])}
      [] type = "Bool" /\ v[1] = "Text" -> {BoolValue(b) : b \in {x \in BOOLEAN : Spelled(x) = Lowered(v[2])}}
      [] type = "Text" /\ v[1] = "Int" -> {TextValue(Decimal(v[2]))}
      [] type = "Text" /\ v[1] = "Bool" -> {TextValue(Spelled(v[2]))}
      [] OTHER -> {}

---------------------------------------------------------------------------------
(* Comparing values *)

TextBefore(a, b) ==
    \E k \in 1..Len(b) :
        /\ Len(a) >= k - 1 /\ SubSeq(a, 1, k - 1) = SubSeq(b, 1, k - 1)
        /\ Len(a) = k - 1 \/ a[k] < b[k]

\* compare_ordering: values of different types, and NULL, have no order.
Less(a, b) ==
    a[1] = b[1] /\ CASE a[1] = "Int" -> a[2] < b[2]
                     [] a[1] = "Text" -> TextBefore(a[2], b[2])
                     [] a[1] = "Bool" -> ~a[2] /\ b[2]
                     [] OTHER -> FALSE

LessOrEqual(a, b) == Less(a, b) \/ (a = b /\ a # Null)

\* like_matches: dp[<<i, j>>] is whether the first i characters of the pattern
\* match the first j of the text; 37 is %, 95 is _
PrefixPairs(text, pattern) == (0..Len(pattern)) \X (0..Len(text))

LikeStep_NoLeading(text, pattern, dp, i, j) ==
    CASE i = 0 -> j = 0
      [] i > 0 /\ j = 0 -> FALSE
      [] i > 0 /\ j > 0 ->
            IF pattern[i] = 37 THEN dp[<<i - 1, j>>] \/ dp[<<i, j - 1>>]
            ELSE dp[<<i - 1, j - 1>>] /\ pattern[i] \in {95, text[j]}

LikeStep(text, pattern, dp, i, j) ==
    CASE i = 0 -> j = 0
      [] i > 0 /\ j = 0 -> pattern[i] = 37 /\ dp[<<i - 1, 0>>]
      [] i > 0 /\ j > 0 ->
            IF pattern[i] = 37 THEN dp[<<i - 1, j>>] \/ dp[<<i, j - 1>>]
            ELSE dp[<<i - 1, j - 1>>] /\ pattern[i] \in {95, text[j]}

LikeMatches(text, pattern) ==
    LET dp[at \in PrefixPairs(text, pattern)] == LikeStep(text, pattern, dp, at[1], at[2])
    IN dp[<<Len(pattern), Len(text)>>]

\* compare_values: NULL equals NULL and differs from all else.
CompareValues(a, op, b) ==
    CASE op = "=" -> a = b
      [] op = "!=" -> a # b
      [] op = ">" -> Less(b, a)
      [] op = ">=" -> LessOrEqual(b, a)
      [] op = "<" -> Less(a, b)
      [] op = "<=" -> LessOrEqual(a, b)
      [] op = "LIKE" -> a[1] = "Text" /\ b[1] = "Text" /\ LikeMatches(a[2], b[2])

---------------------------------------------------------------------------------
(* Filters *)

\* prepare_filter: values get the type of their column
PreparedCondition(columns, c) ==
    LET type == TypeOf(columns, c[2]) IN
    IF c[2] \notin ColumnNames(columns) THEN {}
    ELSE CASE c[1] = "Compare" /\ c[3] = "LIKE" -> {d \in {c} : type = "Text" /\ c[4][1] = "Text"}
           [] c[1] = "Compare" /\ c[3] # "LIKE" -> {Compare(c[2], c[3], v) : v \in Coerced(type, c[4])}
           [] c[1] \in {"IsNull", "IsNotNull"} -> {c}
           [] c[1] = "InList" ->
                {InList(c[2], vs, c[4]) : vs \in Collect([k \in DOMAIN c[3] |-> Coerced(type, c[3][k])])}
           [] c[1] = "InSubquery" -> {}

Prepared(columns, f) ==
    Collect([i \in DOMAIN f |-> Collect([j \in DOMAIN f[i] |-> PreparedCondition(columns, f[i][j])])])

\* evaluate_filter
HoldsCondition(row, c) ==
    CASE c[1] = "Compare" -> CompareValues(Cell(row, c[2]), c[3], c[4])
      [] c[1] = "IsNull" -> Cell(row, c[2]) = Null
      [] c[1] = "IsNotNull" -> Cell(row, c[2]) # Null
      [] c[1] = "InList" ->
            Cell(row, c[2]) # Null /\ ((Cell(row, c[2]) \in Range(c[3])) # c[4])

Holds(row, f) == \E i \in DOMAIN f : \A j \in DOMAIN f[i] : HoldsCondition(row, f[i][j])

\* row_matches_filter, of an optional filter
Matches(row, filter) == filter = None \/ Holds(row, filter[1])

PreparedOption(columns, filter) ==
    IF filter = None THEN {None} ELSE {Some(f) : f \in Prepared(columns, filter[1])}

\* collect_index_candidates: the equalities, below AND and not below OR
Equalities(term) == At(term, {k \in DOMAIN term : term[k][1] = "Compare" /\ term[k][3] = "="})

Candidates_UnderOr(f) == FlattenSeq([i \in DOMAIN f |-> Equalities(f[i])])

Candidates(f) == IF Len(f) = 1 THEN Equalities(f[1]) ELSE <<>>

\* find_best_index_candidate: the positions in the table of the rows that are
\* fetched, the first of the shortest lists an index has for a candidate, or
\* the whole table
Fetched(t, filter) ==
    LET candidates == IF filter = None THEN <<>> ELSE Candidates(filter[1])
        usable == {k \in DOMAIN candidates : [table |-> t, column |-> candidates[k][2]] \in Range(indexes)}
        found(k) == {i \in DOMAIN tables[t] : Cell(tables[t][i], candidates[k][2]) = candidates[k][4]}
        size(k) == Cardinality(found(k))
        best == CHOOSE k \in usable :
                    \A other \in usable : size(k) < size(other) \/ (size(k) = size(other) /\ k <= other)
    IN IF usable = {} THEN DOMAIN tables[t] ELSE found(best)

---------------------------------------------------------------------------------
(* Joins *)

\* The columns of a joined table, renamed `<table>_<column>` where the name is
\* taken; `original` is the name in its own table.
Merged(columns, t) ==
    FoldLeft(LAMBDA done, d :
                Append(done, [name |-> IF d.name \in ColumnNames(done) THEN t \o d.name ELSE d.name,
                              type |-> d.type, original |-> d.name]),
             columns, Schemas[t])

\* A row with the cells of a joined row put into it, one after the other
JoinedRow_UnderOriginal(left, right, added) ==
    FoldLeft(LAMBDA row, d : (d.original :> Cell(right, d.original)) @@ row, left, added)

JoinedRow(left, right, added) ==
    FoldLeft(LAMBDA row, d : (d.name :> Cell(right, d.original)) @@ row, left, added)

\* One JOIN of what was joined so far: rows, columns, and the name each
\* column of each table has among them. Keys are equal also when both are NULL.
Join(so_far, j) ==
    LET columns == Merged(so_far.columns, j.table)
        added == SubSeq(columns, Len(so_far.columns) + 1, Len(columns))
        names == [key \in {<<j.table, added[k].original>> : k \in DOMAIN added} |->
                    (CHOOSE d \in Range(added) : d.original = key[2]).name] @@ so_far.names
        left == IF j.left_table # None /\ <<j.left_table[1], j.left_column>> \in DOMAIN names
                THEN names[<<j.left_table[1], j.left_column>>]
                ELSE j.left_column
        partners(row) == At(tables[j.table], {i \in DOMAIN tables[j.table] :
                                Cell(tables[j.table][i], j.right_column) = Cell(row, left)})
    IN [rows |-> FlattenSeq([k \in DOMAIN so_far.rows |->
                    LET row == so_far.rows[k] IN
                    [i \in DOMAIN partners(row) |-> JoinedRow(row, partners(row)[i], added)]]),
        columns |-> columns, names |-> names]

Joined(s) ==
    FoldLeft(Join,
             [rows |-> tables[s.table],
              columns |-> [k \in DOMAIN Schemas[s.table] |->
                            [name |-> Schemas[s.table][k].name, type |-> Schemas[s.table][k].type,
                             original |-> Schemas[s.table][k].name]],
              names |-> [key \in {<<s.table, c>> : c \in ColumnNames(Schemas[s.table])} |-> key[2]]],
             s.joins)

---------------------------------------------------------------------------------
(* Aggregates and groups *)

\* compute_aggregate
NotNull(rows, c) == SelectSeq([k \in DOMAIN rows |-> Cell(rows[k], c)], LAMBDA v : v # Null)

Total(values) == Wrapped(FoldLeft(LAMBDA n, v : n + v[2], 0, values))

\* The division of Rust, which truncates
Quotient(a, b) == IF a < 0 THEN -((-a) \div b) ELSE a \div b

\* The first least of them, or the first greatest
Extreme(values, least) ==
    IF values = <<>> THEN Null
    ELSE FoldLeft(LAMBDA best, v :
                    IF (IF least THEN Less(v, best) ELSE Less(best, v)) THEN v ELSE best,
                  values[1], Tail(values))

AverageOf(values) ==
    IF values = <<>> THEN Null ELSE IntValue(Quotient(Total(values), Len(values)))

ComputeAggregate(func, target, rows) ==
    LET values == NotNull(rows, target)
        numbers == \A k \in DOMAIN values : values[k][1] = "Int"
    IN CASE target = Star -> IF func = "COUNT" THEN {IntValue(Len(rows))} ELSE {}
         [] target # Star /\ func = "COUNT" -> {IntValue(Len(values))}
         [] target # Star /\ func = "SUM" -> IF numbers THEN {IntValue(Total(values))} ELSE {}
         [] target # Star /\ func = "AVG" -> IF numbers THEN {AverageOf(values)} ELSE {}
         [] target # Star /\ func = "MIN" -> {Extreme(values, TRUE)}
         [] target # Star /\ func = "MAX" -> {Extreme(values, FALSE)}

Aggregated(expressions) == \E k \in DOMAIN expressions : expressions[k][1] = "Aggregate"

Label(e) == IF e[1] = "Aggregate" THEN AggregateLabel(e[2], e[3]) ELSE e[2]

Labels(expressions) == [k \in DOMAIN expressions |-> Label(expressions[k])]

\* The value of each expression for some rows, of which the first is the sample
Evaluated(expressions, rows) ==
    Collect([k \in DOMAIN expressions |->
                IF expressions[k][1] = "Aggregate"
                THEN ComputeAggregate(expressions[k][2], expressions[k][3], rows)
                ELSE {IF rows = <<>> THEN Null ELSE Cell(rows[1], expressions[k][2])}])

\* Every column an aggregate or a plain expression names is there; * is not.
Resolvable(expressions, columns) ==
    \A k \in DOMAIN expressions :
        LET e == expressions[k] IN
        /\ e[1] # "AllColumns"
        /\ e[1] = "Column" => e[2] \in ColumnNames(columns)
        /\ e[1] = "Aggregate" => e[3] \in ColumnNames(columns) \cup {Star}

\* execute_aggregate: one row for the whole table
AggregateAnswers(s, columns, rows) ==
    IF ~Resolvable(s.columns, columns) THEN {}
    ELSE {[columns |-> Labels(s.columns), rows |-> <<row>>] : row \in Evaluated(s.columns, rows)}

\* collect_having_aggregates: the labels HAVING compares
HavingLabels(f) ==
    {c[2] : c \in {x \in ConditionsOf(f) : x[1] = "Compare" /\ IsAggregateLabel(x[2])}}

\* The rows of each group, the groups in the order of their first rows
GroupsOf_ByFirstColumn(rows, group_by) ==
    LET key(row) == Cell(row, group_by[1])
        first == Ascending({k \in DOMAIN rows : \A i \in 1..(k - 1) : key(rows[i]) # key(rows[k])})
    IN [g \in DOMAIN first |-> At(rows, {k \in DOMAIN rows : key(rows[k]) = key(rows[first[g]])})]

GroupsOf(rows, group_by) ==
    LET key(row) == [k \in DOMAIN group_by |-> Cell(row, group_by[k])]
        first == Ascending({k \in DOMAIN rows : \A i \in 1..(k - 1) : key(rows[i]) # key(rows[k])})
    IN [g \in DOMAIN first |-> At(rows, {k \in DOMAIN rows : key(rows[k]) = key(rows[first[g]])})]

\* The row of a group in the answer, or none: HAVING sees the first row of the
\* group and the aggregates it compares.
GroupRow(s, group) ==
    LET labels == SetToSeq(IF s.having = None THEN {} ELSE HavingLabels(s.having[1]))
        results == Collect([k \in DOMAIN labels |->
                        ComputeAggregate(LabelFunc(labels[k]), LabelTarget(labels[k]), group)])
    IN UNION {LET synthetic == [label \in Range(labels) |-> values[Position(labels, label)]] @@ group[1]
              IN IF Matches(synthetic, s.having)
                 THEN {<<row>> : row \in Evaluated(s.columns, group)}
                 ELSE {<<>>} : values \in results}

\* compute_group_by
GroupAnswers(s, columns, rows) ==
    LET plain == {e[2] : e \in {x \in Range(s.columns) : x[1] = "Column"}}
        groups == GroupsOf(rows, s.group_by)
    IN IF ~(Range(s.group_by) \subseteq ColumnNames(columns) /\ plain \subseteq Range(s.group_by))
          \/ ~Resolvable(s.columns, columns) THEN {}
       ELSE {[columns |-> Labels(s.columns), rows |-> FlattenSeq(parts)] :
                parts \in Collect([g \in DOMAIN groups |-> GroupRow(s, groups[g])])}

---------------------------------------------------------------------------------
(* SELECT *)

\* resolve_select_columns
ProjectedColumns(s, columns) ==
    FlattenSeq([k \in DOMAIN s.columns |->
        IF s.columns[k][1] = "AllColumns" THEN [i \in DOMAIN columns |-> columns[i].name]
        ELSE <<s.columns[k][2]>>])

PlainAnswers(s, columns, rows) ==
    LET projected == ProjectedColumns(s, columns) IN
    IF s.having # None \/ ~(Range(projected) \subseteq ColumnNames(columns)) THEN {}
    ELSE {[columns |-> projected,
           rows |-> [k \in DOMAIN rows |-> [i \in DOMAIN projected |-> Cell(rows[k], projected[i])]]]}

\* ORDER BY: the first column of the answer that tells two rows apart. Columns
\* that are not in the answer are skipped.
Precedes(order_by, columns, a, b) ==
    \E k \in DOMAIN order_by :
        LET at(i) == Position(columns, order_by[i][1])
            ahead(i, x, y) == at(i) # 0 /\ (IF order_by[i][2] THEN Less(x[at(i)], y[at(i)])
                                            ELSE Less(y[at(i)], x[at(i)]))
        IN ahead(k, a, b) /\ \A i \in 1..(k - 1) : ~ahead(i, a, b) /\ ~ahead(i, b, a)

\* sort_by is stable where the order is one; where NULL makes it none (it
\* equals everything), the library leaves the order of the rows open, and above
\* 20 rows it may panic, which is left out. `ahead` are the pairs of which the
\* first precedes the second.
OrderedBy(ahead, rows) ==
    LET before(a, b) == <<a, b>> \in ahead
        same(a, b) == ~before(a, b) /\ ~before(b, a)
        consistent == \A a, b, c \in Range(rows) :
                        /\ before(a, b) /\ before(b, c) => before(a, c)
                        /\ same(a, b) /\ same(b, c) => same(a, c)
        stable(i, j) == before(rows[i], rows[j]) \/ (same(rows[i], rows[j]) /\ i < j)
        permuted(order) == [k \in DOMAIN rows |-> rows[order[k]]]
    IN IF consistent THEN {permuted([k \in DOMAIN rows |->
                                        CHOOSE i \in DOMAIN rows : Cardinality({j \in DOMAIN rows : stable(j, i)}) = k - 1])}
       ELSE {permuted(order) : order \in Bijection(DOMAIN rows, DOMAIN rows)}

\* ORDER BY, if there is one
Ordered(order_by, columns, rows) ==
    IF order_by = <<>> THEN {rows}
    ELSE OrderedBy({p \in Range(rows) \X Range(rows) : Precedes(order_by, columns, p[1], p[2])}, rows)

\* skip(offset).take(limit)
Page_TakenFirst(rows, limit, offset) ==
    LET taken == IF limit = None THEN rows ELSE SubSeq(rows, 1, IF limit[1] < Len(rows) THEN limit[1] ELSE Len(rows))
    IN IF offset = None THEN taken ELSE SubSeq(taken, offset[1] + 1, Len(taken))

Page(rows, limit, offset) ==
    LET start == IF offset = None THEN 0 ELSE offset[1]
        end == IF limit = None \/ start + limit[1] > Len(rows) THEN Len(rows) ELSE start + limit[1]
    IN SubSeq(rows, start + 1, end)

\* All choices of one element of each set
OneOfEach(sets) ==
    {choice \in [DOMAIN sets -> UNION Range(sets)] : \A k \in DOMAIN sets : choice[k] \in sets[k]}

\* resolve_subqueries: a subquery becomes the list of its values. Here and
\* below `answers` is what the subqueries answer.
ResolvedCondition(c, answers) ==
    IF c[1] # "InSubquery" THEN {c}
    ELSE {InList(c[2], [k \in DOMAIN a.rows |-> a.rows[k][1]], c[4]) :
            a \in {x \in answers[c[3]] : Len(x.columns) = 1}}

Resolved_Alone(f, answers) ==
    IF Len(f) = 1 /\ Len(f[1]) = 1
    THEN {<<<<c>>>> : c \in ResolvedCondition(f[1][1], answers)} ELSE {f}

Resolved(f, answers) ==
    OneOfEach([i \in DOMAIN f |-> OneOfEach([j \in DOMAIN f[i] |-> ResolvedCondition(f[i][j], answers)])])

ResolvedOption(filter, answers) ==
    IF filter = None THEN {None} ELSE {Some(f) : f \in Resolved(filter[1], answers)}

\* Rows and columns the clauses after WHERE work on, and the positions of the
\* rows that are fetched
Sources(s, answers) ==
    UNION {IF s.joins # <<>>
           THEN {[filter |-> filter, rows |-> joined.rows, fetched |-> DOMAIN joined.rows,
                  columns |-> joined.columns] : joined \in {Joined(s)}}
           ELSE {[filter |-> filter, rows |-> tables[s.table], fetched |-> Fetched(s.table, f),
                  columns |-> Schemas[s.table]] : f \in PreparedOption(Schemas[s.table], filter)}
           : filter \in ResolvedOption(s.filter, answers)}

\* The rows of a source that meet the filter
Filtered(source, f) == At(source.rows, {k \in source.fetched : Matches(source.rows[k], f)})

\* What becomes of them
RowAnswers(s, columns, rows) ==
    CASE s.group_by # <<>> -> GroupAnswers(s, columns, rows)
      [] s.group_by = <<>> /\ Aggregated(s.columns) -> AggregateAnswers(s, columns, rows)
      [] OTHER -> PlainAnswers(s, columns, rows)

\* The pages of an answer in order
PagesOf(s, a) ==
    {[columns |-> a.columns, rows |-> Page(ordered, s.limit, s.offset)] :
        ordered \in Ordered(s.order_by, a.columns, a.rows)}

\* select
SelectAnswers(s, answers) ==
    IF ~({s.table} \cup {j.table : j \in Range(s.joins)} \subseteq Tables) THEN {}
    ELSE UNION {UNION {UNION {PagesOf(s, a) : a \in RowAnswers(s, source.columns, Filtered(source, f))}
                       : f \in PreparedOption(source.columns, source.filter)}
                : source \in Sources(s, answers)}

\* What each subquery of a filter answers; answers[n] is for those n deep in it.
AnswersInside(filter) ==
    LET answers[n \in Nat] == [q \in Nested(filter)[n] |-> SelectAnswers(q, answers[n + 1])] IN answers[0]

Answers(s) == SelectAnswers(s, AnswersInside(s.filter))

---------------------------------------------------------------------------------
(* INSERT, UPDATE, DELETE: the rows of the table afterwards *)

\* A row with values put into its columns one after the other: the last counts.
Assigned(row, columns, values) ==
    [c \in DOMAIN row |->
        IF c \in Range(columns) THEN values[LastPosition(columns, c)] ELSE row[c]]

\* insert: with a list of columns the others get NULL
InsertedRows(s) ==
    LET schema == Schemas[s.table]
        columns == IF s.columns = None THEN [k \in DOMAIN schema |-> schema[k].name] ELSE s.columns[1]
        nulls == [c \in ColumnNames(schema) |-> Null]
    IN IF Len(columns) # Len(s.values) \/ ~(Range(columns) \subseteq ColumnNames(schema)) THEN {}
       ELSE {Append(tables[s.table], Assigned(nulls, columns, values)) :
                values \in Collect([k \in DOMAIN columns |-> Coerced(TypeOf(schema, columns[k]), s.values[k])])}

\* prepare_assignments: the values that are assigned
PreparedAssignments_Uncoerced(s, columns) ==
    IF ~IsInjective(columns) \/ ~(Range(columns) \subseteq ColumnNames(Schemas[s.table])) THEN {}
    ELSE {[k \in DOMAIN columns |-> s.assignments[k][2]]}

PreparedAssignments(s, columns) ==
    IF ~IsInjective(columns) \/ ~(Range(columns) \subseteq ColumnNames(Schemas[s.table])) THEN {}
    ELSE Collect([k \in DOMAIN columns |-> Coerced(TypeOf(Schemas[s.table], columns[k]), s.assignments[k][2])])

\* resolve_subqueries, then prepare_filter
Filters(s) == UNION {PreparedOption(Schemas[s.table], f) : f \in ResolvedOption(s.filter, AnswersInside(s.filter))}

\* update: rewrite_rows with the assignments put into every matching row
UpdatedRows(s) ==
    LET columns == [k \in DOMAIN s.assignments |-> s.assignments[k][1]] IN
    {[k \in DOMAIN tables[s.table] |->
        IF Matches(tables[s.table][k], f) THEN Assigned(tables[s.table][k], columns, values)
        ELSE tables[s.table][k]] :
        f \in Filters(s), values \in PreparedAssignments(s, columns)}

\* delete
KeptRows(s) ==
    {At(tables[s.table], {k \in DOMAIN tables[s.table] : ~Matches(tables[s.table][k], f)}) : f \in Filters(s)}

NewRows(s) ==
    IF s.table \notin Tables THEN {}
    ELSE CASE s.kind = "Insert" -> InsertedRows(s)
           [] s.kind = "Update" -> UpdatedRows(s)
           [] s.kind = "Delete" -> KeptRows(s)

\* create_index and drop_index of storage.rs
NewIndexes(s) ==
    IF s.kind = "CreateIndex"
    THEN {(s.name :> [table |-> s.table, column |-> s.column]) @@ indexes :
            t \in {u \in Tables : u = s.table /\ s.column \in ColumnNames(Schemas[u])
                                  /\ s.name \notin DOMAIN indexes
                                  /\ [table |-> s.table, column |-> s.column] \notin Range(indexes)}}
    ELSE {[i \in DOMAIN indexes \ {s.name} |-> indexes[i]] : x \in {s.name} \cap DOMAIN indexes}

---------------------------------------------------------------------------------
(* A text is asked and answered, then the next one may be *)

NoAnswer == [result |-> "none", columns |-> <<>>, rows |-> <<>>]
Message == [result |-> "message", columns |-> <<>>, rows |-> <<>>]
Error == [result |-> "error", columns |-> <<>>, rows |-> <<>>]

QueryInit ==
    /\ tables = [t \in Tables |-> <<>>] /\ indexes = [i \in {} |-> {}]
    /\ asked = {} /\ read = {} /\ answer = NoAnswer

SelectRows(s) ==
    /\ s.kind = "Select"
    /\ \E a \in Answers(s) : answer' = [result |-> "rows", columns |-> a.columns, rows |-> a.rows]
    /\ UNCHANGED <<tables, indexes>>

WriteRows(s) ==
    /\ s.kind \in {"Insert", "Update", "Delete"}
    /\ s.kind = "Insert" => SumFunction([t \in Tables |-> Len(tables[t])]) < MaxRows
    /\ \E rows \in NewRows(s) : tables' = [tables EXCEPT ![s.table] = rows]
    /\ answer' = Message
    /\ UNCHANGED indexes

ChangeIndexes(s) ==
    /\ s.kind \in {"CreateIndex", "DropIndex"}
    /\ indexes' \in NewIndexes(s)
    /\ answer' = Message
    /\ UNCHANGED tables

\* An error of any of them
Refuse(s) ==
    /\ {} = CASE s.kind = "Select" -> Answers(s)
              [] s.kind \in {"Insert", "Update", "Delete"} -> NewRows(s)
              [] s.kind \in {"CreateIndex", "DropIndex"} -> NewIndexes(s)
              [] OTHER -> {s}
    /\ answer' = Error
    /\ UNCHANGED <<tables, indexes>>

\* The statements of Engine.tla are read here and not executed.
OnlyRead(s) ==
    /\ s.kind \notin {"Select", "Insert", "Update", "Delete", "CreateIndex", "DropIndex"}
    /\ answer' = Message
    /\ UNCHANGED <<tables, indexes>>

\* The texts that are asked, and the statement each stands for, if any
Texts ==
    (UNION {{[text |-> t, meant |-> {s}] : t \in Spellings(s)} : s \in Script})
    \cup {[text |-> t, meant |-> {}] : t \in Broken}

\* A text is a sequence of tokens.
ASSUME TextsAssumption == \A q \in Texts : q.text \in Seq(Range(q.text))

Understood == [q \in Texts |-> ParseStatement(q.text)]

Execute(s) == SelectRows(s) \/ WriteRows(s) \/ ChangeIndexes(s) \/ Refuse(s) \/ OnlyRead(s)

\* A parse error
Reject ==
    /\ read' = {}
    /\ answer' = Error
    /\ UNCHANGED <<tables, indexes>>

\* execute_script, of one statement
Ask(q) ==
    /\ answer = NoAnswer
    /\ asked' = q.meant
    /\ read' = Understood[q]
    /\ Reject \/ \E s \in read' : Execute(s)

Prompt ==
    /\ answer # NoAnswer
    /\ asked' = {} /\ read' = {} /\ answer' = NoAnswer
    /\ UNCHANGED <<tables, indexes>>

QueryNext ==
    \/ \E q \in Texts : Ask(q)
    \/ Prompt

QuerySpec == QueryInit /\ [][QueryNext]_query_vars
=================================================================================
