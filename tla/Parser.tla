---------------------------------- MODULE Parser ----------------------------------
(***************************************************************************)
(* parser.rs on tokens. The code works on strings and looks for keywords   *)
(* outside quotes and parentheses; here a text is the sequence of its      *)
(* words, symbols and literals with a space between any two, so quoting,   *)
(* case and the number of spaces are left out. Keywords are the words in   *)
(* capitals. A number is not used as a name.                               *)
(*                                                                         *)
(* A Result is a set: {x} for Ok(x), {} for Err. Error texts, and the      *)
(* order in which errors are found, are left out.                          *)
(***************************************************************************)
EXTENDS Syntax

Word(name) == <<"word", name>>
Keyword(k) == Word(<<k>>)
Symbol(s) == <<"symbol", s>>
Literal(v) == <<"literal", v>>

Open == Symbol("(")
Close == Symbol(")")
Comma == Symbol(",")
Dot == Symbol(".")
Asterisk == Symbol("*")

---------------------------------------------------------------------------------
(* Searching and splitting *)

Upto(ts, i) == SubSeq(ts, 1, i - 1)
From(ts, i) == SubSeq(ts, i, Len(ts))
Between(ts, i, j) == SubSeq(ts, i + 1, j - 1)

\* The positions outside every parenthesis
TopLevel_Any(ts) == DOMAIN ts

TopLevel(ts) ==
    LET depth[i \in 0..Len(ts)] ==
            IF i = 0 THEN 0
            ELSE depth[i - 1] + (CASE ts[i] = Open -> 1 [] ts[i] = Close -> -1 [] OTHER -> 0)
    IN {i \in DOMAIN ts : depth[i] = 0}

\* strip_prefix_ci
Starts(ts, phrase) ==
    Len(phrase) <= Len(ts) /\ \A k \in DOMAIN phrase : ts[k] = Keyword(phrase[k])

\* find_keyword_outside_quotes: the position, or 0
Find(ts, phrase) ==
    LET found == {i \in TopLevel(ts) : Starts(From(ts, i), phrase)}
    IN IF found = {} THEN 0 ELSE CHOOSE i \in found : \A j \in found : i <= j

\* find_first_keyword: the position, or the end
FindFirst(ts, phrases) ==
    LET found == {Find(ts, phrase) : phrase \in phrases} \ {0}
    IN IF found = {} THEN Len(ts) + 1 ELSE CHOOSE i \in found : \A j \in found : i <= j

\* str::find and find_char_outside_quotes: the first of a symbol at any depth
FindSymbol(ts, s) == Position(ts, s)

Pieces(ts, cuts) ==
    LET ends == Ascending(cuts \cup {0, Len(ts) + 1})
    IN [k \in 1..(Len(ends) - 1) |-> Between(ts, ends[k], ends[k + 1])]

\* split_comma_aware: empty pieces are dropped
SplitCommas(ts) ==
    LET pieces == Pieces(ts, {i \in TopLevel(ts) : ts[i] = Comma})
    IN At(pieces, {k \in DOMAIN pieces : pieces[k] # <<>>})

\* split_by_keyword_aware: they are an error
SplitBy(ts, keyword) ==
    LET pieces == Pieces(ts, {i \in TopLevel(ts) : ts[i] = Keyword(keyword)})
    IN IF <<>> \in Range(pieces) THEN {} ELSE {pieces}

\* collect::<Result<Vec<_>>>
Collect(results) ==
    IF {} \in Range(results) THEN {} ELSE {[k \in DOMAIN results |-> CHOOSE x \in results[k] : TRUE]}

NonEmpty(results) == {r \in results : r # <<>>}

---------------------------------------------------------------------------------
(* Names and literals *)

\* normalize_identifier
Identifier(ts) == IF Len(ts) = 1 /\ ts[1][1] = "word" THEN {ts[1][2]} ELSE {}

Identifiers(ts) ==
    LET pieces == SplitCommas(ts) IN Collect([k \in DOMAIN pieces |-> Identifier(pieces[k])])

\* parse_literal
ParseLiteral(ts) ==
    CASE Len(ts) # 1 -> {}
      [] ts[1] = Keyword("NULL") -> {Null}
      [] ts[1] \in {Keyword("TRUE"), Keyword("FALSE")} -> {BoolValue(ts[1] = Keyword("TRUE"))}
      [] OTHER -> IF ts[1][1] = "literal" THEN {ts[1][2]} ELSE {}

Literals(ts) ==
    LET pieces == SplitCommas(ts) IN Collect([k \in DOMAIN pieces |-> ParseLiteral(pieces[k])])

\* parse::<usize>
ParseCount(ts) == {v[2] : v \in {x \in ParseLiteral(ts) : x[1] = "Int" /\ x[2] >= 0}}

Enclosed(ts) == Len(ts) > 1 /\ ts[1] = Open /\ ts[Len(ts)] = Close

Inside(ts) == Between(ts, 1, Len(ts))

---------------------------------------------------------------------------------
(* Filters *)

\* find_comparison_operator
Operators == [op \in {"=", "!=", ">", ">=", "<", "<=", "<>"} |-> IF op = "<>" THEN "!=" ELSE op]

FindOperator(ts) ==
    SelectInSeq(ts, LAMBDA token : token[1] = "symbol" /\ token[2] \in DOMAIN Operators)

\* A call of an aggregate: try_parse_aggregate
ParseAggregate(ts) ==
    IF Len(ts) > 3 /\ ts[2] = Open /\ ts[Len(ts)] = Close
       /\ ts[1] \in {Keyword(func) : func \in AggregateFuncs}
    THEN LET inner == Between(ts, 2, Len(ts)) IN
         {Aggregate(ts[1][2][1], target) :
            target \in IF inner = <<Asterisk>> THEN {Star} ELSE Identifier(inner)}
    ELSE {}

\* parse_having_comparison
ParseHavingComparison(ts) ==
    LET i == FindOperator(ts)
        left == Upto(ts, i)
    IN IF i = 0 THEN {}
       ELSE {Compare(column, Operators[ts[i][2]], value) :
                column \in {AggregateLabel(a[2], a[3]) : a \in ParseAggregate(left)}
                           \cup Identifier(left),
                value \in ParseLiteral(From(ts, i + 1))}

\* The phrases of parse_comparison_expr, in the order they are looked for
Phrases == <<<<"IS", "NOT", "NULL">>, <<"IS", "NULL">>, <<"NOT", "IN">>, <<"IN">>, <<"LIKE">>>>

\* IN (...): a subquery or a list. Here and below `selects` is what
\* parse_select makes of the texts inside this one.
ParseIn(left, right, negated, selects) ==
    IF ~Enclosed(right) THEN {}
    ELSE IF Starts(Inside(right), <<"SELECT">>)
    THEN {InSubquery(c, subquery, negated) : c \in Identifier(left), subquery \in selects[Inside(right)]}
    ELSE {InList(c, values, negated) : c \in Identifier(left), values \in NonEmpty(Literals(Inside(right)))}

\* What the texts left and right of a phrase mean
ParsePhrase(phrase, left, right, selects) ==
    CASE phrase = <<"LIKE">> ->
            {Compare(c, "LIKE", value) : c \in Identifier(left), value \in ParseLiteral(right)}
      [] phrase \in {<<"NOT", "IN">>, <<"IN">>} -> ParseIn(left, right, Len(phrase) = 2, selects)
      [] OTHER -> IF right # <<>> THEN {}
                  ELSE {IF Len(phrase) = 3 THEN IsNotNull(c) ELSE IsNull(c) : c \in Identifier(left)}

ParseOperation(ts, i) ==
    IF i = 0 THEN {}
    ELSE {Compare(c, Operators[ts[i][2]], value) :
            c \in Identifier(Upto(ts, i)), value \in ParseLiteral(From(ts, i + 1))}

\* parse_comparison_expr
ParseComparison(ts, selects) ==
    LET found == SelectSeq(Phrases, LAMBDA phrase : Find(ts, phrase) # 0)
    IN IF found = <<>> THEN ParseOperation(ts, FindOperator(ts))
       ELSE ParsePhrase(found[1], Upto(ts, Find(ts, found[1])),
                        From(ts, Find(ts, found[1]) + Len(found[1])), selects)

\* parse_and_expr
ParseAnd(ts, having, selects) ==
    UNION {Collect([k \in DOMAIN pieces |->
                IF having THEN ParseHavingComparison(pieces[k]) ELSE ParseComparison(pieces[k], selects)]) :
            pieces \in SplitBy(ts, "AND")}

\* parse_filter and parse_or_expr: AND binds tighter
ParseFilter(ts, having, selects) ==
    UNION {Collect([k \in DOMAIN pieces |-> ParseAnd(pieces[k], having, selects)]) :
            pieces \in SplitBy(ts, "OR")}

---------------------------------------------------------------------------------
(* SELECT *)

\* The clauses after FROM in the order they are looked for, and the keywords
\* that end each: HAVING does not end WHERE
Paging == {<<"ORDER", "BY">>, <<"LIMIT">>, <<"OFFSET">>}

ClauseOrder == <<
    [phrase |-> <<"WHERE">>, ends |-> {<<"GROUP", "BY">>} \cup Paging],
    [phrase |-> <<"GROUP", "BY">>, ends |-> {<<"HAVING">>} \cup Paging],
    [phrase |-> <<"HAVING">>, ends |-> Paging],
    [phrase |-> <<"ORDER", "BY">>, ends |-> {<<"LIMIT">>, <<"OFFSET">>}],
    [phrase |-> <<"LIMIT">>, ends |-> {<<"OFFSET">>}],
    [phrase |-> <<"OFFSET">>, ends |-> {}]>>

\* What each of them holds, if it is there. What stands before a keyword is
\* skipped.
LookFor(done, clause) ==
    LET i == Find(done.rest, clause.phrase)
        after == From(done.rest, i + Len(clause.phrase))
        end == FindFirst(after, clause.ends)
    IN IF i = 0 THEN [done EXCEPT !.found = Append(@, None)]
       ELSE [rest |-> From(after, end), found |-> Append(done.found, Some(Upto(after, end)))]

Clauses(ts) == FoldLeft(LookFor, [rest |-> ts, found |-> <<>>], ClauseOrder).found

OptionalFilter(body, having, selects) ==
    IF body = None THEN {None} ELSE {Some(f) : f \in ParseFilter(body[1], having, selects)}

OptionalCount(body) == IF body = None THEN {None} ELSE {Some(n) : n \in ParseCount(body[1])}

\* parse_qualified_column
ParseQualified(ts) ==
    LET dot == FindSymbol(ts, Dot) IN
    IF dot = 0 THEN {<<None, c>> : c \in Identifier(ts)}
    ELSE {<<Some(t), c>> : t \in Identifier(Upto(ts, dot)), c \in Identifier(From(ts, dot + 1))}

\* One JOIN: the side of ON that names the joined table is the right one.
ParseJoin(ts) ==
    LET on == Find(ts, <<"ON">>)
        condition == From(ts, on + 1)
        eq == FindSymbol(condition, Symbol("="))
    IN IF on = 0 \/ eq = 0 THEN {}
       ELSE {IF a[1] = Some(t) THEN JoinClause(t, b[1], b[2], a[2]) ELSE JoinClause(t, a[1], a[2], b[2]) :
                t \in Identifier(Upto(ts, on)),
                a \in ParseQualified(Upto(condition, eq)),
                b \in ParseQualified(From(condition, eq + 1))}

\* The JOINs of a text from its i-th token on; `joins` are those further on.
JoinsFrom(ts, i, joins) ==
    LET body == From(ts, i)
        end == FindFirst(body, {<<"INNER">>, <<"JOIN">>})
        next == From(body, end)
        skipped == IF Starts(next, <<"INNER">>) THEN 1 ELSE 0
    IN {<<join>> \o more :
            join \in ParseJoin(Upto(body, end)),
            more \in IF next = <<>> THEN {<<>>}
                      ELSE IF Starts(From(next, 1 + skipped), <<"JOIN">>) THEN joins[i + end + skipped]
                      ELSE {}}

ParseJoins(ts) == LET joins[i \in 1..(Len(ts) + 1)] == JoinsFrom(ts, i, joins) IN joins[1]

ParseSource(ts) ==
    LET join == Find(ts, <<"JOIN">>)
        base == Upto(ts, join)
    IN IF join = 0 THEN {[table |-> t, joins |-> <<>>] : t \in Identifier(ts)}
       ELSE {[table |-> t, joins |-> joins] :
                t \in Identifier(Upto(base, FindFirst(base, {<<"INNER">>}))),
                joins \in ParseJoins(From(ts, join + 1))}

\* parse_select_columns
ParseSelectColumn(ts) ==
    IF ts = <<Asterisk>> THEN {AllColumns}
    ELSE ParseAggregate(ts) \cup {Column(name) : name \in Identifier(ts)}

ParseSelectColumns(ts) ==
    LET pieces == SplitCommas(ts)
    IN NonEmpty(Collect([k \in DOMAIN pieces |-> ParseSelectColumn(pieces[k])]))

\* parse_order_by
ParseOrder(ts) ==
    CASE Len(ts) = 1 -> {<<name, TRUE>> : name \in Identifier(ts)}
      [] Len(ts) = 2 /\ ts[2] \in {Keyword("ASC"), Keyword("DESC")} ->
            {<<name, ts[2] = Keyword("ASC")>> : name \in Identifier(<<ts[1]>>)}
      [] OTHER -> {}

ParseOrderBy(ts) ==
    LET pieces == SplitCommas(ts) IN Collect([k \in DOMAIN pieces |-> ParseOrder(pieces[k])])

\* The text between SELECT and FROM, that of the tables, and the clauses
ParseSelectParts(list, source, clauses, selects) ==
    {[kind |-> "Select", table |-> from.table, columns |-> columns, joins |-> from.joins,
      filter |-> f, group_by |-> g, having |-> h, order_by |-> o, limit |-> l, offset |-> n] :
        from \in ParseSource(source), columns \in ParseSelectColumns(list),
        f \in OptionalFilter(clauses[1], FALSE, selects),
        g \in IF clauses[2] = None THEN {<<>>} ELSE NonEmpty(Identifiers(clauses[2][1])),
        h \in IF clauses[2] = None /\ clauses[3] # None THEN {} ELSE OptionalFilter(clauses[3], TRUE, selects),
        o \in IF clauses[4] = None THEN {<<>>} ELSE ParseOrderBy(clauses[4][1]),
        l \in OptionalCount(clauses[5]), n \in OptionalCount(clauses[6])}

\* parse_select
ParseSelectWith(ts, selects) ==
    LET from == Find(ts, <<"FROM">>)
        after == From(ts, from + 1)
        end == FindFirst(after, ClauseOrder[1].ends \cup {<<"WHERE">>})
    IN IF from = 0 THEN {}
       ELSE ParseSelectParts(Between(ts, 1, from), Upto(after, end), Clauses(From(after, end)), selects)

Selects(ts) == LET selects[body \in Seq(Range(ts))] == ParseSelectWith(body, selects) IN selects

ParseSelect(ts) == ParseSelectWith(ts, Selects(ts))

---------------------------------------------------------------------------------
(* Rows *)

\* An optional WHERE at the end of UPDATE and DELETE
ParseWhere(ts, i) ==
    IF i = 0 THEN {None} ELSE {Some(f) : f \in ParseFilter(From(ts, i + 1), FALSE, Selects(ts))}

UptoFound(ts, i) == IF i = 0 THEN ts ELSE Upto(ts, i)

\* parse_insert
ParseInsert(ts) ==
    LET values == Find(ts, <<"VALUES">>)
        target == Between(ts, 2, values)
        open == FindSymbol(target, Open)
        close == LastPosition(target, Close)
        list == From(ts, values + 1)
    IN IF values = 0 \/ ~Enclosed(list) THEN {}
       ELSE {Insert(t, columns, literals) :
                t \in Identifier(UptoFound(target, open)),
                columns \in IF open = 0 THEN {None}
                            ELSE {Some(names) : names \in NonEmpty(Identifiers(Between(target, open, close)))},
                literals \in Literals(Inside(list))}

\* parse_update
ParseAssignment(ts) ==
    LET eq == FindSymbol(ts, Symbol("=")) IN
    IF eq = 0 THEN {}
    ELSE {<<c, value>> : c \in Identifier(Upto(ts, eq)), value \in ParseLiteral(From(ts, eq + 1))}

ParseUpdate(ts) ==
    LET set == Find(ts, <<"SET">>)
        after == From(ts, set + 1)
        where == Find(after, <<"WHERE">>)
        pieces == SplitCommas(UptoFound(after, where))
    IN IF set = 0 THEN {}
       ELSE {Update(t, assignments, f) :
                t \in Identifier(Between(ts, 1, set)),
                assignments \in NonEmpty(Collect([k \in DOMAIN pieces |-> ParseAssignment(pieces[k])])),
                f \in ParseWhere(after, where)}

\* parse_delete
ParseDelete(ts) ==
    LET where == Find(ts, <<"WHERE">>)
    IN {Delete(t, f) : t \in Identifier(From(UptoFound(ts, where), 3)), f \in ParseWhere(ts, where)}

---------------------------------------------------------------------------------
(* Schema *)

\* DataType::parse
TypeNames ==
    [n \in {"INT", "INTEGER", "TEXT", "STRING", "BOOL", "BOOLEAN"} |->
        CASE n \in {"INT", "INTEGER"} -> "Int"
          [] n \in {"TEXT", "STRING"} -> "Text"
          [] n \in {"BOOL", "BOOLEAN"} -> "Bool"]

ParseType(token) == {TypeNames[n] : n \in {x \in DOMAIN TypeNames : token = Keyword(x)}}

\* parse_references_spec: up to the first closing parenthesis
ParseReference(ts) ==
    LET open == FindSymbol(ts, Open)
        close == FindSymbol(ts, Close)
    IN IF open = 0 \/ close < open THEN {}
       ELSE {<<"References", t, c>> :
                t \in Identifier(Upto(ts, open)), c \in Identifier(Between(ts, open, close))}

\* The constraints of a column; ADD COLUMN takes no PRIMARY KEY.
ConstraintsFrom(ts, i, created, constraints) ==
    LET body == From(ts, i)
        references == Starts(body, <<"REFERENCES">>)
        length == CASE created /\ Starts(body, <<"PRIMARY", "KEY">>) -> 2
                    [] Starts(body, <<"NOT", "NULL">>) -> 2
                    [] Starts(body, <<"UNIQUE">>) -> 1
                    [] references -> FindSymbol(body, Close)
                    [] OTHER -> 0
        first == IF references THEN ParseReference(Between(body, 1, length + 1))
                 ELSE {CASE body[1] = Keyword("PRIMARY") -> <<"PrimaryKey">>
                         [] body[1] = Keyword("NOT") -> <<"NotNull">>
                         [] OTHER -> <<"Unique">>}
    IN CASE body = <<>> -> {<<>>}
         [] body # <<>> /\ length = 0 -> {}
         [] OTHER -> {<<c>> \o rest : c \in first, rest \in constraints[i + length]}

ParseConstraints(ts, created) ==
    LET constraints[i \in 1..(Len(ts) + 1)] == ConstraintsFrom(ts, i, created, constraints) IN constraints[1]

ParseColumnDef(ts, created) ==
    IF Len(ts) < 2 THEN {}
    ELSE {ColumnDef(name, type, constraints) :
            name \in Identifier(<<ts[1]>>), type \in ParseType(ts[2]),
            constraints \in ParseConstraints(From(ts, 3), created)}

\* parse_create_table
ParseCreateTable(ts) ==
    LET open == FindSymbol(ts, Open)
        pieces == SplitCommas(Between(ts, open, Len(ts)))
    IN IF open = 0 \/ ts[Len(ts)] # Close THEN {}
       ELSE {CreateTable(t, columns) :
                t \in Identifier(Between(ts, 2, open)),
                columns \in NonEmpty(Collect([k \in DOMAIN pieces |-> ParseColumnDef(pieces[k], TRUE)]))}

\* parse_create_index
ParseCreateIndex(ts) ==
    LET on == Find(ts, <<"ON">>)
        part == From(ts, on + 1)
        open == FindSymbol(part, Open)
    IN IF on = 0 \/ open = 0 \/ ts[Len(ts)] # Close THEN {}
       ELSE {CreateIndex(i, t, c) :
                i \in Identifier(Between(ts, 2, on)), t \in Identifier(Upto(part, open)),
                c \in Identifier(Between(part, open, Len(part)))}

\* parse_drop_table and parse_drop_index
ParseDropTable(ts) == {DropTable(t) : t \in Identifier(From(ts, 3))}

ParseDropIndex(ts) == {DropIndex(i) : i \in Identifier(From(ts, 3))}

\* parse_alter_table
ParseAddColumn(ts, i) ==
    LET definition == From(ts, i + 2)
        default == Find(definition, <<"DEFAULT">>)
    IN {AddColumn(t, column, value) :
            t \in Identifier(Upto(ts, i)),
            column \in ParseColumnDef(UptoFound(definition, default), FALSE),
            value \in IF default = 0 THEN {None}
                      ELSE {Some(v) : v \in ParseLiteral(From(definition, default + 1))}}

ParseRenameColumn(ts, i) ==
    LET names == From(ts, i + 2)
        to == Find(names, <<"TO">>)
    IN IF to = 0 THEN {}
       ELSE {RenameColumn(t, old, new) :
                t \in Identifier(Upto(ts, i)),
                old \in Identifier(Upto(names, to)), new \in Identifier(From(names, to + 1))}

ParseAlterTable(ts) ==
    LET rest == From(ts, 3)
        add == Find(rest, <<"ADD", "COLUMN">>)
        drop == Find(rest, <<"DROP", "COLUMN">>)
        rename == Find(rest, <<"RENAME", "COLUMN">>)
    IN CASE add # 0 -> ParseAddColumn(rest, add)
         [] add = 0 /\ drop # 0 ->
                {DropColumn(t, c) : t \in Identifier(Upto(rest, drop)), c \in Identifier(From(rest, drop + 2))}
         [] add = 0 /\ drop = 0 /\ rename # 0 -> ParseRenameColumn(rest, rename)
         [] OTHER -> {}

---------------------------------------------------------------------------------

\* parse_statement
ParseStatement(ts) ==
    CASE Starts(ts, <<"SHOW", "TABLES">>) /\ Len(ts) = 2 -> {Plain("ShowTables")}
      [] Starts(ts, <<"SHOW", "MIGRATIONS">>) /\ Len(ts) = 2 -> {Plain("ShowMigrations")}
      [] Starts(ts, <<"BEGIN">>) /\ Len(ts) = 1 -> {Plain("Begin")}
      [] Starts(ts, <<"COMMIT">>) /\ Len(ts) = 1 -> {Plain("Commit")}
      [] Starts(ts, <<"ROLLBACK">>) /\ Len(ts) = 1 -> {Plain("Rollback")}
      [] Starts(ts, <<"DESCRIBE">>) -> {Describe(t) : t \in Identifier(Tail(ts))}
      [] Starts(ts, <<"CREATE", "TABLE">>) -> ParseCreateTable(ts)
      [] Starts(ts, <<"CREATE", "INDEX">>) -> ParseCreateIndex(ts)
      [] Starts(ts, <<"DROP", "TABLE">>) -> ParseDropTable(ts)
      [] Starts(ts, <<"DROP", "INDEX">>) -> ParseDropIndex(ts)
      [] Starts(ts, <<"INSERT", "INTO">>) -> ParseInsert(ts)
      [] Starts(ts, <<"UPDATE">>) -> ParseUpdate(ts)
      [] Starts(ts, <<"ALTER", "TABLE">>) -> ParseAlterTable(ts)
      [] Starts(ts, <<"SELECT">>) -> ParseSelect(ts)
      [] Starts(ts, <<"DELETE", "FROM">>) -> ParseDelete(ts)
      [] OTHER -> {}
=================================================================================
